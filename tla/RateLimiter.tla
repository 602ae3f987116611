---------------------------- MODULE RateLimiter ----------------------------
(***************************************************************************)
(* The login rate limiter (app/core/rate_limit.py) in front of             *)
(* POST /auth/login, keyed by app/api/deps.py:client_ip, one instance in   *)
(* each Gunicorn worker process (app/main.py lifespan,                     *)
(* scripts/gunicorn.conf.py).                                              *)
(*                                                                         *)
(* check_and_record reads the clock and takes an asyncio.Lock whose        *)
(* critical section never awaits: within a worker it runs as one step.     *)
(***************************************************************************)
EXTENDS Integers, Sequences, FiniteSets

CONSTANTS
    Worker,       \* Gunicorn worker processes
    Address,      \* network addresses
    TrustedProxy, \* those in TRUSTED_PROXIES
    NoHeader,     \* the request has no X-Forwarded-For
    MaxAttempts,  \* login_rate_limit_max_attempts
    Window,       \* login_rate_limit_window_minutes, in ticks of the clock
    MaxTime,      \* bound on the clock
    MaxRestarts   \* bound: how often each worker is replaced

VARIABLES
    now,          \* time.monotonic(), shared by the processes of the host
    hits,         \* the deque of each bucket of each worker, oldest first
    generation,   \* how often each worker has been replaced
    passed        \* history: the attempts let through to the password check

vars == <<now, hits, generation, passed>>

Time == 0..MaxTime

Attempt == [worker : Worker, generation : 0..MaxRestarts, peer : Address,
            key : Address, at : Time]

ASSUME RateLimiterAssumption ==
    /\ MaxAttempts \in Nat \ {0}
    /\ Window \in Nat \ {0}
    /\ MaxTime \in Nat
    /\ MaxRestarts \in Nat
    /\ TrustedProxy \subseteq Address
    /\ NoHeader \notin Address

-----------------------------------------------------------------------------
\* Mutant of client_ip: the header is believed, whoever sends it.
client_ip_from_header(peer, forwarded) ==
    IF forwarded # NoHeader THEN forwarded ELSE peer

\* X-Forwarded-For counts only when the immediate peer is a trusted proxy.
client_ip(peer, forwarded) ==
    IF peer \in TrustedProxy /\ forwarded # NoHeader THEN forwarded ELSE peer

\* Hits leave from the left of the deque while they are older than the window.
Prune(q) ==
    LET expired == {i \in 1..Len(q) : \A j \in 1..i : q[j] < now - Window}
    IN  SubSeq(q, Cardinality(expired) + 1, Len(q))

\* Mutant of Admit: the deque holds the time a hit expires.
AdmitByExpiry(w, peer, key) ==
    LET q == Prune(hits[w][key])
    IN  /\ Len(q) < MaxAttempts
        /\ hits' = [hits EXCEPT ![w][key] = Append(q, now + Window)]
        /\ passed' = Append(passed, [worker |-> w, peer |-> peer, key |-> key,
                                     generation |-> generation[w], at |-> now])

Admit(w, peer, key) ==
    LET q == Prune(hits[w][key])
    IN  /\ Len(q) < MaxAttempts
        /\ hits' = [hits EXCEPT ![w][key] = Append(q, now)]
        /\ passed' = Append(passed, [worker |-> w, peer |-> peer, key |-> key,
                                     generation |-> generation[w], at |-> now])

\* Mutant of Reject: the attempt is recorded before it is judged.
RejectRecorded(w, key) ==
    LET q == Prune(hits[w][key])
    IN  /\ Len(q) = MaxAttempts
        /\ hits' = [hits EXCEPT ![w][key] = Append(q, now)]
        /\ UNCHANGED passed

\* A refused attempt (429) leaves no hit behind.
Reject(w, key) ==
    LET q == Prune(hits[w][key])
    IN  /\ Len(q) >= MaxAttempts
        /\ hits' = [hits EXCEPT ![w][key] = q]
        /\ UNCHANGED passed

\* check_and_record, as login calls it before it looks at the credentials.
\* Nothing in the login path calls reset.
check_and_record(w, peer, forwarded) ==
    /\ LET key == client_ip(peer, forwarded)
       IN  Admit(w, peer, key) \/ Reject(w, key)
    /\ UNCHANGED <<now, generation>>

\* A worker reaches max_requests, times out or crashes; the lifespan of its
\* successor builds a limiter with no buckets.
Restart(w) ==
    /\ generation[w] < MaxRestarts
    /\ generation' = [generation EXCEPT ![w] = @ + 1]
    /\ hits' = [hits EXCEPT ![w] = [a \in Address |-> <<>>]]
    /\ UNCHANGED <<now, passed>>

Tick ==
    /\ now < MaxTime
    /\ now' = now + 1
    /\ UNCHANGED <<hits, generation, passed>>

Init ==
    /\ now = 0
    /\ hits = [w \in Worker |-> [a \in Address |-> <<>>]]
    /\ generation = [w \in Worker |-> 0]
    /\ passed = <<>>

Next ==
    \/ \E w \in Worker : Restart(w)
    \/ \E w \in Worker, peer \in Address, forwarded \in Address \cup {NoHeader} :
           check_and_record(w, peer, forwarded)
    \/ Tick

Spec == Init /\ [][Next]_vars

-----------------------------------------------------------------------------
\* Every variable keeps its type, and no bucket outgrows the limit.
TypeOK ==
    /\ now \in Time
    /\ hits \in [Worker -> [Address -> Seq(Time)]]
    /\ \A w \in Worker, k \in Address : Len(hits[w][k]) <= MaxAttempts
    /\ generation \in [Worker -> 0..MaxRestarts]
    /\ passed \in Seq(Attempt)

Count(Test(_)) == Cardinality({i \in 1..Len(passed) : Test(passed[i])})

\* The attempt lies in the window that ends at t, both ends included.
Within(a, t) == a.at \in (t - Window)..t

\* One worker process never lets more than MaxAttempts attempts under one key
\* through in any span of the window's length, wherever the span begins: the
\* deque is a sliding window, not a fixed one, and its edge is inclusive.  Nor
\* more than that from one caller who is not behind a trusted proxy, whatever
\* X-Forwarded-For it sends (client_ip's docstring).
WindowIsBounded ==
    \A w \in Worker, g \in 0..MaxRestarts, x \in Address, t \in Time :
        LET Here(a) == a.worker = w /\ a.generation = g /\ Within(a, t)
            UnderKey(a) == Here(a) /\ a.key = x
            FromPeer(a) == Here(a) /\ a.peer = x
        IN  /\ Count(UnderKey) <= MaxAttempts
            /\ x \notin TrustedProxy => Count(FromPeer) <= MaxAttempts

\* What a worker would decide now rests on exactly the attempts it has let
\* through within the window that ends now: nobody is refused on account of
\* an attempt that is too old or was itself refused, and none is forgotten.
BucketIsTheWindow ==
    \A w \in Worker, k \in Address :
        LET Here(a) == /\ a.worker = w /\ a.generation = generation[w]
                       /\ a.key = k /\ Within(a, now)
        IN  Len(Prune(hits[w][k])) = Count(Here)
=============================================================================
