---------------------------- MODULE Connections ----------------------------
(***************************************************************************)
(* What requests wait for: a database connection of their worker's pool    *)
(* (app/db/session.py, app/api/deps.py), the row locks that other          *)
(* transactions hold, and a client that reads a PDF at its own pace        *)
(* (app/services/report_service.py, app/storage/filestore.py).             *)
(*                                                                         *)
(* A request checks a connection out when it is authenticated and keeps    *)
(* it, with every row lock it has taken, until the commit that follows its *)
(* response.  Its data is left out: it is the list of locks that its SQL   *)
(* statements take, foreign-key checks included, in the order of the code. *)
(* The convert-to-org command (app/cli.py) has a connection of its own.    *)
(***************************************************************************)
EXTENDS Integers, FiniteSets, SequencesExt

CONSTANTS
    Request,      \* the requests and commands of a run: each is made once
    Reader,       \* those that download a PDF
    Worker,       \* server processes
    PoolSize,     \* pool_size + max_overflow
    Account, Admin, Report, Organisation, Token, Draft,   \* committed rows
    OwnerOf,      \* Token -> user_id
    AuthorOf,     \* Report -> user_id
    OrgOf,        \* Account -> organisation_id
    None          \* the request has not arrived yet, or has ended

VARIABLES
    pc,           \* next step of each request
    kind,         \* what each request does: see Kind
    worker,       \* the process that serves each request
    held,         \* row locks it holds
    todo          \* row locks it has yet to take, in order

vars == <<pc, kind, worker, held, todo>>

\* "light": logging in; creating, editing or deleting a report or a draft;
\* reading anything but a PDF.
Kind == {"light", "download", "refresh", "account"}

Row == Account \cup Report \cup Organisation \cup Token \cup Draft

\* PostgreSQL's row locks: of a foreign-key check, of an UPDATE that leaves
\* the columns of unique indexes alone, and of a DELETE or an UPDATE of one
\* of those columns (users.email has such an index).
KeyShare(x) == [row |-> x, mode |-> "KEY SHARE"]
Update(x) == [row |-> x, mode |-> "NO KEY UPDATE"]
KeyUpdate(x) == [row |-> x, mode |-> "UPDATE"]

Lock == [row : Row, mode : {"KEY SHARE", "NO KEY UPDATE", "UPDATE"}]

Conflict(l, m) ==
    /\ l.row = m.row
    /\ {l.mode, m.mode} \notin {{"KEY SHARE"}, {"KEY SHARE", "NO KEY UPDATE"}}

ASSUME ConnectionsAssumption ==
    /\ PoolSize \in Nat \ {0}
    /\ IsFiniteSet(Token) /\ IsFiniteSet(Report)
    /\ Account \cap (Report \cup Organisation \cup Token \cup Draft) = {}
    /\ Report \cap (Organisation \cup Token \cup Draft) = {}
    /\ Reader \subseteq Request
    /\ Admin \subseteq Account
    /\ OwnerOf \in [Token -> Account]
    /\ AuthorOf \in [Report -> Account]
    /\ OrgOf \in [Account -> Organisation]
    /\ None \notin Worker \cup Kind

TokensOf(us) == {k \in Token : OwnerOf[k] \in us}

\* The orders in which one statement may lock several rows.
InSomeOrder(locks) == SetToSeqs(locks)

-----------------------------------------------------------------------------
Connected(w) ==
    {q \in Request : worker[q] = w /\ pc[q] \in {"begin", "run", "stream", "commit"}}

\* The lock that q holds is in the way of the next one that p needs.
Waits(p, q) ==
    /\ p # q /\ pc[p] = "run"
    /\ \E l \in held[q] : Conflict(l, Head(todo[p]))

WaitedForBy(S) == {q \in Request : \E p \in S : Waits(p, q)}

\* p waits for a request that waits for ... that waits for p: p is in every
\* set that has whom p waits for and whom its members wait for.
OnCycle(p) ==
    /\ pc[p] = "run"
    /\ \A S \in SUBSET Request :
           WaitedForBy(S \cup {p}) \subseteq S => p \in S

Goto(p, next) == pc' = [pc EXCEPT ![p] = next]

\* Mutant of End: the session is not closed.
EndUnclosed(p) == Goto(p, "ended") /\ UNCHANGED <<kind, worker, held, todo>>

\* Commit or rollback, then close: the locks and the connection are free.
End(p) ==
    /\ Goto(p, "ended")
    /\ held' = [held EXCEPT ![p] = {}]
    /\ todo' = [todo EXCEPT ![p] = <<>>]
    /\ kind' = [kind EXCEPT ![p] = None]
    /\ worker' = [worker EXCEPT ![p] = None]

\* A request reaches a worker.
Arrive(p) ==
    /\ pc[p] = "due"
    /\ \E w \in Worker : worker' = [worker EXCEPT ![p] = w]
    /\ Goto(p, "queue")
    /\ UNCHANGED <<kind, held, todo>>

\* Mutant of Dequeue: no limit to the wait (pool_timeout).
DequeueUntimed(p) ==
    /\ pc[p] = "queue" /\ Cardinality(Connected(worker[p])) < PoolSize
    /\ Goto(p, "begin")
    /\ UNCHANGED <<kind, worker, held, todo>>

\* get_current_user, or authenticate, runs the first query: it takes a
\* connection of the pool, or gives up after the pool's timeout (500).
Dequeue(p) ==
    /\ pc[p] = "queue"
    /\ \/ /\ Cardinality(Connected(worker[p])) < PoolSize
          /\ Goto(p, "begin")
          /\ UNCHANGED <<kind, worker, held, todo>>
       \/ /\ Cardinality(Connected(worker[p])) >= PoolSize
          /\ End(p)

\* The request takes the locks of one of the plans.
Begin(p, k, plans) ==
    /\ (p \in Reader <=> k = "download")
    /\ Goto(p, "run")
    /\ kind' = [kind EXCEPT ![p] = k]
    /\ \E plan \in plans : todo' = [todo EXCEPT ![p] = plan]
    /\ UNCHANGED <<worker, held>>

-----------------------------------------------------------------------------
(***************************************************************************)
(* The operations, by the locks they take.  Every audit entry names its    *)
(* actor (KEY SHARE).  No statement takes UPDATE on an organisation's row, *)
(* so the foreign-key checks of organisations wait for nobody and are left *)
(* out.  A lock on a row that is gone meanwhile would be granted at once;  *)
(* here it is waited for.                                                  *)
(***************************************************************************)

\* issue_tokens inserts a token of the account.
Login(p, u) == Begin(p, "light", {<<KeyShare(u)>>})

\* mark_used, then issue_tokens.
Refresh(p, k) ==
    Begin(p, "refresh", {<<Update(k), KeyShare(OwnerOf[k])>>})

\* The new report names its author.
CreateReport(p, a) == Begin(p, "light", {<<KeyShare(a)>>})

\* Mutant of EditReport: a column of a unique index is written.
EditReportKey(p, a, r) ==
    Begin(p, "light", {<<KeyShare(r), KeyShare(a), KeyUpdate(r)>>})

\* record_version, replace_content, audit: the snapshot names the report and
\* the editor, and is flushed before the report is updated.
EditReport(p, a, r) ==
    Begin(p, "light", {<<KeyShare(r), KeyShare(a), Update(r)>>})

DeleteReport(p, a, r) == Begin(p, "light", {<<Update(r), KeyShare(a)>>})

\* stream_pdf writes its audit entry before the first chunk.
Download(p, a) == Begin(p, "download", {<<KeyShare(a)>>})

\* A draft names its account and is written without an audit entry.  An
\* autosave is one of these two, a call that changes nothing only reads.
CreateDraft(p, a) == Begin(p, "light", {<<KeyShare(a)>>})
UpdateDraft(p, d) == Begin(p, "light", {<<Update(d)>>})

\* A DELETE, not a mark.
DeleteDraft(p, d) == Begin(p, "light", {<<KeyUpdate(d)>>})

\* Lists, GET by id, refusals: no row is locked.
ReadOnly(p) ==
    /\ p \notin Reader
    /\ Goto(p, "commit")
    /\ kind' = [kind EXCEPT ![p] = "light"]
    /\ UNCHANGED <<worker, held, todo>>

\* update_user and update_user_in_org, by administrator a or by owner a:
\* name, role or organisation; e-mail; either with a new password.
EditAccount(p, a, u) ==
    LET orders == InSomeOrder({KeyUpdate(k) : k \in TokensOf({u})})
    IN  Begin(p, "account",
            {<<Update(u), KeyShare(a)>>, <<KeyUpdate(u), KeyShare(a)>>}
            \cup {s \o <<Update(u), KeyShare(a)>> : s \in orders}
            \cup {s \o <<KeyUpdate(u), KeyShare(a)>> : s \in orders})

DeleteAccount(p, a, u) ==
    /\ u # a
    /\ Begin(p, "account",
           {<<Update(u)>> \o s \o <<KeyShare(a)>> :
                s \in InSomeOrder({KeyUpdate(k) : k \in TokensOf({u})})})

\* create_user, create_user_in_org and create_with_owner: the other rows are
\* the transaction's own.
CreateAccount(p, a) == Begin(p, "account", {<<KeyShare(a)>>})

RenameOrganisation(p, a, o) ==
    Begin(p, "account", {<<Update(o), KeyShare(a)>>})

DeleteOrganisation(p, a, o) ==
    Begin(p, "account",
        {<<Update(o)>> \o s \o <<KeyShare(a)>> :
             s \in InSomeOrder({Update(k) :
                       k \in TokensOf({u \in Account : OrgOf[u] = o})})})

\* convert-to-org: the organisation names the account as its owner, then the
\* account is promoted, then those of its reports are stamped that have no
\* organisation.  The command serves itself, on an engine of its own, and its
\* audit entry has no actor.
ConvertToOrg(p, u) ==
    /\ pc[p] = "due"
    /\ \E R \in SUBSET {r \in Report : AuthorOf[r] = u} :
           Begin(p, "account", {<<KeyShare(u), Update(u)>> \o s :
                                    s \in InSomeOrder({Update(r) : r \in R})})

-----------------------------------------------------------------------------
\* After the last statement the response is sent: a PDF as fast as its
\* client reads it, anything else at once.
Responding(k) == IF k = "download" THEN "stream" ELSE "commit"

\* Mutant of TakeLock: the row is noted, not the lock.
TakeRow(p) ==
    /\ pc[p] = "run"
    /\ held' = [held EXCEPT ![p] = @ \cup {Head(todo[p]).row}]
    /\ todo' = [todo EXCEPT ![p] = Tail(@)]
    /\ Goto(p, IF Len(todo[p]) = 1 THEN Responding(kind[p]) ELSE "run")
    /\ UNCHANGED <<kind, worker>>

\* The next statement takes its lock, once nobody is in its way.
TakeLock(p) ==
    /\ pc[p] = "run" /\ ~ \E q \in Request : Waits(p, q)
    /\ held' = [held EXCEPT ![p] = @ \cup {Head(todo[p])}]
    /\ todo' = [todo EXCEPT ![p] = Tail(@)]
    /\ Goto(p, IF Len(todo[p]) = 1 THEN Responding(kind[p]) ELSE "run")
    /\ UNCHANGED <<kind, worker>>

\* The client takes the last chunk.
ReadToEnd(p) ==
    /\ pc[p] = "stream"
    /\ Goto(p, "commit")
    /\ UNCHANGED <<kind, worker, held, todo>>

Commit(p) == pc[p] = "commit" /\ End(p)

\* PostgreSQL breaks a deadlock: one of its transactions fails (500).
BreakDeadlock(p) == OnCycle(p) /\ End(p)

\* An exception, or a client that is gone.
Abort(p) == pc[p] \in {"queue", "begin", "run", "stream"} /\ End(p)

\* gunicorn replaces a worker; what it was serving is lost.
Restart(w) ==
    LET lost == {p \in Request : worker[p] = w}
        Reset(f, value) == [p \in Request |-> IF p \in lost THEN value ELSE f[p]]
    IN  /\ lost # {}
        /\ pc' = Reset(pc, "ended")
        /\ kind' = Reset(kind, None)
        /\ worker' = Reset(worker, None)
        /\ held' = Reset(held, {})
        /\ todo' = Reset(todo, <<>>)

-----------------------------------------------------------------------------
Init ==
    /\ pc = [p \in Request |-> "due"]
    /\ kind = [p \in Request |-> None]
    /\ worker = [p \in Request |-> None]
    /\ held = [p \in Request |-> {}]
    /\ todo = [p \in Request |-> <<>>]

Handle(p) ==
    /\ pc[p] = "begin"
    /\ \/ \E a \in Account :
           \/ Login(p, a) \/ CreateReport(p, a) \/ Download(p, a)
           \/ CreateDraft(p, a)
           \/ \E r \in Report : EditReport(p, a, r) \/ DeleteReport(p, a, r)
       \/ \E d \in Draft : UpdateDraft(p, d) \/ DeleteDraft(p, d)
       \/ ReadOnly(p)
       \/ \E k \in Token : Refresh(p, k)
       \/ \E a \in Admin :
           \/ CreateAccount(p, a)
           \/ \E u \in Account : EditAccount(p, a, u) \/ DeleteAccount(p, a, u)
           \/ \E o \in Organisation :
                  RenameOrganisation(p, a, o) \/ DeleteOrganisation(p, a, o)

\* What the event loop, the pool and PostgreSQL see to.
Serve(p) ==
    Dequeue(p) \/ Handle(p) \/ TakeLock(p) \/ Commit(p) \/ BreakDeadlock(p)

\* All requests of the run have ended.
Quiet == (\A p \in Request : pc[p] = "ended") /\ UNCHANGED vars

Next ==
    \/ \E p \in Request : Arrive(p) \/ Serve(p) \/ ReadToEnd(p) \/ Abort(p)
    \/ \E p \in Request, u \in Account : ConvertToOrg(p, u)
    \/ \E w \in Worker : Restart(w)
    \/ Quiet

\* The server does not stop while it can serve one of the requests.  (As each
\* is made once, none can be passed over for ever.)
Spec == Init /\ [][Next]_vars /\ WF_vars(\E p \in Request : Serve(p))

-----------------------------------------------------------------------------
\* Every variable keeps its type.
TypeOK ==
    /\ pc \in [Request -> {"due", "queue", "begin", "run", "stream", "commit", "ended"}]
    /\ kind \in [Request -> Kind \cup {None}]
    /\ worker \in [Request -> Worker \cup {None}]
    /\ held \in [Request -> SUBSET Lock]
    /\ todo \in [Request -> Seq(Lock)]

\* Only operations on accounts and organisations ever wait in a circle: the
\* order and the strength of their locks keep logins, refreshes, reports,
\* drafts and downloads out of every deadlock over rows, so PostgreSQL never
\* fails one of them.
OnlyAccountsDeadlock ==
    \A p \in Request : OnCycle(p) => kind[p] = "account"

\* Whatever stalls, no request waits for a connection for ever; and logging
\* in, reading, or writing a report or a draft comes to an end even if no
\* client ever reads its download, be it with a 500 because the downloads
\* have taken the worker's connections.  (A refresh may not end: an account
\* edit that waits for the lock that the account's download holds may already
\* hold its tokens.)  As each request is made once, it is enough that none is
\* left over.
LightRequestsEnd ==
    []<>(\A p \in Request : pc[p] # "queue" /\ kind[p] # "light")

\* Every request comes to an end if every client reads what it asked for.
EveryRequestEnds ==
    []<>(\/ \A p \in Request : pc[p] \in {"due", "ended"}
         \/ \E p \in Request : pc[p] = "stream")
=============================================================================
