------------------------------- MODULE Drafts -------------------------------
(***************************************************************************)
(* Per-user drafts (app/services/draft_service.py over                     *)
(* app/repositories/draft_repo.py): create under a cap, read, replace,     *)
(* hard-delete, and the autosave shortcut that replaces the caller's most  *)
(* recent draft or creates a first one.                                    *)
(*                                                                         *)
(* Requests are as in Reports: one READ COMMITTED transaction each, which  *)
(* commits after the response is sent.  updated_at is PostgreSQL's now(),  *)
(* the time the transaction began, which is when the caller was            *)
(* authenticated and not when the row is written.                          *)
(***************************************************************************)
EXTENDS Integers, FiniteSets

CONSTANTS
    Draft,        \* draft identifiers (uuid4)
    User,         \* authenticated accounts
    Request,      \* request slots of the server
    Payload,      \* bodies a client may send
    TooLarge,     \* those over DEFAULT_MAX_BYTES when encoded
    EmptyPayload, \* {}
    MaxPerUser,   \* DEFAULT_MAX_PER_USER
    MaxTime,      \* bound: how many requests begin in a run
    NoDraft,      \* there is no committed row with this id
    NoTx,         \* the request slot is free
    Omitted       \* the body leaves the draft's content out

VARIABLES
    drafts,       \* committed rows
    used,         \* ids handed out so far
    now,          \* the database clock
    pc,           \* next step of each request
    tx,           \* what each request carries
    overlapped    \* history: users who have had two requests in flight at once

vars == <<drafts, used, now, pc, tx, overlapped>>

Body == Payload \cup {Omitted}

\* No oversized payload is ever stored, whichever endpoint wrote it.
Row == [user_id : User, payload : Payload \ TooLarge,
        updated_at : 0..MaxTime]

\* old is the draft the request loaded, began the time its transaction did.
Tx == [op : {"create", "update", "delete", "upsert"}, actor : User,
       draft : Draft \cup {NoDraft}, body : Body,
       old : Row \cup {NoDraft}, began : 0..MaxTime]

Step == {"idle", "load", "count", "flush", "reply", "commit"}

\* The bound of CapHolds counts the request slots: a server has finitely many.
ASSUME DraftsAssumption ==
    /\ IsFiniteSet(Request)
    /\ MaxPerUser \in Nat \ {0}
    /\ MaxTime \in Nat
    /\ TooLarge \subseteq Payload /\ EmptyPayload \in Payload \ TooLarge
    /\ NoDraft \notin Row /\ NoDraft \notin Draft
    /\ NoTx \notin Tx
    /\ Omitted \notin Payload

-----------------------------------------------------------------------------
Exists(d) == drafts[d] # NoDraft
Of(u) == {d \in Draft : Exists(d) /\ drafts[d].user_id = u}

InFlight(p) == pc[p] # "idle"

\* An UPDATE is sent only if the content differs from what was loaded.
Changes(t) == t.body # Omitted /\ t.body # t.old.payload

\* The request inserts a row, rather than changing the one it loaded.
Inserts(t) == t.op = "create" \/ (t.op = "upsert" /\ t.old = NoDraft)

\* The transaction holds the lock of a committed row.
HoldsLock(q, d) ==
    /\ pc[q] \in {"reply", "commit"} /\ tx[q].draft = d /\ ~Inserts(tx[q])
    /\ tx[q].op = "delete" \/ Changes(tx[q])

Unlocked(d) == \A q \in Request : ~HoldsLock(q, d)

Goto(p, next) == pc' = [pc EXCEPT ![p] = next]

End(p) ==
    /\ pc' = [pc EXCEPT ![p] = "idle"]
    /\ tx' = [tx EXCEPT ![p] = NoTx]

-----------------------------------------------------------------------------
\* get_current_user runs the first statement: the transaction has begun.
Begin(p, u, op, d, b) ==
    /\ pc[p] = "idle" /\ now < MaxTime
    /\ tx' = [tx EXCEPT ![p] = [op |-> op, actor |-> u, draft |-> d,
                                body |-> b, old |-> NoDraft, began |-> now]]
    /\ now' = now + 1
    /\ overlapped' = overlapped \cup
           {v \in {u} : \E q \in Request : InFlight(q) /\ tx[q].actor = v}
    /\ Goto(p, IF op = "create" THEN "count" ELSE "load")
    /\ UNCHANGED <<drafts, used>>

\* create refuses an oversized body before it counts (413).
CreateDraft(p, u, b) == b \in Payload \ TooLarge /\ Begin(p, u, "create", NoDraft, b)
UpdateDraft(p, u, d, b) == Begin(p, u, "update", d, b)
DeleteDraft(p, u, d) == Begin(p, u, "delete", d, Omitted)
UpsertDraft(p, u, b) == Begin(p, u, "upsert", NoDraft, b)

\* Mutant of Load: any draft that exists will do.
LoadAnyones(p) ==
    /\ pc[p] = "load" /\ tx[p].op \in {"update", "delete"}
    /\ tx[p].draft # NoDraft
    /\ IF Exists(tx[p].draft) /\ tx[p].body \notin TooLarge
       THEN /\ tx' = [tx EXCEPT ![p].old = drafts[tx[p].draft]]
            /\ Goto(p, "flush")
       ELSE End(p)
    /\ UNCHANGED <<drafts, used, now, overlapped>>

\* DraftService.get, then the size check of update: another user's draft is
\* as missing as one that does not exist (404, 413: the request ends).
Load(p) ==
    /\ pc[p] = "load" /\ tx[p].op \in {"update", "delete"}
    /\ IF tx[p].draft \in Of(tx[p].actor) /\ tx[p].body \notin TooLarge
       THEN /\ tx' = [tx EXCEPT ![p].old = drafts[tx[p].draft]]
            /\ Goto(p, "flush")
       ELSE End(p)
    /\ UNCHANGED <<drafts, used, now, overlapped>>

\* upsert_active: list_for_user(limit=1) orders by updated_at, newest first.
\* Without a row it turns into a create, with {} for an omitted payload.
MostRecent(u) ==
    {d \in Of(u) : \A e \in Of(u) : drafts[e].updated_at <= drafts[d].updated_at}

\* Mutants of LoadMostRecent: no size check, and a new draft as long as the
\* cap leaves room for one.
LoadUnchecked(p) ==
    /\ pc[p] = "load" /\ tx[p].op = "upsert"
    /\ \/ Of(tx[p].actor) = {} /\ Goto(p, "count")
          /\ tx' = [tx EXCEPT ![p].body =
                        IF @ = Omitted THEN EmptyPayload ELSE @]
       \/ /\ \E d \in MostRecent(tx[p].actor) :
                tx' = [tx EXCEPT ![p].draft = d, ![p].old = drafts[d]]
          /\ Goto(p, "flush")
    /\ UNCHANGED <<drafts, used, now, overlapped>>

LoadBelowCap(p) ==
    /\ pc[p] = "load" /\ tx[p].op = "upsert"
    /\ Cardinality(Of(tx[p].actor)) < MaxPerUser /\ Goto(p, "count")
    /\ UNCHANGED <<drafts, used, now, tx, overlapped>>

LoadMostRecent(p) ==
    /\ pc[p] = "load" /\ tx[p].op = "upsert"
    /\ \/ tx[p].body \in TooLarge /\ End(p)
       \/ /\ tx[p].body \notin TooLarge /\ Of(tx[p].actor) = {}
          /\ tx' = [tx EXCEPT ![p].body =
                        IF @ = Omitted THEN EmptyPayload ELSE @]
          /\ Goto(p, "count")
       \/ /\ tx[p].body \notin TooLarge
          /\ \E d \in MostRecent(tx[p].actor) :
                tx' = [tx EXCEPT ![p].draft = d, ![p].old = drafts[d]]
          /\ Goto(p, "flush")
    /\ UNCHANGED <<drafts, used, now, overlapped>>

\* Mutant of CountAndInsert: a cap that is off by one.
InsertOneMore(p) ==
    /\ pc[p] = "count" /\ Cardinality(Of(tx[p].actor)) <= MaxPerUser
    /\ \E d \in Draft \ used :
        /\ tx' = [tx EXCEPT ![p].draft = d]
        /\ used' = used \cup {d}
    /\ Goto(p, "reply")
    /\ UNCHANGED <<drafts, now, overlapped>>

\* The count sees committed rows only.  At the cap the request ends (409),
\* below it the row is inserted, under a new id, for nobody else to see yet.
CountAndInsert(p) ==
    /\ pc[p] = "count"
    /\ \/ /\ Cardinality(Of(tx[p].actor)) >= MaxPerUser
          /\ End(p)
          /\ UNCHANGED used
       \/ /\ Cardinality(Of(tx[p].actor)) < MaxPerUser
          /\ \E d \in Draft \ used :
                /\ tx' = [tx EXCEPT ![p].draft = d]
                /\ used' = used \cup {d}
          /\ Goto(p, "reply")
    /\ UNCHANGED <<drafts, now, overlapped>>

\* The UPDATE or DELETE waits for the row's lock.  If the row is gone by
\* then, the ORM raises on an UPDATE or on the refresh that follows (500)
\* but accepts a DELETE of nothing.
Flush(p) ==
    /\ pc[p] = "flush"
    /\ tx[p].op = "delete" \/ Changes(tx[p]) => Unlocked(tx[p].draft)
    /\ IF tx[p].op = "delete" \/ Exists(tx[p].draft)
       THEN Goto(p, "reply") /\ UNCHANGED tx
       ELSE End(p)
    /\ UNCHANGED <<drafts, used, now, overlapped>>

Reply(p) ==
    /\ pc[p] = "reply"
    /\ Goto(p, "commit")
    /\ UNCHANGED <<drafts, used, now, tx, overlapped>>

CommitInsert(p) ==
    /\ pc[p] = "commit" /\ Inserts(tx[p])
    /\ drafts' = [drafts EXCEPT ![tx[p].draft] =
                      [user_id |-> tx[p].actor, payload |-> tx[p].body,
                       updated_at |-> tx[p].began]]
    /\ End(p)
    /\ UNCHANGED <<used, now, overlapped>>

\* Mutant of CommitUpdate: the whole row is written, there or not.
CommitMerged(p) ==
    /\ pc[p] = "commit" /\ tx[p].op \in {"update", "upsert"} /\ ~Inserts(tx[p])
    /\ drafts' = [drafts EXCEPT ![tx[p].draft] =
                      [tx[p].old EXCEPT !.updated_at = tx[p].began]]
    /\ End(p)
    /\ UNCHANGED <<used, now, overlapped>>

\* onupdate=func.now() applies only when an UPDATE is sent.
CommitUpdate(p) ==
    /\ pc[p] = "commit" /\ tx[p].op \in {"update", "upsert"} /\ ~Inserts(tx[p])
    /\ drafts' = IF Changes(tx[p])
                 THEN [drafts EXCEPT ![tx[p].draft].payload = tx[p].body,
                                     ![tx[p].draft].updated_at = tx[p].began]
                 ELSE drafts
    /\ End(p)
    /\ UNCHANGED <<used, now, overlapped>>

CommitDelete(p) ==
    /\ pc[p] = "commit" /\ tx[p].op = "delete"
    /\ drafts' = [drafts EXCEPT ![tx[p].draft] = NoDraft]
    /\ End(p)
    /\ UNCHANGED <<used, now, overlapped>>

\* An exception, a lost worker or a failed commit rolls the request back.
Abort(p) ==
    /\ InFlight(p)
    /\ End(p)
    /\ UNCHANGED <<drafts, used, now, overlapped>>

\* GET of one draft or of the list: reads committed rows and ends.
ReadDrafts(p) == pc[p] = "idle" /\ UNCHANGED vars

-----------------------------------------------------------------------------
Init ==
    /\ drafts = [d \in Draft |-> NoDraft]
    /\ used = {}
    /\ now = 0
    /\ pc = [p \in Request |-> "idle"]
    /\ tx = [p \in Request |-> NoTx]
    /\ overlapped = {}

Start(p) ==
    \/ \E u \in User, b \in Body :
        \/ CreateDraft(p, u, b)
        \/ UpsertDraft(p, u, b)
        \/ \E d \in used : UpdateDraft(p, u, d, b)
    \/ \E u \in User, d \in used : DeleteDraft(p, u, d)
    \/ ReadDrafts(p)

Proceed(p) ==
    \/ Load(p) \/ LoadMostRecent(p) \/ CountAndInsert(p) \/ Reply(p)
    \/ CommitInsert(p) \/ CommitUpdate(p) \/ CommitDelete(p)

Next == \E p \in Request : Start(p) \/ Proceed(p) \/ Flush(p) \/ Abort(p)

Spec == Init /\ [][Next]_vars

-----------------------------------------------------------------------------
(***************************************************************************)
(* What holds however requests interleave.                                 *)
(***************************************************************************)

\* Every variable keeps its type.
TypeOK ==
    /\ drafts \in [Draft -> Row \cup {NoDraft}]
    /\ used \subseteq Draft
    /\ now \in 0..MaxTime
    /\ pc \in [Request -> Step]
    /\ tx \in [Request -> Tx \cup {NoTx}]
    /\ overlapped \subseteq User

\* Drafts are strictly per user: a committed row is created, replaced or
\* removed only by a request of its owner, and never changes owner.
OwnerOnly ==
    [][\A d \in Draft : drafts'[d] # drafts[d] =>
        \A r \in {drafts[d], drafts'[d]} \ {NoDraft} :
            \E p \in Request : InFlight(p) /\ pc'[p] = "idle"
                               /\ tx[p].draft = d /\ tx[p].actor = r.user_id]_vars

\* Deletion is final: a save that loaded the draft before it was deleted does
\* not bring it back.
GoneStaysGone ==
    [][\A d \in used :
        ~Exists(d) /\ drafts'[d] # NoDraft =>
            \E p \in Request : pc[p] = "commit" /\ Inserts(tx[p])
                               /\ tx[p].draft = d]_vars

-----------------------------------------------------------------------------
(***************************************************************************)
(* What holds for a user whose requests have never overlapped, from the    *)
(* first statement of one to its commit or rollback, whoever else is busy. *)
(***************************************************************************)

\* "10 drafts per user (creating an 11th raises Conflict)"
\* (draft_service.py), count-then-insert and autosave included.  Requests that
\* counted at the same time can overshoot the cap, but by no more than the
\* server runs beside the one that is entitled to its draft.
CapHolds ==
    \A u \in User :
        Cardinality(Of(u)) <= IF u \in overlapped
                              THEN MaxPerUser + Cardinality(Request) - 1
                              ELSE MaxPerUser

\* The autosave shortcut creates a draft only for a user who has none, so a
\* client that uses nothing else has one draft.
AutosaveCreatesOnlyTheFirst ==
    [][\A p \in Request :
        tx[p] # NoTx /\ tx[p].op = "upsert" /\ CommitInsert(p) =>
            tx[p].actor \in overlapped \/ Of(tx[p].actor) = {}]_vars
=============================================================================
