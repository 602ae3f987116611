---------------------------- MODULE DraftsProofs ----------------------------
(***************************************************************************)
(* Theorems about Drafts that hold for every set of drafts, users and      *)
(* bodies, any number of requests and every cap.                           *)
(***************************************************************************)
EXTENDS Drafts, FiniteSetTheorems, TLAPS

(***************************************************************************)
(* The inductive invariant.  What a commit may do to a row depends on what *)
(* its request has loaded or inserted since: TxOK says that for one        *)
(* request, PairOK for what the row locks and fresh ids keep apart.        *)
(***************************************************************************)

\* The request has sent its INSERT.
Inserting(p) == pc[p] \in {"reply", "commit"} /\ Inserts(tx[p])

\* The request has loaded a draft of its own actor, which nobody else's can
\* have become since.
RowLoaded(p) ==
    /\ tx[p].op \in {"update", "delete", "upsert"}
    /\ tx[p].draft \in used
    /\ tx[p].old \in Row
    /\ tx[p].body \notin TooLarge
    /\ Exists(tx[p].draft) => drafts[tx[p].draft].user_id = tx[p].actor

\* The request's new draft has an id that nobody has ever seen.
RowPending(p) ==
    /\ tx[p].draft \in used
    /\ ~Exists(tx[p].draft)
    /\ tx[p].body \in Payload \ TooLarge

TxOK(p) ==
    /\ pc[p] = "idle" <=> tx[p] = NoTx
    /\ pc[p] = "load" =>
        /\ tx[p].old = NoDraft
        /\ tx[p].op \in {"update", "delete", "upsert"}
        /\ tx[p].op = "upsert" => tx[p].draft = NoDraft
    /\ pc[p] = "count" =>
        /\ tx[p].old = NoDraft /\ tx[p].draft = NoDraft
        /\ tx[p].op \in {"create", "upsert"}
        /\ tx[p].body \in Payload \ TooLarge
    /\ pc[p] = "flush" => RowLoaded(p)
    /\ pc[p] \in {"reply", "commit"} =>
        IF Inserts(tx[p]) THEN RowPending(p)
        ELSE /\ RowLoaded(p)
             /\ Changes(tx[p]) /\ tx[p].op # "delete" => Exists(tx[p].draft)

\* Nobody else has got hold of a draft before it is committed, and one
\* request at a time has the lock of a row.
PairOK(p, q) ==
    /\ Inserting(p) =>
        pc[q] \in {"idle", "load"} \/ tx[q].draft # tx[p].draft
    /\ \A d \in Draft : HoldsLock(p, d) => ~HoldsLock(q, d)

IInv ==
    /\ TypeOK
    /\ \A d \in Draft : Exists(d) => d \in used
    /\ \A p \in Request : TxOK(p)
    /\ \A p \in Request : \A q \in Request \ {p} : PairOK(p, q)
-----------------------------------------------------------------------------
(***************************************************************************)
(* The kinds of step.                                                      *)
(***************************************************************************)

\* What a step of one request leaves alone.
Others(p) == \A q \in Request \ {p} : pc'[q] = pc[q] /\ tx'[q] = tx[q]

\* A step that touches no committed row keeps the invariant if the request
\* that takes it does.
LEMMA PrivateStep ==
    ASSUME IInv, NEW p \in Request, TypeOK', drafts' = drafts,
           used \subseteq used', Others(p), TxOK(p)',
           \A q \in Request \ {p} : PairOK(p, q)' /\ PairOK(q, p)'
    PROVE  IInv'
<1>1. ASSUME NEW q \in Request \ {p}
      PROVE  TxOK(q)'
    BY <1>1 DEF IInv, Others, TxOK, RowLoaded, RowPending, Exists
<1>2. ASSUME NEW q \in Request \ {p}, NEW z \in Request \ {p}, q # z
      PROVE  PairOK(q, z)'
    BY <1>2 DEF IInv, Others, PairOK, Inserting, HoldsLock
<1>3. \A d \in Draft : Exists(d)' => d \in used'
    BY DEF IInv, Exists
<1>4. QED
    BY <1>1, <1>2, <1>3 DEF IInv

\* So does the first step of a request, which holds nothing yet.
LEMMA BeginStep ==
    ASSUME IInv, NEW p \in Request, NEW u \in User, NEW b \in Body,
           NEW op \in {"create", "update", "delete", "upsert"},
           NEW d \in Draft \cup {NoDraft}, Begin(p, u, op, d, b),
           op = "create" => b \in Payload \ TooLarge /\ d = NoDraft,
           op = "upsert" => d = NoDraft
    PROVE  IInv'
<1> DEFINE t == [op |-> op, actor |-> u, draft |-> d, body |-> b,
                 old |-> NoDraft, began |-> now]
           first == IF op = "create" THEN "count" ELSE "load"
<1>1. TypeOK /\ pc[p] = "idle" /\ now \in Nat /\ now < MaxTime
    BY DraftsAssumption DEF IInv, TypeOK, Begin
<1>2. t \in Tx
    BY <1>1 DEF Tx, TypeOK
<1>3. pc'[p] = first /\ tx'[p] = t /\ Others(p)
    BY <1>1 DEF Begin, Goto, TypeOK, Others
<1>4. TypeOK'
  <2>1. pc' \in [Request -> Step]
      BY <1>1 DEF Begin, Goto, TypeOK, Step
  <2>2. tx' \in [Request -> Tx \cup {NoTx}]
      BY <1>1, <1>2 DEF Begin, TypeOK
  <2>3. now' \in 0..MaxTime
      BY <1>1, DraftsAssumption DEF Begin, TypeOK
  <2>4. QED
      BY <1>1, <2>1, <2>2, <2>3 DEF Begin, TypeOK
<1>5. TxOK(p)'
    BY <1>2, <1>3, DraftsAssumption DEF TxOK
<1>6. ASSUME NEW q \in Request \ {p}
      PROVE  PairOK(p, q)' /\ PairOK(q, p)'
  <2>1. Inserting(q) => tx[q].draft \in Draft
      BY DEF IInv, TypeOK, TxOK, RowPending, Inserting
  <2>2. Inserting(q)' => pc'[p] = "load" \/ tx'[q].draft # tx'[p].draft
      BY <1>3, <2>1, DraftsAssumption DEF Others, Inserting
  <2>3. QED
      BY <1>3, <2>2 DEF PairOK, Inserting, HoldsLock
<1>7. QED
    BY <1>3, <1>4, <1>5, <1>6, PrivateStep DEF Begin

\* A request that ends without a commit leaves no trace.
LEMMA EndStep ==
    ASSUME IInv, NEW p \in Request, End(p), UNCHANGED <<drafts, used, now, overlapped>>
    PROVE  IInv'
<1>1. TypeOK
    BY DEF IInv
<1>2. TypeOK'
    BY <1>1 DEF TypeOK, End, Step
<1>3. pc'[p] = "idle" /\ tx'[p] = NoTx /\ Others(p)
    BY <1>1 DEF End, TypeOK, Others
<1>4. QED
    BY <1>2, <1>3, PrivateStep DEF TxOK, PairOK, Inserting, HoldsLock

\* A request that loads a draft of its actor may go on to change it.
LEMMA RowLoadStep ==
    ASSUME IInv, NEW p \in Request, pc[p] = "load", NEW d \in Of(tx[p].actor),
           tx[p].body \notin TooLarge, Goto(p, "flush"),
           tx' = [tx EXCEPT ![p] = [tx[p] EXCEPT !.draft = d, !.old = drafts[d]]],
           UNCHANGED <<drafts, used, now, overlapped>>
    PROVE  IInv'
<1> DEFINE t == [tx[p] EXCEPT !.draft = d, !.old = drafts[d]]
<1>1. TypeOK /\ TxOK(p) /\ tx[p] \in Tx
    BY DEF IInv, TypeOK, TxOK
<1>2. d \in Draft /\ drafts[d] \in Row /\ drafts[d].user_id = tx[p].actor /\ d \in used
    BY <1>1 DEF Of, Exists, TypeOK, IInv
<1>3. t \in Tx
    BY <1>1, <1>2 DEF Tx
<1>4. /\ t.op = tx[p].op /\ t.actor = tx[p].actor /\ t.body = tx[p].body
      /\ t.draft = d /\ t.old = drafts[d]
    BY <1>1 DEF Tx
<1>5. pc'[p] = "flush" /\ tx'[p] = t /\ Others(p)
    BY <1>1 DEF Goto, TypeOK, Others
<1>6. TypeOK'
    BY <1>1, <1>3 DEF TypeOK, Goto, Step
<1>7. TxOK(p)'
  <2> HIDE DEF t
  <2>1. tx[p].op \in {"update", "delete", "upsert"}
      BY <1>1 DEF TxOK
  <2>2. RowLoaded(p)'
      BY <1>2, <1>4, <1>5, <2>1 DEF RowLoaded, Exists
  <2>3. QED
      BY <1>3, <1>5, <2>2, DraftsAssumption DEF TxOK
<1>8. ASSUME NEW q \in Request \ {p}
      PROVE  PairOK(p, q)' /\ PairOK(q, p)'
  <2>1. Inserting(q) => tx[q].draft # d
      BY <1>2, DraftsAssumption DEF IInv, TxOK, Inserting, RowPending, Exists
  <2>2. QED
      BY <1>4, <1>5, <2>1 DEF PairOK, Inserting, HoldsLock, Others
<1>9. QED
    BY <1>5, <1>6, <1>7, <1>8, PrivateStep

\* DraftService.get and the size check of update keep the invariant.
LEMMA LoadStep ==
    ASSUME IInv, NEW p \in Request, Load(p)
    PROVE  IInv'
<1>1. tx[p] \in Tx /\ tx \in [Request -> Tx \cup {NoTx}]
    BY DEF IInv, TypeOK, TxOK, Load
<1>2. CASE tx[p].draft \in Of(tx[p].actor) /\ tx[p].body \notin TooLarge
  <2> DEFINE d == tx[p].draft
  <2>1. [tx[p] EXCEPT !.draft = d, !.old = drafts[d]] = [tx[p] EXCEPT !.old = drafts[d]]
      BY <1>1 DEF Tx
  <2>2. tx' = [tx EXCEPT ![p] = [tx[p] EXCEPT !.draft = d, !.old = drafts[d]]]
      BY <1>2, <2>1 DEF Load
  <2>3. QED
      BY <1>2, <2>2, RowLoadStep DEF Load
<1>3. CASE ~(tx[p].draft \in Of(tx[p].actor) /\ tx[p].body \notin TooLarge)
    BY <1>3, EndStep DEF Load
<1>4. QED
    BY <1>2, <1>3

\* upsert_active keeps it, whether it finds a draft or turns into a create.
LEMMA LoadMostRecentStep ==
    ASSUME IInv, NEW p \in Request, LoadMostRecent(p)
    PROVE  IInv'
<1>1. TypeOK /\ TxOK(p) /\ tx[p] \in Tx
    BY DEF IInv, TypeOK, TxOK, LoadMostRecent
<1>2. CASE tx[p].body \in TooLarge /\ End(p)
    BY <1>2, EndStep DEF LoadMostRecent
<1>3. ASSUME tx[p].body \notin TooLarge,
             tx' = [tx EXCEPT ![p].body = IF @ = Omitted THEN EmptyPayload ELSE @],
             Goto(p, "count")
      PROVE  IInv'
  <2> DEFINE t == [tx[p] EXCEPT !.body = IF @ = Omitted THEN EmptyPayload ELSE @]
  <2>1. t \in Tx /\ t.body \in Payload \ TooLarge
      BY <1>1, <1>3, DraftsAssumption DEF Tx, Body
  <2>2. t.op = tx[p].op /\ t.draft = tx[p].draft /\ t.old = tx[p].old
      BY <1>1 DEF Tx
  <2>3. pc'[p] = "count" /\ tx'[p] = t /\ Others(p)
      BY <1>1, <1>3 DEF Goto, TypeOK, Others
  <2>4. TypeOK'
      BY <1>1, <1>3, <2>1 DEF LoadMostRecent, TypeOK, Goto, Step
  <2>5. TxOK(p)'
      BY <1>1, <2>1, <2>2, <2>3, DraftsAssumption DEF TxOK, LoadMostRecent
  <2>6. t.draft = NoDraft
      BY <1>1, <2>2 DEF TxOK, LoadMostRecent
  <2>7. ASSUME NEW q \in Request \ {p}
        PROVE  PairOK(p, q)' /\ PairOK(q, p)'
    <3>1. Inserting(q) => tx[q].draft \in Draft
        BY DEF IInv, TypeOK, TxOK, RowPending, Inserting
    <3>2. Inserting(q)' => tx'[q].draft # tx'[p].draft
        BY <2>3, <2>6, <3>1, DraftsAssumption DEF Others, Inserting
    <3>3. QED
        BY <2>3, <3>2 DEF PairOK, Inserting, HoldsLock
  <2>8. QED
      BY <2>3, <2>4, <2>5, <2>7, PrivateStep DEF LoadMostRecent
<1>4. ASSUME tx[p].body \notin TooLarge, NEW d \in MostRecent(tx[p].actor),
             tx' = [tx EXCEPT ![p].draft = d, ![p].old = drafts[d]],
             Goto(p, "flush")
      PROVE  IInv'
  <2>1. d \in Of(tx[p].actor)
      BY <1>4 DEF MostRecent
  <2>2. tx' = [tx EXCEPT ![p] = [tx[p] EXCEPT !.draft = d, !.old = drafts[d]]]
      BY <1>1, <1>4 DEF TypeOK
  <2>3. QED
      BY <1>4, <2>1, <2>2, RowLoadStep DEF LoadMostRecent
<1>5. QED
    BY <1>2, <1>3, <1>4 DEF LoadMostRecent

\* create's count and INSERT keep it: the new id is nobody else's.
LEMMA CountAndInsertStep ==
    ASSUME IInv, NEW p \in Request, CountAndInsert(p)
    PROVE  IInv'
<1>1. TypeOK /\ TxOK(p) /\ tx[p] \in Tx
    BY DEF IInv, TypeOK, TxOK, CountAndInsert
<1>2. CASE End(p) /\ UNCHANGED used
    BY <1>2, EndStep DEF CountAndInsert
<1>3. ASSUME NEW d \in Draft \ used, tx' = [tx EXCEPT ![p].draft = d],
             used' = used \cup {d}, Goto(p, "reply")
      PROVE  IInv'
  <2> DEFINE t == [tx[p] EXCEPT !.draft = d]
  <2>1. t \in Tx
      BY <1>1 DEF Tx
  <2>2. t.op = tx[p].op /\ t.draft = d /\ t.old = tx[p].old /\ t.body = tx[p].body
      BY <1>1 DEF Tx
  <2>3. pc'[p] = "reply" /\ tx'[p] = t /\ Others(p)
      BY <1>1, <1>3 DEF Goto, TypeOK, Others
  <2>4. TypeOK'
      BY <1>1, <1>3, <2>1 DEF CountAndInsert, TypeOK, Goto, Step
  <2>5. Inserts(t)
      BY <1>1, <2>2 DEF TxOK, CountAndInsert, Inserts
  <2>6. ~Exists(d)' /\ d \in used' /\ t.body \in Payload \ TooLarge
      BY <1>1, <1>3, <2>2 DEF IInv, CountAndInsert, Exists, TxOK
  <2>7. TxOK(p)'
      BY <2>1, <2>2, <2>3, <2>5, <2>6, DraftsAssumption DEF TxOK, RowPending, Exists
  <2>8. ASSUME NEW q \in Request \ {p}
        PROVE  PairOK(p, q)' /\ PairOK(q, p)'
    <3>1. pc[q] \in {"idle", "load"} \/ tx[q].draft # d
        BY <1>1, <1>3, DraftsAssumption
        DEF IInv, TypeOK, Step, TxOK, RowLoaded, RowPending
    <3>2. QED
        BY <2>2, <2>3, <2>5, <3>1 DEF PairOK, Inserting, HoldsLock, Others
  <2>9. QED
      BY <1>3, <2>3, <2>4, <2>7, <2>8, PrivateStep DEF CountAndInsert
<1>4. QED
    BY <1>2, <1>3 DEF CountAndInsert

\* The lock of a row goes to one request at a time, while the row exists.
LEMMA FlushStep ==
    ASSUME IInv, NEW p \in Request, Flush(p)
    PROVE  IInv'
<1>1. TypeOK /\ TxOK(p) /\ tx[p] \in Tx /\ RowLoaded(p)
    BY DEF IInv, TypeOK, TxOK, Flush
<1>2. CASE tx[p].op = "delete" \/ Exists(tx[p].draft)
  <2>1. pc'[p] = "reply" /\ tx'[p] = tx[p] /\ Others(p)
      BY <1>1, <1>2 DEF Flush, Goto, TypeOK, Others
  <2>2. TypeOK'
      BY <1>1, <1>2 DEF Flush, TypeOK, Goto, Step
  <2>3. ~Inserts(tx[p])
      BY <1>1, DraftsAssumption DEF RowLoaded, Inserts
  <2>4. RowLoaded(p)' /\ (tx[p].op # "delete" => Exists(tx[p].draft)')
      BY <1>1, <1>2, <2>1 DEF Flush, RowLoaded, Exists
  <2>5. TxOK(p)'
      BY <1>1, <2>1, <2>3, <2>4, DraftsAssumption DEF TxOK
  <2>6. ASSUME NEW q \in Request \ {p}
        PROVE  PairOK(p, q)' /\ PairOK(q, p)'
    <3>1. PairOK(q, p)
        BY DEF IInv
    <3>2. Inserting(q) => tx[q].draft # tx[p].draft
        BY <3>1 DEF PairOK, Flush
    <3>3. tx[p].op = "delete" \/ Changes(tx[p]) =>
              ~HoldsLock(q, tx[p].draft)
        BY DEF Flush, Unlocked
    <3>4. QED
        BY <2>1, <2>3, <3>2, <3>3 DEF PairOK, Inserting, HoldsLock, Others
  <2>7. QED
      BY <2>1, <2>2, <2>5, <2>6, PrivateStep DEF Flush
<1>3. CASE ~(tx[p].op = "delete" \/ Exists(tx[p].draft))
    BY <1>3, EndStep DEF Flush
<1>4. QED
    BY <1>2, <1>3

LEMMA ReplyStep ==
    ASSUME IInv, NEW p \in Request, Reply(p)
    PROVE  IInv'
<1>1. TypeOK /\ TxOK(p) /\ tx[p] \in Tx
    BY DEF IInv, TypeOK, TxOK, Reply
<1>2. pc'[p] = "commit" /\ tx'[p] = tx[p] /\ Others(p)
    BY <1>1 DEF Reply, Goto, TypeOK, Others
<1>3. TypeOK'
    BY <1>1 DEF Reply, TypeOK, Goto, Step
<1>4. TxOK(p)'
    BY <1>1, <1>2, DraftsAssumption
    DEF Reply, TxOK, RowLoaded, RowPending, Exists
<1>5. \A q \in Request \ {p} : PairOK(p, q)' /\ PairOK(q, p)'
    BY <1>2 DEF IInv, Reply, PairOK, Inserting, HoldsLock, Others
<1>6. QED
    BY <1>2, <1>3, <1>4, <1>5, PrivateStep DEF Reply

\* A commit keeps the invariant if it does so for the requests it leaves.
LEMMA CommitStep ==
    ASSUME IInv, NEW p \in Request, End(p), UNCHANGED <<used, now, overlapped>>,
           drafts' \in [Draft -> Row \cup {NoDraft}],
           \A d \in Draft : Exists(d)' => d \in used,
           \A q \in Request \ {p} :
               pc[q] \in {"flush", "reply", "commit"} =>
               \/ drafts'[tx[q].draft] = drafts[tx[q].draft]
               \/ /\ ~Inserts(tx[q]) /\ drafts'[tx[q].draft] # NoDraft
                  /\ drafts'[tx[q].draft].user_id = tx[q].actor
               \/ /\ ~Inserts(tx[q]) /\ drafts'[tx[q].draft] = NoDraft
                  /\ ~HoldsLock(q, tx[q].draft)
    PROVE  IInv'
<1>1. TypeOK /\ TypeOK'
    BY DEF IInv, TypeOK, End, Step
<1>2. pc'[p] = "idle" /\ tx'[p] = NoTx /\ Others(p)
    BY <1>1 DEF End, TypeOK, Others
<1>3. TxOK(p)'
    BY <1>2 DEF TxOK
<1>4. ASSUME NEW q \in Request \ {p}
      PROVE  TxOK(q)'
  <2>1. TxOK(q) /\ pc'[q] = pc[q] /\ tx'[q] = tx[q] /\ pc[q] \in Step /\ used' = used
      BY <1>1, <1>2 DEF IInv, Others, TypeOK
  <2>2. CASE pc[q] \in {"idle", "load", "count"}
      BY <2>1, <2>2 DEF TxOK
  <2>3. CASE pc[q] = "flush"
      BY <2>1, <2>3 DEF TxOK, RowLoaded, Exists
  <2>4. CASE pc[q] \in {"reply", "commit"}
      BY <2>1, <2>4 DEF TxOK, RowLoaded, RowPending, Exists, HoldsLock
  <2>5. QED
      BY <2>1, <2>2, <2>3, <2>4 DEF Step
<1>5. ASSUME NEW q \in Request, NEW z \in Request \ {q}
      PROVE  PairOK(q, z)'
    BY <1>2 DEF IInv, Others, PairOK, Inserting, HoldsLock
<1>6. QED
    BY <1>1, <1>3, <1>4, <1>5 DEF IInv

\* A committed INSERT touches no row that another request has loaded.
LEMMA CommitInsertStep ==
    ASSUME IInv, NEW p \in Request, CommitInsert(p)
    PROVE  IInv'
<1> DEFINE w == [user_id |-> tx[p].actor, payload |-> tx[p].body,
                 updated_at |-> tx[p].began]
<1>1. TypeOK /\ TxOK(p) /\ tx[p] \in Tx
    BY DEF IInv, TypeOK, TxOK, CommitInsert
<1>2. RowPending(p)
    BY <1>1 DEF TxOK, CommitInsert
<1>3. w \in Row
    BY <1>1, <1>2 DEF RowPending, Row, Tx
<1>4. ASSUME NEW q \in Request \ {p}, pc[q] \in {"flush", "reply", "commit"}
      PROVE  drafts'[tx[q].draft] = drafts[tx[q].draft]
  <2>1. tx[q].draft # tx[p].draft
      BY <1>4 DEF IInv, PairOK, Inserting, CommitInsert
  <2>2. QED
      BY <1>1, <2>1 DEF CommitInsert, TypeOK
<1>5. \A d \in Draft : Exists(d)' => d \in used
    BY <1>1, <1>2 DEF IInv, CommitInsert, RowPending, TypeOK, Exists
<1>6. drafts' \in [Draft -> Row \cup {NoDraft}]
    BY <1>1, <1>3 DEF CommitInsert, TypeOK
<1>7. QED
    BY <1>4, <1>5, <1>6, CommitStep DEF CommitInsert

\* An UPDATE changes a row that is there, and never whose it is.
LEMMA UpdatedRow ==
    ASSUME IInv, NEW p \in Request, CommitUpdate(p), Changes(tx[p])
    PROVE  LET d == tx[p].draft
           IN  /\ d \in Draft /\ Exists(d)
               /\ drafts'[d] \in Row
               /\ drafts'[d].user_id = tx[p].actor
               /\ drafts[d].user_id = tx[p].actor
               /\ \A e \in Draft \ {d} : drafts'[e] = drafts[e]
               /\ drafts' \in [Draft -> Row \cup {NoDraft}]
<1> DEFINE d == tx[p].draft
           w == [drafts[d] EXCEPT !.payload = tx[p].body,
                                  !.updated_at = tx[p].began]
<1>1. TypeOK /\ TxOK(p) /\ tx[p] \in Tx
    BY DEF IInv, TypeOK, TxOK, CommitUpdate
<1>2. RowLoaded(p) /\ Exists(d) /\ d \in Draft
    BY <1>1 DEF TxOK, CommitUpdate, RowLoaded, TypeOK
<1>3. drafts[d] \in Row /\ drafts[d].user_id = tx[p].actor
    BY <1>1, <1>2 DEF RowLoaded, Exists, TypeOK
<1>4. tx[p].body \in Payload \ TooLarge /\ tx[p].began \in 0..MaxTime
    BY <1>1, <1>2 DEF Tx, Body, RowLoaded, Changes
<1>5. w \in Row /\ w.user_id = tx[p].actor
    BY <1>3, <1>4 DEF Row
<1>6. drafts' = [drafts EXCEPT ![d] = w]
    BY <1>1 DEF CommitUpdate, TypeOK
<1>7. QED
    BY <1>1, <1>2, <1>3, <1>5, <1>6 DEF TypeOK

LEMMA CommitUpdateStep ==
    ASSUME IInv, NEW p \in Request, CommitUpdate(p)
    PROVE  IInv'
<1>1. TypeOK
    BY DEF IInv
<1>2. CASE ~Changes(tx[p])
    BY <1>1, <1>2, CommitStep DEF CommitUpdate, IInv, TypeOK, Exists
<1>3. CASE Changes(tx[p])
  <2> DEFINE d == tx[p].draft
  <2>1. /\ d \in Draft /\ Exists(d) /\ drafts'[d] \in Row
        /\ drafts'[d].user_id = tx[p].actor /\ drafts[d].user_id = tx[p].actor
        /\ \A e \in Draft \ {d} : drafts'[e] = drafts[e]
        /\ drafts' \in [Draft -> Row \cup {NoDraft}]
      BY <1>3, UpdatedRow
  <2>2. drafts'[d] # NoDraft /\ \A e \in Draft : Exists(e)' => Exists(e)
      BY <2>1, DraftsAssumption DEF Exists
  <2>3. ASSUME NEW q \in Request \ {p},
               pc[q] \in {"flush", "reply", "commit"}, tx[q].draft = d
        PROVE  /\ ~Inserts(tx[q]) /\ drafts'[tx[q].draft] # NoDraft
               /\ drafts'[tx[q].draft].user_id = tx[q].actor
    <3>1. TxOK(q)
        BY DEF IInv
    <3>2. RowLoaded(q) /\ ~Inserts(tx[q])
        BY <2>1, <2>3, <3>1, DraftsAssumption
        DEF TxOK, RowLoaded, RowPending, Inserts
    <3>3. QED
        BY <2>1, <2>2, <2>3, <3>2 DEF RowLoaded
  <2>4. ASSUME NEW q \in Request \ {p},
               pc[q] \in {"flush", "reply", "commit"}, tx[q].draft # d
        PROVE  drafts'[tx[q].draft] = drafts[tx[q].draft]
    <3>1. tx[q].draft \in Draft
        BY <1>1, <2>4 DEF IInv, TxOK, RowLoaded, RowPending, TypeOK
    <3>2. QED
        BY <2>1, <2>4, <3>1
  <2>5. QED
      BY <2>1, <2>2, <2>3, <2>4, CommitStep DEF CommitUpdate, IInv
<1>4. QED
    BY <1>2, <1>3

\* A DELETE takes the row from no request that has its lock.
LEMMA CommitDeleteStep ==
    ASSUME IInv, NEW p \in Request, CommitDelete(p)
    PROVE  IInv'
<1> DEFINE d == tx[p].draft
<1>1. TypeOK /\ TxOK(p) /\ tx[p] \in Tx /\ ~Inserts(tx[p]) /\ RowLoaded(p)
    BY DEF IInv, TypeOK, TxOK, CommitDelete, Inserts
<1>2. drafts' \in [Draft -> Row \cup {NoDraft}]
    BY <1>1 DEF CommitDelete, TypeOK
<1>3. /\ d \in Draft /\ drafts'[d] = NoDraft
      /\ \A e \in Draft \ {d} : drafts'[e] = drafts[e]
    BY <1>1 DEF CommitDelete, TypeOK, Exists, RowLoaded
<1>4. HoldsLock(p, d)
    BY <1>1 DEF HoldsLock, CommitDelete
<1>5. ASSUME NEW q \in Request \ {p},
             pc[q] \in {"flush", "reply", "commit"}
      PROVE  \/ drafts'[tx[q].draft] = drafts[tx[q].draft]
             \/ /\ ~Inserts(tx[q]) /\ drafts'[tx[q].draft] = NoDraft
                /\ ~HoldsLock(q, tx[q].draft)
  <2>1. TxOK(q) /\ tx[q].draft \in Draft
      BY <1>1, <1>5 DEF IInv, TxOK, RowLoaded, RowPending, TypeOK
  <2>2. CASE tx[q].draft = d
    <3>1. ~HoldsLock(q, d)
        BY <1>3, <1>4 DEF IInv, PairOK
    <3>2. CASE Inserts(tx[q]) /\ pc[q] # "flush"
      <4>1. ~Exists(d)
          BY <1>5, <2>1, <2>2, <3>2 DEF TxOK, RowPending
      <4>2. QED
          BY <1>3, <2>2, <4>1 DEF Exists
    <3>3. pc[q] = "flush" => ~Inserts(tx[q])
        BY <2>1, DraftsAssumption DEF TxOK, RowLoaded, Inserts
    <3>4. QED
        BY <1>3, <1>5, <2>2, <3>1, <3>2, <3>3
  <2>3. QED
      BY <1>3, <2>1, <2>2
<1>6. QED
    BY <1>1, <1>2, <1>3, <1>5, CommitStep DEF CommitDelete, IInv, Exists, TypeOK

LEMMA InitStep == Init => IInv
BY DraftsAssumption DEF Init, IInv, TypeOK, Step, TxOK, PairOK, Inserting,
   HoldsLock, Exists

LEMMA StutterStep == IInv /\ UNCHANGED vars => IInv'
BY DEF vars, IInv, TypeOK, Step, TxOK, PairOK, Inserting, HoldsLock, Exists,
   RowLoaded, RowPending

LEMMA StartStep ==
    ASSUME IInv, NEW p \in Request, Start(p)
    PROVE  IInv'
<1>1. used \subseteq Draft
    BY DEF IInv, TypeOK
<1>2. ASSUME NEW u \in User, NEW b \in Body, CreateDraft(p, u, b)
      PROVE  IInv'
    BY <1>2, BeginStep DEF CreateDraft
<1>3. ASSUME NEW u \in User, NEW b \in Body, UpsertDraft(p, u, b)
      PROVE  IInv'
    BY <1>3, BeginStep DEF UpsertDraft
<1>4. ASSUME NEW u \in User, NEW b \in Body, NEW d \in used, UpdateDraft(p, u, d, b)
      PROVE  IInv'
    BY <1>1, <1>4, BeginStep DEF UpdateDraft
<1>5. ASSUME NEW u \in User, NEW d \in used, DeleteDraft(p, u, d)
      PROVE  IInv'
    BY <1>1, <1>5, BeginStep DEF DeleteDraft, Body
<1>6. CASE ReadDrafts(p)
    BY <1>6, StutterStep DEF ReadDrafts
<1>7. QED
    BY <1>2, <1>3, <1>4, <1>5, <1>6 DEF Start

\* Every step keeps the invariant.
LEMMA NextStep == IInv /\ [Next]_vars => IInv'
<1> SUFFICES ASSUME IInv, [Next]_vars
             PROVE  IInv'
    OBVIOUS
<1>1. CASE UNCHANGED vars
    BY <1>1, StutterStep
<1>2. ASSUME NEW p \in Request, Start(p) \/ Proceed(p) \/ Flush(p) \/ Abort(p)
      PROVE  IInv'
  <2>1. CASE Start(p)
      BY <2>1, StartStep
  <2>2. CASE Load(p) \/ LoadMostRecent(p) \/ CountAndInsert(p) \/ Reply(p)
      BY <2>2, LoadStep, LoadMostRecentStep, CountAndInsertStep, ReplyStep
  <2>3. CASE CommitInsert(p) \/ CommitUpdate(p) \/ CommitDelete(p)
      BY <2>3, CommitInsertStep, CommitUpdateStep, CommitDeleteStep
  <2>4. CASE Flush(p)
      BY <2>4, FlushStep
  <2>5. CASE Abort(p)
      BY <2>5, EndStep DEF Abort
  <2>6. QED
      BY <1>2, <2>1, <2>2, <2>3, <2>4, <2>5 DEF Proceed
<1>3. QED
    BY <1>1, <1>2 DEF Next

LEMMA Invariance == Spec => []IInv
BY InitStep, NextStep, PTL DEF Spec

\* Every reachable state is well typed: in particular no oversized payload is
\* ever stored, whichever endpoint wrote it.
THEOREM TypeCorrect == Spec => []TypeOK
<1>1. IInv => TypeOK
    BY DEF IInv
<1>2. QED
    BY Invariance, <1>1, PTL
-----------------------------------------------------------------------------
(***************************************************************************)
(* What a step may do to the committed rows.                               *)
(***************************************************************************)

\* Only the three commits write, each to the row its request names.
LEMMA OnlyCommitsWrite ==
    ASSUME IInv, [Next]_vars, NEW d \in Draft, drafts'[d] # drafts[d]
    PROVE  \E p \in Request :
               /\ CommitInsert(p) \/ CommitUpdate(p) \/ CommitDelete(p)
               /\ tx[p].draft = d
<1>1. ~UNCHANGED drafts
    OBVIOUS
<1>2. PICK p \in Request : CommitInsert(p) \/ CommitUpdate(p) \/ CommitDelete(p)
    BY <1>1 DEF Next, vars, Start, CreateDraft, UpsertDraft, UpdateDraft,
       DeleteDraft, ReadDrafts, Begin, Proceed, Load, LoadMostRecent,
       CountAndInsert, Reply, Flush, Abort
<1>3. tx[p].draft = d
  <2>1. CASE CommitInsert(p) \/ CommitDelete(p)
      BY <2>1 DEF CommitInsert, CommitDelete, IInv, TypeOK
  <2>2. CASE CommitUpdate(p)
    <3>1. Changes(tx[p])
        BY <2>2 DEF CommitUpdate
    <3>2. QED
        BY <2>2, <3>1, UpdatedRow
  <2>3. QED
      BY <1>2, <2>1, <2>2
<1>4. QED
    BY <1>2, <1>3

\* A row that is written belongs, before and after, to the request's actor,
\* and only an INSERT writes a row that is not there.
LEMMA WrittenRow ==
    ASSUME IInv, NEW p \in Request,
           CommitInsert(p) \/ CommitUpdate(p) \/ CommitDelete(p),
           NEW d \in Draft, tx[p].draft = d, drafts'[d] # drafts[d]
    PROVE  /\ InFlight(p) /\ pc'[p] = "idle"
           /\ \A r \in {drafts[d], drafts'[d]} \ {NoDraft} :
                  r.user_id = tx[p].actor
           /\ ~CommitInsert(p) => Exists(d)
<1>1. TypeOK /\ TxOK(p) /\ tx[p] \in Tx
    BY DEF IInv, TypeOK, TxOK, CommitInsert, CommitUpdate, CommitDelete
<1>2. InFlight(p) /\ pc'[p] = "idle"
    BY <1>1 DEF InFlight, CommitInsert, CommitUpdate, CommitDelete, End, TypeOK
<1>3. CASE CommitInsert(p)
    BY <1>1, <1>2, <1>3 DEF TxOK, RowPending, CommitInsert, Exists, TypeOK
<1>4. CASE CommitUpdate(p)
  <2>1. Changes(tx[p])
      BY <1>4 DEF CommitUpdate
  <2>2. QED
      BY <1>2, <1>4, <2>1, UpdatedRow
<1>5. CASE CommitDelete(p)
  <2>1. RowLoaded(p) /\ drafts'[d] = NoDraft
      BY <1>1, <1>5 DEF TxOK, CommitDelete, Inserts, TypeOK
  <2>2. QED
      BY <1>2, <2>1 DEF RowLoaded, Exists, CommitInsert, CommitDelete
<1>6. QED
    BY <1>3, <1>4, <1>5

\* Drafts are strictly per user, whatever interleaving of however many
\* requests: no request creates, replaces or removes a draft of somebody else
\* (get checks the owner once, before the UPDATE or DELETE waits for a lock).
THEOREM OwnersOnly == Spec => OwnerOnly
<1>1. IInv /\ [Next]_vars =>
          [\A d \in Draft : drafts'[d] # drafts[d] =>
              \A r \in {drafts[d], drafts'[d]} \ {NoDraft} :
                  \E p \in Request : InFlight(p) /\ pc'[p] = "idle"
                      /\ tx[p].draft = d /\ tx[p].actor = r.user_id]_vars
  <2> SUFFICES ASSUME IInv, [Next]_vars, NEW d \in Draft, drafts'[d] # drafts[d],
                      NEW r \in {drafts[d], drafts'[d]} \ {NoDraft}
               PROVE  \E p \in Request : InFlight(p) /\ pc'[p] = "idle"
                          /\ tx[p].draft = d /\ tx[p].actor = r.user_id
      OBVIOUS
  <2>1. PICK p \in Request :
            /\ CommitInsert(p) \/ CommitUpdate(p) \/ CommitDelete(p)
            /\ tx[p].draft = d
      BY OnlyCommitsWrite
  <2>2. QED
      BY <2>1, WrittenRow
<1>2. QED
    BY Invariance, <1>1, PTL DEF Spec, OwnerOnly

\* Deletion is final: a save that loaded a draft before it was deleted never
\* brings it back, because its UPDATE waits for the row's lock.
THEOREM GoneForGood == Spec => GoneStaysGone
<1>1. IInv /\ [Next]_vars =>
          [\A d \in used : ~Exists(d) /\ drafts'[d] # NoDraft =>
              \E p \in Request : pc[p] = "commit" /\ Inserts(tx[p])
                                 /\ tx[p].draft = d]_vars
  <2> SUFFICES ASSUME IInv, [Next]_vars, NEW d \in used, ~Exists(d),
                      drafts'[d] # NoDraft
               PROVE  \E p \in Request : pc[p] = "commit" /\ Inserts(tx[p])
                                         /\ tx[p].draft = d
      OBVIOUS
  <2>1. d \in Draft /\ drafts'[d] # drafts[d]
      BY DEF IInv, TypeOK, Exists
  <2>2. PICK p \in Request :
            /\ CommitInsert(p) \/ CommitUpdate(p) \/ CommitDelete(p)
            /\ tx[p].draft = d
      BY <2>1, OnlyCommitsWrite
  <2>3. CommitInsert(p)
      BY <2>1, <2>2, WrittenRow
  <2>4. QED
      BY <2>2, <2>3 DEF CommitInsert
<1>2. QED
    BY Invariance, <1>1, PTL DEF Spec, GoneStaysGone
-----------------------------------------------------------------------------
(***************************************************************************)
(* The cap.  A count sees committed rows only, so the invariant adds the   *)
(* rows that are inserted and not committed yet.  A user whose requests    *)
(* never overlapped has none of those when one of them counts; any other   *)
(* has at most one for each of the server's other requests.                *)
(***************************************************************************)
Pending(u) == {p \in Request : Inserting(p) /\ tx[p].actor = u}

Bound(u) == IF u \in overlapped THEN MaxPerUser + Cardinality(Request) - 1
                                ELSE MaxPerUser

CountOK(u) == Cardinality(Of(u)) + Cardinality(Pending(u)) <= Bound(u)

\* The requests of a user who never overlapped come one at a time.
SerialOK(p, q) ==
    InFlight(p) /\ InFlight(q) /\ tx[p].actor = tx[q].actor =>
        tx[p].actor \in overlapped

\* An autosave of such a user that is creating a draft found none.
FirstOK(p) ==
    pc[p] \in {"count", "reply", "commit"} /\ tx[p].op = "upsert"
        /\ Inserts(tx[p]) /\ tx[p].actor \notin overlapped =>
            Of(tx[p].actor) = {}

CapInv ==
    /\ IsFiniteSet(used)
    /\ \A p \in Request : \A q \in Request \ {p} : SerialOK(p, q)
    /\ \A u \in User : CountOK(u)
    /\ \A p \in Request : FirstOK(p)

Action(p) == Start(p) \/ Proceed(p) \/ Flush(p) \/ Abort(p)

\* The sets that are counted are finite.
LEMMA FiniteSets ==
    ASSUME IInv, CapInv, NEW u \in User
    PROVE  /\ IsFiniteSet(Of(u)) /\ Cardinality(Of(u)) \in Nat
           /\ IsFiniteSet(Pending(u)) /\ Cardinality(Pending(u)) \in Nat
           /\ Cardinality(Request) \in Nat
<1>1. Of(u) \in SUBSET used
    BY DEF IInv, Of
<1>2. Pending(u) \in SUBSET Request
    BY DEF Pending
<1>3. IsFiniteSet(Of(u))
    BY <1>1, FS_Subset DEF CapInv
<1>4. IsFiniteSet(Pending(u))
    BY <1>2, FS_Subset, DraftsAssumption
<1>5. QED
    BY <1>3, <1>4, FS_CardinalityType, DraftsAssumption

\* A server with a request in it has a slot for it.
LEMMA SomeRequest == ASSUME NEW p \in Request PROVE Cardinality(Request) >= 1
<1>1. Cardinality(Request) \in Nat /\ Cardinality(Request) # 0
    BY FS_CardinalityType, FS_EmptySet, DraftsAssumption
<1>2. QED
    BY <1>1

\* What a step of request p is, seen from outside of the request: it ends,
\* or it advances without writing, or it arrives.
Ends(p) ==
    /\ Others(p) /\ InFlight(p) /\ pc'[p] = "idle"
    /\ UNCHANGED <<used, overlapped>>

Advances(p) ==
    /\ Others(p) /\ InFlight(p) /\ tx'[p].actor = tx[p].actor
    /\ UNCHANGED <<drafts, overlapped>>
    /\ \/ used' = used /\ (Inserting(p)' => Inserting(p))
       \/ /\ pc[p] = "count" /\ Cardinality(Of(tx[p].actor)) < MaxPerUser
          /\ \E d \in Draft : used' = used \cup {d}
    /\ FirstOK(p) => FirstOK(p)'

Arrives(p, u) ==
    /\ Others(p) /\ ~InFlight(p) /\ tx'[p].actor = u
    /\ \/ pc'[p] = "load"
       \/ pc'[p] = "count" /\ tx'[p].op = "create"
    /\ overlapped' = overlapped \cup
           {v \in {u} : \E q \in Request : InFlight(q) /\ tx[q].actor = v}
    /\ UNCHANGED <<drafts, used>>

LEMMA ActionShape ==
    ASSUME IInv, NEW p \in Request, Action(p)
    PROVE  UNCHANGED vars \/ Ends(p) \/ Advances(p) \/ \E u \in User : Arrives(p, u)
<1>1. TypeOK /\ TxOK(p) /\ (InFlight(p) => tx[p] \in Tx)
    BY DEF IInv, TypeOK, TxOK, InFlight
<1>2. ASSUME NEW u \in User, NEW b \in Body,
             NEW op \in {"create", "update", "delete", "upsert"},
             NEW d \in Draft \cup {NoDraft}, Begin(p, u, op, d, b)
      PROVE  Arrives(p, u)
    BY <1>1, <1>2 DEF Arrives, Begin, Goto, Others, InFlight, TypeOK
<1>3. CASE Start(p)
    BY <1>1, <1>2, <1>3 DEF Start, CreateDraft, UpdateDraft, UpsertDraft,
       DeleteDraft, ReadDrafts, TypeOK, Body
<1>4. ASSUME End(p), UNCHANGED <<used, overlapped>>, InFlight(p)
      PROVE  Ends(p)
    BY <1>1, <1>4 DEF Ends, End, Others, TypeOK
<1>5. CASE CommitInsert(p) \/ CommitUpdate(p) \/ CommitDelete(p) \/ Abort(p)
    BY <1>4, <1>5 DEF CommitInsert, CommitUpdate, CommitDelete, Abort, InFlight
<1>6. CASE Load(p)
    BY <1>1, <1>4, <1>6 DEF Advances, Load, Goto, Others, InFlight, Inserting,
       FirstOK, TypeOK, Tx
<1>7. CASE LoadMostRecent(p)
  <2>1. tx[p] \in Tx /\ InFlight(p)
      BY <1>1, <1>7 DEF LoadMostRecent, InFlight
  <2>2. CASE End(p)
      BY <1>4, <1>7, <2>1, <2>2 DEF LoadMostRecent
  <2>3. CASE /\ Of(tx[p].actor) = {} /\ Goto(p, "count")
             /\ tx' = [tx EXCEPT ![p].body = IF @ = Omitted THEN EmptyPayload ELSE @]
    <3>1. /\ pc'[p] = "count" /\ Others(p) /\ tx'[p].actor = tx[p].actor
        BY <1>1, <2>1, <2>3 DEF Goto, Others, TypeOK, Tx
    <3>2. QED
        BY <1>7, <2>1, <2>3, <3>1
        DEF Advances, LoadMostRecent, Inserting, FirstOK, Of, Exists
  <2>4. ASSUME NEW d \in MostRecent(tx[p].actor), Goto(p, "flush"),
               tx' = [tx EXCEPT ![p].draft = d, ![p].old = drafts[d]]
        PROVE  Advances(p)
    <3>1. /\ pc'[p] = "flush" /\ Others(p) /\ tx'[p].actor = tx[p].actor
        BY <1>1, <2>1, <2>4 DEF Goto, Others, TypeOK, Tx
    <3>2. QED
        BY <1>7, <2>1, <3>1 DEF Advances, LoadMostRecent, Inserting, FirstOK
  <2>5. QED
      BY <1>7, <2>2, <2>3, <2>4 DEF LoadMostRecent
<1>8. CASE CountAndInsert(p)
    BY <1>1, <1>4, <1>8 DEF Advances, CountAndInsert, Goto, Others, InFlight,
       Inserting, Inserts, FirstOK, TypeOK, Tx, Of, Exists
<1>9. CASE Reply(p)
    BY <1>1, <1>9 DEF Advances, Reply, Goto, Others, InFlight, Inserting,
       FirstOK, TypeOK, Of, Exists
<1>10. CASE Flush(p)
    BY <1>1, <1>4, <1>10, DraftsAssumption
    DEF Advances, Flush, Goto, Others, InFlight, Inserting, Inserts, FirstOK,
        TypeOK, RowLoaded, TxOK
<1>11. QED
    BY <1>3, <1>5, <1>6, <1>7, <1>8, <1>9, <1>10 DEF Action, Proceed

\* A step writes drafts of its request's actor only; it adds one only with
\* the commit of a pending INSERT.
LEMMA OwnDrafts ==
    ASSUME IInv, NEW p \in Request, Action(p), NEW u \in User
    PROVE  /\ ~(InFlight(p) /\ tx[p].actor = u) => Of(u)' = Of(u)
           /\ \/ Of(u)' \subseteq Of(u)
              \/ /\ Of(u)' = Of(u) \cup {tx[p].draft} /\ tx[p].actor = u
                 /\ Ends(p) /\ Inserting(p)
<1>1. TypeOK /\ Next
    BY DEF IInv, Next, Action
<1>2. ASSUME NEW d \in Draft, drafts'[d] # drafts[d]
      PROVE  /\ CommitInsert(p) \/ CommitUpdate(p) \/ CommitDelete(p)
             /\ tx[p].draft = d
  <2>1. PICK q \in Request :
            /\ CommitInsert(q) \/ CommitUpdate(q) \/ CommitDelete(q)
            /\ tx[q].draft = d
      BY <1>1, <1>2, OnlyCommitsWrite
  <2>2. InFlight(q) /\ pc'[q] = "idle"
      BY <1>2, <2>1, WrittenRow
  <2>3. q = p
      BY <1>2, <2>2, ActionShape
      DEF vars, Ends, Advances, Arrives, Others, InFlight
  <2>4. QED
      BY <2>1, <2>3
<1>3. \A d \in Draft : drafts'[d] # drafts[d] =>
          /\ InFlight(p) /\ tx[p].draft = d
          /\ \A r \in {drafts[d], drafts'[d]} \ {NoDraft} : r.user_id = tx[p].actor
          /\ Exists(d) \/ CommitInsert(p)
    BY <1>2, WrittenRow
<1>4. CASE ~(InFlight(p) /\ tx[p].actor = u)
  <2>1. \A d \in Draft : d \in Of(u)' <=> d \in Of(u)
      BY <1>3, <1>4 DEF Of, Exists
  <2>2. QED
      BY <2>1 DEF Of
<1>5. CASE InFlight(p) /\ tx[p].actor = u /\ ~CommitInsert(p)
  <2>1. \A d \in Draft : d \in Of(u)' => d \in Of(u)
      BY <1>3, <1>5 DEF Of, Exists
  <2>2. QED
      BY <1>5, <2>1 DEF Of
<1>6. CASE InFlight(p) /\ tx[p].actor = u /\ CommitInsert(p)
  <2>1. /\ tx[p] \in Tx /\ tx[p].draft \in Draft
        /\ drafts'[tx[p].draft] # NoDraft /\ drafts'[tx[p].draft].user_id = u
    <3>1. tx[p] \in Tx /\ RowPending(p) /\ tx[p].draft \in Draft
        BY <1>1, <1>6 DEF IInv, TxOK, CommitInsert, RowPending, TypeOK
    <3>2. [user_id |-> tx[p].actor, payload |-> tx[p].body,
           updated_at |-> tx[p].began] \in Row
        BY <3>1 DEF RowPending, Row, Tx
    <3>3. QED
        BY <1>1, <1>6, <3>1, <3>2, DraftsAssumption DEF CommitInsert, TypeOK
  <2>2. \A d \in Draft : d \in Of(u)' <=> d \in Of(u) \/ d = tx[p].draft
      BY <1>3, <2>1 DEF Of, Exists
  <2>3. Of(u)' = Of(u) \cup {tx[p].draft}
      BY <2>1, <2>2 DEF Of
  <2>4. Ends(p) /\ Inserting(p)
      BY <1>1, <1>6 DEF Ends, CommitInsert, Inserting, InFlight, End, Others, TypeOK
  <2>5. QED
      BY <1>6, <2>3, <2>4
<1>7. QED
    BY <1>4, <1>5, <1>6

\* A request's part in the count, when nobody but p steps.
LEMMA PendingElsewhere ==
    ASSUME NEW p \in Request, Others(p), NEW u \in User
    PROVE  \A q \in Request \ {p} : q \in Pending(u)' <=> q \in Pending(u)
BY DEF Others, Pending, Inserting

\* Fewer drafts, committed or pending, keep the count within its bound.
LEMMA FewerDrafts ==
    ASSUME IInv, CapInv, NEW u \in User, Of(u)' \subseteq Of(u),
           Pending(u)' \subseteq Pending(u), overlapped \subseteq overlapped',
           Cardinality(Request) >= 1
    PROVE  CountOK(u)'
<1>1. /\ Cardinality(Of(u))' \in Nat /\ Cardinality(Of(u)') <= Cardinality(Of(u))
      /\ Cardinality(Pending(u))' \in Nat
      /\ Cardinality(Pending(u)') <= Cardinality(Pending(u))
  <2>1. IsFiniteSet(Of(u)') /\ IsFiniteSet(Pending(u)')
      BY FiniteSets, FS_Subset
  <2>2. QED
      BY <2>1, FiniteSets, FS_Subset, FS_CardinalityType
<1>2. Bound(u) <= Bound(u)' /\ Bound(u) \in Int /\ Bound(u)' \in Int
    BY FiniteSets, DraftsAssumption DEF Bound
<1>3. CountOK(u)
    BY DEF CapInv
<1>4. QED
    BY <1>1, <1>2, <1>3, FiniteSets DEF CountOK

LEMMA CountStep ==
    ASSUME IInv, CapInv, NEW p \in Request, Action(p), NEW u \in User
    PROVE  CountOK(u)'
<1>1. /\ Cardinality(Request) >= 1 /\ CountOK(u) /\ MaxPerUser \in Nat
      /\ Cardinality(Of(u)) \in Nat /\ IsFiniteSet(Of(u))
      /\ Cardinality(Pending(u)) \in Nat /\ IsFiniteSet(Pending(u))
      /\ Cardinality(Request) \in Nat
    BY SomeRequest, FiniteSets, DraftsAssumption DEF CapInv
<1>2. CASE UNCHANGED vars
    BY <1>1, <1>2, FewerDrafts
    DEF vars, Of, Exists, Pending, Inserting
<1>3. ASSUME NEW v \in User, Arrives(p, v)
      PROVE  CountOK(u)'
  <2>1. Of(u)' = Of(u)
      BY <1>3 DEF Arrives, Of, Exists
  <2>2. p \notin Pending(u)'
      BY <1>3 DEF Arrives, Pending, Inserting
  <2>3. Pending(u)' \subseteq Pending(u)
      BY <1>3, <2>2, PendingElsewhere DEF Arrives, Pending
  <2>4. QED
      BY <1>1, <1>3, <2>1, <2>3, FewerDrafts DEF Arrives
<1>4. CASE Ends(p)
  <2>1. p \notin Pending(u)' /\ Pending(u)' \subseteq Pending(u) \ {p}
      BY <1>4, PendingElsewhere DEF Ends, Pending, Inserting
  <2>2. CASE Of(u)' \subseteq Of(u)
      BY <1>1, <1>4, <2>1, <2>2, FewerDrafts DEF Ends
  <2>3. CASE /\ Of(u)' = Of(u) \cup {tx[p].draft} /\ Inserting(p)
             /\ tx[p].actor = u
    <3>1. p \in Pending(u)
        BY <2>3 DEF Pending
    <3>2. /\ Cardinality(Of(u)') \in Nat
          /\ Cardinality(Of(u)') <= Cardinality(Of(u)) + 1
      <4>1. ASSUME NEW d
            PROVE  /\ IsFiniteSet(Of(u) \cup {d})
                   /\ Cardinality(Of(u) \cup {d}) <= Cardinality(Of(u)) + 1
        <5>1. /\ IsFiniteSet(Of(u) \cup {d})
              /\ Cardinality(Of(u) \cup {d}) =
                     IF d \in Of(u) THEN Cardinality(Of(u)) ELSE Cardinality(Of(u)) + 1
            BY <1>1, FS_AddElement
        <5>2. QED
            BY <1>1, <5>1
      <4>2. QED
          BY <2>3, <4>1, FS_CardinalityType
    <3>3. /\ Cardinality(Pending(u)') \in Nat
          /\ Cardinality(Pending(u)') <= Cardinality(Pending(u)) - 1
      <4>1. /\ IsFiniteSet(Pending(u) \ {p})
            /\ Cardinality(Pending(u) \ {p}) = Cardinality(Pending(u)) - 1
          BY <1>1, <3>1, FS_RemoveElement
      <4>2. QED
          BY <2>1, <4>1, FS_Subset, FS_CardinalityType
    <3>4. Bound(u)' = Bound(u) /\ Bound(u) \in Int
        BY <1>1, <1>4 DEF Ends, Bound
    <3>5. QED
        BY <1>1, <3>2, <3>3, <3>4 DEF CountOK
  <2>4. QED
      BY <1>4, <2>2, <2>3, OwnDrafts
<1>5. CASE Advances(p)
  <2>1. Of(u)' = Of(u) /\ overlapped' = overlapped
      BY <1>5 DEF Advances, Of, Exists
  <2>2. CASE Inserting(p)' => Inserting(p)
    <3>1. Pending(u)' \subseteq Pending(u)
        BY <1>5, <2>2, PendingElsewhere DEF Advances, Pending
    <3>2. QED
        BY <1>1, <2>1, <3>1, FewerDrafts
  <2>3. CASE tx[p].actor # u
    <3>1. Pending(u)' \subseteq Pending(u)
        BY <1>5, <2>3, PendingElsewhere DEF Advances, Pending
    <3>2. QED
        BY <1>1, <2>1, <3>1, FewerDrafts
  <2>4. CASE /\ pc[p] = "count" /\ tx[p].actor = u
             /\ Cardinality(Of(u)) < MaxPerUser
    <3>1. /\ p \notin Pending(u) /\ Pending(u)' \subseteq Pending(u) \cup {p}
        BY <1>5, <2>4, PendingElsewhere DEF Advances, Pending, Inserting
    <3>2. /\ IsFiniteSet(Pending(u)') /\ Cardinality(Pending(u)') \in Nat
          /\ Cardinality(Pending(u)') <= Cardinality(Pending(u)) + 1
      <4>1. /\ IsFiniteSet(Pending(u) \cup {p})
            /\ Cardinality(Pending(u) \cup {p}) = Cardinality(Pending(u)) + 1
          BY <1>1, <3>1, FS_AddElement
      <4>2. QED
          BY <3>1, <4>1, FS_Subset, FS_CardinalityType
    <3>3. CASE u \notin overlapped
      <4>1. Pending(u) = {}
          BY <2>4, <3>3 DEF CapInv, SerialOK, Pending, Inserting, InFlight
      <4>2. Cardinality(Pending(u)) = 0
          BY <4>1, FS_EmptySet
      <4>3. QED
          BY <1>1, <2>1, <2>4, <3>2, <3>3, <4>2 DEF CountOK, Bound
    <3>4. CASE u \in overlapped
      <4>1. Pending(u)' \subseteq Request
          BY DEF Pending
      <4>2. Cardinality(Pending(u)') <= Cardinality(Request)
          BY <4>1, FS_Subset, DraftsAssumption
      <4>3. QED
          BY <1>1, <2>1, <2>4, <3>2, <3>4, <4>2 DEF CountOK, Bound
    <3>5. QED
        BY <3>3, <3>4
  <2>5. QED
      BY <1>5, <2>2, <2>3, <2>4 DEF Advances
<1>6. QED
    BY <1>2, <1>3, <1>4, <1>5, ActionShape

\* Two requests of one user in flight at once: the later one has noted it.
LEMMA SerialStep ==
    ASSUME IInv, CapInv, NEW p \in Request, Action(p),
           NEW q \in Request, NEW z \in Request \ {q}
    PROVE  SerialOK(q, z)'
<1>1. \A x \in Request : \A y \in Request \ {x} : SerialOK(x, y)
    BY DEF CapInv
<1>2. CASE UNCHANGED vars
    BY <1>1, <1>2 DEF vars, SerialOK, InFlight
<1>3. CASE Ends(p)
    BY <1>1, <1>3 DEF Ends, Others, SerialOK, InFlight
<1>4. CASE Advances(p)
    BY <1>1, <1>4 DEF Advances, Others, SerialOK, InFlight
<1>5. ASSUME NEW u \in User, Arrives(p, u)
      PROVE  SerialOK(q, z)'
    BY <1>1, <1>5 DEF Arrives, Others, SerialOK, InFlight
<1>6. QED
    BY <1>2, <1>3, <1>4, <1>5, ActionShape

\* Nobody but a user's own requests adds drafts to the user.
LEMMA FirstStep ==
    ASSUME IInv, CapInv, NEW p \in Request, Action(p), NEW q \in Request
    PROVE  FirstOK(q)'
<1>1. FirstOK(q) /\ TypeOK /\ tx[q] \in Tx \cup {NoTx} /\ TxOK(q)
    BY DEF CapInv, IInv, TypeOK
<1>2. CASE UNCHANGED vars
    BY <1>1, <1>2 DEF vars, FirstOK, Of, Exists
<1>3. CASE q = p
  <2>1. CASE Ends(p)
      BY <1>3, <2>1 DEF Ends, FirstOK
  <2>2. CASE Advances(p)
      BY <1>1, <1>3, <2>2 DEF Advances
  <2>3. ASSUME NEW u \in User, Arrives(p, u)
        PROVE  FirstOK(q)'
      BY <1>3, <2>3 DEF Arrives, FirstOK
  <2>4. QED
      BY <1>2, <2>1, <2>2, <2>3, ActionShape
<1>4. CASE q # p /\ ~UNCHANGED vars
  <2>1. /\ Others(p) /\ overlapped \subseteq overlapped'
      BY <1>4, ActionShape DEF Ends, Advances, Arrives
  <2>2. pc'[q] = pc[q] /\ tx'[q] = tx[q]
      BY <1>4, <2>1 DEF Others
  <2>3. ASSUME pc[q] \in {"count", "reply", "commit"},
               tx[q].actor \notin overlapped
        PROVE  Of(tx[q].actor)' = Of(tx[q].actor)
    <3>1. tx[q].actor \in User
        BY <1>1, <2>3 DEF TxOK, Tx
    <3>2. ~(InFlight(p) /\ tx[p].actor = tx[q].actor)
        BY <1>4, <2>3 DEF CapInv, SerialOK, InFlight
    <3>3. \A u \in User : ~(InFlight(p) /\ tx[p].actor = u) => Of(u)' = Of(u)
        BY OwnDrafts
    <3>4. QED
        BY <2>2, <3>1, <3>2, <3>3
  <2>4. QED
      BY <1>1, <2>1, <2>2, <2>3 DEF FirstOK
<1>5. QED
    BY <1>2, <1>3, <1>4

LEMMA CapStep == IInv /\ CapInv /\ [Next]_vars => CapInv'
<1> SUFFICES ASSUME IInv, CapInv, [Next]_vars
             PROVE  CapInv'
    OBVIOUS
<1>1. CASE UNCHANGED vars
    BY <1>1 DEF vars, CapInv, SerialOK, CountOK, FirstOK, InFlight, Of, Exists,
       Pending, Inserting, Bound
<1>2. ASSUME NEW p \in Request, Action(p)
      PROVE  CapInv'
  <2>1. IsFiniteSet(used)'
    <3>1. used' = used \/ \E d \in Draft : used' = used \cup {d}
        BY <1>2, ActionShape DEF vars, Ends, Advances, Arrives
    <3>2. QED
        BY <3>1, FS_AddElement DEF CapInv
  <2>2. \A u \in User : CountOK(u)'
      BY <1>2, CountStep
  <2>3. \A q \in Request : \A z \in Request \ {q} : SerialOK(q, z)'
      BY <1>2, SerialStep
  <2>4. \A q \in Request : FirstOK(q)'
      BY <1>2, FirstStep
  <2>5. QED
      BY <2>1, <2>2, <2>3, <2>4 DEF CapInv
<1>3. QED
    BY <1>1, <1>2 DEF Next, Action

LEMMA CapInit == Init => CapInv
<1> SUFFICES ASSUME Init
             PROVE  CapInv
    OBVIOUS
<1>1. ASSUME NEW u \in User
      PROVE  CountOK(u)
  <2>1. Of(u) = {} /\ Pending(u) = {}
      BY DEF Init, Of, Exists, Pending, Inserting
  <2>2. Cardinality({}) = 0 /\ Cardinality(Request) \in Nat /\ u \notin overlapped
      BY FS_EmptySet, FS_CardinalityType, DraftsAssumption DEF Init
  <2>3. QED
      BY <2>1, <2>2, DraftsAssumption DEF CountOK, Bound
<1>2. QED
    BY <1>1, FS_EmptySet DEF Init, CapInv, SerialOK, FirstOK, InFlight

LEMMA CapInvariance == Spec => []CapInv
BY Invariance, CapInit, CapStep, PTL DEF Spec

\* "10 drafts per user": a user whose requests have never overlapped stays
\* within the cap, autosave included, and one whose requests counted at the
\* same time overshoots it by less than the server's request slots.
THEOREM CapIsKept == Spec => []CapHolds
<1>1. IInv /\ CapInv => CapHolds
  <2> SUFFICES ASSUME IInv, CapInv, NEW u \in User
               PROVE  Cardinality(Of(u)) <= Bound(u)
      BY DEF CapHolds, Bound
  <2>1. Bound(u) \in Int
      BY FiniteSets, DraftsAssumption DEF Bound
  <2>2. QED
      BY <2>1, FiniteSets DEF CapInv, CountOK
<1>2. QED
    BY Invariance, CapInvariance, <1>1, PTL

\* The autosave shortcut creates a draft only for a user who has none, however
\* many other users are busy.
THEOREM AutosaveCreatesFirst == Spec => AutosaveCreatesOnlyTheFirst
<1>1. IInv /\ CapInv /\ [Next]_vars =>
          [\A p \in Request :
              tx[p] # NoTx /\ tx[p].op = "upsert" /\ CommitInsert(p) =>
                  tx[p].actor \in overlapped \/ Of(tx[p].actor) = {}]_vars
    BY DEF CapInv, FirstOK, CommitInsert
<1>2. QED
    BY Invariance, CapInvariance, <1>1, PTL DEF Spec, AutosaveCreatesOnlyTheFirst
=============================================================================
