-------------------------- MODULE MigrationsProofs --------------------------
(***************************************************************************)
(* Theorems about Migrations that hold for every set of accounts and       *)
(* drafts, any number of requests and any length of a run.                 *)
(***************************************************************************)
EXTENDS Migrations, FiniteSetTheorems, TLAPS

(***************************************************************************)
(* The inductive invariant: what the table locks keep true while requests  *)
(* of both versions and a migration are under way.                         *)
(***************************************************************************)
Upgrading == migration \in {"create", "backfill", "drop", "commit_upgrade"}
Downgrading == migration \in {"add", "restore", "commit_downgrade"}

\* Each revision stores drafts in its own place.
SchemaOK ==
    /\ schema = "0004" => drafts = {}
    /\ schema = "0005" => \A u \in User : column[u] = Null
    /\ Upgrading => schema = "0004"
    /\ Downgrading => schema = "0005"

\* What is past its first statement belongs to the revision that is there.
TxOK(p) ==
    /\ pc[p] = "idle" <=> tx[p] = NoTx
    /\ pc[p] # "idle" /\ tx[p].op = "save" => tx[p].payload \in Payload
    /\ pc[p] # "idle" /\ tx[p].op \in Saving => tx[p].user \in User
    /\ pc[p] = "commit" => tx[p].op \in Saving
    /\ Authenticated(p) /\ tx[p].version = "old" => schema = "0004"
    /\ pc[p] = "commit" /\ tx[p].version = "new" => schema = "0005"

\* Who is kept out while the migration copies, and until it commits.
LocksOK ==
    /\ migration \in {"backfill", "drop", "commit_upgrade"} =>
           \A p \in Request : ~HasSavedColumn(p)
    /\ migration \in {"commit_upgrade", "restore", "commit_downgrade"} =>
           NobodyInUsers

\* What is copied is what is committed now, not only what was then.
Copied(u) == [user |-> u, payload |-> column[u].payload,
              at |-> IF column[u].at = Null THEN since ELSE column[u].at]

MovedOK ==
    /\ migration \in {"drop", "commit_upgrade"} =>
           moved = {Copied(u) : u \in {v \in User : column[v] # Null}}
    /\ migration = "commit_downgrade" =>
           \A u \in User :
               /\ \A d \in moved : d.user = u => d \in Newest(u)
               /\ RowsOf(u) # {} => \E d \in moved : d.user = u

IInv ==
    /\ TypeOK
    /\ SchemaOK
    /\ \A p \in Request : TxOK(p)
    /\ LocksOK
    /\ MovedOK
-----------------------------------------------------------------------------
LEMMA MarkerFacts ==
    /\ NoTx \notin Tx /\ Null \notin Payload /\ Null \notin Time
    /\ Null \notin Column /\ Null \notin Row
BY MigrationsAssumption

\* What a request in flight carries.
LEMMA TxFacts ==
    ASSUME IInv, NEW p \in Request, pc[p] # "idle"
    PROVE  /\ tx[p] \in Tx /\ tx[p] # NoTx /\ TypeOK /\ TxOK(p)
           /\ tx[p].op \in Saving => tx[p].user \in User
           /\ tx[p].version \in Version /\ tx[p].op \in {"read", "save", "delete"}
           /\ tx[p].began \in Time /\ tx[p].row \in Row \cup {Null}
<1>1. tx[p] \in Tx /\ TypeOK /\ TxOK(p)
    BY DEF IInv, TypeOK, TxOK
<1>2. QED
    BY <1>1, MarkerFacts DEF Tx, Saving, TxOK

Others(p) == \A q \in Request \ {p} : pc'[q] = pc[q] /\ tx'[q] = tx[q]

\* A request takes a step that commits nothing.
LEMMA PrivateStep ==
    ASSUME IInv, NEW p \in Request, TypeOK', Others(p), TxOK(p)',
           UNCHANGED <<schema, column, drafts, disk, running, deploy, migration,
                       moved, since>>,
           Authenticated(p)' => Authenticated(p) \/ ~KeepsReadersOut,
           HasSavedColumn(p)' => HasSavedColumn(p) \/ ~KeepsWritersOut
    PROVE  IInv'
<1>1. \A q \in Request : TxOK(q)'
    BY DEF IInv, TxOK, Others, Authenticated
<1>2. SchemaOK' /\ MovedOK'
    BY DEF IInv, SchemaOK, MovedOK, Upgrading, Downgrading, Copied, Newest, RowsOf
<1>3. LocksOK'
    BY DEF IInv, LocksOK, NobodyInUsers, Others, Authenticated, HasSavedColumn,
           KeepsReadersOut, KeepsWritersOut
<1>4. QED
    BY <1>1, <1>2, <1>3 DEF IInv

\* What the end of a request leaves of it.
LEMMA EndFacts ==
    ASSUME TypeOK, NEW p \in Request, End(p)
    PROVE  /\ pc'[p] = "idle" /\ tx'[p] = NoTx /\ Others(p) /\ TxOK(p)'
           /\ ~Authenticated(p)' /\ ~HasSavedColumn(p)'
           /\ pc' \in [Request -> {"idle", "authenticate", "handle", "stream", "commit"}]
           /\ tx' \in [Request -> Tx \cup {NoTx}]
<1>1. pc'[p] = "idle" /\ tx'[p] = NoTx /\ Others(p)
    BY DEF TypeOK, End, Others
<1>2. QED
    BY <1>1 DEF TypeOK, End, TxOK, Authenticated, HasSavedColumn

LEMMA EndStep ==
    ASSUME IInv, NEW p \in Request, End(p),
           UNCHANGED <<schema, column, drafts, disk, running, deploy, migration,
                       moved, since, now>>
    PROVE  IInv'
<1>1. TypeOK
    BY DEF IInv
<1>2. TypeOK'
    BY <1>1, EndFacts DEF TypeOK
<1>3. QED
    BY <1>1, <1>2, EndFacts, PrivateStep

LEMMA StartStep ==
    ASSUME IInv, NEW p \in Request, Start(p)
    PROVE  IInv'
<1>1. PICK u \in User \cup {Null}, v \in running, op \in Saving \cup {"read"},
           x \in Payload \cup {Null} :
               /\ Begin(p, u, v, op, x)
               /\ op = "save" => x \in Payload
               /\ op \in Saving => u \in User
    BY DEF Start, Saving
<1> DEFINE t == [user |-> u, version |-> v, op |-> op, payload |-> x,
                 row |-> Null, began |-> IF op \in Saving THEN now ELSE 0]
<1>2. TypeOK /\ v \in Version /\ now \in Time /\ 0 \in Time
    BY MigrationsAssumption DEF IInv, TypeOK, Time
<1>3. t \in Tx
    BY <1>2 DEF Tx
<1>4. /\ pc'[p] = "authenticate" /\ tx'[p] = t /\ Others(p)
      /\ tx' = [tx EXCEPT ![p] = t]
    BY <1>1, <1>2 DEF Begin, TypeOK, Others
<1>5. now' \in Time
    BY <1>1, <1>2, MigrationsAssumption DEF Begin, Tick, Time
<1>6. TypeOK'
    BY <1>1, <1>2, <1>3, <1>4, <1>5 DEF TypeOK, Begin
<1>7. TxOK(p)' /\ ~Authenticated(p)' /\ ~HasSavedColumn(p)'
    BY <1>1, <1>3, <1>4, MarkerFacts DEF TxOK, Authenticated, HasSavedColumn
<1>8. QED
    BY <1>1, <1>4, <1>6, <1>7, PrivateStep DEF Begin

\* A request goes on with what it carries.
LEMMA AdvanceStep ==
    ASSUME IInv, NEW p \in Request, pc[p] # "idle",
           NEW next \in {"handle", "stream", "commit"}, pc' = [pc EXCEPT ![p] = next],
           UNCHANGED <<schema, column, drafts, disk, running, deploy, migration,
                       moved, since, now>>,
           NEW row \in Row \cup {Null}, tx' = [tx EXCEPT ![p].row = row],
           tx[p].version = "old" => schema = "0004",
           next = "commit" =>
               /\ tx[p].op \in Saving
               /\ IF tx[p].version = "new" THEN schema = "0005" ELSE ~KeepsWritersOut,
           Authenticated(p) \/ ~KeepsReadersOut
    PROVE  IInv'
<1> DEFINE t == [tx[p] EXCEPT !.row = row]
<1>1. TypeOK /\ TxOK(p) /\ tx[p] \in Tx
    BY TxFacts
<1>2. /\ t \in Tx /\ t.op = tx[p].op /\ t.version = tx[p].version
      /\ t.payload = tx[p].payload /\ t.user = tx[p].user /\ t # NoTx
      /\ tx[p].version \in Version
    BY <1>1, MarkerFacts DEF Tx
<1>3. pc'[p] = next /\ tx'[p] = t /\ Others(p)
    BY <1>1 DEF TypeOK, Others
<1> HIDE DEF t
<1>4. TypeOK'
    BY <1>1, <1>2, <1>3 DEF TypeOK, Others
<1>5. TxOK(p)'
    BY <1>1, <1>2, <1>3 DEF TxOK, Authenticated
<1>6. HasSavedColumn(p)' => ~KeepsWritersOut
    BY <1>2, <1>3 DEF HasSavedColumn
<1>7. QED
    BY <1>3, <1>4, <1>5, <1>6, PrivateStep

LEMMA RequestStep ==
    ASSUME IInv, NEW p \in Request,
           \/ Authenticate(p)
           \/ Read(p)
           \/ SaveColumn(p)
           \/ SaveRow(p)
           \/ FinishDownload(p)
           \/ Abort(p)
    PROVE  IInv'
<1>1. pc[p] # "idle"
    BY DEF Authenticate, Read, SaveColumn, SaveRow, FinishDownload, Abort
<1>2. /\ TypeOK /\ TxOK(p) /\ tx[p] \in Tx /\ tx[p].version \in Version
      /\ tx[p].row \in Row \cup {Null} /\ tx = [tx EXCEPT ![p].row = tx[p].row]
  <2>1. TypeOK /\ TxOK(p) /\ tx[p] \in Tx /\ tx[p].version \in Version
        /\ tx[p].row \in Row \cup {Null}
      BY <1>1, TxFacts
  <2>2. tx[p] = [tx[p] EXCEPT !.row = tx[p].row]
      BY <2>1 DEF Tx
  <2>3. QED
      BY <2>1, <2>2 DEF TypeOK
<1>3. CASE End(p)
    BY <1>3, EndStep
    DEF Authenticate, Read, SaveColumn, SaveRow, FinishDownload, Abort
<1>4. CASE Authenticate(p) /\ ~End(p)
    BY <1>1, <1>2, <1>4, AdvanceStep DEF Authenticate, TypeOK
<1>5. CASE Read(p) /\ ~End(p)
    BY <1>1, <1>2, <1>5, AdvanceStep DEF Read, TxOK, Authenticated
<1>6. CASE SaveColumn(p)
    BY <1>1, <1>2, <1>6, AdvanceStep DEF SaveColumn, TxOK, Authenticated
<1>7. CASE SaveRow(p) /\ ~End(p)
  <2>1. PICK d \in RowsOf(tx[p].user) \cup {Null} :
            /\ tx' = [tx EXCEPT ![p].row = d]
            /\ pc' = [pc EXCEPT ![p] = "commit"]
      BY <1>7 DEF SaveRow
  <2>2. d \in Row \cup {Null} /\ schema = "0005"
      BY <1>2, <1>7 DEF SaveRow, RowsOf, TypeOK
  <2>3. QED
      BY <1>1, <1>2, <1>7, <2>1, <2>2, AdvanceStep DEF SaveRow, Authenticated
<1>8. QED
    BY <1>3, <1>4, <1>5, <1>6, <1>7 DEF FinishDownload, Abort

\* A draft is committed where the migration is not, or waits.
LEMMA CommitColumnStep ==
    ASSUME IInv, NEW p \in Request, CommitColumn(p)
    PROVE  IInv'
<1>1. /\ TypeOK /\ TxOK(p) /\ tx[p].user \in User /\ tx[p].began \in Time
      /\ tx[p].op \in {"save", "delete"} /\ HasSavedColumn(p) /\ Authenticated(p)
      /\ schema = "0004" /\ (tx[p].op = "save" => tx[p].payload \in Payload)
    BY TxFacts DEF CommitColumn, HasSavedColumn, Authenticated, TxOK, Saving
<1>2. migration \in {"none", "create", "add"}
    BY <1>1 DEF IInv, TypeOK, LocksOK, NobodyInUsers
<1>3. TypeOK'
  <2>1. column' \in [User -> Column \cup {Null}]
      BY <1>1 DEF CommitColumn, TypeOK, Column
  <2>2. QED
      BY <1>1, <2>1, EndFacts DEF CommitColumn, TypeOK
<1>4. Others(p) /\ TxOK(p)' /\ ~Authenticated(p)' /\ ~HasSavedColumn(p)'
    BY <1>1, EndFacts DEF CommitColumn
<1>5. \A q \in Request : TxOK(q)'
    BY <1>4 DEF IInv, TxOK, Others, Authenticated, CommitColumn
<1>6. SchemaOK'
    BY <1>1 DEF IInv, SchemaOK, CommitColumn, Upgrading, Downgrading
<1>7. LocksOK' /\ MovedOK'
    BY <1>2 DEF LocksOK, MovedOK, CommitColumn
<1>8. QED
    BY <1>3, <1>5, <1>6, <1>7 DEF IInv

LEMMA CommitRowStep ==
    ASSUME IInv, NEW p \in Request, CommitRow(p)
    PROVE  IInv'
<1>1. /\ TypeOK /\ TxOK(p) /\ tx[p].user \in User /\ tx[p].began \in Time
      /\ tx[p].op \in {"save", "delete"} /\ Authenticated(p)
      /\ schema = "0005" /\ (tx[p].op = "save" => tx[p].payload \in Payload)
    BY TxFacts DEF CommitRow, Authenticated, TxOK, Saving
<1>2. migration \in {"none", "add"}
    BY <1>1 DEF IInv, TypeOK, LocksOK, NobodyInUsers, SchemaOK, Upgrading
<1>3. TypeOK'
  <2>1. tx[p].op = "save" => [user |-> tx[p].user, at |-> tx[p].began,
                              payload |-> tx[p].payload] \in Row
      BY <1>1 DEF Row
  <2>2. drafts' \subseteq Row
      BY <1>1, <2>1 DEF CommitRow, TypeOK
  <2>3. QED
      BY <1>1, <2>2, EndFacts DEF CommitRow, TypeOK
<1>4. Others(p) /\ TxOK(p)'
    BY <1>1, EndFacts DEF CommitRow
<1>5. \A q \in Request : TxOK(q)'
    BY <1>4 DEF IInv, TxOK, Others, Authenticated, CommitRow
<1>6. SchemaOK'
    BY <1>1, <1>2 DEF IInv, SchemaOK, CommitRow, Upgrading, Downgrading
<1>7. LocksOK' /\ MovedOK'
    BY <1>2 DEF LocksOK, MovedOK, CommitRow
<1>8. QED
    BY <1>3, <1>5, <1>6, <1>7 DEF IInv
-----------------------------------------------------------------------------
(***************************************************************************)
(* The migration.                                                          *)
(***************************************************************************)

\* Requests stay where they are.
LEMMA RequestsStay ==
    ASSUME IInv, UNCHANGED <<schema, pc, tx>>
    PROVE  \A p \in Request : TxOK(p)'
BY DEF IInv, TxOK, Authenticated

LEMMA CopiedFacts ==
    ASSUME TypeOK, NEW u \in User, column[u] # Null
    PROVE  /\ Copied(u) \in Row /\ Copied(u).user = u
           /\ Copied(u).payload = column[u].payload
           /\ column[u].at \in {Copied(u).at, Null}
<1>1. column[u] \in Column /\ since \in Time
    BY DEF TypeOK
<1>2. QED
    BY <1>1 DEF Copied, Row, Column

LEMMA UpgradeStep ==
    ASSUME IInv, CreateTable \/ Backfill \/ DropColumns
    PROVE  IInv'
<1>1. /\ TypeOK /\ \A p \in Request : TxOK(p)'
    BY RequestsStay DEF IInv, CreateTable, Backfill, DropColumns, Step
<1>2. moved' \subseteq Row
  <2>1. CASE Backfill
    <3>1. moved' = {Copied(u) : u \in {v \in User : column[v] # Null}}
        BY <2>1 DEF Backfill, Copied
    <3>2. QED
        BY <1>1, <3>1, CopiedFacts
  <2>2. CASE CreateTable \/ DropColumns
      BY <1>1, <2>2 DEF CreateTable, DropColumns, TypeOK
  <2>3. QED
      BY <2>1, <2>2
<1>3. TypeOK'
    BY <1>1, <1>2 DEF TypeOK, CreateTable, Backfill, DropColumns, Step
<1>4. SchemaOK'
    BY DEF IInv, SchemaOK, CreateTable, Backfill, DropColumns, Step, Upgrading,
           Downgrading
<1>5. LocksOK'
    BY DEF IInv, LocksOK, CreateTable, Backfill, DropColumns, Step, NobodyInUsers,
           HasSavedColumn, Authenticated
<1>6. MovedOK'
    BY DEF IInv, MovedOK, CreateTable, Backfill, DropColumns, Step, Copied
<1>7. QED
    BY <1>1, <1>3, <1>4, <1>5, <1>6 DEF IInv

LEMMA CommitUpgradeStep ==
    ASSUME IInv, CommitUpgrade
    PROVE  IInv'
<1>1. TypeOK /\ NobodyInUsers
    BY DEF IInv, LocksOK, CommitUpgrade
<1>2. TypeOK'
    BY <1>1 DEF TypeOK, CommitUpgrade
<1>3. \A p \in Request : TxOK(p)'
    BY <1>1 DEF IInv, TxOK, NobodyInUsers, Authenticated, CommitUpgrade
<1>4. SchemaOK' /\ LocksOK' /\ MovedOK'
    BY DEF SchemaOK, LocksOK, MovedOK, CommitUpgrade, Upgrading, Downgrading
<1>5. QED
    BY <1>2, <1>3, <1>4 DEF IInv

\* DISTINCT ON picks a newest draft of each account that has one.
LEMMA RestoreFacts ==
    ASSUME Restore, NEW u \in User
    PROVE  /\ \A d \in moved' : d.user = u => d \in Newest(u)
           /\ RowsOf(u) # {} => \E d \in moved' : d.user = u
<1>1. /\ moved' \subseteq UNION {Newest(v) : v \in User}
      /\ Cardinality(moved' \cap Newest(u)) = IF RowsOf(u) = {} THEN 0 ELSE 1
    BY DEF Restore
<1>2. \A v \in User : \A d \in Newest(v) : d.user = v
    BY DEF Newest, RowsOf
<1>3. ASSUME RowsOf(u) # {}
      PROVE  moved' \cap Newest(u) # {}
    BY <1>1, <1>3, FS_EmptySet
<1>4. QED
    BY <1>1, <1>2, <1>3

LEMMA DowngradeStep ==
    ASSUME IInv, AddColumns \/ Restore
    PROVE  IInv'
<1>1. /\ TypeOK /\ \A p \in Request : TxOK(p)'
    BY RequestsStay DEF IInv, AddColumns, Restore, Step
<1>2. moved' \subseteq Row
  <2>1. CASE Restore
      BY <1>1, <2>1 DEF Restore, Newest, RowsOf, TypeOK
  <2>2. CASE AddColumns
      BY <1>1, <2>2 DEF AddColumns, TypeOK
  <2>3. QED
      BY <2>1, <2>2
<1>3. TypeOK'
    BY <1>1, <1>2 DEF TypeOK, AddColumns, Restore, Step
<1>4. SchemaOK'
    BY DEF IInv, SchemaOK, AddColumns, Restore, Step, Upgrading, Downgrading
<1>5. LocksOK'
    BY DEF IInv, LocksOK, AddColumns, Restore, Step, NobodyInUsers, Authenticated
<1>6. MovedOK'
  <2>1. \A u \in User : Newest(u)' = Newest(u) /\ RowsOf(u)' = RowsOf(u)
      BY DEF Newest, RowsOf, AddColumns, Restore, Step
  <2>2. CASE Restore
      BY <2>1, <2>2, RestoreFacts DEF MovedOK, Restore, Step
  <2>3. CASE AddColumns
      BY <2>3 DEF MovedOK, AddColumns, Step
  <2>4. QED
      BY <2>2, <2>3
<1>7. QED
    BY <1>1, <1>3, <1>4, <1>5, <1>6 DEF IInv

\* What the column gets is a copy of a newest draft.
LEMMA CommitDowngradeFacts ==
    ASSUME IInv, CommitDowngrade, NEW u \in User
    PROVE  IF RowsOf(u) = {} THEN column'[u] = Null
           ELSE \E d \in RowsOf(u) :
                    /\ column'[u] = [payload |-> d.payload, at |-> d.at]
                    /\ \A e \in RowsOf(u) : e.at <= d.at
<1> DEFINE S == {[payload |-> d.payload, at |-> d.at] :
                     d \in {e \in moved : e.user = u}}
<1>1. column'[u] = IF RowsOf(u) = {} THEN Null ELSE CHOOSE c \in S : TRUE
    BY DEF CommitDowngrade
<1>2. CASE RowsOf(u) # {}
  <2>1. \E d \in moved : d.user = u
      BY <1>2 DEF IInv, MovedOK, CommitDowngrade
  <2>2. S # {}
      BY <2>1
  <2>3. column'[u] \in S
      BY <1>1, <1>2, <2>2
  <2>4. PICK d \in moved : /\ d.user = u
                           /\ column'[u] = [payload |-> d.payload, at |-> d.at]
      BY <2>3
  <2>5. d \in Newest(u)
      BY <2>4 DEF IInv, MovedOK, CommitDowngrade
  <2>6. QED
      BY <1>2, <2>4, <2>5 DEF Newest
<1>3. QED
    BY <1>1, <1>2

LEMMA CommitDowngradeStep ==
    ASSUME IInv, CommitDowngrade
    PROVE  IInv'
<1>1. TypeOK /\ NobodyInUsers
    BY DEF IInv, LocksOK, CommitDowngrade
<1>2. ASSUME NEW u \in User
      PROVE  column'[u] \in Column \cup {Null}
  <2>1. \A d \in RowsOf(u) : [payload |-> d.payload, at |-> d.at] \in Column
      BY <1>1 DEF RowsOf, TypeOK, Row, Column
  <2>2. QED
      BY <2>1, CommitDowngradeFacts
<1>3. column' \in [User -> Column \cup {Null}]
  <2>1. column' = [u \in User |-> column'[u]]
      BY DEF CommitDowngrade
  <2>2. QED
      BY <1>2, <2>1
<1>4. TypeOK'
    BY <1>1, <1>3 DEF TypeOK, CommitDowngrade
<1>5. \A p \in Request : TxOK(p)'
    BY <1>1 DEF IInv, TxOK, NobodyInUsers, Authenticated, CommitDowngrade
<1>6. SchemaOK' /\ LocksOK' /\ MovedOK'
    BY DEF SchemaOK, LocksOK, MovedOK, CommitDowngrade, Upgrading, Downgrading
<1>7. QED
    BY <1>4, <1>5, <1>6 DEF IInv

LEMMA FailStep ==
    ASSUME IInv, Fail
    PROVE  IInv'
<1>1. TypeOK' /\ SchemaOK' /\ LocksOK' /\ MovedOK'
    BY DEF IInv, TypeOK, SchemaOK, LocksOK, MovedOK, Fail, Upgrading, Downgrading
<1>2. \A p \in Request : TxOK(p)'
    BY RequestsStay DEF Fail
<1>3. QED
    BY <1>1, <1>2 DEF IInv

LEMMA DeployStep ==
    ASSUME IInv, Deploy \/ Downgrade \/ PutBack \/ Recycle
    PROVE  IInv'
<1>1. TypeOK /\ \A p \in Request : TxOK(p)'
    BY RequestsStay DEF IInv, Deploy, Downgrade, PutBack, Recycle
<1>2. now < MaxTime => now + 1 \in Time
    BY <1>1, MigrationsAssumption DEF TypeOK, Time
<1>3. TypeOK'
    BY <1>1, <1>2 DEF TypeOK, Deploy, Downgrade, PutBack, Recycle, Version, Tick
<1>4. SchemaOK'
    BY <1>1 DEF IInv, TypeOK, SchemaOK, Deploy, Downgrade, PutBack, Recycle,
                Upgrading, Downgrading
<1>5. LocksOK'
    BY DEF IInv, LocksOK, Deploy, Downgrade, PutBack, Recycle, NobodyInUsers,
           Authenticated, HasSavedColumn
<1>6. MovedOK'
    BY DEF IInv, MovedOK, Deploy, Downgrade, PutBack, Recycle, Copied, Newest, RowsOf
<1>7. QED
    BY <1>1, <1>3, <1>4, <1>5, <1>6 DEF IInv

LEMMA RestartStep ==
    ASSUME IInv, Restart
    PROVE  IInv'
<1>1. TypeOK'
    BY DEF IInv, TypeOK, Restart
<1>2. /\ \A p \in Request : pc'[p] = "idle" /\ tx'[p] = NoTx
      /\ UNCHANGED <<schema, column, drafts, disk, migration, moved, since, now>>
    BY DEF Restart
<1>3. (\A p \in Request : TxOK(p)') /\ LocksOK'
    BY <1>2 DEF TxOK, LocksOK, NobodyInUsers, Authenticated, HasSavedColumn
<1>4. SchemaOK' /\ MovedOK'
    BY <1>2 DEF IInv, SchemaOK, MovedOK, Upgrading, Downgrading, Copied, Newest, RowsOf
<1>5. QED
    BY <1>1, <1>3, <1>4 DEF IInv
-----------------------------------------------------------------------------
LEMMA InitStep == Init => IInv
<1>1. SUFFICES ASSUME Init
               PROVE  IInv
    OBVIOUS
<1>2. column \in [User -> Column \cup {Null}]
    BY <1>1 DEF Init, Column
<1>3. TypeOK
    BY <1>1, <1>2, MigrationsAssumption DEF Init, TypeOK, Time, Version
<1>4. \A p \in Request : TxOK(p)
    BY <1>1 DEF Init, TxOK, Authenticated
<1>5. SchemaOK /\ LocksOK /\ MovedOK
    BY <1>1 DEF Init, SchemaOK, LocksOK, MovedOK, Upgrading, Downgrading
<1>6. QED
    BY <1>3, <1>4, <1>5 DEF IInv

LEMMA NextStep == IInv /\ [Next]_vars => IInv'
<1>1. SUFFICES ASSUME IInv, [Next]_vars
               PROVE  IInv'
    OBVIOUS
<1>2. CASE UNCHANGED vars
    BY <1>1, <1>2
    DEF vars, IInv, TypeOK, SchemaOK, TxOK, LocksOK, MovedOK, Upgrading, Downgrading,
        NobodyInUsers, Authenticated, HasSavedColumn, Copied, Newest, RowsOf
<1>3. ASSUME NEW p \in Request,
             Start(p) \/ Proceed(p) \/ FinishDownload(p) \/ Abort(p)
      PROVE  IInv'
    BY <1>1, <1>3, StartStep, RequestStep, CommitColumnStep, CommitRowStep DEF Proceed
<1>4. CASE Migrate \/ Fail
    BY <1>1, <1>4, UpgradeStep, CommitUpgradeStep, DowngradeStep,
       CommitDowngradeStep, FailStep DEF Migrate
<1>5. CASE Deploy \/ Restart \/ Recycle \/ Downgrade \/ PutBack
    BY <1>1, <1>5, DeployStep, RestartStep
<1>6. QED
    BY <1>1, <1>2, <1>3, <1>4, <1>5 DEF Next

LEMMA Invariance == Spec => []IInv
BY InitStep, NextStep, PTL DEF Spec

\* The revision changes only when a migration commits.
LEMMA SchemaChanges ==
    ASSUME Next, schema' # schema
    PROVE  CommitUpgrade \/ CommitDowngrade
<1>1. CASE \E p \in Request :
               Start(p) \/ Proceed(p) \/ FinishDownload(p) \/ Abort(p)
    BY <1>1
    DEF Start, Begin, Proceed, Authenticate, Read, SaveColumn, SaveRow,
        FinishDownload, CommitColumn, CommitRow, Abort
<1>2. CASE Migrate \/ Fail
    BY <1>2 DEF Migrate, Fail, Step, CreateTable, Backfill, DropColumns, AddColumns,
                Restore
<1>3. CASE Deploy \/ Restart \/ Recycle \/ Downgrade \/ PutBack
    BY <1>3 DEF Deploy, Restart, Recycle, Downgrade, PutBack
<1>4. QED
    BY <1>1, <1>2, <1>3 DEF Next

\* Each account's draft is its only row when the upgrade commits.
LEMMA CommitUpgradeFacts ==
    ASSUME IInv, CommitUpgrade, NEW u \in User
    PROVE  IF column[u] = Null THEN RowsOf(u)' = {}
           ELSE \E d \in Row : /\ RowsOf(u)' = {d}
                              /\ d.payload = column[u].payload
                              /\ column[u].at \in {d.at, Null}
<1>1. /\ TypeOK /\ drafts' = moved
      /\ moved = {Copied(v) : v \in {w \in User : column[w] # Null}}
    BY DEF IInv, MovedOK, CommitUpgrade
<1>2. \A v \in User : column[v] # Null => Copied(v).user = v
    BY <1>1, CopiedFacts
<1>3. CASE column[u] = Null
    BY <1>1, <1>2, <1>3 DEF RowsOf
<1>4. CASE column[u] # Null
  <2>1. RowsOf(u)' = {Copied(u)}
      BY <1>1, <1>2, <1>4 DEF RowsOf
  <2>2. QED
      BY <1>1, <1>4, <2>1, CopiedFacts
<1>5. QED
    BY <1>3, <1>4
-----------------------------------------------------------------------------
\* Every variable keeps its type, whatever fails and whoever is restarted.
THEOREM TypeCorrect == Spec => []TypeOK
BY Invariance, PTL DEF IInv

\* The upgrade loses no draft and makes none up, however many requests of
\* either version run beside it: between the copy and the commit, the locks
\* keep every save of the old code out.
THEOREM UpgradeIsFaithful == Spec => UpgradeKeepsDrafts
<1>1. IInv /\ [Next]_vars =>
          [schema = "0004" /\ schema' = "0005" =>
               \A u \in User :
                   IF column[u] = Null THEN RowsOf(u)' = {}
                   ELSE \E d \in Row : /\ RowsOf(u)' = {d}
                                      /\ d.payload = column[u].payload
                                      /\ column[u].at \in {d.at, Null}]_vars
    BY SchemaChanges, CommitUpgradeFacts DEF CommitDowngrade
<1>2. QED
    BY <1>1, Invariance, PTL DEF Spec, UpgradeKeepsDrafts

\* The downgrade copies back a newest draft of each account, as they are when
\* it commits: nobody saves or deletes one while it runs.
THEOREM DowngradeIsFaithful == Spec => DowngradeKeepsNewest
<1>1. IInv /\ [Next]_vars =>
          [schema = "0005" /\ schema' = "0004" =>
               \A u \in User :
                   IF RowsOf(u) = {} THEN column'[u] = Null
                   ELSE \E d \in RowsOf(u) :
                            /\ column'[u] = [payload |-> d.payload, at |-> d.at]
                            /\ \A e \in RowsOf(u) : e.at <= d.at]_vars
    BY SchemaChanges, CommitDowngradeFacts DEF CommitUpgrade
<1>2. QED
    BY <1>1, Invariance, PTL DEF Spec, DowngradeKeepsNewest
=============================================================================
