----------------------------- MODULE Migrations -----------------------------
(***************************************************************************)
(* Revision 0005 moves each account's draft from the column users.draft to *)
(* the table drafts, and back (src/alembic).  The whole migration is one   *)
(* transaction, which scripts/deploy.sh runs beside the old code: the new  *)
(* files are in place before it, the restart comes after it, and a worker  *)
(* that gunicorn recycles in between already loads the new files.          *)
(*                                                                         *)
(* Requests and migration meet at the locks of table users.  In PostgreSQL *)
(* a SELECT takes ACCESS SHARE, an UPDATE or a DELETE ROW EXCLUSIVE, a new *)
(* foreign key to the table SHARE ROW EXCLUSIVE and ALTER TABLE ACCESS     *)
(* EXCLUSIVE, all until the end of the transaction.                        *)
(***************************************************************************)
EXTENDS Integers, FiniteSets

CONSTANTS
    User,          \* accounts
    Payload,       \* contents of a draft
    Request,       \* request slots of the server
    MaxTime,       \* bound: how many saves and migrations begin in a run
    Null,          \* SQL NULL; no draft
    NoTx           \* the request slot is free

VARIABLES
    schema,        \* committed revision
    column,        \* committed users.draft and users.draft_updated_at
    drafts,        \* committed rows of table drafts
    disk,          \* the version of the code in /opt/softtarget
    running,       \* the versions that workers run
    deploy,        \* where scripts/deploy.sh is
    migration,     \* next statement of the migration
    moved,         \* what the migration has copied, not yet committed
    since,         \* when its transaction began: NOW()
    now,           \* the database clock
    pc, tx         \* next step of each request, and what it carries

vars == <<schema, column, drafts, disk, running, deploy, migration, moved,
          since, now, pc, tx>>

Version == {"old", "new"}
Time == 0..MaxTime
Column == [payload : Payload, at : Time \cup {Null}]
Row == [user : User, payload : Payload, at : Time]

\* Requests that change a draft of their account.
Saving == {"save", "delete"}

\* user and payload are Null unless a request saves; row is the draft that
\* the new code replaces or deletes.
Tx == [user : User \cup {Null}, version : Version, op : Saving \cup {"read"},
       payload : Payload \cup {Null}, row : Row \cup {Null}, began : Time]

ASSUME MigrationsAssumption ==
    /\ MaxTime \in Nat
    /\ Null \notin User \cup Payload \cup Time \cup Column \cup Row
    /\ NoTx \notin Tx

-----------------------------------------------------------------------------
RowsOf(u) == {d \in drafts : d.user = u}

\* The transaction has read users: it holds ACCESS SHARE on it.
Authenticated(p) == pc[p] \in {"handle", "stream", "commit"}

\* It has updated a row of users: it holds ROW EXCLUSIVE on it.
HasSavedColumn(p) ==
    pc[p] = "commit" /\ tx[p].version = "old"

NobodyInUsers == \A p \in Request : ~Authenticated(p)

\* Statements of the migration that hold, or wait for, ACCESS EXCLUSIVE on
\* users; nobody overtakes one that waits.
KeepsReadersOut ==
    migration \in {"drop", "commit_upgrade", "add", "restore", "commit_downgrade"}

\* Statements that hold, or wait for, SHARE ROW EXCLUSIVE on users or more.
KeepsWritersOut == migration \in {"create", "backfill"} \/ KeepsReadersOut

\* A save of the old code waits for the migration, which waits for it.
Deadlock(p) ==
    /\ migration = "drop" /\ pc[p] = "handle"
    /\ tx[p].version = "old" /\ tx[p].op \in Saving

End(p) ==
    /\ pc' = [pc EXCEPT ![p] = "idle"]
    /\ tx' = [tx EXCEPT ![p] = NoTx]

-----------------------------------------------------------------------------
(***************************************************************************)
(* Requests of either version (the old one is known by what 0005 makes of  *)
(* its columns).                                                           *)
(***************************************************************************)

Tick == now < MaxTime /\ now' = now + 1

\* Any number of requests that store nothing may arrive: the date at which
\* they begin is of no consequence.
Begin(p, u, v, op, x) ==
    /\ pc[p] = "idle"
    /\ IF op \in Saving THEN Tick ELSE UNCHANGED now
    /\ tx' = [tx EXCEPT ![p] = [user |-> u, version |-> v, op |-> op,
                                payload |-> x, row |-> Null,
                                began |-> IF op \in Saving THEN now ELSE 0]]
    /\ pc' = [pc EXCEPT ![p] = "authenticate"]
    /\ UNCHANGED <<schema, column, drafts, disk, running, deploy, migration,
                   moved, since>>

\* get_current_user: SELECT the account.  The old code asks for the columns
\* too, and fails without them.
Authenticate(p) ==
    /\ pc[p] = "authenticate" /\ ~KeepsReadersOut
    /\ IF tx[p].version = "old" /\ schema = "0005"
       THEN End(p)
       ELSE pc' = [pc EXCEPT ![p] = "handle"] /\ UNCHANGED tx
    /\ UNCHANGED <<schema, column, drafts, disk, running, deploy, migration,
                   moved, since, now>>

\* Requests that store no draft: some of them answer with a file.
Read(p) ==
    /\ pc[p] = "handle" /\ tx[p].op = "read"
    /\ End(p) \/ (pc' = [pc EXCEPT ![p] = "stream"] /\ UNCHANGED tx)
    /\ UNCHANGED <<schema, column, drafts, disk, running, deploy, migration,
                   moved, since, now>>

\* The client has read the file.  Until then the transaction stays open
\* (get_session), and nothing limits how long that may be.
FinishDownload(p) ==
    /\ pc[p] = "stream"
    /\ End(p)
    /\ UNCHANGED <<schema, column, drafts, disk, running, deploy, migration,
                   moved, since, now>>

\* The old code updates the account's row.
SaveColumn(p) ==
    /\ pc[p] = "handle" /\ tx[p].op \in Saving /\ tx[p].version = "old"
    /\ ~KeepsWritersOut
    /\ \A q \in Request : HasSavedColumn(q) => tx[q].user # tx[p].user
    /\ pc' = [pc EXCEPT ![p] = "commit"]
    /\ UNCHANGED <<schema, column, drafts, disk, running, deploy, migration,
                   moved, since, now, tx>>

\* The new code inserts a draft (row Null), or replaces or deletes one.
\* Without the table, or the row, it fails.
SaveRow(p) ==
    /\ pc[p] = "handle" /\ tx[p].op \in Saving /\ tx[p].version = "new"
    /\ IF schema = "0004" \/ (tx[p].op = "delete" /\ RowsOf(tx[p].user) = {})
       THEN End(p)
       ELSE \E d \in RowsOf(tx[p].user) \cup {Null} :
                /\ d = Null => tx[p].op = "save"
                /\ \A q \in Request : pc[q] = "commit" /\ d # Null => tx[q].row # d
                /\ tx' = [tx EXCEPT ![p].row = d]
                /\ pc' = [pc EXCEPT ![p] = "commit"]
    /\ UNCHANGED <<schema, column, drafts, disk, running, deploy, migration,
                   moved, since, now>>

CommitColumn(p) ==
    /\ HasSavedColumn(p)
    /\ column' = [column EXCEPT ![tx[p].user] =
           IF tx[p].op = "delete" THEN Null
           ELSE [payload |-> tx[p].payload, at |-> tx[p].began]]
    /\ End(p)
    /\ UNCHANGED <<schema, drafts, disk, running, deploy, migration, moved, since, now>>

\* A row that is gone by now is neither replaced nor deleted.
CommitRow(p) ==
    /\ pc[p] = "commit" /\ tx[p].version = "new"
    /\ drafts' = IF tx[p].row \notin drafts \cup {Null} THEN drafts
                 ELSE (drafts \ {tx[p].row})
                      \cup (IF tx[p].op = "delete" THEN {}
                            ELSE {[user |-> tx[p].user, at |-> tx[p].began,
                                   payload |-> tx[p].payload]})
    /\ End(p)
    /\ UNCHANGED <<schema, column, disk, running, deploy, migration, moved, since, now>>

\* An exception, a lost worker, or PostgreSQL breaking the deadlock.
Abort(p) ==
    /\ pc[p] # "idle" /\ End(p)
    /\ UNCHANGED <<schema, column, drafts, disk, running, deploy, migration,
                   moved, since, now>>

-----------------------------------------------------------------------------
(***************************************************************************)
(* The migration.                                                          *)
(***************************************************************************)

Step(statement, next) ==
    /\ migration = statement
    /\ migration' = next
    /\ UNCHANGED <<schema, column, drafts, disk, running, deploy, since, now, pc, tx>>

\* Mutant of CreateTable: without the foreign key nobody is waited for.
CreateTableWithoutKey == Step("create", "backfill") /\ UNCHANGED moved

\* upgrade, first statement: the foreign key waits for those who have
\* updated users, and from here on nobody else does.
CreateTable ==
    /\ \A p \in Request : ~HasSavedColumn(p)
    /\ Step("create", "backfill")
    /\ UNCHANGED moved

\* Mutant of Backfill: without COALESCE.
BackfillUndated ==
    /\ Step("backfill", "drop")
    /\ moved' = {[user |-> u, payload |-> column[u].payload, at |-> column[u].at] :
                     u \in {v \in User : column[v] # Null}}

\* INSERT ... SELECT: a row for every draft that is not NULL, dated by
\* draft_updated_at or else by NOW().
Backfill ==
    /\ Step("backfill", "drop")
    /\ moved' = {[user |-> u, payload |-> column[u].payload,
                  at |-> IF column[u].at = Null THEN since ELSE column[u].at] :
                     u \in {v \in User : column[v] # Null}}

\* DROP COLUMN waits for everybody who has read users.
DropColumns ==
    /\ NobodyInUsers
    /\ Step("drop", "commit_upgrade")
    /\ UNCHANGED moved

\* Alembic commits, and deploy.sh goes on.
CommitUpgrade ==
    /\ migration = "commit_upgrade"
    /\ schema' = "0005"
    /\ drafts' = moved
    /\ column' = [u \in User |-> Null]
    /\ migration' = "none" /\ moved' = {}
    /\ deploy' = "restart"
    /\ UNCHANGED <<disk, running, since, now, pc, tx>>

\* downgrade, first statement: ADD COLUMN waits for everybody.
AddColumns ==
    /\ NobodyInUsers
    /\ Step("add", "restore")
    /\ UNCHANGED moved

Newest(u) == {d \in RowsOf(u) : \A e \in RowsOf(u) : e.at <= d.at}
Oldest(u) == {d \in RowsOf(u) : \A e \in RowsOf(u) : d.at <= e.at}

\* Mutant of Restore: ORDER BY updated_at without DESC.
RestoreOldest ==
    /\ Step("restore", "commit_downgrade")
    /\ moved' \in {m \in SUBSET UNION {Oldest(u) : u \in User} :
                      \A u \in User : Cardinality(m \cap Oldest(u)) =
                          IF RowsOf(u) = {} THEN 0 ELSE 1}

\* UPDATE ... FROM (SELECT DISTINCT ON (user_id) ... ORDER BY updated_at DESC).
Restore ==
    /\ Step("restore", "commit_downgrade")
    /\ moved' \in {m \in SUBSET UNION {Newest(u) : u \in User} :
                      \A u \in User : Cardinality(m \cap Newest(u)) =
                          IF RowsOf(u) = {} THEN 0 ELSE 1}

\* The table is gone with the commit.
CommitDowngrade ==
    /\ migration = "commit_downgrade"
    /\ schema' = "0004"
    /\ column' = [u \in User |->
           IF RowsOf(u) = {} THEN Null
           ELSE CHOOSE c \in {[payload |-> d.payload, at |-> d.at] :
                                  d \in {e \in moved : e.user = u}} : TRUE]
    /\ drafts' = {}
    /\ migration' = "none" /\ moved' = {}
    /\ UNCHANGED <<disk, running, deploy, since, now, pc, tx>>

\* Mutant of Fail: deploy.sh goes on and tries again by itself.
FailRetried ==
    /\ migration # "none" /\ deploy = "migrate"
    /\ migration' = "create" /\ moved' = {}
    /\ UNCHANGED <<schema, column, drafts, disk, running, deploy, since, now, pc, tx>>

\* An error, a lost connection, or PostgreSQL breaking the deadlock: all of
\* it is rolled back, and deploy.sh stops (set -e).
Fail ==
    /\ migration # "none"
    /\ migration' = "none" /\ moved' = {}
    /\ deploy' = "failed"
    /\ UNCHANGED <<schema, column, drafts, disk, running, since, now, pc, tx>>

BreakDeadlock ==
    \E p \in Request : Deadlock(p) /\ (Fail \/ Abort(p))

-----------------------------------------------------------------------------
(***************************************************************************)
(* Deployment.                                                             *)
(***************************************************************************)

\* rsync, then alembic upgrade head, which has nothing to do at 0005.
Deploy ==
    /\ deploy \in {"none", "done", "failed"} /\ migration = "none"
    /\ Tick /\ since' = now
    /\ disk' = "new"
    /\ IF schema = "0004" THEN migration' = "create" /\ deploy' = "migrate"
                          ELSE UNCHANGED migration /\ deploy' = "restart"
    /\ UNCHANGED <<schema, column, drafts, running, moved, pc, tx>>

\* systemctl restart: requests in flight are lost.
Restart ==
    /\ deploy = "restart"
    /\ deploy' = "done"
    /\ running' = {disk}
    /\ pc' = [p \in Request |-> "idle"]
    /\ tx' = [p \in Request |-> NoTx]
    /\ UNCHANGED <<schema, column, drafts, disk, migration, moved, since, now>>

\* max_requests: a worker is replaced by one that loads the files on disk.
Recycle ==
    /\ running' \in {running \cup {disk}, {disk}}
    /\ UNCHANGED <<schema, column, drafts, disk, deploy, migration, moved,
                   since, now, pc, tx>>

\* alembic downgrade -1, by hand.
Downgrade ==
    /\ deploy \in {"done", "failed"} /\ migration = "none" /\ schema = "0005"
    /\ Tick /\ since' = now
    /\ migration' = "add"
    /\ UNCHANGED <<schema, column, drafts, disk, running, deploy, moved, pc, tx>>

\* The old code is put back, by hand, to be restarted.
PutBack ==
    /\ deploy \in {"done", "failed"} /\ migration = "none" /\ schema = "0004"
    /\ disk' = "old" /\ deploy' = "restart"
    /\ UNCHANGED <<schema, column, drafts, running, migration, moved, since, now, pc,
                   tx>>

-----------------------------------------------------------------------------
\* The old code runs on drafts that may have no date.
Init ==
    /\ schema = "0004"
    /\ column \in [User -> {Null} \cup [payload : Payload, at : {Null}]]
    /\ drafts = {}
    /\ disk = "old" /\ running = {"old"} /\ deploy = "none"
    /\ migration = "none" /\ moved = {}
    /\ since = 0 /\ now = 0
    /\ pc = [p \in Request |-> "idle"]
    /\ tx = [p \in Request |-> NoTx]

Start(p) ==
    \E v \in running :
        \/ Begin(p, Null, v, "read", Null)
        \/ \E u \in User : \/ Begin(p, u, v, "delete", Null)
                           \/ \E x \in Payload : Begin(p, u, v, "save", x)

Proceed(p) ==
    \/ Authenticate(p) \/ Read(p) \/ SaveColumn(p) \/ SaveRow(p)
    \/ CommitColumn(p) \/ CommitRow(p)

Migrate ==
    \/ CreateTable \/ Backfill \/ DropColumns \/ CommitUpgrade
    \/ AddColumns \/ Restore \/ CommitDowngrade

Next ==
    \/ \E p \in Request : Start(p) \/ Proceed(p) \/ FinishDownload(p) \/ Abort(p)
    \/ Migrate \/ Fail
    \/ Deploy \/ Restart \/ Recycle \/ Downgrade \/ PutBack

\* PostgreSQL and the servers go on: statements that can run do, and a
\* deadlock is broken.  Clients need not read what they have asked for.
Spec == /\ Init /\ [][Next]_vars
        /\ WF_vars(Migrate) /\ WF_vars(BreakDeadlock)
        /\ \A p \in Request : WF_vars(Proceed(p))

-----------------------------------------------------------------------------
\* Every variable keeps its type.
TypeOK ==
    /\ schema \in {"0004", "0005"}
    /\ column \in [User -> Column \cup {Null}]
    /\ drafts \subseteq Row /\ moved \subseteq Row
    /\ disk \in Version /\ running \in (SUBSET Version) \ {{}}
    /\ deploy \in {"none", "migrate", "restart", "done", "failed"}
    /\ migration \in {"none", "create", "backfill", "drop", "commit_upgrade",
                      "add", "restore", "commit_downgrade"}
    /\ since \in Time /\ now \in Time
    /\ pc \in [Request -> {"idle", "authenticate", "handle", "stream", "commit"}]
    /\ tx \in [Request -> Tx \cup {NoTx}]

\* "existing single drafts come across as one entry per user, no work lost"
\* (DRAFTS_UPDATE.md): at the moment the upgrade commits, each account's
\* draft is its only row, a save that the old code committed while the
\* migration was running included.
UpgradeKeepsDrafts ==
    [][schema = "0004" /\ schema' = "0005" =>
        \A u \in User :
            IF column[u] = Null THEN RowsOf(u)' = {}
            ELSE \E d \in Row : /\ RowsOf(u)' = {d}
                               /\ d.payload = column[u].payload
                               /\ column[u].at \in {d.at, Null}]_vars

\* "copies back the most-recently-updated draft per user" (DRAFTS_UPDATE.md),
\* as committed when the downgrade commits.
DowngradeKeepsNewest ==
    [][schema = "0005" /\ schema' = "0004" =>
        \A u \in User :
            IF RowsOf(u) = {} THEN column'[u] = Null
            ELSE \E d \in RowsOf(u) :
                     /\ column'[u] = [payload |-> d.payload, at |-> d.at]
                     /\ \A e \in RowsOf(u) : e.at <= d.at]_vars

\* A migration comes to an end, committed or rolled back, although requests
\* keep arriving without end and may deadlock with it, unless some client
\* leaves a download unread for ever: alembic sets no lock_timeout.
MigrationEnds ==
    (\A p \in Request : []<>(pc[p] # "stream"))
        => (migration # "none" ~> migration = "none")
=============================================================================
