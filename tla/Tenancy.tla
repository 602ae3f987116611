------------------------------ MODULE Tenancy ------------------------------
(***************************************************************************)
(* Who belongs where: accounts, roles and organisations                    *)
(* (app/services/user_service.py, organisation_service.py), the            *)
(* convert-to-org command (app/cli.py), and the organisation that a report *)
(* is stamped with when it is created (report_service.py).                 *)
(*                                                                         *)
(* A Request is an HTTP request or a run of the command: one READ          *)
(* COMMITTED transaction.  It reads its actor and its target in its first  *)
(* statements and acts on those copies until it commits.                   *)
(***************************************************************************)
EXTENDS Integers, FiniteSets

CONSTANTS
    User, Organisation, Report,   \* identifiers
    FirstAdmin,   \* the account that create-admin seeds
    Request,      \* request slots
    MaxRequests,  \* bound: how many requests pass their checks in a run
    NoRow,        \* there is no committed row with this id
    NoOrg,        \* organisation_id IS NULL
    Nobody,       \* the command line: no actor
    NoTx          \* the request slot is free

VARIABLES
    users,        \* committed rows of users
    orgs,         \* committed rows of organisations
    reports,      \* committed rows of reports, as far as tenancy goes
    converted,    \* history: accounts that convert-to-org has promoted
    belonged,     \* history: who has ever been in which organisation
    lapses,       \* history: which of Lapse have occurred
    begun,        \* how many requests have passed their checks
    pc, tx        \* next step of each request, and what it carries

vars == <<users, orgs, reports, converted, belonged, lapses, begun, pc, tx>>

\* What some properties do not withstand: two requests at once, and an
\* administrator who changes their own role or organisation.
Lapse == {"overlap", "self_edit"}

Role == {"user", "org_owner", "admin"}
UserRow == [role : Role, org : Organisation \cup {NoOrg}, deleted : BOOLEAN]
OrgRow == [owner : User, deleted : BOOLEAN]
ReportRow == [user : User, org : Organisation \cup {NoOrg}]

\* actor and old are the rows as they were read; user, org and report are the
\* rows written, stamped the reports that the command's UPDATE found.
Tx == [op : {"create_organisation", "create_user", "create_member",
             "update_user", "delete_user", "delete_member",
             "delete_organisation", "convert", "create_report"},
       by : User \cup {Nobody}, actor : UserRow \cup {NoRow},
       user : User \cup {Nobody}, old : UserRow \cup {NoRow},
       new : UserRow \cup {NoRow},
       org : Organisation \cup {NoOrg}, report : Report \cup {NoRow},
       stamped : SUBSET Report]

Step == {"idle", "insert", "update", "stamp", "commit"}

ASSUME TenancyAssumption ==
    /\ FirstAdmin \in User
    /\ MaxRequests \in Nat
    /\ NoOrg \notin Organisation
    /\ Nobody \notin User
    /\ NoRow \notin UserRow \cup OrgRow \cup ReportRow \cup Report
    /\ NoTx \notin Tx

-----------------------------------------------------------------------------
Active(u) == users[u] # NoRow /\ ~users[u].deleted
Open(o) == orgs[o] # NoRow /\ ~orgs[o].deleted

InFlight(p) == pc[p] # "idle"

\* Identifiers are new: neither stored nor about to be.
NewUser == {u \in User : users[u] = NoRow
                         /\ \A q \in Request : InFlight(q) => tx[q].user # u}
NewOrg == {o \in Organisation : orgs[o] = NoRow
                         /\ \A q \in Request : InFlight(q) => tx[q].org # o}
NewReport == {r \in Report : reports[r] = NoRow
                         /\ \A q \in Request : InFlight(q) => tx[q].report # r}

\* get_current_user: the account is not deleted, nor is its organisation.
Authenticated(a) ==
    Active(a) /\ (users[a].org # NoOrg => ~orgs[users[a].org].deleted)

IsAdmin(a) == Authenticated(a) /\ users[a].role = "admin"
IsOrgOwner(a) ==
    Authenticated(a) /\ users[a].role = "org_owner" /\ users[a].org # NoOrg

\* _authorize_read: what GET /reports/{id} shows.
MayRead(a, r) ==
    \/ users[a].role = "admin"
    \/ /\ users[a].role = "org_owner" /\ users[a].org # NoOrg
       /\ reports[r].org = users[a].org
    \/ reports[r].user = a

\* list_visible: what GET /reports lists.
Listed(a, r) ==
    CASE users[a].role = "admin" -> TRUE
      [] users[a].role = "org_owner" /\ users[a].org # NoOrg ->
             reports[r].org = users[a].org
      [] OTHER -> reports[r].user = a

\* The lock of an account's row, from its UPDATE to the end.
Locked(u) ==
    \E q \in Request : /\ pc[q] \in {"stamp", "commit"} /\ tx[q].user = u
                       /\ tx[q].op \in {"update_user", "delete_user",
                                        "delete_member", "convert"}

Goto(p, next) == pc' = [pc EXCEPT ![p] = next]

End(p) ==
    /\ pc' = [pc EXCEPT ![p] = "idle"]
    /\ tx' = [tx EXCEPT ![p] = NoTx]

Begin(p, first, op, a, u, new, o, r) ==
    /\ begun' = begun + 1
    /\ lapses' = lapses
           \cup (IF \E q \in Request : InFlight(q) THEN {"overlap"} ELSE {})
           \cup (IF op = "update_user" /\ a = u THEN {"self_edit"} ELSE {})
    /\ Goto(p, first)
    /\ tx' = [tx EXCEPT ![p] =
           [op |-> op, by |-> a,
            actor |-> IF a = Nobody THEN NoRow ELSE users[a],
            user |-> u, old |-> IF u = Nobody THEN NoRow ELSE users[u],
            new |-> new, org |-> o, report |-> r, stamped |-> {}]]
    /\ UNCHANGED <<users, orgs, reports, converted, belonged>>

Account(role, o) == [role |-> role, org |-> o, deleted |-> FALSE]

-----------------------------------------------------------------------------
(***************************************************************************)
(* First statements of each operation: authorise, load, check.             *)
(***************************************************************************)

\* create_with_owner inserts the owner, then the organisation, then links
\* the owner to it.
CreateOrganisation(p, a) ==
    /\ IsAdmin(a)
    /\ \E u \in NewUser, o \in NewOrg :
           Begin(p, "commit", "create_organisation", a, u,
                 Account("org_owner", o), o, NoRow)

\* create_user, from /admin/users and /admin/organisations/{id}/users: the
\* organisation has to exist (foreign key) but may be deleted or owned.
CreateUser(p, a, role, o) ==
    /\ IsAdmin(a)
    /\ o # NoOrg => orgs[o] # NoRow
    /\ \E u \in NewUser :
           Begin(p, "commit", "create_user", a, u, Account(role, o), NoOrg,
                 NoRow)

\* Mutant of CreateMember: the role comes from the body.
CreateMemberAs(p, a) ==
    /\ IsOrgOwner(a)
    /\ \E u \in NewUser, role \in Role :
           Begin(p, "commit", "create_member", a, u,
                 Account(role, users[a].org), NoOrg, NoRow)

\* create_user_in_org: a plain member of the caller's organisation.
CreateMember(p, a) ==
    /\ IsOrgOwner(a)
    /\ \E u \in NewUser :
           Begin(p, "commit", "create_member", a, u,
                 Account("user", users[a].org), NoOrg, NoRow)

\* update_user with a new role, organisation or both; a field left out keeps
\* the loaded value.  Nothing looks at what the account owns.
UpdateUser(p, a, u, role, o) ==
    /\ IsAdmin(a) /\ Active(u) /\ Account(role, o) # users[u]
    /\ o # users[u].org => o # NoOrg /\ orgs[o] # NoRow
    /\ Begin(p, "update", "update_user", a, u, Account(role, o), NoOrg, NoRow)

\* The Conflict of delete_user.
OwnsOrganisation(w) == w.role = "org_owner" /\ w.org # NoOrg

\* delete_user: neither oneself nor the owner of an organisation.
DeleteUser(p, a, u) ==
    /\ IsAdmin(a) /\ u # a /\ Active(u) /\ ~OwnsOrganisation(users[u])
    /\ Begin(p, "update", "delete_user", a, u, NoRow, NoOrg, NoRow)

\* Mutant of DeleteMember: an account of whichever organisation.
DeleteMemberAnywhere(p, a, u) ==
    /\ IsOrgOwner(a) /\ u # a /\ Active(u) /\ users[u].role # "org_owner"
    /\ Begin(p, "update", "delete_member", a, u, NoRow, NoOrg, NoRow)

\* delete_user_in_org: a member, not an owner, of the caller's organisation.
DeleteMember(p, a, u) ==
    /\ IsOrgOwner(a) /\ u # a /\ Active(u)
    /\ users[u].org = users[a].org /\ users[u].role # "org_owner"
    /\ Begin(p, "update", "delete_member", a, u, NoRow, NoOrg, NoRow)

DeleteOrganisation(p, a, o) ==
    /\ IsAdmin(a) /\ Open(o)
    /\ Begin(p, "commit", "delete_organisation", a, Nobody, NoRow, o, NoRow)

\* convert-to-org promotes a plain account without an organisation.  An
\* account that owns one already, or is none of both, is left alone.
Convert(p, u) ==
    /\ Active(u) /\ users[u].role = "user" /\ users[u].org = NoOrg
    /\ \E o \in NewOrg :
           Begin(p, "insert", "convert", Nobody, u, Account("org_owner", o),
                 o, NoRow)

\* ReportService.create stamps the report with the organisation that the
\* caller's row had when the caller was authenticated.
CreateReport(p, a) ==
    /\ Authenticated(a)
    /\ \E r \in NewReport :
           Begin(p, "commit", "create_report", a, Nobody, NoRow, users[a].org,
                 r)

\* 401, 403, 404, 409: nothing changes.
Refuse(p) == pc[p] = "idle" /\ UNCHANGED vars

-----------------------------------------------------------------------------
(***************************************************************************)
(* The statements that follow.                                             *)
(***************************************************************************)

\* Mutant of InsertOrganisation: no unique index on the owner.
InsertUnchecked(p) ==
    /\ pc[p] = "insert"
    /\ Goto(p, "update")
    /\ UNCHANGED <<users, orgs, reports, converted, belonged, lapses, begun, tx>>

\* The INSERT of convert-to-org.  The partial unique index on owner_user_id
\* makes it wait for an uncommitted row with the same owner, and fail if that
\* commits.
InsertOrganisation(p) ==
    /\ pc[p] = "insert"
    /\ \A q \in Request \ {p} :
           pc[q] \in {"update", "stamp", "commit"} /\ tx[q].op = "convert"
               => tx[q].user # tx[p].user
    /\ IF \E o \in Organisation : Open(o) /\ orgs[o].owner = tx[p].user
       THEN End(p) ELSE Goto(p, "update") /\ UNCHANGED tx
    /\ UNCHANGED <<users, orgs, reports, converted, belonged, lapses, begun>>

\* The UPDATE of the account's row.
UpdateAccount(p) ==
    /\ pc[p] = "update" /\ ~Locked(tx[p].user)
    /\ Goto(p, IF tx[p].op = "convert" THEN "stamp" ELSE "commit")
    /\ UNCHANGED <<users, orgs, reports, converted, belonged, lapses, begun, tx>>

\* Mutant of StampReports: no "organisation_id IS NULL".
StampEverything(p) ==
    /\ pc[p] = "stamp"
    /\ tx' = [tx EXCEPT ![p].stamped =
                  {r \in Report : reports[r] # NoRow
                                  /\ reports[r].user = tx[p].user}]
    /\ Goto(p, "commit")
    /\ UNCHANGED <<users, orgs, reports, converted, belonged, lapses, begun>>

\* Mutant of StampReports: it looks for the new organisation, not for NULL.
StampOwnOrganisation(p) ==
    /\ pc[p] = "stamp"
    /\ tx' = [tx EXCEPT ![p].stamped =
                  {r \in Report : /\ reports[r] # NoRow
                                  /\ reports[r].user = tx[p].user
                                  /\ reports[r].org = tx[p].org}]
    /\ Goto(p, "commit")
    /\ UNCHANGED <<users, orgs, reports, converted, belonged, lapses, begun>>

\* Mutant of StampReports: the account is left out of the WHERE.
StampAnyones(p) ==
    /\ pc[p] = "stamp"
    /\ tx' = [tx EXCEPT ![p].stamped =
                  {r \in Report : reports[r] # NoRow /\ reports[r].org = NoOrg}]
    /\ Goto(p, "commit")
    /\ UNCHANGED <<users, orgs, reports, converted, belonged, lapses, begun>>

\* stamp_org_for_user: the committed reports of the account that have none.
StampReports(p) ==
    /\ pc[p] = "stamp"
    /\ tx' = [tx EXCEPT ![p].stamped =
                  {r \in Report : /\ reports[r] # NoRow
                                  /\ reports[r].user = tx[p].user
                                  /\ reports[r].org = NoOrg}]
    /\ Goto(p, "commit")
    /\ UNCHANGED <<users, orgs, reports, converted, belonged, lapses, begun>>

-----------------------------------------------------------------------------
\* The columns that differ from the row as loaded are written, the others
\* keep what is committed now.
Changed(new, old, now) == IF new # old THEN new ELSE now

Merged(t, now) ==
    [now EXCEPT !.role = Changed(t.new.role, t.old.role, @),
                !.org = Changed(t.new.org, t.old.org, @)]

\* The account belongs to the organisation its row names from here on.
Join(u) ==
    belonged' = belonged \cup {<<u, o>> : o \in {users'[u].org} \ {NoOrg}}

\* Mutant of CommitInsert: the organisation goes in without its owner.
CommitUnowned(p) ==
    /\ pc[p] = "commit" /\ tx[p].op = "create_organisation"
    /\ users' = [users EXCEPT ![tx[p].user] = tx[p].new]
    /\ orgs' = [orgs EXCEPT ![tx[p].org] = [owner |-> Nobody,
                                            deleted |-> FALSE]]
    /\ End(p)
    /\ UNCHANGED <<reports, converted, belonged, lapses, begun>>

\* UserRead reads account.organisation, which create and update leave to be
\* loaded on demand, and asyncio forbids that: the response can be built only
\* if there is none, if it is the caller's own, which authentication has
\* loaded, or if the account is the caller.  Otherwise all that is left to
\* the request is to fail (Abort).
Answerable(t, row) == row.org \in {NoOrg, t.actor.org} \/ t.user = t.by

CommitInsert(p) ==
    /\ pc[p] = "commit"
    /\ tx[p].op = "create_user" => Answerable(tx[p], tx[p].new)
    /\ tx[p].op \in {"create_organisation", "create_user", "create_member"}
    /\ users' = [users EXCEPT ![tx[p].user] = tx[p].new]
    /\ Join(tx[p].user)
    /\ orgs' = IF tx[p].op = "create_organisation"
               THEN [orgs EXCEPT ![tx[p].org] = [owner |-> tx[p].user,
                                                 deleted |-> FALSE]]
               ELSE orgs
    /\ End(p)
    /\ UNCHANGED <<reports, converted, lapses, begun>>

CommitUpdate(p) ==
    /\ pc[p] = "commit" /\ tx[p].op = "update_user"
    /\ Answerable(tx[p], Merged(tx[p], users[tx[p].user]))
    /\ users' = [users EXCEPT ![tx[p].user] = Merged(tx[p], @)]
    /\ Join(tx[p].user)
    /\ End(p)
    /\ UNCHANGED <<orgs, reports, converted, lapses, begun>>

CommitDelete(p) ==
    /\ pc[p] = "commit" /\ tx[p].op \in {"delete_user", "delete_member"}
    /\ users' = [users EXCEPT ![tx[p].user].deleted = TRUE]
    /\ End(p)
    /\ UNCHANGED <<orgs, reports, converted, belonged, lapses, begun>>

CommitDeleteOrganisation(p) ==
    /\ pc[p] = "commit" /\ tx[p].op = "delete_organisation"
    /\ orgs' = [orgs EXCEPT ![tx[p].org].deleted = TRUE]
    /\ End(p)
    /\ UNCHANGED <<users, reports, converted, belonged, lapses, begun>>

CommitConvert(p) ==
    /\ pc[p] = "commit" /\ tx[p].op = "convert"
    /\ orgs' = [orgs EXCEPT ![tx[p].org] = [owner |-> tx[p].user,
                                            deleted |-> FALSE]]
    /\ users' = [users EXCEPT ![tx[p].user] = Merged(tx[p], @)]
    /\ reports' = [r \in Report |-> IF r \in tx[p].stamped
                                    THEN [reports[r] EXCEPT !.org = tx[p].org]
                                    ELSE reports[r]]
    /\ converted' = converted \cup {tx[p].user}
    /\ Join(tx[p].user)
    /\ End(p)
    /\ UNCHANGED <<lapses, begun>>

CommitReport(p) ==
    /\ pc[p] = "commit" /\ tx[p].op = "create_report"
    /\ reports' = [reports EXCEPT ![tx[p].report] =
                       [user |-> tx[p].by, org |-> tx[p].org]]
    /\ End(p)
    /\ UNCHANGED <<users, orgs, converted, belonged, lapses, begun>>

\* An exception (a taken e-mail address or name among them), a lost worker
\* or a failed commit.
Abort(p) ==
    /\ InFlight(p)
    /\ End(p)
    /\ UNCHANGED <<users, orgs, reports, converted, belonged, lapses, begun>>

-----------------------------------------------------------------------------
Init ==
    /\ users = [u \in User |-> IF u = FirstAdmin THEN Account("admin", NoOrg)
                                                 ELSE NoRow]
    /\ orgs = [o \in Organisation |-> NoRow]
    /\ reports = [r \in Report |-> NoRow]
    /\ converted = {}
    /\ belonged = {}
    /\ lapses = {}
    /\ begun = 0
    /\ pc = [p \in Request |-> "idle"]
    /\ tx = [p \in Request |-> NoTx]

Start(p) ==
    /\ pc[p] = "idle" /\ begun < MaxRequests
    /\ \/ \E a \in User :
           \/ CreateOrganisation(p, a)
           \/ CreateMember(p, a)
           \/ CreateReport(p, a)
           \/ \E role \in Role, o \in Organisation \cup {NoOrg} :
               \/ CreateUser(p, a, role, o)
               \/ \E u \in User : UpdateUser(p, a, u, role, o)
           \/ \E u \in User : DeleteUser(p, a, u) \/ DeleteMember(p, a, u)
           \/ \E o \in Organisation : DeleteOrganisation(p, a, o)
       \/ \E u \in User : Convert(p, u)

Proceed(p) ==
    \/ InsertOrganisation(p) \/ UpdateAccount(p) \/ StampReports(p)
    \/ CommitInsert(p) \/ CommitUpdate(p) \/ CommitDelete(p)
    \/ CommitDeleteOrganisation(p) \/ CommitConvert(p) \/ CommitReport(p)

Next ==
    \E p \in Request : Start(p) \/ Proceed(p) \/ Abort(p) \/ Refuse(p)

Spec == Init /\ [][Next]_vars

-----------------------------------------------------------------------------
(***************************************************************************)
(* What holds however requests interleave and whatever admins ask for.     *)
(***************************************************************************)

\* Every variable keeps its type.
TypeOK ==
    /\ users \in [User -> UserRow \cup {NoRow}]
    /\ orgs \in [Organisation -> OrgRow \cup {NoRow}]
    /\ reports \in [Report -> ReportRow \cup {NoRow}]
    /\ converted \subseteq User
    /\ belonged \subseteq User \X Organisation
    /\ lapses \subseteq Lapse
    /\ begun \in 0..MaxRequests
    /\ pc \in [Request -> Step]
    /\ tx \in [Request -> Tx \cup {NoTx}]

\* However often convert-to-org runs for one account, side by side even, it
\* owns one organisation that is not deleted.
OneOrganisationPerOwner ==
    \A o, q \in Organisation :
        Open(o) /\ Open(q) /\ orgs[o].owner = orgs[q].owner => o = q

\* Reports "stay attributed to that organisation for life" (API.md): a stamp
\* is never replaced, not even by a conversion that races the account's next
\* report or an administrator who moves the account.
StampIsFinal ==
    [][\A r \in Report : reports[r] # NoRow /\ reports[r].org # NoOrg =>
        reports'[r] = reports[r]]_vars

\* What an organisation owner's request commits is a plain member of the
\* organisation that the owner had when it was authenticated, or the deletion
\* of an account that has belonged to it; that it belongs to it still, and
\* does not own it, is certain only until requests overlap, for nothing
\* stops an administrator from moving the account after the check.
OwnersActWithinTheirTenant ==
    [][\A u \in User, p \in Request :
        /\ InFlight(p) /\ pc'[p] = "idle" /\ users'[u] # users[u]
        /\ tx[p].actor # NoRow /\ tx[p].actor.role = "org_owner"
        => \/ users[u] = NoRow
              /\ users'[u] = Account("user", tx[p].actor.org)
           \/ /\ users[u] # NoRow
              /\ users'[u] = [users[u] EXCEPT !.deleted = TRUE]
              /\ <<u, tx[p].actor.org>> \in belonged
              /\ "overlap" \notin lapses =>
                     users[u].org = tx[p].actor.org
                     /\ users[u].role # "org_owner"]_vars

\* An organisation's owner sees the reports of accounts that have belonged to
\* the organisation, and nobody else's, whoever was moved, promoted or
\* converted while a report was being filed; and a list shows nothing that
\* GET by id would refuse.
OwnersSeeTheirMembers ==
    \A a \in User, r \in Report : reports[r] # NoRow /\ Authenticated(a) =>
        /\ Listed(a, r) => MayRead(a, r)
        /\ IsOrgOwner(a) /\ MayRead(a, r) /\ reports[r].user # a =>
               <<reports[r].user, users[a].org>> \in belonged

-----------------------------------------------------------------------------
(***************************************************************************)
(* What holds until requests race, or an administrator moves into an       *)
(* organisation; failed and refused requests included.                     *)
(***************************************************************************)

\* "every organisation always has exactly one owner" (UPDATE.md): one account
\* that is not deleted has the role in it, the one that the organisation
\* names, whatever administrators ask of other accounts than their own.
OneOwner ==
    lapses = {} => \A o \in Organisation : Open(o) =>
        {u \in User : Active(u) /\ users[u].role = "org_owner"
                      /\ users[u].org = o} = {orgs[o].owner}

\* convert-to-org "stamps every existing report owned by that user with the
\* org id" (cli.py): no report of a converted account is left without one,
\* those filed after the command and after further edits included.
ConvertedReportsBelong ==
    "overlap" \notin lapses =>
        \A r \in Report :
            reports[r] # NoRow /\ reports[r].user \in converted =>
                reports[r].org # NoOrg
=============================================================================
