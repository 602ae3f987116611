------------------------------ MODULE Accounts ------------------------------
(***************************************************************************)
(* The addresses of accounts and the names of organisations: what unique   *)
(* indexes and look-ups make of requests that create, rename and delete    *)
(* them (user_service.py, organisation_service.py, their repositories) and *)
(* of the commands create-admin and convert-to-org (app/cli.py).  Roles    *)
(* and membership are the subject of Tenancy.                              *)
(*                                                                         *)
(* A request reads and checks first, then sends its INSERTs and UPDATEs in *)
(* the order of the code, then commits.  PostgreSQL makes a statement wait *)
(* for a transaction that has written the same row, or that would give or  *)
(* take the key it needs; a key that is committed is an IntegrityError,    *)
(* which the repositories answer with a rollback and a ConflictError.      *)
(***************************************************************************)
EXTENDS Naturals, Sequences

CONSTANTS
    User, Organisation,   \* identifiers
    Address,      \* e-mail addresses as they are typed
    Folded,       \* Address -> its lower case
    Name,         \* names of organisations
    Request,      \* request slots
    MaxRequests,  \* bound: how many requests pass their checks in a run
    NoRow,        \* there is no committed row with this id
    NoTx          \* the request slot is free

VARIABLES
    users,        \* committed rows of users
    orgs,         \* committed rows of organisations
    founders,     \* history: accounts that create_with_owner has stored
    begun,        \* how many requests have passed their checks
    tx            \* what each request has done and has yet to do

vars == <<users, orgs, founders, begun, tx>>

\* plain: role user and no organisation; owner: role org_owner and one.
Kind == {"plain", "owner", "other"}
UserRow == [email : Address, kind : Kind, deleted : BOOLEAN]
OrgRow == [name : Name, owner : User, deleted : BOOLEAN]

\* Statements; none of a transaction's own touch the same row twice, except
\* that the owner is linked to the organisation, which Kind has from the start.
UserInsert == [do : {"insert_user"}, id : User, email : Address, kind : Kind]
EmailUpdate == [do : {"email"}, id : User, email : Address]
UserUpdate == [do : {"delete_user", "promote"}, id : User]
OrgInsert == [do : {"insert_org"}, id : Organisation, name : Name, owner : User]
NameUpdate == [do : {"name"}, id : Organisation, name : Name]
OrgDelete == [do : {"delete_org"}, id : Organisation]
Statement == UserInsert \cup EmailUpdate \cup UserUpdate
             \cup OrgInsert \cup NameUpdate \cup OrgDelete

Tx == [founding : BOOLEAN, done : SUBSET Statement, todo : Seq(Statement)]

ASSUME AccountsAssumption ==
    /\ MaxRequests \in Nat
    /\ Folded \in [Address -> Address]
    /\ User \cap Organisation = {}
    /\ NoRow \notin UserRow \cup OrgRow
    /\ NoTx \notin Tx

-----------------------------------------------------------------------------
Active(u) == users[u] # NoRow /\ ~users[u].deleted
Open(o) == orgs[o] # NoRow /\ ~orgs[o].deleted

\* get_by_email, which fails if it finds several (scalar_one_or_none).
Found(a) == {u \in User : users[u] # NoRow /\ Folded[users[u].email] = Folded[a]}
FoundActive(a) == {u \in Found(a) : Active(u)}

InFlight(p) == tx[p] # NoTx
Statements(p) == tx[p].done \cup {tx[p].todo[i] : i \in DOMAIN tx[p].todo}

\* Identifiers are new: neither stored nor about to be.
Unused(id) == \A p \in Request : InFlight(p) => \A s \in Statements(p) : s.id # id
NewUser == {u \in User : users[u] = NoRow /\ Unused(u)}
NewOrg == {o \in Organisation : orgs[o] = NoRow /\ Unused(o)}

End(p) == tx' = [tx EXCEPT ![p] = NoTx]

Begin(p, founding, statements) ==
    /\ begun' = begun + 1
    /\ tx' = [tx EXCEPT ![p] =
                  [founding |-> founding, done |-> {}, todo |-> statements]]
    /\ UNCHANGED <<users, orgs, founders>>

InsertUser(u, a, k) == [do |-> "insert_user", id |-> u, email |-> a, kind |-> k]
InsertOrg(o, n, u) == [do |-> "insert_org", id |-> o, name |-> n, owner |-> u]

-----------------------------------------------------------------------------
(***************************************************************************)
(* The operations, up to their first INSERT or UPDATE.                     *)
(***************************************************************************)

\* create_user, create_user_in_org.
CreateUser(p, a, k) ==
    \E u \in NewUser : Begin(p, FALSE, <<InsertUser(u, a, k)>>)

\* Mutant of CreateWithOwner: the organisation names somebody else.
CreateWithAnyOwner(p, a, n) ==
    \E u \in NewUser, o \in NewOrg :
        Begin(p, TRUE, <<InsertUser(u, a, "owner"), InsertOrg(o, n, o)>>)

\* create_with_owner: the owner first, then the organisation.
CreateWithOwner(p, a, n) ==
    \E u \in NewUser, o \in NewOrg :
        Begin(p, TRUE, <<InsertUser(u, a, "owner"), InsertOrg(o, n, u)>>)

\* ensure_admin_seed: nothing to do if the address is known, deleted accounts
\* and other cases of its letters included.
CreateAdmin(p, a) ==
    /\ Found(a) = {}
    /\ \E u \in NewUser : Begin(p, FALSE, <<InsertUser(u, a, "other")>>)

\* _convert_to_org: the only active account that the look-up finds.
Convert(p, a, n) ==
    \E u \in User, o \in NewOrg :
        /\ FoundActive(a) = {u} /\ users[u].kind = "plain"
        /\ Begin(p, FALSE, <<InsertOrg(o, n, u), [do |-> "promote", id |-> u]>>)

\* update_user, update_user_in_org with another address.
ChangeEmail(p, u, a) ==
    /\ Active(u) /\ users[u].email # a
    /\ Begin(p, FALSE, <<[do |-> "email", id |-> u, email |-> a]>>)

\* delete_user, delete_user_in_org: not the owner of an organisation.
DeleteUser(p, u) ==
    /\ Active(u) /\ users[u].kind # "owner"
    /\ Begin(p, FALSE, <<[do |-> "delete_user", id |-> u]>>)

\* OrganisationService.update with another name.
Rename(p, o, n) ==
    /\ Open(o) /\ orgs[o].name # n
    /\ Begin(p, FALSE, <<[do |-> "name", id |-> o, name |-> n]>>)

DeleteOrganisation(p, o) ==
    /\ Open(o)
    /\ Begin(p, FALSE, <<[do |-> "delete_org", id |-> o]>>)

-----------------------------------------------------------------------------
(***************************************************************************)
(* Statements.                                                             *)
(***************************************************************************)

\* The entries that a statement adds to the unique indexes: addresses of all
\* accounts, names and owners of the organisations that are not deleted.
Adds(s) ==
    CASE s.do \in {"insert_user", "email"} -> {<<"email", s.email>>}
      [] s.do = "insert_org" -> {<<"name", s.name>>, <<"owner", s.owner>>}
      [] s.do = "name" /\ Open(s.id) -> {<<"name", s.name>>}
      [] OTHER -> {}

\* The committed entries of a row.
EntriesOfUser(u) ==
    IF users[u] = NoRow THEN {} ELSE {<<"email", users[u].email>>}

EntriesOfOrg(o) ==
    IF ~Open(o) THEN {}
    ELSE {<<"name", orgs[o].name>>, <<"owner", orgs[o].owner>>}

Entries(id) == IF id \in User THEN EntriesOfUser(id) ELSE EntriesOfOrg(id)

\* The committed entries that a statement removes.
Removes(s) ==
    CASE s.do = "email" -> EntriesOfUser(s.id)
      [] s.do = "name" -> {e \in EntriesOfOrg(s.id) : e[1] = "name"}
      [] s.do = "delete_org" -> EntriesOfOrg(s.id)
      [] OTHER -> {}

\* s has to wait for the transaction that has sent t.
Waits(s, t) == s.id = t.id \/ Adds(s) \cap (Adds(t) \cup Removes(t)) # {}

\* A committed row has an entry that s would add a second time.
Taken(s) ==
    \E id \in (User \cup Organisation) \ {s.id} : Adds(s) \cap Entries(id) # {}

MayRun(p) ==
    /\ InFlight(p) /\ tx[p].todo # <<>>
    /\ \A q \in Request \ {p} : InFlight(q) =>
           \A t \in tx[q].done : ~Waits(Head(tx[p].todo), t)

Execute(p) ==
    /\ MayRun(p) /\ ~Taken(Head(tx[p].todo))
    /\ tx' = [tx EXCEPT ![p].done = @ \cup {Head(tx[p].todo)},
                        ![p].todo = Tail(@)]
    /\ UNCHANGED <<users, orgs, founders, begun>>

\* Mutant of Conflict: the request goes on without the row.
ConflictIgnored(p) ==
    /\ MayRun(p) /\ Taken(Head(tx[p].todo))
    /\ tx' = [tx EXCEPT ![p].todo = Tail(@)]
    /\ UNCHANGED <<users, orgs, founders, begun>>

\* IntegrityError: all that the request has done is rolled back.
Conflict(p) ==
    /\ MayRun(p) /\ Taken(Head(tx[p].todo))
    /\ End(p)
    /\ UNCHANGED <<users, orgs, founders, begun>>

UserAfter(u, s) ==
    CASE s.do = "insert_user" -> [email |-> s.email, kind |-> s.kind, deleted |-> FALSE]
      [] s.do = "email" -> [users[u] EXCEPT !.email = s.email]
      [] s.do = "promote" -> [users[u] EXCEPT !.kind = "owner"]
      [] s.do = "delete_user" -> [users[u] EXCEPT !.deleted = TRUE]

OrgAfter(o, s) ==
    CASE s.do = "insert_org" -> [name |-> s.name, owner |-> s.owner, deleted |-> FALSE]
      [] s.do = "name" -> [orgs[o] EXCEPT !.name = s.name]
      [] s.do = "delete_org" -> [orgs[o] EXCEPT !.deleted = TRUE]

\* The columns that were written, on the rows as they are by now.
Commit(p) ==
    /\ InFlight(p) /\ tx[p].todo = <<>>
    /\ LET Sent(id) == {s \in tx[p].done : s.id = id}
       IN  /\ users' = [u \in User |-> IF Sent(u) = {} THEN users[u]
                            ELSE UserAfter(u, CHOOSE s \in Sent(u) : TRUE)]
           /\ orgs' = [o \in Organisation |-> IF Sent(o) = {} THEN orgs[o]
                            ELSE OrgAfter(o, CHOOSE s \in Sent(o) : TRUE)]
           /\ founders' = founders
                  \cup {u \in User : tx[p].founding /\ Sent(u) # {}}
    /\ End(p)
    /\ UNCHANGED begun

\* Another exception, a lost worker, a failed commit, or PostgreSQL breaking
\* a deadlock.
Abort(p) == InFlight(p) /\ End(p) /\ UNCHANGED <<users, orgs, founders, begun>>

-----------------------------------------------------------------------------
Init ==
    /\ users = [u \in User |-> NoRow]
    /\ orgs = [o \in Organisation |-> NoRow]
    /\ founders = {}
    /\ begun = 0
    /\ tx = [p \in Request |-> NoTx]

Start(p) ==
    /\ ~InFlight(p) /\ begun < MaxRequests
    /\ \/ \E a \in Address :
           \/ CreateAdmin(p, a)
           \/ \E k \in Kind : CreateUser(p, a, k)
           \/ \E n \in Name : CreateWithOwner(p, a, n) \/ Convert(p, a, n)
           \/ \E u \in User : ChangeEmail(p, u, a)
       \/ \E u \in User : DeleteUser(p, u)
       \/ \E o \in Organisation :
           DeleteOrganisation(p, o) \/ \E n \in Name : Rename(p, o, n)

\* 401, 403, 404, a refused command: nothing changes.
Refuse(p) == ~InFlight(p) /\ UNCHANGED vars

Next ==
    \E p \in Request :
        Start(p) \/ Execute(p) \/ Conflict(p) \/ Commit(p) \/ Abort(p) \/ Refuse(p)

Spec == Init /\ [][Next]_vars

-----------------------------------------------------------------------------
\* Every variable keeps its type.
TypeOK ==
    /\ users \in [User -> UserRow \cup {NoRow}]
    /\ orgs \in [Organisation -> OrgRow \cup {NoRow}]
    /\ founders \subseteq User
    /\ begun \in 0..MaxRequests
    /\ \A p \in Request : InFlight(p) =>
           /\ tx[p].founding \in BOOLEAN
           /\ Statements(p) \subseteq Statement

\* "If the org insert fails (name conflict), the surrounding session
\* transaction rolls back the orphaned user too" (organisation_service.py):
\* whoever takes the name in between, the account is stored with the
\* organisation that it owns or not at all, and keeps it whatever is edited or
\* deleted later; nor do an address, a name or an owner ever occur twice where
\* two requests wait for one another's.
NoHalfOrganisation ==
    /\ \A u \in founders : \E o \in Organisation :
           orgs[o] # NoRow /\ orgs[o].owner = u
    /\ \A o \in Organisation : orgs[o] # NoRow => users[orgs[o].owner] # NoRow
    /\ \A i, j \in User \cup Organisation : i # j => Entries(i) \cap Entries(j) = {}

\* "The owner can log in immediately" (API.md): the look-up of a login finds
\* the owner of an organisation by the address they were given.
OwnersCanLogIn ==
    \A o \in Organisation : Open(o) /\ orgs[o].owner \in founders =>
        FoundActive(users[orgs[o].owner].email) = {orgs[o].owner}
=============================================================================
