------------------------------ MODULE Sessions ------------------------------
(***************************************************************************)
(* Refresh-token sessions: login, rotation, and the three operations that  *)
(* revoke (app/services/user_service.py, organisation_service.py over      *)
(* refresh_token_repo.py, user_repo.py and organisation_repo.py).          *)
(*                                                                         *)
(* Each request runs one READ COMMITTED transaction, as in Reports, here   *)
(* along its SQL statements.  A DELETE or an UPDATE of many rows takes its *)
(* snapshot first and then waits for the rows' locks: a row that commits   *)
(* while it waits is not among those it changes.                           *)
(***************************************************************************)
EXTENDS Integers, FiniteSets

CONSTANTS
    User,         \* accounts
    Organisation, \* organisations
    OrgOf,        \* User -> organisation_id, or NoOrg
    OrgOwner,     \* accounts with role "org_owner"
    NoOrg,
    Token,        \* refresh tokens: each is generated once
    Request,      \* request slots of the server
    MaxChanges,   \* bound: how many password changes are requested
    Nobody,       \* the token has not been generated
    NoToken,      \* no such row; no token presented, inserted or rotated
    NoTx          \* the request slot is free

VARIABLES
    users,        \* committed rows of users
    orgs,         \* organisations whose deleted_at is set
    tokens,       \* committed rows of refresh_tokens
    issuedTo,     \* the account each generated token was made for
    changes,      \* history: password changes requested so far
    pc,           \* next step of each request
    tx            \* what each request carries

vars == <<users, orgs, tokens, issuedTo, changes, pc, tx>>

\* Password n is the one the n-th change sets; all are different.
Password == 0..MaxChanges

UserRow == [password : Password, deleted : BOOLEAN]

\* The rest is history: the token this one was rotated from, the password
\* proved by the login that started the chain, whether another request was
\* presenting the parent at the commit, and whether a revocation came too
\* early to find this token (Raced and Late, below).
TokenRow == [user : User, status : {"active", "used", "expired"},
             parent : Token \cup {NoToken}, password : Password,
             raced : BOOLEAN, late : BOOLEAN]

\* token is the one presented, new the one inserted, victims the rows that
\* the revoking statement found.
Tx == [op : {"login", "refresh", "update_user", "delete_user", "delete_org"},
       subject : User \cup Organisation, token : Token \cup {NoToken},
       new : Token \cup {NoToken}, password : Password,
       victims : SUBSET Token]

\* In step "commit" the response is on its way and the commit is still due.
Step == {"idle", "scan", "mark", "insert", "revoke", "revoking", "update",
         "commit"}

ASSUME SessionsAssumption ==
    /\ MaxChanges \in Nat
    /\ OrgOf \in [User -> Organisation \cup {NoOrg}]
    /\ NoOrg \notin Organisation
    /\ User \cap Organisation = {}
    /\ OrgOwner \subseteq User
    /\ Nobody \notin User
    /\ NoToken \notin Token /\ NoToken \notin TokenRow
    /\ NoTx \notin Tx

-----------------------------------------------------------------------------
Stored(k) == tokens[k] # NoToken
Active(k) == Stored(k) /\ tokens[k].status = "active"
TokensOf(us) == {k \in Token : Stored(k) /\ tokens[k].user \in us}

\* Mutant of Members: only the organisation's owner.
OwnersOnly(o) == {u \in OrgOwner : OrgOf[u] = o}

Members(o) == {u \in User : OrgOf[u] = o}

InFlight(p) == pc[p] # "idle"

\* The accounts that a request about s is about.
About(s) == IF s \in User THEN {s} ELSE Members(s)

\* Row locks, held from the statement that takes them to the end of the
\* transaction.  update_user revokes before it updates the account's row;
\* delete_user and soft_delete update the row first.
LocksToken(q, k) ==
    \/ pc[q] \in {"insert", "commit"} /\ tx[q].token = k
    \/ pc[q] \in {"update", "commit"} /\ k \in tx[q].victims

LocksSubject(q, s) ==
    /\ InFlight(q) /\ tx[q].subject = s
    /\ tx[q].op \in {"update_user", "delete_user", "delete_org"}
    /\ \/ pc[q] = "commit"
       \/ tx[q].op # "update_user" /\ pc[q] \in {"revoke", "revoking"}

Goto(p, next) == pc' = [pc EXCEPT ![p] = next]

End(p) ==
    /\ pc' = [pc EXCEPT ![p] = "idle"]
    /\ tx' = [tx EXCEPT ![p] = NoTx]

Begin(p, first, op, s, k, pw) ==
    /\ pc[p] = "idle"
    /\ Goto(p, first)
    /\ tx' = [tx EXCEPT ![p] = [op |-> op, subject |-> s, token |-> k,
                                new |-> NoToken, password |-> pw,
                                victims |-> {}]]
    /\ UNCHANGED <<users, orgs, tokens, issuedTo>>

-----------------------------------------------------------------------------
(***************************************************************************)
(* First statement of each request.                                        *)
(***************************************************************************)

\* authenticate: SELECT the account, verify the password.  Nothing looks at
\* the account's organisation.
Login(p, u, pw) ==
    /\ ~users[u].deleted /\ users[u].password = pw
    /\ Begin(p, "insert", "login", u, NoToken, pw)
    /\ UNCHANGED changes

\* refresh: list the accounts that are not deleted.  A client presents a
\* token that it has received, committed or not.
Refresh(p, k) ==
    /\ \E u \in User :
        /\ issuedTo[k] = u /\ ~users[u].deleted
        /\ Begin(p, "scan", "refresh", u, k, 0)
    /\ \A q \in Request : tx[q] # NoTx => tx[q].new # k \/ pc[q] = "commit"
    /\ UNCHANGED changes

\* update_user or update_user_in_org, with a password in the body.
ChangePassword(p, u) ==
    /\ ~users[u].deleted /\ changes < MaxChanges
    /\ changes' = changes + 1
    /\ Begin(p, "revoke", "update_user", u, NoToken, changes + 1)

\* delete_user and delete_user_in_org refuse the owner of an organisation.
DeleteUser(p, u) ==
    /\ ~users[u].deleted /\ ~(u \in OrgOwner /\ OrgOf[u] # NoOrg)
    /\ Begin(p, "update", "delete_user", u, NoToken, 0)
    /\ UNCHANGED changes

\* OrganisationService.soft_delete.
DeleteOrganisation(p, o) ==
    /\ o \notin orgs
    /\ Begin(p, "update", "delete_org", o, NoToken, 0)
    /\ UNCHANGED changes

\* 401, 403, 404 or 409 from the first statement: nothing changes.
Refuse(p) == pc[p] = "idle" /\ UNCHANGED vars

-----------------------------------------------------------------------------
(***************************************************************************)
(* The statements that follow.                                             *)
(***************************************************************************)

\* Mutant of Scan: used and expired tokens pass.
ScanStored(p) ==
    /\ pc[p] = "scan" /\ Stored(tx[p].token)
    /\ tx' = [tx EXCEPT ![p].password = tokens[tx[p].token].password]
    /\ Goto(p, "mark")
    /\ UNCHANGED <<users, orgs, tokens, issuedTo, changes>>

\* list_active_for_user: committed, not used, not expired.  Otherwise 401.
Scan(p) ==
    /\ pc[p] = "scan"
    /\ IF Active(tx[p].token)
       THEN /\ tx' = [tx EXCEPT ![p].password = tokens[tx[p].token].password]
            /\ Goto(p, "mark")
       ELSE End(p)
    /\ UNCHANGED <<users, orgs, tokens, issuedTo, changes>>

\* mark_used: the UPDATE waits for the row's lock.  It does not ask whether
\* used_at is still NULL; a row that is gone fails the request.
MarkUsed(p) ==
    /\ pc[p] = "mark"
    /\ \A q \in Request : ~LocksToken(q, tx[p].token)
    /\ IF Stored(tx[p].token) THEN Goto(p, "insert") /\ UNCHANGED tx ELSE End(p)
    /\ UNCHANGED <<users, orgs, tokens, issuedTo, changes>>

\* issue_tokens: INSERT a new token, visible to others from the commit on.
IssueTokens(p) ==
    /\ pc[p] = "insert"
    /\ \E k \in Token :
        /\ issuedTo[k] = Nobody
        /\ issuedTo' = [issuedTo EXCEPT ![k] = tx[p].subject]
        /\ tx' = [tx EXCEPT ![p].new = k]
    /\ Goto(p, "commit")
    /\ UNCHANGED <<users, orgs, tokens, changes>>

\* Mutant of FindVictims: rows that others have locked are skipped.
FindUnlocked(p) ==
    /\ pc[p] = "revoke"
    /\ tx' = [tx EXCEPT ![p].victims =
                  {k \in TokensOf(About(tx[p].subject)) :
                      \A q \in Request : ~LocksToken(q, k)}]
    /\ Goto(p, "revoking")
    /\ UNCHANGED <<users, orgs, tokens, issuedTo, changes>>

\* revoke_all_for_user (DELETE) and revoke_member_tokens (UPDATE): what the
\* statement finds, used and expired rows included, then, once no other
\* transaction holds their locks, what is left of it.
FindVictims(p) ==
    /\ pc[p] = "revoke"
    /\ tx' = [tx EXCEPT ![p].victims = TokensOf(About(tx[p].subject))]
    /\ Goto(p, "revoking")
    /\ UNCHANGED <<users, orgs, tokens, issuedTo, changes>>

RevokeTokens(p) ==
    /\ pc[p] = "revoking"
    /\ \A q \in Request, k \in tx[p].victims : ~LocksToken(q, k)
    /\ tx' = [tx EXCEPT ![p].victims = {k \in @ : Stored(k)}]
    /\ Goto(p, IF tx[p].op = "update_user" THEN "update" ELSE "commit")
    /\ UNCHANGED <<users, orgs, tokens, issuedTo, changes>>

\* The UPDATE of the account's or the organisation's row.
UpdateSubject(p) ==
    /\ pc[p] = "update"
    /\ \A q \in Request : ~LocksSubject(q, tx[p].subject)
    /\ Goto(p, IF tx[p].op = "update_user" THEN "commit" ELSE "revoke")
    /\ UNCHANGED <<users, orgs, tokens, issuedTo, changes, tx>>

-----------------------------------------------------------------------------
\* The statement of request q that revokes tokens has looked for them.
HasFound(q) ==
    /\ InFlight(q) /\ tx[q].op \notin {"login", "refresh"}
    /\ \/ pc[q] \in {"revoking", "commit"}
       \/ pc[q] = "update" /\ tx[q].op = "update_user"

\* What request p inserts is out of reach of a revocation: its statement has
\* looked already, or the password was verified before it committed, or the
\* token that p rotates is out of reach too.
Late(p) ==
    LET u == tx[p].subject IN
    \/ \E q \in Request : HasFound(q) /\ u \in About(tx[q].subject)
    \/ tx[p].op = "login" /\ (users[u].deleted \/ users[u].password # tx[p].password)
    \/ tx[p].op = "refresh" /\ tokens[tx[p].token].late

Raced(p) ==
    /\ tx[p].op = "refresh"
    /\ \E q \in Request \ {p} : InFlight(q) /\ tx[q].token = tx[p].token

NewRow(p) == [user |-> tx[p].subject, status |-> "active",
              parent |-> tx[p].token, password |-> tx[p].password,
              raced |-> Raced(p), late |-> Late(p)]

Spent(k) == [tokens[k] EXCEPT !.status = "used"]

CommitLogin(p) ==
    /\ pc[p] = "commit" /\ tx[p].op = "login"
    /\ tokens' = [tokens EXCEPT ![tx[p].new] = NewRow(p)]
    /\ End(p)
    /\ UNCHANGED <<users, orgs, issuedTo, changes>>

\* Mutants of CommitRefresh: the presented token is not spent, or its expiry
\* is renewed instead.
CommitUnspent(p) ==
    /\ pc[p] = "commit" /\ tx[p].op = "refresh"
    /\ tokens' = [tokens EXCEPT ![tx[p].new] = NewRow(p)]
    /\ End(p)
    /\ UNCHANGED <<users, orgs, issuedTo, changes>>

CommitRenewed(p) ==
    /\ pc[p] = "commit" /\ tx[p].op = "refresh"
    /\ tokens' = [tokens EXCEPT ![tx[p].token].status = "active"]
    /\ End(p)
    /\ UNCHANGED <<users, orgs, issuedTo, changes>>

CommitRefresh(p) ==
    /\ pc[p] = "commit" /\ tx[p].op = "refresh"
    /\ tokens' = [tokens EXCEPT ![tx[p].token] = Spent(tx[p].token),
                                ![tx[p].new] = NewRow(p)]
    /\ End(p)
    /\ UNCHANGED <<users, orgs, issuedTo, changes>>

\* The victims' rows are deleted with the account, marked used with the
\* organisation.
Without(ks) == [k \in Token |-> IF k \in ks THEN NoToken ELSE tokens[k]]
Spending(ks) == [k \in Token |-> IF k \in ks THEN Spent(k) ELSE tokens[k]]

\* Mutant of CommitPassword: the sessions stay.
CommitPasswordOnly(p) ==
    /\ pc[p] = "commit" /\ tx[p].op = "update_user"
    /\ users' = [users EXCEPT ![tx[p].subject].password = tx[p].password]
    /\ End(p)
    /\ UNCHANGED <<orgs, tokens, issuedTo, changes>>

CommitPassword(p) ==
    /\ pc[p] = "commit" /\ tx[p].op = "update_user"
    /\ users' = [users EXCEPT ![tx[p].subject].password = tx[p].password]
    /\ tokens' = Without(tx[p].victims)
    /\ End(p)
    /\ UNCHANGED <<orgs, issuedTo, changes>>

CommitDeleteUser(p) ==
    /\ pc[p] = "commit" /\ tx[p].op = "delete_user"
    /\ users' = [users EXCEPT ![tx[p].subject].deleted = TRUE]
    /\ tokens' = Without(tx[p].victims)
    /\ End(p)
    /\ UNCHANGED <<orgs, issuedTo, changes>>

\* Mutant of CommitDeleteOrganisation: deleted_at is set on the members.
CommitDeleteMembers(p) ==
    /\ pc[p] = "commit" /\ tx[p].op = "delete_org"
    /\ orgs' = orgs \cup Members(tx[p].subject)
    /\ tokens' = Spending(tx[p].victims)
    /\ End(p)
    /\ UNCHANGED <<users, issuedTo, changes>>

CommitDeleteOrganisation(p) ==
    /\ pc[p] = "commit" /\ tx[p].op = "delete_org"
    /\ orgs' = orgs \cup {tx[p].subject}
    /\ tokens' = Spending(tx[p].victims)
    /\ End(p)
    /\ UNCHANGED <<users, issuedTo, changes>>

\* An exception, a lost worker, a failed commit, or PostgreSQL breaking a
\* deadlock (update_user and delete_user take their locks in opposite order).
Abort(p) ==
    /\ InFlight(p)
    /\ End(p)
    /\ UNCHANGED <<users, orgs, tokens, issuedTo, changes>>

\* expires_at passes.
Expire(k) ==
    /\ Active(k)
    /\ tokens' = [tokens EXCEPT ![k].status = "expired"]
    /\ UNCHANGED <<users, orgs, issuedTo, changes, pc, tx>>

-----------------------------------------------------------------------------
Init ==
    /\ users = [u \in User |-> [password |-> 0, deleted |-> FALSE]]
    /\ orgs = {}
    /\ tokens = [k \in Token |-> NoToken]
    /\ issuedTo = [k \in Token |-> Nobody]
    /\ changes = 0
    /\ pc = [p \in Request |-> "idle"]
    /\ tx = [p \in Request |-> NoTx]

Start(p) ==
    \/ \E u \in User : \/ \E pw \in Password : Login(p, u, pw)
                       \/ ChangePassword(p, u)
                       \/ DeleteUser(p, u)
    \/ \E k \in Token : Refresh(p, k)
    \/ \E o \in Organisation : DeleteOrganisation(p, o)
    \/ Refuse(p)

Proceed(p) ==
    \/ Scan(p) \/ MarkUsed(p) \/ IssueTokens(p)
    \/ FindVictims(p) \/ RevokeTokens(p) \/ UpdateSubject(p)
    \/ CommitLogin(p) \/ CommitRefresh(p) \/ CommitPassword(p)
    \/ CommitDeleteUser(p) \/ CommitDeleteOrganisation(p)

Next ==
    \/ \E p \in Request : Start(p) \/ Proceed(p) \/ Abort(p)
    \/ \E k \in Token : Expire(k)

Spec == Init /\ [][Next]_vars

-----------------------------------------------------------------------------
(***************************************************************************)
(* What holds however requests interleave.  Where the code loses a race,   *)
(* the property says by which overlap, and that nothing else escapes.      *)
(***************************************************************************)

\* Every variable keeps its type.
TypeOK ==
    /\ users \in [User -> UserRow]
    /\ orgs \subseteq Organisation
    /\ tokens \in [Token -> TokenRow \cup {NoToken}]
    /\ issuedTo \in [Token -> User \cup {Nobody}]
    /\ changes \in 0..MaxChanges
    /\ pc \in [Request -> Step]
    /\ tx \in [Request -> Tx \cup {NoTx}]

\* A rotation spends the token it was given: whenever its successor is
\* committed the predecessor can no longer be presented, even if both were
\* revoked, rotated twice or rolled back meanwhile.
RotationSpends ==
    \A k \in Token : Stored(k) /\ tokens[k].parent # NoToken =>
        ~Active(tokens[k].parent)

\* Dead tokens stay dead: a used, expired or revoked token never becomes
\* active again, whatever a refresh that read it earlier commits.
DeadStaysDead ==
    [][\A k \in Token :
        /\ Stored(k) /\ ~Active(k) => ~Active(k)'
        /\ ~Stored(k) /\ Active(k)' =>
               \E p \in Request : pc[p] = "commit" /\ tx[p].new = k]_vars

\* "changing a user's password revokes all their existing refresh tokens,
\* forcing them to log in again" (API.md): a token that can be refreshed
\* stems from a login with the password the account has now.  The only ones
\* that escape are those of a login or a refresh that committed beside the
\* change, after its DELETE had looked, and what they are rotated into.
SessionsKnowThePassword ==
    \A k \in Token : Active(k) /\ ~tokens[k].late =>
        tokens[k].password = users[tokens[k].user].password

\* The tokens of a deleted account are gone, but for those of a login or a
\* refresh that committed beside the deletion, after its DELETE had looked.
DeletionRevokes ==
    \A k \in Token : Active(k) /\ users[tokens[k].user].deleted => tokens[k].late

\* "All refresh tokens for users in that organisation are revoked" (API.md):
\* when its deletion commits no member has a token left but those committed
\* since its UPDATE looked.
OrgDeletionRevokes ==
    [][\A o \in Organisation : o \in orgs' \ orgs =>
        \A k \in Token : Active(k)' /\ OrgOf[tokens'[k].user] = o =>
            tokens'[k].late]_vars

\* "Persisted, single-use refresh token" (models/refresh_token.py): a token is
\* rotated into at most one successor.
SingleUse ==
    \A j, k \in Token :
        /\ Stored(j) /\ Stored(k) /\ tokens[j].parent # NoToken
        /\ tokens[j].parent = tokens[k].parent
        => j = k

\* Single use in turn: a token has two successors only if one was committed
\* while the request for the other was already presenting the token.
SingleUseInTurn ==
    \A j, k \in Token :
        /\ Stored(j) /\ Stored(k) /\ tokens[j].parent # NoToken
        /\ tokens[j].parent = tokens[k].parent
        => j = k \/ tokens[j].raced \/ tokens[k].raced
=============================================================================
