--------------------------- MODULE TenancyProofs ---------------------------
(***************************************************************************)
(* Theorems about Tenancy that hold for every set of accounts,             *)
(* organisations and reports, and any number of requests.                  *)
(***************************************************************************)
EXTENDS Tenancy, TLAPS

(***************************************************************************)
(* The inductive invariant.  Requests act on copies of rows that may have  *)
(* changed since; TxOK says what stays true of a copy, PairOK what fresh   *)
(* identifiers and the unique index keep apart.                            *)
(***************************************************************************)
Creates(p) == tx[p].op \in {"create_organisation", "create_user", "create_member"}
Edits(p) == tx[p].op \in {"update_user", "delete_user", "delete_member"}
Founds(p) == tx[p].op \in {"create_organisation", "convert"}

\* An account's organisation is stored, and the history knows of it.
UserOK(u) ==
    users[u] # NoRow /\ users[u].org # NoOrg =>
        orgs[users[u].org] # NoRow /\ <<u, users[u].org>> \in belonged

\* No step takes a converted account's organisation away.
ConvertedOK == \A u \in converted : users[u] # NoRow /\ users[u].org # NoOrg

OrgOK(o) == orgs[o] # NoRow => users[orgs[o].owner] # NoRow

ReportOK(r) ==
    reports[r] # NoRow /\ reports[r].org # NoOrg =>
        <<reports[r].user, reports[r].org>> \in belonged

CreateOK(p) ==
    /\ pc[p] = "commit" /\ tx[p].by \in User /\ users[tx[p].by] # NoRow
    /\ tx[p].user \in User /\ users[tx[p].user] = NoRow
    /\ tx[p].new \in UserRow /\ ~tx[p].new.deleted
    /\ IF tx[p].op = "create_organisation"
       THEN tx[p].new = Account("org_owner", tx[p].org)
       ELSE /\ tx[p].org = NoOrg
            /\ tx[p].new.org # NoOrg => orgs[tx[p].new.org] # NoRow
    /\ tx[p].op = "create_member" =>
        tx[p].new = Account("user", tx[p].actor.org)

EditOK(p) ==
    /\ pc[p] \in {"update", "commit"} /\ tx[p].org = NoOrg
    /\ tx[p].user \in User /\ users[tx[p].user] # NoRow /\ tx[p].old \in UserRow
    /\ tx[p].op = "update_user" =>
        /\ tx[p].new \in UserRow
        /\ tx[p].new.org # tx[p].old.org =>
               tx[p].new.org # NoOrg /\ orgs[tx[p].new.org] # NoRow
    /\ tx[p].op = "delete_member" =>
           /\ tx[p].old.org = tx[p].actor.org
           /\ <<tx[p].user, tx[p].actor.org>> \in belonged

FoundOK(p) == tx[p].org \in Organisation /\ orgs[tx[p].org] = NoRow

ConvertOK(p) ==
    /\ pc[p] \in {"insert", "update", "stamp", "commit"} /\ tx[p].actor = NoRow
    /\ tx[p].user \in User /\ users[tx[p].user] # NoRow
    /\ tx[p].old \in UserRow /\ tx[p].old.role = "user" /\ tx[p].old.org = NoOrg
    /\ tx[p].new = Account("org_owner", tx[p].org)
    /\ pc[p] # "insert" =>
        \A o \in Organisation : Open(o) => orgs[o].owner # tx[p].user
    /\ pc[p] = "commit" =>
        \A r \in tx[p].stamped :
            reports[r] # NoRow /\ reports[r].user = tx[p].user
                               /\ reports[r].org = NoOrg

CloseOK(p) ==
    /\ pc[p] = "commit" /\ tx[p].user = Nobody
    /\ tx[p].org \in Organisation /\ orgs[tx[p].org] # NoRow

FileOK(p) ==
    /\ pc[p] = "commit" /\ tx[p].user = Nobody /\ tx[p].by \in User
    /\ tx[p].report \in Report /\ reports[tx[p].report] = NoRow
    /\ tx[p].org # NoOrg => /\ orgs[tx[p].org] # NoRow
                            /\ <<tx[p].by, tx[p].org>> \in belonged

\* Owners create and delete members; the rest is for administrators.
ActorOK(p) ==
    /\ tx[p].op \in {"create_member", "delete_member"} =>
           tx[p].actor \in UserRow /\ tx[p].actor.role = "org_owner"
    /\ tx[p].op \in {"create_organisation", "create_user", "update_user",
                     "delete_user", "delete_organisation"} =>
           tx[p].actor \in UserRow /\ tx[p].actor.role = "admin"

TxOK(p) ==
    /\ pc[p] = "idle" <=> tx[p] = NoTx
    /\ InFlight(p) =>
        /\ ActorOK(p)
        /\ Creates(p) => CreateOK(p)
        /\ Edits(p) => EditOK(p)
        /\ Founds(p) => FoundOK(p)
        /\ tx[p].op = "convert" => ConvertOK(p)
        /\ tx[p].op = "delete_organisation" => CloseOK(p)
        /\ tx[p].op = "create_report" => FileOK(p)
        /\ tx[p].op # "create_report" => tx[p].report = NoRow

PairOK(p, q) ==
    InFlight(p) /\ InFlight(q) =>
        /\ Creates(p) => tx[q].user # tx[p].user
        /\ Founds(p) => tx[q].org # tx[p].org
        /\ tx[p].op = "create_report" => tx[q].report # tx[p].report
        /\ tx[p].op = "convert" /\ tx[q].op = "convert"
               /\ pc[p] # "insert" /\ pc[q] # "insert" => tx[p].user # tx[q].user

IInv ==
    /\ TypeOK
    /\ \A u \in User : UserOK(u)
    /\ ConvertedOK
    /\ \A o \in Organisation : OrgOK(o)
    /\ OneOrganisationPerOwner
    /\ \A r \in Report : ReportOK(r)
    /\ \A p \in Request : TxOK(p)
    /\ \A p \in Request : \A q \in Request \ {p} : PairOK(p, q)
-----------------------------------------------------------------------------
(***************************************************************************)
(* The invariant until requests race or an administrator edits their own   *)
(* account: what a request has read is still so.                           *)
(***************************************************************************)
InTurn == "overlap" \notin lapses

Owns(u, o) == Active(u) /\ users[u].role = "org_owner" /\ users[u].org = o

\* No administrator has an organisation, and none edits their own account.
AdminsHaveNone ==
    \A u \in User : users[u] # NoRow /\ users[u].role = "admin" =>
                       users[u].org = NoOrg

AdminsOutside ==
    /\ AdminsHaveNone
    /\ \A p \in Request : InFlight(p) =>
        /\ tx[p].actor # NoRow /\ tx[p].actor.role = "admin" =>
               tx[p].actor.org = NoOrg
        /\ tx[p].op = "update_user" => tx[p].by # tx[p].user

Reread(p) ==
    /\ Edits(p) \/ tx[p].op = "convert" => users[tx[p].user] = tx[p].old
    /\ tx[p].op = "convert" => ~tx[p].old.deleted
    /\ tx[p].op = "delete_user" => ~OwnsOrganisation(tx[p].old)
    /\ tx[p].op = "delete_member" => tx[p].old.role # "org_owner"
    /\ tx[p].op = "create_report" /\ tx[p].by \in converted => tx[p].org # NoOrg
    /\ tx[p].op = "convert" /\ pc[p] = "commit" =>
        \A r \in Report : reports[r] # NoRow /\ reports[r].user = tx[p].user
                              /\ reports[r].org = NoOrg => r \in tx[p].stamped

SerialInv ==
    /\ InTurn =>
        /\ \A p \in Request : \A q \in Request \ {p} : ~(InFlight(p) /\ InFlight(q))
        /\ \A p \in Request : InFlight(p) => Reread(p)
    /\ ConvertedReportsBelong
    /\ lapses = {} => AdminsOutside
    /\ OneOwner
-----------------------------------------------------------------------------
(***************************************************************************)
(* The kinds of step.                                                      *)
(***************************************************************************)

\* What a step of one request leaves alone.
Others(p) == \A q \in Request \ {p} : pc'[q] = pc[q] /\ tx'[q] = tx[q]

Stored == UNCHANGED <<users, orgs, reports, converted, belonged>>

\* The markers are no identifiers and no rows.
LEMMA MarkerFacts ==
    /\ Nobody \notin User /\ NoOrg \notin Organisation /\ NoTx \notin Tx
    /\ NoRow \notin UserRow /\ NoRow \notin OrgRow /\ NoRow \notin ReportRow
    /\ NoRow \notin Report
BY TenancyAssumption

\* The columns of an account and of what a request carries.
LEMMA RowFacts ==
    /\ \A w \in UserRow : /\ w.role \in Role /\ w.deleted \in BOOLEAN
                          /\ w.org \in Organisation \cup {NoOrg}
    /\ \A role \in Role, o \in Organisation \cup {NoOrg} :
           /\ Account(role, o) \in UserRow /\ Account(role, o).role = role
           /\ Account(role, o).org = o /\ ~Account(role, o).deleted
BY DEF UserRow, Account

LEMMA NewOrgFacts ==
    \A u \in User : [owner |-> u, deleted |-> FALSE] \in OrgRow \ {NoRow}
<1>1. \A u \in User : [owner |-> u, deleted |-> FALSE] \in OrgRow
    BY DEF OrgRow
<1>2. QED
    BY <1>1, MarkerFacts

\* A step that commits nothing keeps the invariant if the request that takes
\* it does.
LEMMA PrivateStep ==
    ASSUME IInv, NEW p \in Request, TypeOK', Stored, Others(p), TxOK(p)',
           \A q \in Request \ {p} : PairOK(p, q)' /\ PairOK(q, p)'
    PROVE  IInv'
<1>1. ASSUME NEW q \in Request \ {p}
      PROVE  TxOK(q)'
  <2>1. TxOK(q) /\ pc'[q] = pc[q] /\ tx'[q] = tx[q]
      BY DEF IInv, Others
  <2>2. CreateOK(q)' = CreateOK(q) /\ EditOK(q)' = EditOK(q)
      BY <2>1 DEF CreateOK, EditOK, Stored, Account
  <2>3. FoundOK(q)' = FoundOK(q) /\ ConvertOK(q)' = ConvertOK(q)
      BY <2>1 DEF FoundOK, ConvertOK, Stored, Open, Account
  <2>4. CloseOK(q)' = CloseOK(q) /\ FileOK(q)' = FileOK(q)
      BY <2>1 DEF CloseOK, FileOK, Stored
  <2>5. QED
      BY <2>1, <2>2, <2>3, <2>4
      DEF TxOK, InFlight, ActorOK, Creates, Edits, Founds
<1>2. ASSUME NEW q \in Request, NEW z \in Request \ {q}
      PROVE  PairOK(q, z)'
  <2>1. CASE q # p /\ z # p
      BY <2>1 DEF IInv, Others, PairOK, InFlight, Creates, Founds
  <2>2. QED
      BY <2>1
<1>3. /\ \A u \in User : UserOK(u)'
      /\ \A o \in Organisation : OrgOK(o)'
      /\ \A r \in Report : ReportOK(r)'
      /\ ConvertedOK' /\ OneOrganisationPerOwner'
    BY DEF IInv, Stored, UserOK, OrgOK, ReportOK, ConvertedOK,
           OneOrganisationPerOwner, Open
<1>4. QED
    BY <1>1, <1>2, <1>3 DEF IInv

\* A request that ends without a commit leaves nothing behind.
LEMMA EndStep ==
    ASSUME IInv, NEW p \in Request, End(p),
           UNCHANGED <<users, orgs, reports, converted, belonged, lapses, begun>>
    PROVE  IInv'
<1>1. TypeOK /\ TypeOK'
    BY DEF IInv, TypeOK, End, Step
<1>2. pc'[p] = "idle" /\ tx'[p] = NoTx /\ Others(p)
    BY <1>1 DEF End, TypeOK, Others
<1>3. TxOK(p)' /\ \A q \in Request \ {p} : PairOK(p, q)' /\ PairOK(q, p)'
    BY <1>2 DEF TxOK, InFlight, PairOK
<1>4. QED
    BY <1>1, <1>2, <1>3, PrivateStep DEF Stored

\* The first statements of a request carry their reads along.
LEMMA Begins ==
    ASSUME TypeOK, NEW p, NEW first, NEW op, NEW a, NEW u, NEW new, NEW o, NEW r,
           Begin(p, first, op, a, u, new, o, r), pc[p] = "idle",
           begun < MaxRequests, p \in Request, first \in Step,
           op \in {"create_organisation", "create_user", "create_member",
                   "update_user", "delete_user", "delete_member",
                   "delete_organisation", "convert", "create_report"},
           a \in User \cup {Nobody}, u \in User \cup {Nobody},
           new \in UserRow \cup {NoRow}, o \in Organisation \cup {NoOrg},
           r \in Report \cup {NoRow}
    PROVE  /\ TypeOK' /\ Others(p) /\ Stored /\ pc'[p] = first /\ tx'[p] # NoTx
           /\ tx'[p].op = op /\ tx'[p].by = a /\ tx'[p].user = u
           /\ tx'[p].actor = IF a = Nobody THEN NoRow ELSE users[a]
           /\ tx'[p].old = IF u = Nobody THEN NoRow ELSE users[u]
           /\ tx'[p].new = new /\ tx'[p].org = o /\ tx'[p].report = r
           /\ tx'[p].stamped = {}
<1> DEFINE t == [op |-> op, by |-> a,
                 actor |-> IF a = Nobody THEN NoRow ELSE users[a],
                 user |-> u, old |-> IF u = Nobody THEN NoRow ELSE users[u],
                 new |-> new, org |-> o, report |-> r, stamped |-> {}]
<1>1. t \in Tx
  <2>1. /\ a # Nobody => users[a] \in UserRow \cup {NoRow}
        /\ u # Nobody => users[u] \in UserRow \cup {NoRow}
      BY DEF TypeOK
  <2>2. QED
      BY <2>1 DEF Tx
<1>2. pc' = [pc EXCEPT ![p] = first] /\ tx' = [tx EXCEPT ![p] = t]
    BY DEF Begin, Goto
<1>3. pc'[p] = first /\ tx'[p] = t /\ Others(p) /\ t # NoTx
    BY <1>1, <1>2, MarkerFacts DEF TypeOK, Others
<1>4. TypeOK'
  <2>1. begun' \in 0..MaxRequests /\ lapses' \subseteq Lapse
      BY TenancyAssumption DEF TypeOK, Begin, Lapse
  <2>2. pc' \in [Request -> Step] /\ tx' \in [Request -> Tx \cup {NoTx}]
      BY <1>1, <1>2 DEF TypeOK
  <2>3. QED
      BY <2>1, <2>2 DEF TypeOK, Begin
<1>5. QED
    BY <1>3, <1>4 DEF Begin, Stored

\* Whatever a request starts with, nobody else is about to store it.
LEMMA BeginStep ==
    ASSUME IInv, NEW p \in Request, TypeOK', Others(p), Stored, TxOK(p)',
           pc[p] = "idle", pc'[p] # "idle",
           tx'[p].op = "convert" => pc'[p] = "insert",
           \/ tx'[p].user \in NewUser
           \/ ~Creates(p)' /\ (tx'[p].user # Nobody => users[tx'[p].user] # NoRow),
           \/ tx'[p].org \in NewOrg
           \/ ~Founds(p)' /\ (tx'[p].org # NoOrg => orgs[tx'[p].org] # NoRow),
           \/ tx'[p].report \in NewReport
           \/ tx'[p].op # "create_report" /\ tx'[p].report = NoRow
    PROVE  IInv'
<1>1. ASSUME NEW q \in Request \ {p}, InFlight(q)
      PROVE  PairOK(p, q)' /\ PairOK(q, p)'
  <2>1. TxOK(q) /\ pc'[q] = pc[q] /\ tx'[q] = tx[q]
      BY DEF IInv, Others
  <2>2. Creates(q) => tx[q].user \in User /\ users[tx[q].user] = NoRow
      BY <1>1, <2>1 DEF TxOK, CreateOK
  <2>3. Founds(q) => tx[q].org \in Organisation /\ orgs[tx[q].org] = NoRow
      BY <1>1, <2>1 DEF TxOK, FoundOK
  <2>4. tx[q].op = "create_report" => tx[q].report \in Report
      BY <1>1, <2>1 DEF TxOK, FileOK
  <2>5. Creates(p)' \/ Creates(q) => tx[q].user # tx'[p].user
      BY <1>1, <2>1, <2>2, MarkerFacts DEF NewUser
  <2>6. Founds(p)' \/ Founds(q) => tx[q].org # tx'[p].org
      BY <1>1, <2>1, <2>3, MarkerFacts DEF NewOrg
  <2>7. tx'[p].op = "create_report" \/ tx[q].op = "create_report" =>
            tx[q].report # tx'[p].report
      BY <1>1, <2>1, <2>4, MarkerFacts DEF NewReport
  <2>8. QED
      BY <2>1, <2>5, <2>6, <2>7 DEF PairOK, Creates, Founds
<1>2. ASSUME NEW q \in Request \ {p}, ~InFlight(q)
      PROVE  PairOK(p, q)' /\ PairOK(q, p)'
    BY <1>2 DEF PairOK, InFlight, Others
<1>3. QED
    BY <1>1, <1>2, PrivateStep

\* Who is authenticated has a row, and the organisation in it is stored.
LEMMA ActorFacts ==
    ASSUME IInv, NEW a \in User, Active(a)
    PROVE  /\ users[a] \in UserRow /\ a # Nobody /\ users[a] # NoRow
           /\ users[a].role \in Role /\ users[a].org \in Organisation \cup {NoOrg}
           /\ users[a].org # NoOrg => /\ orgs[users[a].org] # NoRow
                                      /\ <<a, users[a].org>> \in belonged
<1>1. TypeOK /\ UserOK(a)
    BY DEF IInv
<1>2. users[a] \in UserRow /\ users[a] # NoRow
    BY <1>1 DEF TypeOK, Active
<1>3. QED
    BY <1>1, <1>2, RowFacts, MarkerFacts DEF UserOK

LEMMA CreateOrganisationStep ==
    ASSUME IInv, NEW p \in Request, NEW a \in User, pc[p] = "idle",
           begun < MaxRequests, CreateOrganisation(p, a)
    PROVE  IInv'
<1>1. /\ TypeOK /\ users[a] \in UserRow /\ users[a] # NoRow /\ a # Nobody
      /\ users[a].role = "admin"
    BY ActorFacts DEF IInv, CreateOrganisation, IsAdmin, Authenticated
<1>2. PICK u \in NewUser, o \in NewOrg :
          Begin(p, "commit", "create_organisation", a, u,
                Account("org_owner", o), o, NoRow)
    BY DEF CreateOrganisation
<1>3. /\ u \in User /\ users[u] = NoRow /\ o \in Organisation /\ orgs[o] = NoRow
      /\ Account("org_owner", o) \in UserRow /\ ~Account("org_owner", o).deleted
      /\ "commit" \in Step
    BY RowFacts DEF NewUser, NewOrg, Role, Step
<1>4. /\ TypeOK' /\ Others(p) /\ Stored /\ pc'[p] = "commit" /\ tx'[p] # NoTx
      /\ tx'[p].op = "create_organisation" /\ tx'[p].by = a /\ tx'[p].user = u
      /\ tx'[p].actor = users[a] /\ tx'[p].new = Account("org_owner", o)
      /\ tx'[p].org = o /\ tx'[p].report = NoRow
    BY <1>1, <1>2, <1>3, Begins
<1>5. TxOK(p)'
  <2>1. CreateOK(p)' /\ FoundOK(p)' /\ ActorOK(p)'
      BY <1>1, <1>3, <1>4 DEF CreateOK, FoundOK, ActorOK, Stored, Account
  <2>2. QED
      BY <1>4, <2>1 DEF TxOK, InFlight, Creates, Edits, Founds
<1>6. QED
    BY <1>2, <1>3, <1>4, <1>5, BeginStep DEF Founds

LEMMA CreateUserStep ==
    ASSUME IInv, NEW p \in Request, NEW a \in User, pc[p] = "idle",
           begun < MaxRequests, NEW role \in Role,
           NEW o \in Organisation \cup {NoOrg}, CreateUser(p, a, role, o)
    PROVE  IInv'
<1>1. /\ TypeOK /\ users[a] \in UserRow /\ users[a] # NoRow /\ a # Nobody
      /\ users[a].role = "admin"
    BY ActorFacts DEF IInv, CreateUser, IsAdmin, Authenticated
<1>2. PICK u \in NewUser :
          Begin(p, "commit", "create_user", a, u, Account(role, o), NoOrg, NoRow)
    BY DEF CreateUser
<1>3. /\ u \in User /\ users[u] = NoRow /\ Account(role, o) \in UserRow
      /\ ~Account(role, o).deleted /\ Account(role, o).org = o /\ "commit" \in Step
    BY RowFacts DEF NewUser, Step
<1>4. /\ TypeOK' /\ Others(p) /\ Stored /\ pc'[p] = "commit" /\ tx'[p] # NoTx
      /\ tx'[p].op = "create_user" /\ tx'[p].by = a /\ tx'[p].user = u
      /\ tx'[p].actor = users[a] /\ tx'[p].new = Account(role, o)
      /\ tx'[p].org = NoOrg /\ tx'[p].report = NoRow
    BY <1>1, <1>2, <1>3, Begins
<1>5. TxOK(p)'
  <2>1. CreateOK(p)' /\ ActorOK(p)'
      BY <1>1, <1>3, <1>4 DEF CreateOK, ActorOK, CreateUser, Stored
  <2>2. QED
      BY <1>4, <2>1 DEF TxOK, InFlight, Creates, Edits, Founds
<1>6. QED
    BY <1>2, <1>4, <1>5, BeginStep DEF Founds

LEMMA CreateMemberStep ==
    ASSUME IInv, NEW p \in Request, NEW a \in User, pc[p] = "idle",
           begun < MaxRequests, CreateMember(p, a)
    PROVE  IInv'
<1> DEFINE new == Account("user", users[a].org)
<1>1. /\ TypeOK /\ users[a] \in UserRow /\ users[a] # NoRow /\ a # Nobody
      /\ users[a].role = "org_owner" /\ orgs[users[a].org] # NoRow
      /\ users[a].org \in Organisation
    BY ActorFacts DEF IInv, CreateMember, IsOrgOwner, Authenticated
<1>2. PICK u \in NewUser :
          Begin(p, "commit", "create_member", a, u, new, NoOrg, NoRow)
    BY DEF CreateMember
<1>3. /\ u \in User /\ users[u] = NoRow /\ new \in UserRow
      /\ ~new.deleted /\ new.org = users[a].org /\ "commit" \in Step
    BY <1>1, RowFacts DEF NewUser, Step, Role
<1>4. /\ TypeOK' /\ Others(p) /\ Stored /\ pc'[p] = "commit" /\ tx'[p] # NoTx
      /\ tx'[p].op = "create_member" /\ tx'[p].by = a /\ tx'[p].user = u
      /\ tx'[p].actor = users[a] /\ tx'[p].new = new
      /\ tx'[p].org = NoOrg /\ tx'[p].report = NoRow
    BY <1>1, <1>2, <1>3, Begins
<1>5. TxOK(p)'
  <2>1. CreateOK(p)' /\ ActorOK(p)'
      BY <1>1, <1>3, <1>4 DEF CreateOK, ActorOK, Stored, Account
  <2>2. QED
      BY <1>4, <2>1 DEF TxOK, InFlight, Creates, Edits, Founds
<1>6. QED
    BY <1>2, <1>4, <1>5, BeginStep DEF Founds

\* An edit starts on an account that is not deleted.
LEMMA EditBegins ==
    ASSUME IInv, NEW p \in Request, NEW a \in User, NEW u \in User,
           Active(a), Active(u), NEW new \in UserRow \cup {NoRow},
           NEW op \in {"update_user", "delete_user", "delete_member"},
           users[a].role = IF op = "delete_member" THEN "org_owner" ELSE "admin",
           pc[p] = "idle", begun < MaxRequests,
           Begin(p, "update", op, a, u, new, NoOrg, NoRow),
           op = "update_user" =>
               /\ new \in UserRow
               /\ new.org # users[u].org => new.org # NoOrg /\ orgs[new.org] # NoRow,
           op = "delete_member" =>
               users[u].org = users[a].org /\ users[a].org # NoOrg
    PROVE  IInv'
<1>1. /\ TypeOK /\ users[a] \in UserRow /\ a # Nobody
      /\ users[u] \in UserRow /\ users[u] # NoRow /\ u # Nobody
      /\ users[u].org # NoOrg => <<u, users[u].org>> \in belonged
    BY ActorFacts DEF IInv
<1>2. /\ TypeOK' /\ Others(p) /\ Stored /\ pc'[p] = "update" /\ tx'[p] # NoTx
      /\ tx'[p].op = op /\ tx'[p].by = a /\ tx'[p].user = u
      /\ tx'[p].actor = users[a] /\ tx'[p].old = users[u] /\ tx'[p].new = new
      /\ tx'[p].org = NoOrg /\ tx'[p].report = NoRow
    BY <1>1, Begins DEF Step
<1>3. TxOK(p)'
  <2>1. EditOK(p)' /\ ActorOK(p)'
      BY <1>1, <1>2 DEF EditOK, ActorOK, Stored
  <2>2. QED
      BY <1>2, <2>1 DEF TxOK, InFlight, Creates, Edits, Founds
<1>4. QED
    BY <1>1, <1>2, <1>3, BeginStep DEF Founds, Creates

LEMMA EditsStart ==
    ASSUME IInv, NEW p \in Request, NEW a \in User, NEW u \in User,
           NEW role \in Role, NEW o \in Organisation \cup {NoOrg},
           pc[p] = "idle", begun < MaxRequests,
           \/ UpdateUser(p, a, u, role, o)
           \/ DeleteUser(p, a, u)
           \/ DeleteMember(p, a, u)
    PROVE  IInv'
<1>1. CASE UpdateUser(p, a, u, role, o)
  <2>1. Account(role, o) \in UserRow /\ Account(role, o).org = o
      BY RowFacts
  <2>2. QED
      BY <1>1, <2>1, EditBegins DEF UpdateUser, IsAdmin, Authenticated
<1>2. CASE DeleteUser(p, a, u)
    BY <1>2, EditBegins DEF DeleteUser, IsAdmin, Authenticated
<1>3. CASE DeleteMember(p, a, u)
    BY <1>3, EditBegins DEF DeleteMember, IsOrgOwner, Authenticated
<1>4. QED
    BY <1>1, <1>2, <1>3

LEMMA DeleteOrganisationStep ==
    ASSUME IInv, NEW p \in Request, NEW a \in User, NEW o \in Organisation,
           pc[p] = "idle", begun < MaxRequests, DeleteOrganisation(p, a, o)
    PROVE  IInv'
<1>1. /\ TypeOK /\ users[a] \in UserRow /\ a # Nobody /\ users[a].role = "admin"
      /\ orgs[o] # NoRow /\ "commit" \in Step
    BY ActorFacts
    DEF IInv, DeleteOrganisation, IsAdmin, Authenticated, Open, Step
<1>2. Begin(p, "commit", "delete_organisation", a, Nobody, NoRow, o, NoRow)
    BY DEF DeleteOrganisation
<1>3. /\ TypeOK' /\ Others(p) /\ Stored /\ pc'[p] = "commit" /\ tx'[p] # NoTx
      /\ tx'[p].op = "delete_organisation" /\ tx'[p].user = Nobody
      /\ tx'[p].actor = users[a] /\ tx'[p].org = o /\ tx'[p].report = NoRow
    BY <1>1, <1>2, Begins
<1>4. TxOK(p)'
  <2>1. CloseOK(p)' /\ ActorOK(p)'
      BY <1>1, <1>3 DEF CloseOK, ActorOK, Stored
  <2>2. QED
      BY <1>3, <2>1 DEF TxOK, InFlight, Creates, Edits, Founds
<1>5. QED
    BY <1>1, <1>3, <1>4, BeginStep DEF Founds, Creates

LEMMA ConvertStep ==
    ASSUME IInv, NEW p \in Request, NEW u \in User,
           pc[p] = "idle", begun < MaxRequests, Convert(p, u)
    PROVE  IInv'
<1>1. /\ TypeOK /\ users[u] \in UserRow /\ users[u] # NoRow /\ u # Nobody
      /\ users[u].role = "user" /\ users[u].org = NoOrg /\ "insert" \in Step
    BY ActorFacts DEF IInv, Convert, Step
<1>2. PICK o \in NewOrg : Begin(p, "insert", "convert", Nobody, u,
                                Account("org_owner", o), o, NoRow)
    BY DEF Convert
<1>3. /\ o \in Organisation /\ orgs[o] = NoRow
      /\ Account("org_owner", o) \in UserRow
    BY RowFacts DEF NewOrg, Role
<1>4. /\ TypeOK' /\ Others(p) /\ Stored /\ pc'[p] = "insert" /\ tx'[p] # NoTx
      /\ tx'[p].op = "convert" /\ tx'[p].user = u /\ tx'[p].actor = NoRow
      /\ tx'[p].old = users[u] /\ tx'[p].new = Account("org_owner", o)
      /\ tx'[p].org = o /\ tx'[p].report = NoRow
    BY <1>1, <1>2, <1>3, Begins
<1>5. TxOK(p)'
  <2>1. ConvertOK(p)' /\ FoundOK(p)' /\ ActorOK(p)'
      BY <1>1, <1>3, <1>4 DEF ConvertOK, FoundOK, ActorOK, Stored, Account
  <2>2. QED
      BY <1>4, <2>1 DEF TxOK, InFlight, Creates, Edits, Founds
<1>6. QED
    BY <1>1, <1>2, <1>3, <1>4, <1>5, BeginStep DEF Creates

LEMMA CreateReportStep ==
    ASSUME IInv, NEW p \in Request, NEW a \in User,
           pc[p] = "idle", begun < MaxRequests, CreateReport(p, a)
    PROVE  IInv'
<1>1. /\ TypeOK /\ users[a] \in UserRow /\ a # Nobody
      /\ users[a].org \in Organisation \cup {NoOrg} /\ "commit" \in Step
      /\ users[a].org # NoOrg => /\ orgs[users[a].org] # NoRow
                                 /\ <<a, users[a].org>> \in belonged
    BY ActorFacts DEF IInv, CreateReport, Authenticated, Step
<1>2. PICK r \in NewReport : Begin(p, "commit", "create_report", a, Nobody,
                                   NoRow, users[a].org, r)
    BY DEF CreateReport
<1>3. r \in Report /\ reports[r] = NoRow
    BY DEF NewReport
<1>4. /\ TypeOK' /\ Others(p) /\ Stored /\ pc'[p] = "commit" /\ tx'[p] # NoTx
      /\ tx'[p].op = "create_report" /\ tx'[p].user = Nobody /\ tx'[p].by = a
      /\ tx'[p].org = users[a].org /\ tx'[p].report = r
    BY <1>1, <1>2, <1>3, Begins
<1>5. TxOK(p)'
  <2>1. FileOK(p)' /\ ActorOK(p)'
      BY <1>1, <1>3, <1>4 DEF FileOK, ActorOK, Stored
  <2>2. QED
      BY <1>4, <2>1 DEF TxOK, InFlight, Creates, Edits, Founds
<1>6. QED
    BY <1>1, <1>2, <1>4, <1>5, BeginStep DEF Creates, Founds

LEMMA StartStep ==
    ASSUME IInv, NEW p \in Request, Start(p)
    PROVE  IInv'
<1>1. pc[p] = "idle" /\ begun < MaxRequests
    BY DEF Start
<1>2. ASSUME NEW a \in User,
             \/ CreateOrganisation(p, a)
             \/ CreateMember(p, a)
             \/ CreateReport(p, a)
             \/ \E o \in Organisation : DeleteOrganisation(p, a, o)
      PROVE  IInv'
    BY <1>1, <1>2, CreateOrganisationStep, CreateMemberStep, CreateReportStep,
       DeleteOrganisationStep
<1>3. ASSUME NEW a \in User, NEW role \in Role,
             NEW o \in Organisation \cup {NoOrg}, CreateUser(p, a, role, o)
      PROVE  IInv'
    BY <1>1, <1>3, CreateUserStep
<1>4. ASSUME NEW a \in User, NEW u \in User, NEW role \in Role,
             NEW o \in Organisation \cup {NoOrg}, UpdateUser(p, a, u, role, o)
      PROVE  IInv'
    BY <1>1, <1>4, EditsStart
<1>5. ASSUME NEW a \in User, NEW u \in User,
             DeleteUser(p, a, u) \/ DeleteMember(p, a, u)
      PROVE  IInv'
    BY <1>1, <1>5, EditsStart DEF Role
<1>6. ASSUME NEW u \in User, Convert(p, u)
      PROVE  IInv'
    BY <1>1, <1>6, ConvertStep
<1>7. QED
    BY <1>2, <1>3, <1>4, <1>5, <1>6 DEF Start

\* INSERT of a conversion, on its way: whoever else converts the account has
\* not got past its own.
LEMMA InsertOrganisationStep ==
    ASSUME IInv, NEW p \in Request, InsertOrganisation(p)
    PROVE  IInv'
<1>1. /\ TypeOK /\ TxOK(p) /\ pc[p] = "insert" /\ InFlight(p) /\ tx[p] # NoTx
      /\ tx[p] \in Tx
    BY DEF IInv, InsertOrganisation, InFlight, TxOK, TypeOK
<1>2. ConvertOK(p) /\ FoundOK(p) /\ tx[p].op = "convert"
    BY <1>1 DEF TxOK, CreateOK, EditOK, CloseOK, FileOK, Creates, Edits, Founds, Tx
<1>3. CASE \E o \in Organisation : Open(o) /\ orgs[o].owner = tx[p].user
    BY <1>3, EndStep DEF InsertOrganisation
<1>4. CASE ~\E o \in Organisation : Open(o) /\ orgs[o].owner = tx[p].user
  <2>1. Goto(p, "update") /\ UNCHANGED tx /\ Stored /\ UNCHANGED <<lapses, begun>>
      BY <1>4 DEF InsertOrganisation, Stored
  <2>2. TypeOK' /\ Others(p) /\ pc'[p] = "update"
      BY <1>1, <2>1 DEF TypeOK, Goto, Step, Others, Stored
  <2>3. ConvertOK(p)' /\ FoundOK(p)' /\ ActorOK(p)'
      BY <1>1, <1>2, <1>4, <2>1, <2>2
      DEF ConvertOK, FoundOK, ActorOK, TxOK, Stored, Open, Account
  <2>4. TxOK(p)'
      BY <1>1, <1>2, <2>1, <2>2, <2>3
      DEF TxOK, InFlight, Creates, Edits, Founds
  <2>5. ASSUME NEW q \in Request \ {p}
        PROVE  PairOK(p, q)' /\ PairOK(q, p)'
    <3>1. PairOK(p, q) /\ PairOK(q, p) /\ pc'[q] = pc[q] /\ TxOK(q)
        BY <2>2 DEF IInv, Others
    <3>2. ASSUME tx[q].op = "convert", InFlight(q), pc[q] # "insert"
          PROVE  tx[q].user # tx[p].user
      <4>1. pc[q] \in {"update", "stamp", "commit"}
          BY <3>1, <3>2 DEF TxOK, ConvertOK
      <4>2. QED
          BY <4>1, <3>2 DEF InsertOrganisation
    <3>3. QED
        BY <1>1, <2>1, <3>1, <3>2 DEF PairOK, InFlight, Creates, Founds
  <2>6. QED
      BY <2>1, <2>2, <2>4, <2>5, PrivateStep
<1>5. QED
    BY <1>3, <1>4

\* The UPDATE of an account's row, which is written when it commits.
LEMMA UpdateAccountStep ==
    ASSUME IInv, NEW p \in Request, UpdateAccount(p)
    PROVE  IInv'
<1>1. /\ TypeOK /\ TxOK(p) /\ pc[p] = "update" /\ InFlight(p) /\ tx[p] # NoTx
      /\ tx[p] \in Tx
    BY DEF IInv, UpdateAccount, InFlight, TxOK, TypeOK
<1>2. /\ \/ Edits(p) /\ EditOK(p) /\ pc'[p] = "commit"
         \/ tx[p].op = "convert" /\ ConvertOK(p) /\ FoundOK(p) /\ pc'[p] = "stamp"
      /\ UNCHANGED tx /\ Stored /\ UNCHANGED <<lapses, begun>>
    BY <1>1 DEF TxOK, CreateOK, CloseOK, FileOK, Creates, Edits, Founds, Tx, TypeOK,
                UpdateAccount, Goto, Stored
<1>3. TypeOK' /\ Others(p)
    BY <1>1, <1>2 DEF TypeOK, UpdateAccount, Goto, Step, Others, Stored
<1>4. TxOK(p)'
  <2>1. ActorOK(p)' /\ (Edits(p) => EditOK(p)')
      BY <1>1, <1>2 DEF TxOK, ActorOK, EditOK, Stored, Edits
  <2>2. tx[p].op = "convert" => ConvertOK(p)' /\ FoundOK(p)'
      BY <1>1, <1>2 DEF ConvertOK, FoundOK, Stored, Open, Account, Edits
  <2>3. QED
      BY <1>1, <1>2, <2>1, <2>2 DEF TxOK, InFlight, Creates, Edits, Founds
<1>5. ASSUME NEW q \in Request \ {p}
      PROVE  PairOK(p, q)' /\ PairOK(q, p)'
    BY <1>1, <1>2, <1>3 DEF IInv, Others, PairOK, InFlight, Creates, Founds
<1>6. QED
    BY <1>2, <1>3, <1>4, <1>5, PrivateStep

\* The reports found for the stamp are the account's, and have none.
LEMMA StampReportsStep ==
    ASSUME IInv, NEW p \in Request, StampReports(p)
    PROVE  IInv'
<1> DEFINE found == {r \in Report : /\ reports[r] # NoRow
                                    /\ reports[r].user = tx[p].user
                                    /\ reports[r].org = NoOrg}
           t == [tx[p] EXCEPT !.stamped = found]
<1>1. /\ TypeOK /\ TxOK(p) /\ pc[p] = "stamp" /\ InFlight(p) /\ tx[p] # NoTx
      /\ tx[p] \in Tx
    BY DEF IInv, StampReports, InFlight, TxOK, TypeOK
<1>2. tx[p].op = "convert" /\ ConvertOK(p) /\ FoundOK(p)
    BY <1>1 DEF TxOK, CreateOK, EditOK, CloseOK, FileOK, Creates, Edits, Founds, Tx
<1>3. /\ pc' = [pc EXCEPT ![p] = "commit"] /\ tx' = [tx EXCEPT ![p] = t]
      /\ Stored /\ UNCHANGED <<lapses, begun>>
    BY DEF StampReports, Goto, Stored
<1>4. /\ t \in Tx /\ t.op = tx[p].op /\ t.by = tx[p].by /\ t.actor = tx[p].actor
      /\ t.user = tx[p].user /\ t.old = tx[p].old /\ t.new = tx[p].new
      /\ t.org = tx[p].org /\ t.report = tx[p].report /\ t.stamped = found
    BY <1>1 DEF Tx
<1>5. t # NoTx
    BY <1>4, MarkerFacts
<1>6. TypeOK' /\ Others(p) /\ pc'[p] = "commit" /\ tx'[p] = t
  <2> HIDE DEF t
  <2>1. QED
      BY <1>1, <1>3, <1>4 DEF TypeOK, Step, Others, Stored
<1> HIDE DEF t
<1>7. TxOK(p)'
  <2>1. ActorOK(p)' /\ tx'[p].report = NoRow
      BY <1>1, <1>2, <1>4, <1>6 DEF TxOK, ActorOK
  <2>2. FoundOK(p)'
      BY <1>2, <1>3, <1>4, <1>6 DEF FoundOK, Stored
  <2>3. \A r \in tx'[p].stamped : reports'[r] # NoRow
            /\ reports'[r].user = tx'[p].user /\ reports'[r].org = NoOrg
      BY <1>3, <1>4, <1>6 DEF Stored
  <2>4. \A o \in Organisation : Open(o)' => orgs'[o].owner # tx'[p].user
      BY <1>1, <1>2, <1>3, <1>4, <1>6 DEF ConvertOK, Stored, Open
  <2>5. ConvertOK(p)'
    <3> HIDE DEF found
    <3>1. QED
        BY <1>2, <1>3, <1>4, <1>6, <2>3, <2>4 DEF ConvertOK, Stored, Account
  <2>6. QED
      BY <1>2, <1>4, <1>5, <1>6, <2>1, <2>2, <2>5
      DEF TxOK, InFlight, Creates, Edits, Founds
<1>8. ASSUME NEW q \in Request \ {p}
      PROVE  PairOK(p, q)' /\ PairOK(q, p)'
  <2>1. PairOK(p, q) /\ PairOK(q, p) /\ pc'[q] = pc[q] /\ tx'[q] = tx[q]
      BY <1>6 DEF IInv, Others
  <2>2. QED
      BY <1>1, <1>4, <1>6, <2>1 DEF PairOK, InFlight, Creates, Founds
<1>9. QED
    BY <1>3, <1>6, <1>7, <1>8, PrivateStep
-----------------------------------------------------------------------------
(***************************************************************************)
(* What a commit may write.                                                *)
(***************************************************************************)

\* One account changes, and none disappears.
WritesUser(p) ==
    \A u \in User : /\ users[u] # NoRow => users'[u] # NoRow
                    /\ users'[u] # users[u] => u = tx[p].user

\* At most one organisation appears, the request's; none disappears, changes
\* hands or is opened again.
WritesOrg(p) ==
    \A o \in Organisation :
        /\ orgs[o] # NoRow => /\ orgs'[o] # NoRow /\ orgs'[o].owner = orgs[o].owner
                              /\ ~orgs'[o].deleted => ~orgs[o].deleted
        /\ orgs[o] = NoRow /\ orgs'[o] # NoRow =>
               /\ Founds(p) /\ o = tx[p].org /\ orgs'[o].owner = tx[p].user
               /\ users'[tx[p].user] # NoRow

\* At most one report appears, the request's; a conversion stamps some.
WritesReport(p) ==
    \A r \in Report :
        /\ reports[r] # NoRow =>
               /\ reports'[r] # NoRow
               /\ reports'[r] # reports[r] =>
                      tx[p].op = "convert" /\ r \in tx[p].stamped
        /\ reports[r] = NoRow /\ reports'[r] # NoRow =>
               tx[p].op = "create_report" /\ r = tx[p].report

LEMMA CommitTxOK ==
    ASSUME IInv, NEW p \in Request, InFlight(p), pc[p] = "commit", Others(p),
           WritesUser(p), WritesOrg(p), WritesReport(p), belonged \subseteq belonged',
           NEW q \in Request \ {p}
    PROVE  TxOK(q)'
<1>1. /\ TypeOK /\ TxOK(p) /\ TxOK(q) /\ PairOK(p, q) /\ PairOK(q, p)
      /\ pc'[q] = pc[q] /\ tx'[q] = tx[q]
    BY DEF IInv, Others
<1>2. CASE ~InFlight(q)
    BY <1>1, <1>2 DEF TxOK, InFlight
<1>3. CASE InFlight(q)
  <2>1. tx[q] \in Tx /\ tx[q].org \in Organisation \cup {NoOrg}
      BY <1>1, <1>3 DEF TypeOK, TxOK, InFlight, Tx
  <2>2. Creates(q) => CreateOK(q)'
    <3>1. ASSUME Creates(q)
          PROVE  CreateOK(q) /\ tx[p].user # tx[q].user
        BY <1>1, <1>3, <3>1 DEF TxOK, PairOK
    <3>2. ASSUME CreateOK(q), tx[q].op # "create_organisation",
                 tx[q].new.org # NoOrg
          PROVE  tx[q].new.org \in Organisation /\ orgs'[tx[q].new.org] # NoRow
        BY <3>2, RowFacts DEF CreateOK, WritesOrg
    <3>3. ASSUME CreateOK(q)
          PROVE  users'[tx[q].by] # NoRow
        BY <3>3 DEF CreateOK, WritesUser
    <3>4. QED
        BY <1>1, <3>1, <3>2, <3>3 DEF CreateOK, WritesUser, Account
  <2>3. Edits(q) => EditOK(q)'
    <3>1. Edits(q) => EditOK(q)
        BY <1>1, <1>3 DEF TxOK
    <3>2. ASSUME EditOK(q), tx[q].op = "update_user",
                 tx[q].new.org # tx[q].old.org
          PROVE  tx[q].new.org # NoOrg /\ orgs'[tx[q].new.org] # NoRow
        BY <3>2, RowFacts DEF EditOK, WritesOrg
    <3>3. EditOK(q) => users'[tx[q].user] # NoRow
        BY DEF EditOK, WritesUser
    <3>4. QED
        BY <1>1, <3>1, <3>2, <3>3 DEF EditOK
  <2>4. Founds(q) => FoundOK(q)'
      BY <1>1, <1>3 DEF TxOK, FoundOK, PairOK, WritesOrg
  <2>5. tx[q].op = "convert" => ConvertOK(q)'
    <3>1. SUFFICES ASSUME tx[q].op = "convert"
                   PROVE  ConvertOK(q)'
        OBVIOUS
    <3>2. ConvertOK(q) /\ users'[tx[q].user] # NoRow
        BY <1>1, <1>3, <3>1 DEF TxOK, ConvertOK, WritesUser
    <3>3. ASSUME pc[q] # "insert"
          PROVE  tx[p].op \in {"create_organisation", "convert"} =>
                     tx[q].user # tx[p].user
        BY <1>1, <1>3, <3>1, <3>3 DEF PairOK, Creates
    <3>4. ASSUME pc[q] # "insert", NEW o \in Organisation, Open(o)'
          PROVE  orgs'[o].owner # tx[q].user
        BY <3>2, <3>3, <3>4 DEF ConvertOK, WritesOrg, Open, Founds
    <3>5. ASSUME pc[q] = "commit", NEW r \in tx[q].stamped
          PROVE  reports'[r] = reports[r]
      <4>1. r \in Report /\ reports[r] # NoRow /\ reports[r].user = tx[q].user
          BY <2>1, <3>2, <3>5 DEF ConvertOK, Tx
      <4>2. tx[p].op = "convert" /\ r \in tx[p].stamped =>
                reports[r].user = tx[p].user
          BY <1>1 DEF TxOK, ConvertOK, InFlight
      <4>3. QED
          BY <3>3, <3>5, <4>1, <4>2 DEF WritesReport
    <3>6. QED
        BY <1>1, <3>2, <3>4, <3>5 DEF ConvertOK, Account
  <2>6. tx[q].op = "delete_organisation" => CloseOK(q)'
      BY <1>1, <1>3 DEF TxOK, CloseOK, WritesOrg
  <2>7. tx[q].op = "create_report" => FileOK(q)'
    <3>1. ASSUME tx[q].op = "create_report"
          PROVE  FileOK(q) /\ (tx[p].op = "create_report" =>
                                   tx[p].report # tx[q].report)
        BY <1>1, <1>3, <3>1 DEF TxOK, PairOK
    <3>2. QED
        BY <1>1, <2>1, <3>1 DEF FileOK, WritesReport, WritesOrg
  <2>8. QED
      BY <1>1, <1>3, <2>2, <2>3, <2>4, <2>5, <2>6, <2>7
      DEF TxOK, InFlight, ActorOK, Creates, Edits, Founds
<1>4. QED
    BY <1>2, <1>3

\* Nobody founds a second organisation: a new account owns none, and the
\* unique index has checked the one that is converted.
LEMMA CommitOneOrganisation ==
    ASSUME IInv, NEW p \in Request, InFlight(p), pc[p] = "commit", WritesOrg(p)
    PROVE  OneOrganisationPerOwner'
<1>1. TypeOK /\ TxOK(p) /\ OneOrganisationPerOwner
    BY DEF IInv
<1>2. ASSUME Founds(p), NEW o \in Organisation, Open(o)
      PROVE  orgs[o].owner # tx[p].user
  <2>1. CASE tx[p].op = "convert"
      BY <1>1, <1>2, <2>1 DEF TxOK, ConvertOK
  <2>2. CASE tx[p].op = "create_organisation"
    <3>1. users[tx[p].user] = NoRow
        BY <1>1, <2>2 DEF TxOK, CreateOK, Creates
    <3>2. users[orgs[o].owner] # NoRow
        BY <1>2 DEF IInv, OrgOK, Open
    <3>3. QED
        BY <3>1, <3>2
  <2>3. QED
      BY <1>2, <2>1, <2>2 DEF Founds
<1>3. ASSUME NEW o \in Organisation, Open(o)'
      PROVE  \/ Open(o) /\ orgs'[o].owner = orgs[o].owner
             \/ Founds(p) /\ o = tx[p].org /\ orgs'[o].owner = tx[p].user
    BY <1>3 DEF WritesOrg, Open
<1>4. QED
    BY <1>1, <1>2, <1>3 DEF OneOrganisationPerOwner, WritesOrg

\* A commit keeps the invariant if what it writes is right by itself.
LEMMA CommitStep ==
    ASSUME IInv, NEW p \in Request, InFlight(p), pc[p] = "commit", End(p), TypeOK',
           WritesUser(p), WritesOrg(p), WritesReport(p), belonged \subseteq belonged',
           \A u \in User : u = tx[p].user => UserOK(u)', ConvertedOK',
           \A r \in Report : ReportOK(r)'
    PROVE  IInv'
<1>1. TypeOK
    BY DEF IInv
<1>2. pc'[p] = "idle" /\ tx'[p] = NoTx /\ Others(p)
    BY <1>1 DEF End, TypeOK, Others
<1>3. ASSUME NEW q \in Request
      PROVE  TxOK(q)'
  <2>1. CASE q = p
      BY <1>2, <2>1 DEF TxOK, InFlight
  <2>2. CASE q # p
      BY <1>2, <2>2, CommitTxOK
  <2>3. QED
      BY <2>1, <2>2
<1>4. ASSUME NEW q \in Request, NEW z \in Request \ {q}
      PROVE  PairOK(q, z)'
  <2>1. CASE q = p \/ z = p
      BY <1>2, <2>1 DEF PairOK, InFlight
  <2>2. CASE q # p /\ z # p
      BY <1>2, <2>2 DEF IInv, Others, PairOK, InFlight, Creates, Founds
  <2>3. QED
      BY <2>1, <2>2
<1>5. ASSUME NEW u \in User
      PROVE  UserOK(u)'
  <2>1. CASE u = tx[p].user
      BY <2>1
  <2>2. CASE u # tx[p].user
    <3>1. users'[u] = users[u] /\ UserOK(u)
        BY <2>2 DEF WritesUser, IInv
    <3>2. users[u] # NoRow => users[u].org \in Organisation \cup {NoOrg}
        BY <1>1, RowFacts DEF TypeOK
    <3>3. QED
        BY <3>1, <3>2 DEF UserOK, WritesOrg
  <2>3. QED
      BY <2>1, <2>2
<1>6. ASSUME NEW o \in Organisation
      PROVE  OrgOK(o)'
  <2>1. OrgOK(o) /\ (orgs[o] # NoRow => orgs[o].owner \in User)
      BY <1>1 DEF IInv, TypeOK, OrgRow
  <2>2. QED
      BY <2>1 DEF OrgOK, WritesOrg, WritesUser
<1>7. QED
    BY <1>3, <1>4, <1>5, <1>6, CommitOneOrganisation DEF IInv

\* Account rows as a commit merges them.
LEMMA MergedFacts ==
    ASSUME NEW t \in Tx, t.new \in UserRow, t.old \in UserRow, NEW now \in UserRow
    PROVE  /\ Merged(t, now) \in UserRow /\ Merged(t, now).deleted = now.deleted
           /\ Merged(t, now).org = IF t.new.org # t.old.org THEN t.new.org
                                                            ELSE now.org
           /\ Merged(t, now).role = IF t.new.role # t.old.role THEN t.new.role
                                                               ELSE now.role
BY DEF Merged, Changed, UserRow

\* The kind of request that an operation's invariant is about.
LEMMA CommitFacts ==
    ASSUME IInv, NEW p \in Request, pc[p] = "commit"
    PROVE  /\ TypeOK /\ InFlight(p) /\ tx[p] \in Tx /\ TxOK(p)
           /\ Creates(p) => CreateOK(p) /\ tx[p].op # "convert"
           /\ Edits(p) => EditOK(p) /\ ~Founds(p)
           /\ Founds(p) => FoundOK(p)
           /\ tx[p].op = "convert" => ConvertOK(p)
           /\ tx[p].op = "delete_organisation" => CloseOK(p) /\ ~Founds(p)
           /\ tx[p].op = "create_report" => FileOK(p) /\ ~Founds(p)
BY DEF IInv, TypeOK, TxOK, InFlight, Creates, Edits, Founds

LEMMA CommitInsertStep ==
    ASSUME IInv, NEW p \in Request, CommitInsert(p)
    PROVE  IInv'
<1> DEFINE u == tx[p].user
           o == tx[p].org
<1>1. /\ TypeOK /\ InFlight(p) /\ tx[p] \in Tx /\ Creates(p) /\ CreateOK(p)
      /\ pc[p] = "commit" /\ tx[p].op # "convert" /\ u \in User
      /\ users[u] = NoRow /\ tx[p].new \in UserRow /\ tx[p].new # NoRow
      /\ tx[p].new.org \in Organisation \cup {NoOrg}
    BY CommitFacts, MarkerFacts, RowFacts DEF CommitInsert, Creates, CreateOK
<1>2. Founds(p) => /\ tx[p].op = "create_organisation" /\ o \in Organisation
                   /\ orgs[o] = NoRow /\ tx[p].new.org = o
    BY <1>1, CommitFacts DEF Founds, FoundOK, CreateOK, Account
<1>3. users' = [users EXCEPT ![u] = tx[p].new] /\ users'[u] = tx[p].new
    BY <1>1 DEF CommitInsert, TypeOK
<1>4. \A w \in Organisation :
          orgs'[w] = IF Founds(p) /\ w = o THEN [owner |-> u, deleted |-> FALSE]
                                           ELSE orgs[w]
    BY <1>1, <1>2 DEF CommitInsert, TypeOK, Founds
<1>5. belonged' = belonged \cup {<<u, w>> : w \in {tx[p].new.org} \ {NoOrg}}
    BY <1>3 DEF CommitInsert, Join
<1>6. TypeOK'
  <2>1. orgs' \in [Organisation -> OrgRow \cup {NoRow}]
      BY <1>1 DEF CommitInsert, TypeOK, OrgRow
  <2>2. users' \in [User -> UserRow \cup {NoRow}]
      BY <1>1, <1>3 DEF TypeOK
  <2>3. belonged' \subseteq User \X Organisation
      BY <1>1, <1>5 DEF TypeOK
  <2>4. QED
      BY <1>1, <2>1, <2>2, <2>3 DEF CommitInsert, End, TypeOK, Step
<1>7. WritesUser(p)
    BY <1>1, <1>3 DEF WritesUser, TypeOK
<1>8. WritesOrg(p)
    BY <1>1, <1>2, <1>3, <1>4, MarkerFacts DEF WritesOrg, OrgRow
<1>9. WritesReport(p)
    BY DEF WritesReport, CommitInsert
<1>10. ASSUME NEW w \in User, w = u
       PROVE  UserOK(w)'
  <2>1. CASE Founds(p)
      BY <1>2, <1>3, <1>4, <1>5, <1>10, <1>1, <2>1, NewOrgFacts DEF UserOK
  <2>2. CASE ~Founds(p)
    <3>1. tx[p].new.org # NoOrg => orgs[tx[p].new.org] # NoRow
        BY <1>1, <2>2 DEF CreateOK, Founds
    <3>2. QED
        BY <1>1, <1>3, <1>4, <1>5, <1>10, <2>2, <3>1 DEF UserOK
  <2>3. QED
      BY <2>1, <2>2
<1>11. ConvertedOK'
    BY <1>1, <1>3, <1>7 DEF ConvertedOK, CommitInsert, IInv, TypeOK, WritesUser
<1>12. \A r \in Report : ReportOK(r)'
    BY <1>5 DEF IInv, ReportOK, CommitInsert
<1>13. QED
    BY <1>1, <1>5, <1>6, <1>7, <1>8, <1>9, <1>10, <1>11, <1>12, CommitStep
    DEF CommitInsert

\* An update leaves a converted account in an organisation: a role or an
\* organisation may be replaced, never taken away.
LEMMA CommitUpdateStep ==
    ASSUME IInv, NEW p \in Request, CommitUpdate(p)
    PROVE  IInv'
<1> DEFINE u == tx[p].user
           row == Merged(tx[p], users[u])
<1>1. /\ TypeOK /\ InFlight(p) /\ tx[p] \in Tx /\ EditOK(p) /\ u \in User
      /\ pc[p] = "commit" /\ users[u] # NoRow /\ users[u] \in UserRow
      /\ tx[p].new \in UserRow /\ tx[p].old \in UserRow
      /\ tx[p].op = "update_user" /\ ~Founds(p)
    BY CommitFacts DEF CommitUpdate, Edits, EditOK, TypeOK
<1>2. /\ row \in UserRow /\ row # NoRow
      /\ row.org = IF tx[p].new.org # tx[p].old.org THEN tx[p].new.org
                                                    ELSE users[u].org
      /\ row.org \in Organisation \cup {NoOrg}
    BY <1>1, MergedFacts, MarkerFacts, RowFacts
<1>3. users' = [users EXCEPT ![u] = row] /\ users'[u] = row
    BY <1>1 DEF CommitUpdate, TypeOK
<1>4. /\ belonged' = belonged \cup {<<u, w>> : w \in {row.org} \ {NoOrg}}
      /\ UNCHANGED <<orgs, reports, converted, lapses, begun>>
    BY <1>3 DEF CommitUpdate, Join
<1> HIDE DEF row
<1>5. row.org # NoOrg => orgs[row.org] # NoRow
    BY <1>1, <1>2 DEF EditOK, IInv, UserOK
<1>6. TypeOK'
    BY <1>1, <1>2, <1>3, <1>4 DEF CommitUpdate, End, TypeOK, Step
<1>7. WritesUser(p) /\ WritesOrg(p) /\ WritesReport(p)
    BY <1>1, <1>2, <1>3, <1>4 DEF WritesUser, WritesOrg, WritesReport, TypeOK
<1>8. ASSUME NEW w \in User, w = u
      PROVE  UserOK(w)'
    BY <1>2, <1>3, <1>4, <1>5, <1>8 DEF UserOK
<1>9. ConvertedOK'
  <2>1. \A w \in converted : users[w] # NoRow /\ users[w].org # NoOrg /\ w \in User
      BY <1>1 DEF IInv, ConvertedOK, TypeOK
  <2>2. u \in converted => row.org # NoOrg
      BY <1>1, <1>2, <2>1 DEF EditOK
  <2>3. QED
      BY <1>1, <1>2, <1>3, <1>4, <2>1, <2>2 DEF ConvertedOK, TypeOK
<1>10. \A r \in Report : ReportOK(r)'
    BY <1>4 DEF IInv, ReportOK
<1>11. QED
    BY <1>1, <1>4, <1>6, <1>7, <1>8, <1>9, <1>10, CommitStep DEF CommitUpdate

LEMMA CommitDeleteStep ==
    ASSUME IInv, NEW p \in Request, CommitDelete(p)
    PROVE  IInv'
<1> DEFINE u == tx[p].user
           row == [users[u] EXCEPT !.deleted = TRUE]
<1>1. /\ TypeOK /\ InFlight(p) /\ tx[p] \in Tx /\ EditOK(p) /\ u \in User
      /\ pc[p] = "commit" /\ users[u] # NoRow /\ users[u] \in UserRow /\ ~Founds(p)
    BY CommitFacts DEF CommitDelete, Edits, EditOK, TypeOK
<1>2. row \in UserRow /\ row # NoRow /\ row.org = users[u].org
    BY <1>1, MarkerFacts DEF UserRow
<1>3. users' = [users EXCEPT ![u] = row] /\ users'[u] = row
    BY <1>1 DEF CommitDelete, TypeOK
<1>4. UNCHANGED <<orgs, reports, converted, belonged, lapses, begun>>
    BY DEF CommitDelete
<1> HIDE DEF row
<1>5. TypeOK'
    BY <1>1, <1>2, <1>3, <1>4 DEF CommitDelete, End, TypeOK, Step
<1>6. WritesUser(p) /\ WritesOrg(p) /\ WritesReport(p)
    BY <1>1, <1>2, <1>3, <1>4 DEF WritesUser, WritesOrg, WritesReport, TypeOK
<1>7. ASSUME NEW w \in User, w = u
      PROVE  UserOK(w)'
    BY <1>1, <1>2, <1>3, <1>4, <1>7 DEF IInv, UserOK
<1>8. ConvertedOK'
    BY <1>1, <1>2, <1>3, <1>4 DEF IInv, ConvertedOK, TypeOK
<1>9. \A r \in Report : ReportOK(r)'
    BY <1>4 DEF IInv, ReportOK
<1>10. QED
    BY <1>1, <1>4, <1>5, <1>6, <1>7, <1>8, <1>9, CommitStep DEF CommitDelete

LEMMA CommitDeleteOrganisationStep ==
    ASSUME IInv, NEW p \in Request, CommitDeleteOrganisation(p)
    PROVE  IInv'
<1> DEFINE o == tx[p].org
           row == [orgs[o] EXCEPT !.deleted = TRUE]
<1>1. /\ TypeOK /\ InFlight(p) /\ tx[p] \in Tx /\ o \in Organisation
      /\ pc[p] = "commit" /\ orgs[o] # NoRow /\ orgs[o] \in OrgRow
      /\ tx[p].user \notin User /\ ~Founds(p)
    BY CommitFacts, MarkerFacts DEF CommitDeleteOrganisation, CloseOK, TypeOK
<1>2. row \in OrgRow /\ row # NoRow /\ row.owner = orgs[o].owner /\ row.deleted
    BY <1>1, MarkerFacts DEF OrgRow
<1>3. /\ orgs' = [orgs EXCEPT ![o] = row] /\ orgs'[o] = row
      /\ UNCHANGED <<users, reports, converted, belonged, lapses, begun>>
    BY <1>1 DEF CommitDeleteOrganisation, TypeOK
<1> HIDE DEF row
<1>4. TypeOK'
    BY <1>1, <1>2, <1>3 DEF CommitDeleteOrganisation, End, TypeOK, Step
<1>5. WritesUser(p) /\ WritesOrg(p) /\ WritesReport(p)
    BY <1>1, <1>2, <1>3 DEF WritesUser, WritesOrg, WritesReport, TypeOK
<1>6. ConvertedOK' /\ \A r \in Report : ReportOK(r)'
    BY <1>3 DEF IInv, ConvertedOK, ReportOK
<1>7. QED
    BY <1>1, <1>3, <1>4, <1>5, <1>6, CommitStep DEF CommitDeleteOrganisation

\* Whatever an administrator has made of the account meanwhile, it takes the
\* new organisation, and so do the reports found without one.
LEMMA CommitConvertStep ==
    ASSUME IInv, NEW p \in Request, CommitConvert(p)
    PROVE  IInv'
<1> DEFINE u == tx[p].user
           o == tx[p].org
           row == Merged(tx[p], users[u])
<1>1. /\ TypeOK /\ InFlight(p) /\ tx[p] \in Tx /\ ConvertOK(p) /\ FoundOK(p)
      /\ Founds(p) /\ tx[p].op = "convert" /\ pc[p] = "commit"
      /\ u \in User /\ users[u] # NoRow /\ users[u] \in UserRow
      /\ o \in Organisation /\ orgs[o] = NoRow /\ o # NoOrg
      /\ tx[p].old \in UserRow /\ tx[p].old.org = NoOrg /\ tx[p].old.role = "user"
      /\ tx[p].new = Account("org_owner", o)
    BY CommitFacts, MarkerFacts
    DEF CommitConvert, Founds, ConvertOK, FoundOK, TypeOK
<1>2. row \in UserRow /\ row # NoRow /\ row.org = o
  <2>1. tx[p].new \in UserRow /\ tx[p].new.org = o
      BY <1>1, RowFacts DEF Role
  <2>2. QED
      BY <1>1, <2>1, MergedFacts, MarkerFacts
<1>3. /\ users' = [users EXCEPT ![u] = row] /\ users'[u] = row
      /\ orgs' = [orgs EXCEPT ![o] = [owner |-> u, deleted |-> FALSE]]
      /\ orgs'[o] = [owner |-> u, deleted |-> FALSE]
      /\ converted' = converted \cup {u} /\ UNCHANGED <<lapses, begun>>
    BY <1>1 DEF CommitConvert, TypeOK
<1>4. belonged' = belonged \cup {<<u, o>>}
    BY <1>1, <1>2, <1>3 DEF CommitConvert, Join
<1>5. ASSUME NEW r \in Report
      PROVE  /\ r \in tx[p].stamped =>
                    /\ reports[r] # NoRow /\ reports[r] \in ReportRow
                    /\ reports[r].user = u
                    /\ reports'[r] = [reports[r] EXCEPT !.org = o]
                    /\ reports'[r] # NoRow /\ reports'[r] \in ReportRow
                    /\ reports'[r].user = u /\ reports'[r].org = o
             /\ r \notin tx[p].stamped => reports'[r] = reports[r]
  <2>1. r \in tx[p].stamped => /\ reports[r] # NoRow /\ reports[r] \in ReportRow
                               /\ reports[r].user = u
      BY <1>1 DEF ConvertOK, TypeOK
  <2>2. /\ r \in tx[p].stamped => reports'[r] = [reports[r] EXCEPT !.org = o]
        /\ r \notin tx[p].stamped => reports'[r] = reports[r]
      BY DEF CommitConvert
  <2>3. QED
      BY <1>1, <2>1, <2>2, MarkerFacts DEF ReportRow
<1> HIDE DEF row
<1>6. TypeOK'
  <2>1. reports' \in [Report -> ReportRow \cup {NoRow}]
      BY <1>1, <1>5 DEF CommitConvert, TypeOK
  <2>2. orgs' \in [Organisation -> OrgRow \cup {NoRow}]
      BY <1>1, <1>3 DEF TypeOK, OrgRow
  <2>3. QED
      BY <1>1, <1>2, <1>3, <1>4, <2>1, <2>2 DEF CommitConvert, End, TypeOK, Step
<1>7. WritesUser(p) /\ WritesOrg(p) /\ WritesReport(p)
  <2>1. WritesUser(p)
      BY <1>1, <1>2, <1>3 DEF WritesUser, TypeOK
  <2>2. WritesOrg(p)
      BY <1>1, <1>2, <1>3, MarkerFacts DEF WritesOrg, TypeOK, OrgRow
  <2>3. WritesReport(p)
      BY <1>1, <1>5 DEF WritesReport
  <2>4. QED
      BY <2>1, <2>2, <2>3
<1>8. ASSUME NEW w \in User, w = u
      PROVE  UserOK(w)'
    BY <1>1, <1>2, <1>3, <1>4, <1>8, NewOrgFacts DEF UserOK
<1>9. ConvertedOK'
    BY <1>1, <1>2, <1>3 DEF IInv, ConvertedOK, TypeOK
<1>10. \A r \in Report : ReportOK(r)'
    BY <1>4, <1>5 DEF IInv, ReportOK
<1>11. QED
    BY <1>1, <1>4, <1>6, <1>7, <1>8, <1>9, <1>10, CommitStep DEF CommitConvert

LEMMA CommitReportStep ==
    ASSUME IInv, NEW p \in Request, CommitReport(p)
    PROVE  IInv'
<1> DEFINE r == tx[p].report
           row == [user |-> tx[p].by, org |-> tx[p].org]
<1>1. /\ TypeOK /\ InFlight(p) /\ tx[p] \in Tx /\ FileOK(p) /\ r \in Report
      /\ pc[p] = "commit" /\ reports[r] = NoRow /\ tx[p].by \in User
      /\ tx[p].org \in Organisation \cup {NoOrg} /\ tx[p].op = "create_report"
      /\ tx[p].user \notin User /\ ~Founds(p)
    BY CommitFacts, MarkerFacts DEF CommitReport, FileOK, Tx
<1>2. row \in ReportRow /\ row # NoRow
    BY <1>1, MarkerFacts DEF ReportRow
<1>3. /\ reports' = [reports EXCEPT ![r] = row] /\ reports'[r] = row
      /\ UNCHANGED <<users, orgs, converted, belonged, lapses, begun>>
    BY <1>1 DEF CommitReport, TypeOK
<1>4. TypeOK'
    BY <1>1, <1>2, <1>3 DEF CommitReport, End, TypeOK, Step
<1>5. WritesUser(p) /\ WritesOrg(p) /\ WritesReport(p)
    BY <1>1, <1>2, <1>3 DEF WritesUser, WritesOrg, WritesReport, TypeOK
<1>6. ConvertedOK'
    BY <1>3 DEF IInv, ConvertedOK
<1>7. \A w \in Report : ReportOK(w)'
    BY <1>1, <1>3 DEF IInv, ReportOK, FileOK, TypeOK
<1>8. QED
    BY <1>1, <1>3, <1>4, <1>5, <1>6, <1>7, CommitStep DEF CommitReport
-----------------------------------------------------------------------------
LEMMA InitStep == Init => IInv
<1>1. SUFFICES ASSUME Init
               PROVE  IInv
    OBVIOUS
<1>2. TypeOK
  <2>1. Account("admin", NoOrg) \in UserRow
      BY RowFacts DEF Role
  <2>2. users \in [User -> UserRow \cup {NoRow}]
      BY <1>1, <2>1 DEF Init
  <2>3. QED
      BY <1>1, <2>2, TenancyAssumption DEF Init, TypeOK, Step
<1>3. ASSUME NEW u \in User
      PROVE  UserOK(u)
    BY <1>1 DEF Init, UserOK, Account
<1>4. \A o \in Organisation : orgs[o] = NoRow
    BY <1>1 DEF Init
<1>5. \A r \in Report : reports[r] = NoRow
    BY <1>1 DEF Init
<1>6. \A p \in Request : pc[p] = "idle" /\ tx[p] = NoTx
    BY <1>1 DEF Init
<1>7. ConvertedOK
    BY <1>1 DEF Init, ConvertedOK
<1>8. QED
    BY <1>2, <1>3, <1>4, <1>5, <1>6, <1>7
    DEF IInv, OrgOK, OneOrganisationPerOwner, Open, ReportOK, TxOK, PairOK, InFlight

\* A step that changes nothing.
LEMMA StutterStep ==
    ASSUME IInv, UNCHANGED vars
    PROVE  IInv'
<1>1. TypeOK'
    BY DEF IInv, TypeOK, vars
<1>2. /\ \A u \in User : UserOK(u)'
      /\ \A o \in Organisation : OrgOK(o)'
      /\ \A r \in Report : ReportOK(r)'
      /\ ConvertedOK' /\ OneOrganisationPerOwner'
    BY DEF IInv, vars, UserOK, OrgOK, ReportOK, ConvertedOK,
           OneOrganisationPerOwner, Open
<1>3. ASSUME NEW q \in Request
      PROVE  TxOK(q)'
  <2>1. TxOK(q)
      BY DEF IInv
  <2>2. CreateOK(q)' = CreateOK(q) /\ EditOK(q)' = EditOK(q)
      BY DEF CreateOK, EditOK, vars, Account
  <2>3. FoundOK(q)' = FoundOK(q) /\ ConvertOK(q)' = ConvertOK(q)
      BY DEF FoundOK, ConvertOK, vars, Open, Account
  <2>4. CloseOK(q)' = CloseOK(q) /\ FileOK(q)' = FileOK(q)
      BY DEF CloseOK, FileOK, vars
  <2>5. QED
      BY <2>1, <2>2, <2>3, <2>4
      DEF TxOK, InFlight, ActorOK, Creates, Edits, Founds, vars
<1>4. \A p \in Request : \A q \in Request \ {p} : PairOK(p, q)'
    BY DEF IInv, PairOK, InFlight, Creates, Founds, vars
<1>5. QED
    BY <1>1, <1>2, <1>3, <1>4 DEF IInv

LEMMA NextStep == IInv /\ [Next]_vars => IInv'
<1>1. SUFFICES ASSUME IInv, [Next]_vars
               PROVE  IInv'
    OBVIOUS
<1>2. ASSUME NEW p \in Request, Proceed(p)
      PROVE  IInv'
    BY <1>1, <1>2, InsertOrganisationStep, UpdateAccountStep, StampReportsStep,
       CommitInsertStep, CommitUpdateStep, CommitDeleteStep,
       CommitDeleteOrganisationStep, CommitConvertStep, CommitReportStep
    DEF Proceed
<1>3. ASSUME NEW p \in Request, Abort(p)
      PROVE  IInv'
    BY <1>1, <1>3, EndStep DEF Abort
<1>4. QED
    BY <1>1, <1>2, <1>3, StartStep, StutterStep DEF Next, Refuse

LEMMA Invariance == Spec => []IInv
BY InitStep, NextStep, PTL DEF Spec

\* The steps that write accounts or reports.
LEMMA Writers ==
    ASSUME Next
    PROVE  \E p \in Request :
               \/ /\ CommitInsert(p) \/ CommitUpdate(p) \/ CommitDelete(p)
                  /\ UNCHANGED reports
               \/ CommitConvert(p)
               \/ CommitReport(p) /\ UNCHANGED users
               \/ UNCHANGED <<users, reports>>
<1>1. PICK p \in Request : Start(p) \/ Proceed(p) \/ Abort(p) \/ Refuse(p)
    BY DEF Next
<1>2. CASE Start(p)
    BY <1>2
    DEF Start, CreateOrganisation, CreateMember, CreateReport, CreateUser,
        UpdateUser, DeleteUser, DeleteMember, DeleteOrganisation, Convert, Begin
<1>3. CASE Proceed(p)
    BY <1>3
    DEF Proceed, InsertOrganisation, UpdateAccount, StampReports, CommitInsert,
        CommitUpdate, CommitDelete, CommitDeleteOrganisation, CommitReport
<1>4. CASE Abort(p) \/ Refuse(p)
    BY <1>4 DEF Abort, Refuse, vars
<1>5. QED
    BY <1>1, <1>2, <1>3, <1>4

LEMMA StampStays ==
    ASSUME IInv, Next, NEW r \in Report, reports[r] # NoRow, reports[r].org # NoOrg
    PROVE  reports'[r] = reports[r]
<1>1. PICK p \in Request : \/ CommitConvert(p)
                           \/ CommitReport(p)
                           \/ UNCHANGED reports
    BY Writers
<1>2. CASE CommitConvert(p)
  <2>1. r \notin tx[p].stamped
      BY <1>2, CommitFacts DEF CommitConvert, ConvertOK
  <2>2. QED
      BY <1>2, <2>1 DEF CommitConvert
<1>3. CASE CommitReport(p)
  <2>1. TypeOK /\ tx[p].report \in Report /\ reports[tx[p].report] = NoRow
      BY <1>3, CommitFacts DEF CommitReport, FileOK
  <2>2. QED
      BY <1>3, <2>1 DEF CommitReport, TypeOK
<1>4. QED
    BY <1>1, <1>2, <1>3

\* The request that ends is the one that commits.
LEMMA OwnersStayHome ==
    ASSUME IInv, SerialInv, Next, NEW u \in User, NEW p \in Request,
           InFlight(p), pc'[p] = "idle", users'[u] # users[u],
           tx[p].actor # NoRow, tx[p].actor.role = "org_owner"
    PROVE  \/ users[u] = NoRow /\ users'[u] = Account("user", tx[p].actor.org)
           \/ /\ users[u] # NoRow
              /\ users'[u] = [users[u] EXCEPT !.deleted = TRUE]
              /\ <<u, tx[p].actor.org>> \in belonged
              /\ InTurn => users[u].org = tx[p].actor.org
                           /\ users[u].role # "org_owner"
<1>1. PICK z \in Request : \/ CommitInsert(z)
                           \/ CommitUpdate(z)
                           \/ CommitDelete(z)
                           \/ CommitConvert(z)
    BY Writers
<1>2. TypeOK /\ pc[z] = "commit" /\ End(z)
    BY <1>1 DEF IInv, CommitInsert, CommitUpdate, CommitDelete, CommitConvert
<1>3. z = p
    BY <1>2 DEF TypeOK, End, InFlight
<1>4. /\ tx[p] \in Tx /\ TxOK(p) /\ ActorOK(p)
      /\ tx[p].op \notin {"create_organisation", "create_user", "update_user",
                          "delete_user"}
    BY <1>2, <1>3, CommitFacts DEF TxOK, ActorOK
<1>5. CASE CommitInsert(p)
  <2>1. CreateOK(p) /\ tx[p].op = "create_member"
      BY <1>2, <1>3, <1>4, <1>5, CommitFacts DEF CommitInsert, Creates
  <2>2. u = tx[p].user /\ users'[u] = tx[p].new
      BY <1>2, <1>5, <2>1 DEF CommitInsert, TypeOK, CreateOK
  <2>3. QED
      BY <2>1, <2>2 DEF CreateOK
<1>6. CASE CommitUpdate(p)
    BY <1>4, <1>6 DEF CommitUpdate
<1>7. CASE CommitDelete(p)
  <2>1. EditOK(p) /\ tx[p].op = "delete_member"
      BY <1>2, <1>3, <1>4, <1>7, CommitFacts DEF CommitDelete, Edits
  <2>2. u = tx[p].user /\ users'[u] = [users[u] EXCEPT !.deleted = TRUE]
      BY <1>2, <1>7, <2>1 DEF CommitDelete, TypeOK, EditOK
  <2>3. /\ users[u] # NoRow /\ tx[p].old.org = tx[p].actor.org
        /\ <<u, tx[p].actor.org>> \in belonged
      BY <2>1, <2>2 DEF EditOK
  <2>4. InTurn => users[u] = tx[p].old /\ tx[p].old.role # "org_owner"
      BY <2>1, <2>2 DEF SerialInv, Reread, Edits
  <2>5. QED
      BY <2>2, <2>3, <2>4
<1>8. CASE CommitConvert(p)
    BY <1>2, <1>3, <1>8, CommitFacts DEF CommitConvert, ConvertOK
<1>9. QED
    BY <1>1, <1>3, <1>5, <1>6, <1>7, <1>8
-----------------------------------------------------------------------------
\* Every variable keeps its type, however requests interleave and fail.
THEOREM TypeCorrect == Spec => []TypeOK
BY Invariance, PTL DEF IInv

\* However often convert-to-org runs for one account, side by side even, and
\* whatever administrators found meanwhile, it owns at most one organisation
\* that is not deleted.
THEOREM OneOrganisation == Spec => []OneOrganisationPerOwner
BY Invariance, PTL DEF IInv

\* A report's organisation is never replaced: not by a conversion that has
\* found the report before, nor by administrators who move its author.
THEOREM StampsAreFinal == Spec => StampIsFinal
<1>1. IInv /\ [Next]_vars =>
          [\A r \in Report : reports[r] # NoRow /\ reports[r].org # NoOrg =>
               reports'[r] = reports[r]]_vars
    BY StampStays
<1>2. QED
    BY <1>1, Invariance, PTL DEF Spec, StampIsFinal

\* An organisation's owner reads the reports of accounts that have belonged to
\* it, and nobody else's; a list shows nothing that GET by id refuses.
THEOREM OwnersSeeMembersOnly == Spec => []OwnersSeeTheirMembers
<1>1. IInv => OwnersSeeTheirMembers
  <2>1. SUFFICES ASSUME IInv, NEW a \in User, NEW r \in Report,
                        reports[r] # NoRow, Authenticated(a)
                 PROVE  /\ Listed(a, r) => MayRead(a, r)
                        /\ IsOrgOwner(a) /\ MayRead(a, r) /\ reports[r].user # a =>
                               <<reports[r].user, users[a].org>> \in belonged
      BY DEF OwnersSeeTheirMembers
  <2>2. Listed(a, r) => MayRead(a, r)
      BY DEF Listed, MayRead
  <2>3. ASSUME IsOrgOwner(a), MayRead(a, r), reports[r].user # a
        PROVE  <<reports[r].user, users[a].org>> \in belonged
      BY <2>1, <2>3 DEF IInv, ReportOK, IsOrgOwner, MayRead
  <2>4. QED
      BY <2>2, <2>3
<1>2. QED
    BY <1>1, Invariance, PTL
-----------------------------------------------------------------------------
(***************************************************************************)
(* Requests that take turns.                                               *)
(***************************************************************************)

LEMMA OwnerFacts ==
    ASSUME TypeOK, OneOwner, lapses = {}, NEW o \in Organisation, Open(o),
           NEW u \in User
    PROVE  Owns(u, o) <=> u = orgs[o].owner
<1>1. {w \in User : Active(w) /\ users[w].role = "org_owner" /\ users[w].org = o}
          = {orgs[o].owner}
    BY DEF OneOwner
<1>2. QED
    BY <1>1 DEF Owns

LEMMA OneOwnerLater ==
    ASSUME TypeOK',
           \A o \in Organisation, u \in User :
               lapses' = {} /\ Open(o)' => (Owns(u, o)' <=> u = orgs'[o].owner)
    PROVE  OneOwner'
<1>1. \A o \in Organisation : Open(o)' => orgs'[o].owner \in User
    BY DEF TypeOK, OrgRow, Open
<1>2. ASSUME NEW o \in Organisation, lapses' = {}, Open(o)'
      PROVE  {w \in User : Owns(w, o)'} = {orgs'[o].owner}
    BY <1>1, <1>2
<1>3. QED
    BY <1>2 DEF OneOwner, Owns

\* Others do nothing while a request is in flight, in turn.
LEMMA InTurnFacts ==
    ASSUME SerialInv, InTurn, NEW p \in Request, InFlight(p)
    PROVE  Reread(p) /\ \A q \in Request \ {p} : ~InFlight(q)
BY DEF SerialInv

\* A request that goes on, or ends without a commit.
LEMMA QuietTurn ==
    ASSUME IInv', SerialInv, NEW p \in Request, InFlight(p), Others(p), Stored,
           lapses' = lapses,
           \/ pc'[p] = "idle"
           \/ /\ InTurn => Reread(p)'
              /\ tx'[p].actor = tx[p].actor /\ tx'[p].op = tx[p].op
              /\ tx'[p].by = tx[p].by /\ tx'[p].user = tx[p].user
    PROVE  SerialInv'
<1>1. InTurn' => /\ \A q \in Request : \A z \in Request \ {q} :
                        ~(InFlight(q)' /\ InFlight(z)')
                 /\ \A q \in Request : InFlight(q)' => Reread(q)'
    BY InTurnFacts DEF InTurn, InFlight, Others
<1>2. ConvertedReportsBelong'
    BY DEF SerialInv, ConvertedReportsBelong, Stored
<1>3. lapses' = {} => AdminsOutside'
  <2>1. SUFFICES ASSUME lapses = {}
                 PROVE  AdminsOutside'
      OBVIOUS
  <2>2. AdminsOutside
      BY <2>1 DEF SerialInv
  <2>3. AdminsHaveNone'
      BY <2>2 DEF AdminsOutside, AdminsHaveNone, Stored
  <2>4. ASSUME NEW q \in Request, InFlight(q)'
        PROVE  /\ tx'[q].actor # NoRow /\ tx'[q].actor.role = "admin" =>
                      tx'[q].actor.org = NoOrg
               /\ tx'[q].op = "update_user" => tx'[q].by # tx'[q].user
    <3>1. CASE q = p
        BY <2>2, <2>4, <3>1 DEF AdminsOutside, InFlight
    <3>2. CASE q # p
        BY <2>2, <2>4, <3>2 DEF AdminsOutside, InFlight, Others
    <3>3. QED
        BY <3>1, <3>2
  <2>5. QED
      BY <2>3, <2>4 DEF AdminsOutside
<1>4. OneOwner'
    BY DEF SerialInv, OneOwner, Open, Active, Stored
<1>5. QED
    BY <1>1, <1>2, <1>3, <1>4 DEF SerialInv

\* A request that commits.
LEMMA CommitTurn ==
    ASSUME IInv, SerialInv, NEW p \in Request, pc[p] = "commit", End(p),
           lapses' = lapses, ConvertedReportsBelong', OneOwner',
           lapses = {} => AdminsHaveNone'
    PROVE  SerialInv'
<1>1. TypeOK /\ InFlight(p)
    BY DEF IInv, InFlight
<1>2. pc'[p] = "idle" /\ Others(p)
    BY <1>1 DEF TypeOK, End, Others
<1>3. InTurn' => /\ \A q \in Request : \A z \in Request \ {q} :
                        ~(InFlight(q)' /\ InFlight(z)')
                 /\ \A q \in Request : InFlight(q)' => Reread(q)'
    BY <1>1, <1>2, InTurnFacts DEF InTurn, InFlight, Others
<1>4. lapses' = {} => AdminsOutside'
    BY <1>2 DEF SerialInv, AdminsOutside, InFlight, Others
<1>5. QED
    BY <1>3, <1>4 DEF SerialInv

\* What a request reads first is what is committed then.
LEMMA BeginTurn ==
    ASSUME IInv, SerialInv, NEW p, NEW first, NEW op, NEW a, NEW u, NEW new, NEW o,
           NEW r, Begin(p, first, op, a, u, new, o, r), pc[p] = "idle",
           begun < MaxRequests, p \in Request, first \in Step,
           op \in {"create_organisation", "create_user", "create_member",
                   "update_user", "delete_user", "delete_member",
                   "delete_organisation", "convert", "create_report"},
           a \in User \cup {Nobody}, u \in User \cup {Nobody},
           new \in UserRow \cup {NoRow}, o \in Organisation \cup {NoOrg},
           r \in Report \cup {NoRow},
           op \in {"update_user", "delete_user", "delete_member", "convert"} =>
               u \in User,
           op = "convert" => first = "insert" /\ Active(u),
           op = "delete_user" => ~OwnsOrganisation(users[u]),
           op = "delete_member" => users[u].role # "org_owner",
           op = "create_report" => a \in User /\ Active(a) /\ o = users[a].org
    PROVE  SerialInv'
<1>1. /\ TypeOK' /\ Others(p) /\ Stored /\ pc'[p] = first
      /\ tx'[p].op = op /\ tx'[p].by = a /\ tx'[p].user = u /\ tx'[p].org = o
      /\ tx'[p].actor = IF a = Nobody THEN NoRow ELSE users[a]
      /\ tx'[p].old = IF u = Nobody THEN NoRow ELSE users[u]
    BY Begins DEF IInv
<1>2. Reread(p)'
  <2>1. op \in {"update_user", "delete_user", "delete_member", "convert"} =>
            tx'[p].old = users[u]
      BY <1>1, MarkerFacts
  <2>2. op = "create_report" /\ a \in converted => o # NoOrg
      BY DEF IInv, ConvertedOK
  <2>3. QED
      BY <1>1, <2>1, <2>2 DEF Reread, Edits, Stored, Active, OwnsOrganisation
<1>3. /\ lapses \subseteq lapses'
      /\ "overlap" \notin lapses' => \A q \in Request : ~InFlight(q)
      /\ "self_edit" \notin lapses' => ~(op = "update_user" /\ a = u)
    BY DEF Begin
<1>4. InTurn' => /\ \A q \in Request : \A z \in Request \ {q} :
                        ~(InFlight(q)' /\ InFlight(z)')
                 /\ \A q \in Request : InFlight(q)' => Reread(q)'
    BY <1>1, <1>3, <1>2 DEF InTurn, InFlight, Others
<1>5. ConvertedReportsBelong'
    BY <1>1, <1>3 DEF SerialInv, ConvertedReportsBelong, Stored
<1>6. lapses' = {} => AdminsOutside'
  <2>1. SUFFICES ASSUME lapses' = {}
                 PROVE  AdminsOutside'
      OBVIOUS
  <2>2. lapses = {} /\ AdminsOutside
      BY <1>3, <2>1 DEF SerialInv
  <2>3. AdminsHaveNone'
      BY <1>1, <2>2 DEF AdminsOutside, AdminsHaveNone, Stored
  <2>4. \A q \in Request \ {p} : ~InFlight(q)'
      BY <1>1, <1>3, <2>1 DEF InFlight, Others
  <2>5. /\ tx'[p].actor # NoRow /\ tx'[p].actor.role = "admin" =>
               tx'[p].actor.org = NoOrg
        /\ tx'[p].op = "update_user" => tx'[p].by # tx'[p].user
      BY <1>1, <1>3, <2>1, <2>2 DEF AdminsOutside, AdminsHaveNone
  <2>6. QED
      BY <2>3, <2>4, <2>5 DEF AdminsOutside
<1>7. OneOwner'
    BY <1>1, <1>3 DEF SerialInv, OneOwner, Open, Active, Stored
<1>8. QED
    BY <1>4, <1>5, <1>6, <1>7 DEF SerialInv

LEMMA StartTurn ==
    ASSUME IInv, SerialInv, NEW p \in Request, Start(p)
    PROVE  SerialInv'
<1>1. /\ pc[p] = "idle" /\ begun < MaxRequests
      /\ "commit" \in Step /\ "update" \in Step /\ "insert" \in Step
    BY DEF Start, Step
<1>2. ASSUME NEW a \in User, CreateOrganisation(p, a)
      PROVE  SerialInv'
  <2>1. PICK u \in User, o \in Organisation :
            Begin(p, "commit", "create_organisation", a, u,
                  Account("org_owner", o), o, NoRow)
      BY <1>2 DEF CreateOrganisation, NewUser, NewOrg
  <2>2. Account("org_owner", o) \in UserRow
      BY RowFacts DEF Role
  <2>3. QED
      BY <1>1, <2>1, <2>2, BeginTurn
<1>3. ASSUME NEW a \in User, CreateMember(p, a)
      PROVE  SerialInv'
  <2>1. PICK u \in User : Begin(p, "commit", "create_member", a, u,
                                Account("user", users[a].org), NoOrg, NoRow)
      BY <1>3 DEF CreateMember, NewUser
  <2>2. Account("user", users[a].org) \in UserRow
      BY <1>3, ActorFacts, RowFacts DEF CreateMember, IsOrgOwner, Authenticated, Role
  <2>3. QED
      BY <1>1, <2>1, <2>2, BeginTurn
<1>4. ASSUME NEW a \in User, CreateReport(p, a)
      PROVE  SerialInv'
  <2>1. PICK r \in Report : Begin(p, "commit", "create_report", a, Nobody, NoRow,
                                  users[a].org, r)
      BY <1>4 DEF CreateReport, NewReport
  <2>2. users[a].org \in Organisation \cup {NoOrg} /\ Active(a)
      BY <1>4, ActorFacts DEF CreateReport, Authenticated
  <2>3. QED
      BY <1>1, <2>1, <2>2, BeginTurn
<1>5. ASSUME NEW a \in User, NEW role \in Role,
             NEW o \in Organisation \cup {NoOrg}, CreateUser(p, a, role, o)
      PROVE  SerialInv'
  <2>1. PICK u \in User : Begin(p, "commit", "create_user", a, u,
                                Account(role, o), NoOrg, NoRow)
      BY <1>5 DEF CreateUser, NewUser
  <2>2. Account(role, o) \in UserRow
      BY RowFacts
  <2>3. QED
      BY <1>1, <2>1, <2>2, BeginTurn
<1>6. ASSUME NEW a \in User, NEW u \in User, NEW role \in Role,
             NEW o \in Organisation \cup {NoOrg}, UpdateUser(p, a, u, role, o)
      PROVE  SerialInv'
  <2>1. Account(role, o) \in UserRow
      BY RowFacts
  <2>2. Begin(p, "update", "update_user", a, u, Account(role, o), NoOrg, NoRow)
      BY <1>6 DEF UpdateUser
  <2>3. QED
      BY <1>1, <2>1, <2>2, BeginTurn
<1>7. ASSUME NEW a \in User, NEW u \in User, DeleteUser(p, a, u)
      PROVE  SerialInv'
  <2>1. /\ Begin(p, "update", "delete_user", a, u, NoRow, NoOrg, NoRow)
        /\ ~OwnsOrganisation(users[u])
      BY <1>7 DEF DeleteUser
  <2>2. QED
      BY <1>1, <2>1, BeginTurn
<1>8. ASSUME NEW a \in User, NEW u \in User, DeleteMember(p, a, u)
      PROVE  SerialInv'
  <2>1. /\ Begin(p, "update", "delete_member", a, u, NoRow, NoOrg, NoRow)
        /\ users[u].role # "org_owner"
      BY <1>8 DEF DeleteMember
  <2>2. QED
      BY <1>1, <2>1, BeginTurn
<1>9. ASSUME NEW a \in User, NEW o \in Organisation, DeleteOrganisation(p, a, o)
      PROVE  SerialInv'
  <2>1. Begin(p, "commit", "delete_organisation", a, Nobody, NoRow, o, NoRow)
      BY <1>9 DEF DeleteOrganisation
  <2>2. QED
      BY <1>1, <2>1, BeginTurn
<1>10. ASSUME NEW u \in User, Convert(p, u)
       PROVE  SerialInv'
  <2>1. PICK o \in Organisation : Begin(p, "insert", "convert", Nobody, u,
                                        Account("org_owner", o), o, NoRow)
      BY <1>10 DEF Convert, NewOrg
  <2>2. Account("org_owner", o) \in UserRow /\ Active(u)
      BY <1>10, RowFacts DEF Role, Convert
  <2>3. QED
      BY <1>1, <2>1, <2>2, BeginTurn
<1>11. QED
    BY <1>2, <1>3, <1>4, <1>5, <1>6, <1>7, <1>8, <1>9, <1>10 DEF Start

LEMMA ProceedTurn ==
    ASSUME IInv, IInv', SerialInv, NEW p \in Request,
           \/ InsertOrganisation(p)
           \/ UpdateAccount(p)
           \/ StampReports(p)
           \/ Abort(p)
    PROVE  SerialInv'
<1>1. TypeOK /\ TypeOK' /\ InFlight(p)
    BY DEF IInv, InsertOrganisation, UpdateAccount, StampReports, Abort, InFlight
<1>2. Others(p) /\ Stored /\ lapses' = lapses
    BY <1>1 DEF TypeOK, Others, Stored, InsertOrganisation, UpdateAccount,
                StampReports, Abort, End, Goto
<1>3. CASE pc'[p] = "idle"
    BY <1>1, <1>2, <1>3, QuietTurn
<1>4. CASE UNCHANGED tx /\ (UpdateAccount(p) \/ InsertOrganisation(p))
  <2>1. /\ InTurn => Reread(p)
        /\ ~(tx[p].op = "convert" /\ pc'[p] = "commit")
      BY <1>1, <1>4, InTurnFacts
      DEF UpdateAccount, InsertOrganisation, Goto, End, TypeOK
  <2>2. InTurn => Reread(p)'
      BY <1>2, <1>4, <2>1 DEF Reread, Edits, Stored, OwnsOrganisation
  <2>3. QED
      BY <1>1, <1>2, <1>4, <2>2, QuietTurn
<1>5. CASE StampReports(p)
  <2> DEFINE found == {r \in Report : /\ reports[r] # NoRow
                                      /\ reports[r].user = tx[p].user
                                      /\ reports[r].org = NoOrg}
             t == [tx[p] EXCEPT !.stamped = found]
  <2>1. TxOK(p) /\ tx[p] \in Tx /\ tx' = [tx EXCEPT ![p] = t]
      BY <1>1, <1>5 DEF IInv, TxOK, InFlight, TypeOK, StampReports
  <2>2. /\ tx'[p].op = tx[p].op /\ tx'[p].by = tx[p].by /\ tx'[p].user = tx[p].user
        /\ tx'[p].actor = tx[p].actor /\ tx'[p].old = tx[p].old
        /\ tx'[p].org = tx[p].org /\ tx'[p].stamped = found
      BY <1>1, <2>1 DEF TypeOK, Tx
  <2> HIDE DEF t
  <2>3. ASSUME InTurn
        PROVE  Reread(p)'
    <3>1. Reread(p)
        BY <1>1, <2>3, InTurnFacts
    <3>2. /\ Edits(p)' \/ tx'[p].op = "convert" => users'[tx'[p].user] = tx'[p].old
          /\ tx'[p].op = "convert" => ~tx'[p].old.deleted
          /\ tx'[p].op = "delete_user" => ~OwnsOrganisation(tx'[p].old)
          /\ tx'[p].op = "delete_member" => tx'[p].old.role # "org_owner"
          /\ tx'[p].op = "create_report" /\ tx'[p].by \in converted' =>
                 tx'[p].org # NoOrg
        BY <1>2, <2>2, <3>1 DEF Reread, Edits, Stored, OwnsOrganisation
    <3>3. \A r \in Report : reports'[r] # NoRow /\ reports'[r].user = tx'[p].user
              /\ reports'[r].org = NoOrg => r \in tx'[p].stamped
        BY <1>2, <2>2 DEF Stored
    <3>4. QED
        BY <3>2, <3>3 DEF Reread, OwnsOrganisation
  <2>4. QED
      BY <1>1, <1>2, <2>2, <2>3, QuietTurn
<1>6. QED
    BY <1>1, <1>3, <1>4, <1>5
    DEF InsertOrganisation, UpdateAccount, Abort, End, TypeOK

\* A new account is nobody's owner, unless its organisation is as new.
LEMMA CommitInsertTurn ==
    ASSUME IInv, IInv', SerialInv, NEW p \in Request, CommitInsert(p)
    PROVE  SerialInv'
<1> DEFINE u == tx[p].user
           n == tx[p].org
<1>1. /\ TypeOK /\ TypeOK' /\ InFlight(p) /\ tx[p] \in Tx /\ Creates(p)
      /\ CreateOK(p) /\ pc[p] = "commit" /\ End(p) /\ u \in User /\ users[u] = NoRow
      /\ tx[p].new \in UserRow /\ tx[p].new # NoRow /\ ~tx[p].new.deleted
      /\ TxOK(p)
    BY CommitFacts, MarkerFacts DEF IInv, CommitInsert, Creates, CreateOK
<1>2. Founds(p) => /\ tx[p].op = "create_organisation" /\ n \in Organisation
                   /\ orgs[n] = NoRow /\ tx[p].new.org = n
                   /\ tx[p].new.role = "org_owner"
    BY <1>1, CommitFacts DEF Founds, FoundOK, CreateOK, Creates, Account
<1>3. /\ users' = [users EXCEPT ![u] = tx[p].new] /\ users'[u] = tx[p].new
      /\ UNCHANGED <<reports, converted, lapses, begun>>
    BY <1>1 DEF CommitInsert, TypeOK
<1>4. \A o \in Organisation :
          orgs'[o] = IF Founds(p) /\ o = n THEN [owner |-> u, deleted |-> FALSE]
                                           ELSE orgs[o]
    BY <1>1, <1>2 DEF CommitInsert, TypeOK, Founds
<1>5. ConvertedReportsBelong'
    BY <1>3 DEF SerialInv, ConvertedReportsBelong
<1>6. ASSUME lapses = {}, ~Founds(p)
      PROVE  tx[p].new.org = NoOrg \/ tx[p].new.role = "user"
  <2>1. CASE tx[p].op = "create_user"
    <3>1. tx[p].by # u
        BY <1>1 DEF CreateOK
    <3>2. tx[p].actor # NoRow /\ tx[p].actor.role = "admin"
        BY <1>1, <2>1, MarkerFacts DEF TxOK, ActorOK
    <3>3. tx[p].actor.org = NoOrg
        BY <1>1, <1>6, <3>2 DEF SerialInv, AdminsOutside
    <3>4. QED
        BY <2>1, <3>1, <3>3 DEF CommitInsert, Answerable
  <2>2. CASE tx[p].op = "create_member"
      BY <1>1, <2>2 DEF CreateOK, Account
  <2>3. QED
      BY <1>1, <1>6, <2>1, <2>2 DEF Creates, Founds
<1>7. lapses = {} => AdminsHaveNone'
    BY <1>1, <1>2, <1>3, <1>6 DEF SerialInv, AdminsOutside, AdminsHaveNone, TypeOK
<1>8. ASSUME NEW o \in Organisation, NEW w \in User, lapses' = {}, Open(o)'
      PROVE  Owns(w, o)' <=> w = orgs'[o].owner
  <2>1. lapses = {} /\ OneOwner
      BY <1>3, <1>8 DEF SerialInv
  <2>2. CASE Founds(p) /\ o = n
    <3>1. orgs'[o].owner = u /\ (w = u => Owns(w, o)')
        BY <1>1, <1>2, <1>3, <1>4, <2>2 DEF Owns, Active
    <3>2. ASSUME w # u, Owns(w, o)'
          PROVE  FALSE
      <4>1. users[w] # NoRow /\ users[w].org = o /\ o # NoOrg
          BY <1>1, <1>3, <3>2, MarkerFacts DEF Owns, Active, TypeOK
      <4>2. orgs[o] # NoRow
          BY <4>1 DEF IInv, UserOK
      <4>3. QED
          BY <1>2, <2>2, <4>2
    <3>3. QED
        BY <3>1, <3>2
  <2>3. CASE ~(Founds(p) /\ o = n)
    <3>1. orgs'[o] = orgs[o] /\ Open(o)
        BY <1>4, <1>8, <2>3 DEF Open
    <3>2. Owns(w, o) <=> w = orgs[o].owner
        BY <1>1, <2>1, <3>1, OwnerFacts
    <3>3. w = u => w # orgs[o].owner
        BY <1>1, <3>1 DEF IInv, OrgOK, Open
    <3>4. w = u => ~Owns(w, o)'
      <4>1. CASE Founds(p)
          BY <1>2, <1>3, <2>3, <4>1 DEF Owns
      <4>2. CASE ~Founds(p)
          BY <1>3, <1>6, <2>1, <4>2, MarkerFacts DEF Owns
      <4>3. QED
          BY <4>1, <4>2
    <3>5. w # u => (Owns(w, o)' <=> Owns(w, o))
        BY <1>1, <1>3 DEF Owns, Active, TypeOK
    <3>6. QED
        BY <3>1, <3>2, <3>3, <3>4, <3>5
  <2>4. QED
      BY <2>2, <2>3
<1>9. OneOwner'
    BY <1>1, <1>8, OneOwnerLater
<1>10. QED
    BY <1>1, <1>3, <1>5, <1>7, <1>9, CommitTurn

\* One account is replaced by another row of it that owns no organisation, as
\* it did before.
LEMMA PlainWrite ==
    ASSUME IInv, IInv', SerialInv, NEW p \in Request, pc[p] = "commit", End(p),
           NEW u \in User, users[u] # NoRow, NEW row,
           users' = [users EXCEPT ![u] = row],
           UNCHANGED <<orgs, reports, converted, lapses>>,
           lapses = {} => /\ ~\E o \in Organisation : Owns(u, o)
                          /\ ~\E o \in Organisation : Owns(u, o)'
                          /\ row.role = "admin" => row.org = NoOrg
    PROVE  SerialInv'
<1>1. TypeOK /\ TypeOK' /\ users'[u] = row
    BY DEF IInv, TypeOK
<1>2. ConvertedReportsBelong'
    BY DEF SerialInv, ConvertedReportsBelong
<1>3. lapses = {} => AdminsHaveNone'
    BY <1>1 DEF SerialInv, AdminsOutside, AdminsHaveNone, TypeOK
<1>4. ASSUME NEW o \in Organisation, NEW w \in User, lapses' = {}, Open(o)'
      PROVE  Owns(w, o)' <=> w = orgs'[o].owner
  <2>1. Owns(w, o) <=> w = orgs[o].owner
      BY <1>1, <1>4, OwnerFacts DEF SerialInv, Open
  <2>2. w # u => (Owns(w, o)' <=> Owns(w, o))
      BY <1>1 DEF Owns, Active, TypeOK
  <2>3. QED
      BY <1>4, <2>1, <2>2
<1>5. OneOwner'
    BY <1>1, <1>4, OneOwnerLater
<1>6. QED
    BY <1>2, <1>3, <1>5, CommitTurn

\* The answer to an update can be built only for an account outside.
LEMMA CommitUpdateTurn ==
    ASSUME IInv, IInv', SerialInv, NEW p \in Request, CommitUpdate(p)
    PROVE  SerialInv'
<1> DEFINE u == tx[p].user
           row == Merged(tx[p], users[u])
<1>1. /\ TypeOK /\ InFlight(p) /\ tx[p] \in Tx /\ EditOK(p) /\ u \in User
      /\ pc[p] = "commit" /\ users[u] # NoRow /\ users[u] \in UserRow
      /\ tx[p].new \in UserRow /\ tx[p].old \in UserRow /\ TxOK(p)
      /\ tx[p].op = "update_user" /\ End(p)
    BY CommitFacts DEF CommitUpdate, Edits, EditOK, TypeOK
<1>2. row.org = IF tx[p].new.org # tx[p].old.org THEN tx[p].new.org
                                                 ELSE users[u].org
    BY <1>1, MergedFacts
<1>3. /\ users' = [users EXCEPT ![u] = row] /\ users'[u] = row
      /\ UNCHANGED <<orgs, reports, converted, lapses>>
      /\ Answerable(tx[p], row)
    BY <1>1 DEF CommitUpdate, TypeOK
<1> HIDE DEF row
<1>4. ASSUME lapses = {}
      PROVE  row.org = NoOrg /\ users[u].org = NoOrg
  <2>1. AdminsOutside /\ tx[p].actor # NoRow /\ tx[p].actor.role = "admin"
      BY <1>1, <1>4, MarkerFacts DEF SerialInv, TxOK, ActorOK
  <2>2. tx[p].actor.org = NoOrg /\ tx[p].by # u
      BY <1>1, <2>1 DEF AdminsOutside
  <2>3. row.org = NoOrg
      BY <1>3, <2>2 DEF Answerable
  <2>4. QED
      BY <1>1, <1>2, <2>3 DEF EditOK
<1>5. lapses = {} => /\ ~\E o \in Organisation : Owns(u, o)
                     /\ \A o \in Organisation : ~(users'[u].org = o)
    BY <1>3, <1>4, MarkerFacts DEF Owns
<1>6. ASSUME NEW w \in User, w = u, lapses = {}
      PROVE  ~\E o \in Organisation : Owns(w, o)'
    BY <1>5, <1>6 DEF Owns
<1>7. QED
    BY <1>1, <1>3, <1>4, <1>5, <1>6, PlainWrite

\* Who is deleted owned nothing when read, and that is still so.
LEMMA CommitDeleteTurn ==
    ASSUME IInv, IInv', SerialInv, NEW p \in Request, CommitDelete(p)
    PROVE  SerialInv'
<1> DEFINE u == tx[p].user
           row == [users[u] EXCEPT !.deleted = TRUE]
<1>1. /\ TypeOK /\ InFlight(p) /\ tx[p] \in Tx /\ u \in User /\ Edits(p)
      /\ pc[p] = "commit" /\ users[u] # NoRow /\ users[u] \in UserRow /\ End(p)
      /\ tx[p].op \in {"delete_user", "delete_member"}
    BY CommitFacts DEF CommitDelete, Edits, EditOK, TypeOK
<1>2. /\ row \in UserRow /\ row.org = users[u].org /\ row.role = users[u].role
      /\ row.deleted
    BY <1>1 DEF UserRow
<1>3. /\ users' = [users EXCEPT ![u] = row] /\ users'[u] = row
      /\ UNCHANGED <<orgs, reports, converted, lapses>>
    BY <1>1 DEF CommitDelete, TypeOK
<1> HIDE DEF row
<1>4. ASSUME lapses = {}
      PROVE  /\ ~\E o \in Organisation : Owns(u, o)
             /\ row.role = "admin" => row.org = NoOrg
  <2>1. Reread(p) /\ AdminsHaveNone
      BY <1>1, <1>4, InTurnFacts DEF InTurn, SerialInv, AdminsOutside
  <2>2. users[u].role # "org_owner" \/ users[u].org = NoOrg
      BY <1>1, <2>1 DEF Reread, OwnsOrganisation
  <2>3. QED
      BY <1>1, <1>2, <2>1, <2>2, MarkerFacts DEF Owns, AdminsHaveNone
<1>5. ASSUME NEW w \in User, w = u
      PROVE  ~\E o \in Organisation : Owns(w, o)'
    BY <1>2, <1>3, <1>5 DEF Owns, Active
<1>6. QED
    BY <1>1, <1>3, <1>4, <1>5, PlainWrite

LEMMA CommitDeleteOrganisationTurn ==
    ASSUME IInv, IInv', SerialInv, NEW p \in Request, CommitDeleteOrganisation(p)
    PROVE  SerialInv'
<1>1. /\ TypeOK /\ TypeOK' /\ pc[p] = "commit" /\ End(p)
      /\ tx[p].org \in Organisation /\ orgs[tx[p].org] \in OrgRow
      /\ UNCHANGED <<users, reports, converted, lapses>>
    BY CommitFacts DEF IInv, CommitDeleteOrganisation, CloseOK, TypeOK
<1>2. ConvertedReportsBelong' /\ (lapses = {} => AdminsHaveNone')
    BY <1>1 DEF SerialInv, ConvertedReportsBelong, AdminsOutside, AdminsHaveNone
<1>3. \A o \in Organisation : Open(o)' => Open(o) /\ orgs'[o] = orgs[o]
    BY <1>1 DEF CommitDeleteOrganisation, TypeOK, Open, OrgRow
<1>4. ASSUME NEW o \in Organisation, NEW w \in User, lapses' = {}, Open(o)'
      PROVE  Owns(w, o)' <=> w = orgs'[o].owner
  <2>1. Owns(w, o) <=> w = orgs[o].owner
      BY <1>1, <1>3, <1>4, OwnerFacts DEF SerialInv
  <2>2. QED
      BY <1>1, <1>3, <1>4, <2>1 DEF Owns, Active
<1>5. OneOwner'
    BY <1>1, <1>4, OneOwnerLater
<1>6. QED
    BY <1>1, <1>2, <1>5, CommitTurn

\* All of the account's reports without an organisation were found.
LEMMA CommitConvertTurn ==
    ASSUME IInv, IInv', SerialInv, NEW p \in Request, CommitConvert(p)
    PROVE  SerialInv'
<1> DEFINE u == tx[p].user
           n == tx[p].org
           row == Merged(tx[p], users[u])
<1>1. /\ TypeOK /\ TypeOK' /\ InFlight(p) /\ tx[p] \in Tx /\ ConvertOK(p)
      /\ tx[p].op = "convert" /\ pc[p] = "commit" /\ End(p)
      /\ u \in User /\ users[u] # NoRow /\ users[u] \in UserRow
      /\ n \in Organisation /\ orgs[n] = NoRow /\ n # NoOrg
      /\ tx[p].old \in UserRow /\ tx[p].old.org = NoOrg /\ tx[p].old.role = "user"
      /\ tx[p].new = Account("org_owner", n)
    BY CommitFacts, MarkerFacts
    DEF IInv, CommitConvert, Founds, ConvertOK, FoundOK, TypeOK
<1>2. row \in UserRow /\ row # NoRow /\ row.org = n /\ row.role = "org_owner"
      /\ row.deleted = users[u].deleted
  <2>1. tx[p].new \in UserRow /\ tx[p].new.org = n /\ tx[p].new.role = "org_owner"
      BY <1>1, RowFacts DEF Role
  <2>2. QED
      BY <1>1, <2>1, MergedFacts, MarkerFacts
<1>3. /\ users' = [users EXCEPT ![u] = row] /\ users'[u] = row
      /\ orgs' = [orgs EXCEPT ![n] = [owner |-> u, deleted |-> FALSE]]
      /\ orgs'[n] = [owner |-> u, deleted |-> FALSE]
      /\ converted' = converted \cup {u} /\ UNCHANGED <<lapses, begun>>
    BY <1>1 DEF CommitConvert, TypeOK
<1> HIDE DEF row
<1>4. ConvertedReportsBelong'
  <2>1. SUFFICES ASSUME InTurn, NEW r \in Report, reports'[r] # NoRow,
                        reports'[r].user \in converted'
                 PROVE  reports'[r].org # NoOrg
      BY <1>3 DEF ConvertedReportsBelong, InTurn
  <2>2. CASE r \in tx[p].stamped
    <3>1. reports[r] \in ReportRow
        BY <1>1, <2>2 DEF ConvertOK, TypeOK
    <3>2. QED
        BY <1>1, <2>2, <3>1 DEF CommitConvert, ReportRow
  <2>3. CASE r \notin tx[p].stamped
    <3>1. reports'[r] = reports[r]
        BY <2>3 DEF CommitConvert
    <3>2. reports[r].user = u => reports[r].org # NoOrg
        BY <1>1, <2>1, <2>3, <3>1, InTurnFacts DEF Reread
    <3>3. reports[r].user \in converted => reports[r].org # NoOrg
        BY <2>1, <3>1 DEF SerialInv, ConvertedReportsBelong, InTurn
    <3>4. QED
        BY <1>3, <2>1, <3>1, <3>2, <3>3
  <2>4. QED
      BY <2>2, <2>3
<1>5. lapses = {} => AdminsHaveNone'
    BY <1>1, <1>2, <1>3 DEF SerialInv, AdminsOutside, AdminsHaveNone, TypeOK
<1>6. ASSUME NEW o \in Organisation, NEW w \in User, lapses' = {}, Open(o)'
      PROVE  Owns(w, o)' <=> w = orgs'[o].owner
  <2>1. lapses = {} /\ OneOwner
      BY <1>3, <1>6 DEF SerialInv
  <2>2. users[u] = tx[p].old /\ ~tx[p].old.deleted
      BY <1>1, <2>1, InTurnFacts DEF InTurn, Reread
  <2>3. w # u => (Owns(w, o)' <=> Owns(w, o))
      BY <1>1, <1>3 DEF Owns, Active, TypeOK
  <2>4. ~Owns(u, o)
      BY <1>1, <2>2 DEF Owns
  <2>5. CASE o = n
    <3>1. orgs'[o].owner = u /\ users'[u].org = o /\ users'[u].role = "org_owner"
          /\ users'[u] # NoRow /\ ~users'[u].deleted
        BY <1>2, <1>3, <2>2, <2>5
    <3>2. w = u => Owns(w, o)'
        BY <3>1 DEF Owns, Active
    <3>3. ASSUME w # u, Owns(w, o)
          PROVE  FALSE
        BY <1>1, <2>5, <3>3 DEF IInv, UserOK, Owns, Active
    <3>4. QED
        BY <2>3, <3>1, <3>2, <3>3
  <2>6. CASE o # n
    <3>1. orgs'[o] = orgs[o] /\ Open(o)
        BY <1>1, <1>3, <1>6, <2>6 DEF Open, TypeOK
    <3>2. Owns(w, o) <=> w = orgs[o].owner
        BY <1>1, <2>1, <3>1, OwnerFacts
    <3>3. w = u => ~Owns(w, o)'
        BY <1>2, <1>3, <2>6 DEF Owns
    <3>4. QED
        BY <2>3, <2>4, <3>1, <3>2, <3>3
  <2>7. QED
      BY <2>5, <2>6
<1>7. OneOwner'
    BY <1>1, <1>6, OneOwnerLater
<1>8. QED
    BY <1>1, <1>3, <1>4, <1>5, <1>7, CommitTurn

LEMMA CommitReportTurn ==
    ASSUME IInv, IInv', SerialInv, NEW p \in Request, CommitReport(p)
    PROVE  SerialInv'
<1> DEFINE r == tx[p].report
           row == [user |-> tx[p].by, org |-> tx[p].org]
<1>1. /\ TypeOK /\ InFlight(p) /\ r \in Report /\ pc[p] = "commit" /\ End(p)
      /\ tx[p].op = "create_report"
      /\ reports' = [reports EXCEPT ![r] = row] /\ reports'[r] = row
      /\ UNCHANGED <<users, orgs, converted, lapses>>
    BY CommitFacts DEF CommitReport, FileOK, TypeOK
<1>2. ConvertedReportsBelong'
  <2>1. InTurn /\ tx[p].by \in converted => tx[p].org # NoOrg
      BY <1>1, InTurnFacts DEF Reread
  <2>2. QED
      BY <1>1, <2>1 DEF SerialInv, ConvertedReportsBelong, InTurn, TypeOK
<1>3. (lapses = {} => AdminsHaveNone') /\ OneOwner'
    BY <1>1 DEF SerialInv, AdminsOutside, AdminsHaveNone, OneOwner, Open, Active
<1>4. QED
    BY <1>1, <1>2, <1>3, CommitTurn
-----------------------------------------------------------------------------
LEMMA InitTurn == Init => SerialInv
<1>1. SUFFICES ASSUME Init
               PROVE  SerialInv
    OBVIOUS
<1>2. /\ \A p \in Request : ~InFlight(p)
      /\ \A o \in Organisation : ~Open(o)
      /\ \A r \in Report : reports[r] = NoRow
    BY <1>1 DEF Init, InFlight, Open
<1>3. AdminsHaveNone
    BY <1>1 DEF Init, AdminsHaveNone, Account
<1>4. QED
    BY <1>2, <1>3
    DEF SerialInv, ConvertedReportsBelong, AdminsOutside, OneOwner

LEMMA StutterTurn ==
    ASSUME SerialInv, UNCHANGED vars
    PROVE  SerialInv'
<1>1. /\ ConvertedReportsBelong' /\ OneOwner'
      /\ lapses' = {} => AdminsOutside'
    BY DEF SerialInv, ConvertedReportsBelong, OneOwner, Open, Active, AdminsOutside,
           AdminsHaveNone, InFlight, vars
<1>2. ASSUME NEW p \in Request, Reread(p)
      PROVE  Reread(p)'
    BY <1>2 DEF Reread, Edits, OwnsOrganisation, vars
<1>3. QED
    BY <1>1, <1>2 DEF SerialInv, InTurn, InFlight, vars

LEMMA NextTurn == IInv /\ IInv' /\ SerialInv /\ [Next]_vars => SerialInv'
<1>1. SUFFICES ASSUME IInv, IInv', SerialInv, [Next]_vars
               PROVE  SerialInv'
    OBVIOUS
<1>2. ASSUME NEW p \in Request, Proceed(p) \/ Abort(p)
      PROVE  SerialInv'
    BY <1>1, <1>2, ProceedTurn, CommitInsertTurn, CommitUpdateTurn,
       CommitDeleteTurn, CommitDeleteOrganisationTurn, CommitConvertTurn,
       CommitReportTurn
    DEF Proceed
<1>3. QED
    BY <1>1, <1>2, StartTurn, StutterTurn DEF Next, Refuse

LEMMA SerialInvariance == Spec => []SerialInv
<1>1. IInv /\ SerialInv /\ [Next]_vars => SerialInv'
    BY NextStep, NextTurn
<1>2. QED
    BY <1>1, InitTurn, Invariance, PTL DEF Spec

\* Until two requests overlap or an administrator edits their own account,
\* every organisation that is not deleted has exactly one owner, the account
\* that it names: no administrator can move anybody into an organisation or
\* out of one, because the answer to that request cannot be built.
THEOREM EachHasOneOwner == Spec => []OneOwner
BY SerialInvariance, PTL DEF SerialInv

\* What an organisation owner's request commits is a new plain member of the
\* organisation that the owner had when the request was authenticated, or the
\* deletion of an account that has belonged to it and, until two requests
\* overlap, belongs to it still and does not own it.
THEOREM OwnersKeepToTheirTenant == Spec => OwnersActWithinTheirTenant
<1>1. IInv /\ SerialInv /\ [Next]_vars =>
          [\A u \in User, p \in Request :
              /\ InFlight(p) /\ pc'[p] = "idle" /\ users'[u] # users[u]
              /\ tx[p].actor # NoRow /\ tx[p].actor.role = "org_owner"
              => \/ users[u] = NoRow
                    /\ users'[u] = Account("user", tx[p].actor.org)
                 \/ /\ users[u] # NoRow
                    /\ users'[u] = [users[u] EXCEPT !.deleted = TRUE]
                    /\ <<u, tx[p].actor.org>> \in belonged
                    /\ "overlap" \notin lapses =>
                           users[u].org = tx[p].actor.org
                           /\ users[u].role # "org_owner"]_vars
    BY OwnersStayHome DEF InTurn
<1>2. QED
    BY <1>1, Invariance, SerialInvariance, PTL DEF Spec, OwnersActWithinTheirTenant

\* Until two requests overlap, every report of a converted account has an
\* organisation: the command stamps those there are, and the account's later
\* ones carry the organisation that no update takes away.
THEOREM ConvertedReportsHaveOne == Spec => []ConvertedReportsBelong
BY SerialInvariance, PTL DEF SerialInv
=============================================================================
