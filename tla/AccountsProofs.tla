--------------------------- MODULE AccountsProofs ---------------------------
(***************************************************************************)
(* Theorems about Accounts that hold for every set of identifiers,         *)
(* addresses and names, and any number of requests.                        *)
(***************************************************************************)
EXTENDS Accounts, TLAPS

(***************************************************************************)
(* The inductive invariant: what a request is about to write, and what the *)
(* unique indexes keep between the statements of different requests.       *)
(***************************************************************************)

\* What a statement updates is stored; what it inserts is not; and the owner
\* that it names is stored or comes along.
Sound(p, s) ==
    /\ s.do \in {"email", "promote", "delete_user"} => users[s.id] # NoRow
    /\ s.do \in {"name", "delete_org"} => orgs[s.id] # NoRow
    /\ s.do = "insert_user" => users[s.id] = NoRow
    /\ s.do = "insert_org" =>
           /\ orgs[s.id] = NoRow
           /\ \/ users[s.owner] # NoRow
              \/ \E t \in Statements(p) : t.do = "insert_user" /\ t.id = s.owner

\* A request writes one account and one organisation at most.
TxOK(p) ==
    InFlight(p) =>
        /\ \A s \in Statements(p) : Sound(p, s)
        /\ \A s, t \in Statements(p) : (s.id \in User <=> t.id \in User) => s = t
        /\ tx[p].founding => \A s \in Statements(p) : s.id \in User =>
               \E t \in Statements(p) : t.do = "insert_org" /\ t.owner = s.id
        /\ \A s \in tx[p].done : ~Taken(s)

\* New identifiers are one request's own, and statements that have run would
\* add different entries to different rows.
PairOK(p, q) ==
    InFlight(p) /\ InFlight(q) =>
        /\ \A s \in Statements(p), t \in Statements(q) :
               s.do \in {"insert_user", "insert_org"} => s.id # t.id
        /\ \A s \in tx[p].done, t \in tx[q].done :
               s.id # t.id /\ Adds(s) \cap Adds(t) = {}

RowsOK ==
    /\ users \in [User -> UserRow \cup {NoRow}]
    /\ orgs \in [Organisation -> OrgRow \cup {NoRow}]
    /\ founders \subseteq User
    /\ begun \in 0..MaxRequests
    /\ tx \in [Request -> Tx \cup {NoTx}]

FoundersOwn ==
    \A u \in founders : \E o \in Organisation : orgs[o] # NoRow /\ orgs[o].owner = u

OwnersStored == \A o \in Organisation : orgs[o] # NoRow => users[orgs[o].owner] # NoRow

EntriesApart ==
    \A i, j \in User \cup Organisation : i # j => Entries(i) \cap Entries(j) = {}

IInv ==
    /\ RowsOK
    /\ \A p \in Request : TxOK(p)
    /\ \A p \in Request : \A q \in Request \ {p} : PairOK(p, q)
    /\ FoundersOwn /\ OwnersStored /\ EntriesApart
-----------------------------------------------------------------------------
LEMMA MarkerFacts ==
    /\ NoTx \notin Tx /\ NoRow \notin UserRow /\ NoRow \notin OrgRow
    /\ \A x \in User : x \notin Organisation
BY AccountsAssumption

LEMMA StatementFacts ==
    ASSUME NEW s \in Statement
    PROVE  \/ /\ s.do = "insert_user" /\ s.id \in User
              /\ s.email \in Address /\ s.kind \in Kind
           \/ s.do = "email" /\ s.id \in User /\ s.email \in Address
           \/ s.do \in {"delete_user", "promote"} /\ s.id \in User
           \/ /\ s.do = "insert_org" /\ s.id \in Organisation
              /\ s.name \in Name /\ s.owner \in User
           \/ s.do = "name" /\ s.id \in Organisation /\ s.name \in Name
           \/ s.do = "delete_org" /\ s.id \in Organisation
BY DEF Statement, UserInsert, EmailUpdate, UserUpdate, OrgInsert, NameUpdate, OrgDelete

Members(statements) == {statements[i] : i \in DOMAIN statements}

\* The statements of a sequence of one or two, and of a longer one.
LEMMA SequenceFacts ==
    /\ \A a : Members(<<a>>) = {a}
    /\ \A a, b : Members(<<a, b>>) = {a, b}
BY DEF Members

LEMMA HeadTail ==
    ASSUME NEW S, NEW s \in Seq(S), s # <<>>
    PROVE  /\ {s[i] : i \in DOMAIN s} =
                  {Head(s)} \cup {Tail(s)[i] : i \in DOMAIN Tail(s)}
           /\ Head(s) \in S /\ Tail(s) \in Seq(S)
<1>1. Len(s) \in Nat /\ Len(s) > 0 /\ DOMAIN s = 1..Len(s) /\ Head(s) = s[1]
    OBVIOUS
<1>2. /\ Tail(s) \in Seq(S) /\ DOMAIN Tail(s) = 1..(Len(s) - 1)
      /\ \A i \in 1..(Len(s) - 1) : Tail(s)[i] = s[i + 1]
    BY <1>1
<1>3. \A i \in 1..Len(s) : i = 1 \/ (i - 1 \in 1..(Len(s) - 1) /\ s[i] = Tail(s)[i - 1])
    BY <1>1, <1>2
<1>4. \A i \in DOMAIN s : s[i] = Head(s) \/ \E j \in DOMAIN Tail(s) : s[i] = Tail(s)[j]
    BY <1>1, <1>2, <1>3
<1>5. \A j \in DOMAIN Tail(s) : \E i \in DOMAIN s : Tail(s)[j] = s[i]
  <2>1. \A j \in DOMAIN Tail(s) : j + 1 \in DOMAIN s /\ Tail(s)[j] = s[j + 1]
      BY <1>1, <1>2
  <2>2. QED
      BY <2>1
<1>6. \E i \in DOMAIN s : Head(s) = s[i]
    BY <1>1
<1>7. {s[i] : i \in DOMAIN s} = {Head(s)} \cup {Tail(s)[i] : i \in DOMAIN Tail(s)}
    BY <1>4, <1>5, <1>6
<1>8. QED
    BY <1>1, <1>2, <1>7

\* What a request in flight has done and has yet to do.
LEMMA TxFacts ==
    ASSUME RowsOK, NEW p \in Request, InFlight(p)
    PROVE  /\ tx[p] \in Tx /\ tx[p].founding \in BOOLEAN
           /\ tx[p].done \subseteq Statement /\ tx[p].todo \in Seq(Statement)
           /\ Statements(p) \subseteq Statement /\ tx[p].done \subseteq Statements(p)
<1>1. tx[p] \in Tx
    BY DEF RowsOK, InFlight
<1>2. /\ tx[p].founding \in BOOLEAN /\ tx[p].done \subseteq Statement
      /\ tx[p].todo \in Seq(Statement)
    BY <1>1 DEF Tx
<1>3. \A i \in DOMAIN tx[p].todo : tx[p].todo[i] \in Statement
    BY <1>2
<1>4. QED
    BY <1>1, <1>2, <1>3 DEF Statements

\* The entries that a statement adds are of its own kind of row.
LEMMA AddsFacts ==
    ASSUME NEW s \in Statement
    PROVE  /\ s.id \in User => \A e \in Adds(s) : e[1] = "email"
           /\ s.id \in Organisation => \A e \in Adds(s) : e[1] \in {"name", "owner"}
BY StatementFacts, MarkerFacts DEF Adds
-----------------------------------------------------------------------------
(***************************************************************************)
(* The kinds of step.                                                      *)
(***************************************************************************)
Others(p) == \A q \in Request \ {p} : tx'[q] = tx[q]

LEMMA KeptRows ==
    ASSUME IInv, UNCHANGED <<users, orgs, founders>>
    PROVE  /\ FoundersOwn' /\ OwnersStored' /\ EntriesApart'
           /\ \A s : Adds(s)' = Adds(s) /\ Taken(s)' = Taken(s)
BY DEF IInv, FoundersOwn, OwnersStored, EntriesApart, Entries, EntriesOfUser,
       EntriesOfOrg, Open, Adds, Taken

\* A step that commits nothing keeps the invariant if the request that takes
\* it does.
LEMMA PrivateStep ==
    ASSUME IInv, NEW p \in Request, RowsOK', Others(p),
           UNCHANGED <<users, orgs, founders>>, TxOK(p)',
           \A q \in Request \ {p} : PairOK(p, q)' /\ PairOK(q, p)'
    PROVE  IInv'
<1>1. ASSUME NEW q \in Request \ {p}
      PROVE  TxOK(q)'
  <2>1. TxOK(q) /\ tx'[q] = tx[q] /\ Statements(q)' = Statements(q)
      BY DEF IInv, Others, Statements
  <2>2. \A s : Sound(q, s)' = Sound(q, s)
      BY <2>1 DEF Sound
  <2>3. QED
      BY <2>1, <2>2, KeptRows DEF TxOK, InFlight
<1>2. ASSUME NEW q \in Request, NEW z \in Request \ {q}
      PROVE  PairOK(q, z)'
  <2>1. CASE q # p /\ z # p
    <3>1. /\ PairOK(q, z) /\ tx'[q] = tx[q] /\ tx'[z] = tx[z]
          /\ Statements(q)' = Statements(q) /\ Statements(z)' = Statements(z)
        BY <2>1 DEF IInv, Others, Statements
    <3>2. QED
        BY <3>1, KeptRows DEF PairOK, InFlight
  <2>2. QED
      BY <2>1
<1>3. QED
    BY <1>1, <1>2, KeptRows DEF IInv

\* A request that ends without a commit leaves nothing behind.
LEMMA EndStep ==
    ASSUME IInv, NEW p \in Request, End(p), UNCHANGED <<users, orgs, founders, begun>>
    PROVE  IInv'
<1>1. RowsOK
    BY DEF IInv
<1>2. tx'[p] = NoTx /\ Others(p) /\ RowsOK'
    BY <1>1 DEF End, RowsOK, Others
<1>3. TxOK(p)' /\ \A q \in Request \ {p} : PairOK(p, q)' /\ PairOK(q, p)'
    BY <1>2 DEF TxOK, PairOK, InFlight
<1>4. QED
    BY <1>2, <1>3, PrivateStep

\* What a request may set out to write.
Planned(founding, S) ==
    /\ \A s \in S : /\ s.do \in {"email", "promote", "delete_user"} => users[s.id] # NoRow
                    /\ s.do \in {"name", "delete_org"} => orgs[s.id] # NoRow
                    /\ s.do = "insert_user" => s.id \in NewUser
                    /\ s.do = "insert_org" =>
                           /\ s.id \in NewOrg
                           /\ \/ users[s.owner] # NoRow
                              \/ \E t \in S : t.do = "insert_user" /\ t.id = s.owner
    /\ \A s, t \in S : (s.id \in User <=> t.id \in User) => s = t
    /\ founding => \A s \in S : s.id \in User =>
           \E t \in S : t.do = "insert_org" /\ t.owner = s.id

\* A request that begins has run nothing yet.
LEMMA BeginStep ==
    ASSUME IInv, NEW p, NEW founding, NEW statements,
           Begin(p, founding, statements), p \in Request, ~InFlight(p),
           begun < MaxRequests, founding \in BOOLEAN, statements \in Seq(Statement),
           Planned(founding, Members(statements))
    PROVE  IInv'
<1> DEFINE S == Members(statements)
<1> DEFINE t == [founding |-> founding, done |-> {}, todo |-> statements]
<1>1. RowsOK /\ t \in Tx
    BY DEF IInv, Tx
<1>2. tx' = [tx EXCEPT ![p] = t] /\ UNCHANGED <<users, orgs, founders>>
    BY DEF Begin
<1>3. tx'[p] = t /\ Others(p)
    BY <1>1, <1>2 DEF RowsOK, Others
<1>4. RowsOK'
  <2>1. begun' \in 0..MaxRequests
      BY <1>1, AccountsAssumption DEF RowsOK, Begin
  <2>2. QED
      BY <1>1, <1>2, <2>1 DEF RowsOK
<1>5. Statements(p)' = S /\ tx'[p].founding = founding /\ tx'[p].done = {}
    BY <1>3 DEF Statements, Members
<1>6. \A s \in S : s \in Statement
    BY DEF Members
<1> HIDE DEF S
<1>7. TxOK(p)'
  <2>1. \A s \in S : Sound(p, s)'
      BY <1>2, <1>5 DEF Sound, NewUser, NewOrg, Planned, S
  <2>2. QED
      BY <1>5, <2>1 DEF TxOK, Planned, S
<1>8. ASSUME NEW q \in Request \ {p}
      PROVE  PairOK(p, q)' /\ PairOK(q, p)'
  <2>1. SUFFICES ASSUME InFlight(q)
                 PROVE  PairOK(p, q)' /\ PairOK(q, p)'
      BY <1>3 DEF PairOK, InFlight, Others
  <2>2. /\ TxOK(q) /\ Statements(q)' = Statements(q) /\ tx'[q] = tx[q]
        /\ Statements(q) \subseteq Statement
      BY <1>1, <1>3, <2>1, TxFacts DEF IInv, Others, Statements
  <2>3. ASSUME NEW s \in S, NEW z \in Statements(q),
               s.do \in {"insert_user", "insert_org"}
        PROVE  s.id # z.id
      BY <2>1, <2>3 DEF NewUser, NewOrg, Unused, Planned, S
  <2>4. ASSUME NEW s \in S, NEW z \in Statements(q),
               z.do \in {"insert_user", "insert_org"}
        PROVE  s.id # z.id
    <3>1. /\ z.do = "insert_user" => users[z.id] = NoRow /\ z.id \in User
          /\ z.do = "insert_org" => orgs[z.id] = NoRow /\ z.id \in Organisation
        BY <2>1, <2>2, StatementFacts DEF TxOK, Sound
    <3>2. CASE s.do \in {"insert_user", "insert_org"}
        BY <2>3, <3>2
    <3>3. CASE s.do \in {"email", "promote", "delete_user"}
      <4>1. s \in Statement /\ users[s.id] # NoRow
          BY <1>6, <3>3 DEF Planned, S
      <4>2. s.id \in User
          BY <3>3, <4>1, StatementFacts
      <4>3. QED
          BY <2>4, <3>1, <4>1, <4>2, MarkerFacts
    <3>4. CASE s.do \in {"name", "delete_org"}
      <4>1. s \in Statement /\ orgs[s.id] # NoRow
          BY <1>6, <3>4 DEF Planned, S
      <4>2. s.id \in Organisation
          BY <3>4, <4>1, StatementFacts
      <4>3. QED
          BY <2>4, <3>1, <4>1, <4>2, MarkerFacts
    <3>5. QED
        BY <1>6, <3>2, <3>3, <3>4, StatementFacts
  <2>5. QED
      BY <1>5, <2>2, <2>3, <2>4 DEF PairOK
<1>9. QED
    BY <1>2, <1>3, <1>4, <1>7, <1>8, PrivateStep

\* The next statement runs: nobody holds a row or an entry that it needs, and
\* no committed row has one.
LEMMA ExecuteStep ==
    ASSUME IInv, NEW p \in Request, Execute(p)
    PROVE  IInv'
<1> DEFINE h == Head(tx[p].todo)
           t == [tx[p] EXCEPT !.done = @ \cup {h}, !.todo = Tail(@)]
<1>1. /\ RowsOK /\ TxOK(p) /\ InFlight(p) /\ tx[p].todo # <<>> /\ tx[p] \in Tx
      /\ tx[p].todo \in Seq(Statement) /\ tx[p].done \subseteq Statement
      /\ tx[p].founding \in BOOLEAN /\ ~Taken(h)
      /\ UNCHANGED <<users, orgs, founders, begun>>
    BY TxFacts DEF IInv, Execute, MayRun
<1>2. /\ h \in Statement /\ Tail(tx[p].todo) \in Seq(Statement)
      /\ {tx[p].todo[i] : i \in DOMAIN tx[p].todo} = {h} \cup
             {Tail(tx[p].todo)[i] : i \in DOMAIN Tail(tx[p].todo)}
    BY <1>1, HeadTail
<1>3. tx' = [tx EXCEPT ![p] = t]
    BY <1>1 DEF Execute
<1>4. /\ t \in Tx /\ t.done = tx[p].done \cup {h} /\ t.todo = Tail(tx[p].todo)
      /\ t.founding = tx[p].founding
    BY <1>1, <1>2 DEF Tx
<1> HIDE DEF t
<1>5. tx'[p] = t /\ Others(p) /\ RowsOK' /\ t # NoTx
    BY <1>1, <1>3, <1>4, MarkerFacts DEF RowsOK, Others
<1>6. Statements(p)' = Statements(p) /\ h \in Statements(p)
    BY <1>2, <1>4, <1>5 DEF Statements
<1> HIDE DEF h
<1>7. TxOK(p)'
  <2>1. \A s : Sound(p, s)' = Sound(p, s)
      BY <1>1, <1>6 DEF Sound
  <2>2. \A s \in t.done : ~Taken(s)'
      BY <1>1, <1>4, KeptRows DEF TxOK
  <2>3. QED
      BY <1>1, <1>4, <1>5, <1>6, <2>1, <2>2 DEF TxOK, InFlight
<1>8. ASSUME NEW q \in Request \ {p}
      PROVE  PairOK(p, q)' /\ PairOK(q, p)'
  <2>1. SUFFICES ASSUME InFlight(q)
                 PROVE  PairOK(p, q)' /\ PairOK(q, p)'
      BY <1>5 DEF PairOK, InFlight, Others
  <2>2. /\ PairOK(p, q) /\ PairOK(q, p) /\ tx'[q] = tx[q]
        /\ Statements(q)' = Statements(q)
      BY <1>5 DEF IInv, Others, Statements
  <2>3. ASSUME NEW z \in tx[q].done
        PROVE  h.id # z.id /\ Adds(h) \cap Adds(z) = {}
    <3>1. ~Waits(h, z)
        BY <2>1 DEF Execute, MayRun, h
    <3>2. QED
        BY <3>1 DEF Waits
  <2>4. \A s : Adds(s)' = Adds(s)
      BY <1>1, KeptRows
  <2>5. QED
      BY <1>1, <1>4, <1>5, <1>6, <2>1, <2>2, <2>3, <2>4 DEF PairOK, InFlight
<1>9. QED
    BY <1>1, <1>5, <1>7, <1>8, PrivateStep
-----------------------------------------------------------------------------
(***************************************************************************)
(* The commit.                                                             *)
(***************************************************************************)
Touches(p, id) == \E s \in tx[p].done : s.id = id

\* The rows that a commit leaves alone, and what it makes of the others.
LEMMA CommitRows ==
    ASSUME IInv, NEW p \in Request, Commit(p)
    PROVE  /\ InFlight(p) /\ Statements(p) = tx[p].done /\ TxOK(p)
           /\ tx[p].done \subseteq Statement
           /\ \A u \in User : ~Touches(p, u) => users'[u] = users[u]
           /\ \A o \in Organisation : ~Touches(p, o) => orgs'[o] = orgs[o]
           /\ \A s \in tx[p].done :
                  /\ s.id \in User => users'[s.id] = UserAfter(s.id, s)
                  /\ s.id \in Organisation => orgs'[s.id] = OrgAfter(s.id, s)
<1>1. InFlight(p) /\ RowsOK /\ TxOK(p) /\ tx[p].todo = <<>>
    BY DEF IInv, Commit
<1>2. Statements(p) = tx[p].done /\ tx[p].done \subseteq Statement
  <2>1. {tx[p].todo[i] : i \in DOMAIN tx[p].todo} = {}
      BY <1>1
  <2>2. QED
      BY <1>1, <2>1, TxFacts DEF Statements
<1> DEFINE Sent(id) == {s \in tx[p].done : s.id = id}
<1>3. /\ users' = [u \in User |-> IF Sent(u) = {} THEN users[u]
                       ELSE UserAfter(u, CHOOSE s \in Sent(u) : TRUE)]
      /\ orgs' = [o \in Organisation |-> IF Sent(o) = {} THEN orgs[o]
                       ELSE OrgAfter(o, CHOOSE s \in Sent(o) : TRUE)]
    BY DEF Commit
<1>4. \A id : ~Touches(p, id) => Sent(id) = {}
    BY DEF Touches
<1>5. ASSUME NEW s \in tx[p].done
      PROVE  Sent(s.id) # {} /\ (CHOOSE t \in Sent(s.id) : TRUE) = s
  <2>1. \A t \in Sent(s.id) : t = s
      BY <1>1, <1>2, <1>5 DEF TxOK
  <2>2. s \in Sent(s.id)
      OBVIOUS
  <2>3. QED
      BY <2>1, <2>2
<1> HIDE DEF Sent
<1>6. \A s \in tx[p].done :
          /\ s.id \in User => users'[s.id] = UserAfter(s.id, s)
          /\ s.id \in Organisation => orgs'[s.id] = OrgAfter(s.id, s)
    BY <1>3, <1>5
<1>7. QED
    BY <1>1, <1>2, <1>3, <1>4, <1>6

\* A commit writes accounts that are accounts, and removes none.
LEMMA CommitUsers ==
    ASSUME IInv, NEW p \in Request, Commit(p), NEW u \in User
    PROVE  /\ users'[u] \in UserRow \cup {NoRow}
           /\ users[u] # NoRow => users'[u] # NoRow
           /\ Touches(p, u) => users'[u] # NoRow
<1>1. RowsOK /\ TxOK(p) /\ Statements(p) = tx[p].done /\ tx[p].done \subseteq Statement
    BY CommitRows DEF IInv
<1>2. CASE ~Touches(p, u)
    BY <1>1, <1>2, CommitRows DEF RowsOK
<1>3. CASE Touches(p, u)
  <2>1. PICK s \in tx[p].done : s.id = u
      BY <1>3 DEF Touches
  <2>2. users'[u] = UserAfter(u, s) /\ Sound(p, s)
      BY <1>1, <2>1, CommitRows DEF TxOK
  <2>3. UserAfter(u, s) \in UserRow
    <3>1. CASE s.do = "insert_user"
        BY <1>1, <3>1, StatementFacts DEF UserAfter, UserRow
    <3>2. CASE s.do \in {"email", "promote", "delete_user"}
      <4>1. users[u] \in UserRow
          BY <1>1, <2>1, <2>2, <3>2 DEF Sound, RowsOK
      <4>2. QED
          BY <1>1, <3>2, <4>1, StatementFacts DEF UserAfter, UserRow, Kind
    <3>3. QED
        BY <1>1, <2>1, <3>1, <3>2, StatementFacts, MarkerFacts
  <2>4. QED
      BY <2>2, <2>3, MarkerFacts
<1>4. QED
    BY <1>2, <1>3

\* It writes organisations, removes none, and none changes hands.
LEMMA CommitOrgs ==
    ASSUME IInv, NEW p \in Request, Commit(p), NEW o \in Organisation
    PROVE  /\ orgs'[o] \in OrgRow \cup {NoRow}
           /\ orgs[o] # NoRow => orgs'[o] # NoRow /\ orgs'[o].owner = orgs[o].owner
           /\ orgs[o] = NoRow /\ orgs'[o] # NoRow =>
                  \E s \in tx[p].done : s.do = "insert_org" /\ s.owner = orgs'[o].owner
<1>1. RowsOK /\ TxOK(p) /\ Statements(p) = tx[p].done /\ tx[p].done \subseteq Statement
    BY CommitRows DEF IInv
<1>2. CASE ~Touches(p, o)
    BY <1>1, <1>2, CommitRows DEF RowsOK
<1>3. CASE Touches(p, o)
  <2>1. PICK s \in tx[p].done : s.id = o
      BY <1>3 DEF Touches
  <2>2. orgs'[o] = OrgAfter(o, s) /\ Sound(p, s)
      BY <1>1, <2>1, CommitRows DEF TxOK
  <2>3. CASE s.do = "insert_org"
    <3>1. OrgAfter(o, s) \in OrgRow /\ OrgAfter(o, s).owner = s.owner
        BY <1>1, <2>3, StatementFacts DEF OrgAfter, OrgRow
    <3>2. QED
        BY <2>1, <2>2, <2>3, <3>1 DEF Sound
  <2>4. CASE s.do \in {"name", "delete_org"}
    <3>1. orgs[o] \in OrgRow
        BY <1>1, <2>1, <2>2, <2>4 DEF Sound, RowsOK
    <3>2. OrgAfter(o, s) \in OrgRow /\ OrgAfter(o, s).owner = orgs[o].owner
        BY <1>1, <2>4, <3>1, StatementFacts DEF OrgAfter, OrgRow
    <3>3. QED
        BY <2>2, <3>1, <3>2, MarkerFacts
  <2>5. QED
      BY <1>1, <2>1, <2>3, <2>4, StatementFacts, MarkerFacts
<1>4. QED
    BY <1>2, <1>3

\* The entries of a row after a commit are those that it had and those that
\* the statement about it adds.
LEMMA CommitEntries ==
    ASSUME IInv, NEW p \in Request, Commit(p), NEW id \in User \cup Organisation
    PROVE  /\ ~Touches(p, id) => Entries(id)' = Entries(id)
           /\ \A s \in tx[p].done : s.id = id =>
                  Entries(id)' \subseteq Entries(id) \cup Adds(s)
<1>1. RowsOK /\ TxOK(p) /\ Statements(p) = tx[p].done /\ tx[p].done \subseteq Statement
    BY CommitRows DEF IInv
<1>2. CASE ~Touches(p, id)
    BY <1>2, CommitRows DEF Touches, Entries, EntriesOfUser, EntriesOfOrg, Open
<1>3. ASSUME NEW s \in tx[p].done, s.id = id
      PROVE  Entries(id)' \subseteq Entries(id) \cup Adds(s)
  <2>1. Sound(p, s)
      BY <1>1, CommitRows DEF TxOK
  <2>2. CASE id \in User
    <3>1. users'[id] = UserAfter(id, s)
        BY <1>3, <2>2, CommitRows
    <3>2. Entries(id)' \subseteq {<<"email", users'[id].email>>}
        BY <2>2 DEF Entries, EntriesOfUser
    <3>3. CASE s.do \in {"insert_user", "email"}
      <4>1. Adds(s) = {<<"email", s.email>>}
          BY <3>3 DEF Adds
      <4>2. users[id] # NoRow => users[id] \in UserRow
          BY <1>1, <2>2 DEF RowsOK
      <4>3. users'[id].email = s.email
          BY <1>3, <2>1, <3>1, <3>3, <4>2 DEF UserAfter, Sound, UserRow
      <4>4. QED
          BY <3>2, <4>1, <4>3
    <3>4. CASE s.do \in {"promote", "delete_user"}
      <4>1. users[id] # NoRow /\ users[id] \in UserRow
          BY <1>1, <1>3, <2>1, <2>2, <3>4 DEF Sound, RowsOK
      <4>2. users'[id].email = users[id].email
          BY <3>1, <3>4, <4>1 DEF UserAfter, UserRow
      <4>3. QED
          BY <2>2, <3>2, <4>1, <4>2 DEF Entries, EntriesOfUser
    <3>5. QED
        BY <1>1, <1>3, <2>2, <3>3, <3>4, StatementFacts, MarkerFacts
  <2>3. CASE id \in Organisation
    <3>1. orgs'[id] = OrgAfter(id, s) /\ id \notin User
        BY <1>3, <2>3, CommitRows, MarkerFacts
    <3>2. /\ Entries(id)' = IF orgs'[id] # NoRow /\ ~orgs'[id].deleted
                            THEN {<<"name", orgs'[id].name>>,
                                  <<"owner", orgs'[id].owner>>} ELSE {}
          /\ Entries(id) = IF orgs[id] # NoRow /\ ~orgs[id].deleted
                           THEN {<<"name", orgs[id].name>>,
                                 <<"owner", orgs[id].owner>>} ELSE {}
        BY <3>1 DEF Entries, EntriesOfOrg, Open
    <3>3. CASE s.do = "insert_org"
      <4>1. Adds(s) = {<<"name", s.name>>, <<"owner", s.owner>>}
          BY <3>3 DEF Adds
      <4>2. orgs'[id].name = s.name /\ orgs'[id].owner = s.owner
          BY <3>1, <3>3 DEF OrgAfter
      <4>3. QED
          BY <3>2, <4>1, <4>2
    <3>4. CASE s.do \in {"name", "delete_org"}
      <4>1. orgs[id] # NoRow /\ orgs[id] \in OrgRow
          BY <1>1, <1>3, <2>1, <2>3, <3>4 DEF Sound, RowsOK
      <4>2. CASE s.do = "name"
        <5>1. /\ orgs'[id].name = s.name /\ orgs'[id].owner = orgs[id].owner
              /\ orgs'[id].deleted = orgs[id].deleted
            BY <3>1, <4>1, <4>2 DEF OrgAfter, OrgRow
        <5>2. ~orgs[id].deleted => Adds(s) = {<<"name", s.name>>}
            BY <1>3, <4>1, <4>2 DEF Adds, Open
        <5>3. QED
            BY <3>2, <4>1, <5>1, <5>2
      <4>3. CASE s.do = "delete_org"
        <5>1. orgs'[id].deleted
            BY <3>1, <4>1, <4>3 DEF OrgAfter, OrgRow
        <5>2. QED
            BY <3>2, <5>1
      <4>4. QED
          BY <3>4, <4>2, <4>3
    <3>5. QED
        BY <1>1, <1>3, <2>3, <3>3, <3>4, StatementFacts, MarkerFacts
  <2>4. QED
      BY <2>2, <2>3
<1>4. QED
    BY <1>2, <1>3

\* Two rows share no entry after a commit.
LEMMA CommitApart ==
    ASSUME IInv, NEW p \in Request, Commit(p)
    PROVE  EntriesApart'
<1>1. /\ EntriesApart /\ TxOK(p) /\ InFlight(p)
      /\ Statements(p) = tx[p].done /\ tx[p].done \subseteq Statement
    BY CommitRows DEF IInv
<1>2. ASSUME NEW i, NEW j, i \in User \cup Organisation, j \in User \cup Organisation,
             i # j, Touches(p, i)
      PROVE  Entries(i)' \cap Entries(j)' = {}
  <2>1. PICK s \in tx[p].done : s.id = i
      BY <1>2 DEF Touches
  <2>2. Entries(i)' \subseteq Entries(i) \cup Adds(s)
      BY <1>2, <2>1, CommitEntries
  <2>3. ~Taken(s)
      BY <1>1, <2>1 DEF TxOK
  <2>4. Entries(i) \cap Entries(j) = {} /\ Adds(s) \cap Entries(j) = {}
      BY <1>1, <1>2, <2>1, <2>3 DEF EntriesApart, Taken
  <2>5. CASE ~Touches(p, j)
      BY <1>2, <2>2, <2>4, <2>5, CommitEntries
  <2>6. CASE Touches(p, j)
    <3>1. PICK t \in tx[p].done : t.id = j
        BY <2>6 DEF Touches
    <3>2. Entries(j)' \subseteq Entries(j) \cup Adds(t)
        BY <1>2, <3>1, CommitEntries
    <3>3. ~Taken(t)
        BY <1>1, <3>1 DEF TxOK
    <3>4. Entries(i) \cap Adds(t) = {}
        BY <1>2, <3>1, <3>3 DEF Taken
    <3>5. ~(s.id \in User <=> t.id \in User)
        BY <1>1, <1>2, <2>1, <3>1 DEF TxOK
    <3>6. Adds(s) \cap Adds(t) = {}
      <4>1. s \in Statement /\ t \in Statement
          BY <1>1, <2>1, <3>1
      <4>2. CASE s.id \in User /\ t.id \in Organisation
          BY <4>1, <4>2, AddsFacts
      <4>3. CASE t.id \in User /\ s.id \in Organisation
          BY <4>1, <4>3, AddsFacts
      <4>4. QED
          BY <1>2, <2>1, <3>1, <3>5, <4>2, <4>3
    <3>7. QED
        BY <2>2, <2>4, <3>2, <3>4, <3>6
  <2>7. QED
      BY <2>5, <2>6
<1>3. SUFFICES ASSUME NEW i \in User \cup Organisation,
                      NEW j \in User \cup Organisation, i # j
               PROVE  Entries(i)' \cap Entries(j)' = {}
    BY DEF EntriesApart
<1>4. CASE Touches(p, i)
    BY <1>2, <1>3, <1>4
<1>5. CASE Touches(p, j)
    BY <1>2, <1>3, <1>5
<1>6. CASE ~Touches(p, i) /\ ~Touches(p, j)
    BY <1>1, <1>3, <1>6, CommitEntries DEF EntriesApart
<1>7. QED
    BY <1>4, <1>5, <1>6

\* Every organisation has an owner that is stored, and every founder one of
\* their own.
LEMMA CommitOwners ==
    ASSUME IInv, NEW p \in Request, Commit(p)
    PROVE  OwnersStored' /\ FoundersOwn'
<1>1. /\ RowsOK /\ TxOK(p) /\ InFlight(p) /\ OwnersStored /\ FoundersOwn
      /\ Statements(p) = tx[p].done /\ tx[p].done \subseteq Statement
    BY CommitRows DEF IInv
<1>2. ASSUME NEW o \in Organisation, orgs'[o] # NoRow
      PROVE  users'[orgs'[o].owner] # NoRow
  <2>1. CASE orgs[o] # NoRow
    <3>1. /\ orgs'[o].owner = orgs[o].owner /\ orgs[o].owner \in User
          /\ users[orgs[o].owner] # NoRow
        BY <1>1, <2>1, CommitOrgs DEF RowsOK, OrgRow, OwnersStored
    <3>2. QED
        BY <3>1, CommitUsers
  <2>2. CASE orgs[o] = NoRow
    <3>1. PICK s \in tx[p].done : s.do = "insert_org" /\ s.owner = orgs'[o].owner
        BY <1>2, <2>2, CommitOrgs
    <3>2. s.owner \in User /\ Sound(p, s)
        BY <1>1, <3>1, StatementFacts DEF TxOK
    <3>3. users[s.owner] # NoRow \/ Touches(p, s.owner)
        BY <1>1, <3>1, <3>2 DEF Sound, Touches
    <3>4. QED
        BY <3>1, <3>2, <3>3, CommitUsers
  <2>3. QED
      BY <2>1, <2>2
<1>3. ASSUME NEW u \in founders'
      PROVE  \E o \in Organisation : orgs'[o] # NoRow /\ orgs'[o].owner = u
  <2>1. CASE u \in founders
    <3>1. PICK o \in Organisation : orgs[o] # NoRow /\ orgs[o].owner = u
        BY <1>1, <2>1 DEF FoundersOwn
    <3>2. QED
        BY <3>1, CommitOrgs
  <2>2. CASE u \notin founders
    <3>1. u \in User /\ tx[p].founding /\ Touches(p, u)
        BY <1>3, <2>2 DEF Commit, Touches
    <3>2. PICK s \in tx[p].done : s.do = "insert_org" /\ s.owner = u
        BY <1>1, <3>1 DEF TxOK, Touches
    <3>3. s.id \in Organisation /\ orgs'[s.id] = OrgAfter(s.id, s)
        BY <1>1, <3>2, CommitRows, StatementFacts
    <3>4. OrgAfter(s.id, s) \in OrgRow /\ OrgAfter(s.id, s).owner = u
        BY <1>1, <3>2, StatementFacts DEF OrgAfter, OrgRow
    <3>5. QED
        BY <3>3, <3>4, MarkerFacts
  <2>3. QED
      BY <2>1, <2>2
<1>4. QED
    BY <1>2, <1>3 DEF OwnersStored, FoundersOwn

\* A request that commits leaves the others as sound as they were: their rows
\* and their entries are not the ones that it has written.
LEMMA CommitOther ==
    ASSUME IInv, NEW p \in Request, Commit(p), NEW q \in Request \ {p}, InFlight(q)
    PROVE  /\ \A s \in Statements(q) : Sound(q, s)'
           /\ \A s \in tx[q].done : Adds(s)' = Adds(s) /\ ~Taken(s)'
<1>1. /\ RowsOK /\ TxOK(p) /\ InFlight(p) /\ TxOK(q) /\ PairOK(p, q) /\ PairOK(q, p)
      /\ Statements(p) = tx[p].done /\ tx[p].done \subseteq Statement
      /\ Statements(q) \subseteq Statement /\ tx[q].done \subseteq Statements(q)
      /\ Statements(q)' = Statements(q)
  <2>1. tx'[q] = tx[q]
      BY DEF Commit, End, IInv, RowsOK
  <2>2. QED
      BY <2>1, CommitRows, TxFacts DEF IInv, Statements
<1>2. ASSUME NEW s \in Statements(q)
      PROVE  Sound(q, s)'
  <2>1. Sound(q, s) /\ s \in Statement
      BY <1>1 DEF TxOK
  <2>2. s.do \in {"insert_user", "insert_org"} => ~Touches(p, s.id)
      BY <1>1 DEF PairOK, Touches
  <2>3. CASE s.do = "insert_user"
      BY <2>1, <2>2, <2>3, CommitRows, StatementFacts DEF Sound
  <2>4. CASE s.do = "insert_org"
    <3>1. orgs'[s.id] = NoRow /\ s.owner \in User
        BY <2>1, <2>2, <2>4, CommitRows, StatementFacts DEF Sound
    <3>2. \/ users'[s.owner] # NoRow
          \/ \E t \in Statements(q)' : t.do = "insert_user" /\ t.id = s.owner
        BY <1>1, <2>1, <2>4, <3>1, CommitUsers DEF Sound
    <3>3. QED
        BY <2>4, <3>1, <3>2 DEF Sound
  <2>5. CASE s.do \in {"email", "promote", "delete_user"}
    <3>1. s.id \in User /\ users'[s.id] # NoRow
        BY <2>1, <2>5, CommitUsers, StatementFacts DEF Sound
    <3>2. QED
        BY <2>5, <3>1 DEF Sound
  <2>6. CASE s.do \in {"name", "delete_org"}
    <3>1. s.id \in Organisation /\ orgs'[s.id] # NoRow
        BY <2>1, <2>6, CommitOrgs, StatementFacts DEF Sound
    <3>2. QED
        BY <2>6, <3>1 DEF Sound
  <2>7. QED
      BY <2>1, <2>3, <2>4, <2>5, <2>6, StatementFacts
<1>3. ASSUME NEW s \in tx[q].done
      PROVE  Adds(s)' = Adds(s) /\ ~Taken(s)'
  <2>1. /\ ~Touches(p, s.id) /\ s \in Statement /\ ~Taken(s)
        /\ \A t \in tx[p].done : Adds(t) \cap Adds(s) = {}
      BY <1>1 DEF PairOK, Touches, TxOK
  <2>2. Adds(s)' = Adds(s)
    <3>1. CASE s.do = "name"
      <4>1. orgs'[s.id] = orgs[s.id]
          BY <2>1, <3>1, CommitRows, StatementFacts
      <4>2. QED
          BY <4>1 DEF Adds, Open
    <3>2. CASE s.do # "name"
        BY <3>2 DEF Adds
    <3>3. QED
        BY <3>1, <3>2
  <2>3. ASSUME NEW id, id \in User \cup Organisation, id # s.id
        PROVE  Adds(s) \cap Entries(id)' = {}
    <3>1. Adds(s) \cap Entries(id) = {}
        BY <2>1, <2>3 DEF Taken
    <3>2. CASE ~Touches(p, id)
        BY <2>3, <3>1, <3>2, CommitEntries
    <3>3. CASE Touches(p, id)
      <4>1. PICK t \in tx[p].done : t.id = id
          BY <3>3 DEF Touches
      <4>2. Entries(id)' \subseteq Entries(id) \cup Adds(t)
          BY <2>3, <4>1, CommitEntries
      <4>3. QED
          BY <2>1, <3>1, <4>1, <4>2
    <3>4. QED
        BY <3>2, <3>3
  <2>4. QED
      BY <2>2, <2>3 DEF Taken
<1>4. QED
    BY <1>2, <1>3

LEMMA CommitStep ==
    ASSUME IInv, NEW p \in Request, Commit(p)
    PROVE  IInv'
<1>1. RowsOK /\ tx' = [tx EXCEPT ![p] = NoTx]
    BY DEF IInv, Commit, End
<1>2. tx'[p] = NoTx /\ Others(p)
    BY <1>1 DEF RowsOK, Others
<1>3. RowsOK'
  <2>1. users' \in [User -> UserRow \cup {NoRow}]
    <3>1. users' = [u \in User |-> users'[u]]
        BY DEF Commit
    <3>2. QED
        BY <3>1, CommitUsers
  <2>2. orgs' \in [Organisation -> OrgRow \cup {NoRow}]
    <3>1. orgs' = [o \in Organisation |-> orgs'[o]]
        BY DEF Commit
    <3>2. QED
        BY <3>1, CommitOrgs
  <2>3. founders' \subseteq User
      BY <1>1 DEF RowsOK, Commit
  <2>4. QED
      BY <1>1, <2>1, <2>2, <2>3 DEF RowsOK, Commit
<1>4. ASSUME NEW q \in Request
      PROVE  TxOK(q)'
  <2>1. CASE q = p
      BY <1>2, <2>1 DEF TxOK, InFlight
  <2>2. CASE q # p /\ InFlight(q)
    <3>1. tx'[q] = tx[q] /\ Statements(q)' = Statements(q) /\ TxOK(q)
        BY <1>2, <2>2 DEF IInv, Others, Statements
    <3>2. /\ \A s \in Statements(q) : Sound(q, s)'
          /\ \A s \in tx[q].done : ~Taken(s)'
        BY <2>2, CommitOther
    <3>3. QED
        BY <2>2, <3>1, <3>2 DEF TxOK
  <2>3. CASE q # p /\ ~InFlight(q)
      BY <1>2, <2>3 DEF TxOK, InFlight, Others
  <2>4. QED
      BY <2>1, <2>2, <2>3
<1>5. ASSUME NEW q \in Request, NEW z \in Request \ {q}
      PROVE  PairOK(q, z)'
  <2>1. SUFFICES ASSUME InFlight(q)', InFlight(z)'
                 PROVE  PairOK(q, z)'
      BY DEF PairOK
  <2>2. q # p /\ z # p
      BY <1>2, <2>1 DEF InFlight
  <2>3. /\ tx'[q] = tx[q] /\ tx'[z] = tx[z] /\ PairOK(q, z)
        /\ InFlight(q) /\ InFlight(z)
        /\ Statements(q)' = Statements(q) /\ Statements(z)' = Statements(z)
      BY <1>2, <2>1, <2>2 DEF IInv, Others, Statements, InFlight
  <2>4. /\ \A s \in tx[q].done : Adds(s)' = Adds(s)
        /\ \A s \in tx[z].done : Adds(s)' = Adds(s)
      BY <2>2, <2>3, CommitOther
  <2>5. QED
      BY <2>3, <2>4 DEF PairOK
<1>6. QED
    BY <1>3, <1>4, <1>5, CommitApart, CommitOwners DEF IInv
-----------------------------------------------------------------------------
(***************************************************************************)
(* The operations.                                                         *)
(***************************************************************************)

\* The records that requests are made of are statements.
LEMMA MadeStatements ==
    /\ \A u \in User, a \in Address, k \in Kind : InsertUser(u, a, k) \in Statement
    /\ \A o \in Organisation, n \in Name, u \in User : InsertOrg(o, n, u) \in Statement
    /\ \A u \in User, a \in Address :
           [do |-> "email", id |-> u, email |-> a] \in Statement
    /\ \A u \in User : /\ [do |-> "delete_user", id |-> u] \in Statement
                       /\ [do |-> "promote", id |-> u] \in Statement
    /\ \A o \in Organisation, n \in Name :
           [do |-> "name", id |-> o, name |-> n] \in Statement
    /\ \A o \in Organisation : [do |-> "delete_org", id |-> o] \in Statement
BY DEF Statement, UserInsert, EmailUpdate, UserUpdate, OrgInsert, NameUpdate,
       OrgDelete, InsertUser, InsertOrg

\* A request of one statement.
LEMMA BeginOne ==
    ASSUME IInv, NEW p, NEW s, Begin(p, FALSE, <<s>>), p \in Request,
           ~InFlight(p), begun < MaxRequests, s \in Statement,
           s.do \in {"email", "promote", "delete_user"} => users[s.id] # NoRow,
           s.do \in {"name", "delete_org"} => orgs[s.id] # NoRow,
           s.do = "insert_user" => s.id \in NewUser,
           s.do # "insert_org"
    PROVE  IInv'
<1>1. Members(<<s>>) = {s} /\ <<s>> \in Seq(Statement)
    BY SequenceFacts
<1>2. Planned(FALSE, {s})
    BY DEF Planned
<1>3. QED
    BY <1>1, <1>2, BeginStep

LEMMA CreateUserStep ==
    ASSUME IInv, NEW p \in Request, ~InFlight(p), begun < MaxRequests,
           NEW a \in Address, NEW k \in Kind, CreateUser(p, a, k)
    PROVE  IInv'
<1>1. PICK u \in NewUser : Begin(p, FALSE, <<InsertUser(u, a, k)>>)
    BY DEF CreateUser
<1>2. /\ InsertUser(u, a, k) \in Statement /\ InsertUser(u, a, k).id = u
      /\ InsertUser(u, a, k).do = "insert_user"
    BY MadeStatements DEF NewUser, InsertUser
<1>3. QED
    BY <1>1, <1>2, BeginOne

LEMMA CreateAdminStep ==
    ASSUME IInv, NEW p \in Request, ~InFlight(p), begun < MaxRequests,
           NEW a \in Address, CreateAdmin(p, a)
    PROVE  IInv'
BY CreateUserStep DEF CreateAdmin, CreateUser, Kind

LEMMA CreateWithOwnerStep ==
    ASSUME IInv, NEW p \in Request, ~InFlight(p), begun < MaxRequests,
           NEW a \in Address, NEW n \in Name, CreateWithOwner(p, a, n)
    PROVE  IInv'
<1>1. PICK u \in NewUser, o \in NewOrg :
          Begin(p, TRUE, <<InsertUser(u, a, "owner"), InsertOrg(o, n, u)>>)
    BY DEF CreateWithOwner
<1> DEFINE s == InsertUser(u, a, "owner")
           t == InsertOrg(o, n, u)
<1>2. /\ s \in Statement /\ s.id = u /\ s.do = "insert_user" /\ u \in User
      /\ t \in Statement /\ t.id = o /\ t.do = "insert_org" /\ t.owner = u
      /\ o \in Organisation /\ o \notin User
    BY MadeStatements, MarkerFacts DEF NewUser, NewOrg, InsertUser, InsertOrg, Kind
<1>3. Begin(p, TRUE, <<s, t>>)
    BY <1>1
<1> HIDE DEF s, t
<1>4. Members(<<s, t>>) = {s, t} /\ <<s, t>> \in Seq(Statement)
    BY <1>2, SequenceFacts
<1>5. Planned(TRUE, {s, t})
    BY <1>2 DEF Planned
<1>6. QED
    BY <1>3, <1>4, <1>5, BeginStep

LEMMA ConvertStep ==
    ASSUME IInv, NEW p \in Request, ~InFlight(p), begun < MaxRequests,
           NEW a \in Address, NEW n \in Name, Convert(p, a, n)
    PROVE  IInv'
<1>1. PICK u \in User, o \in NewOrg :
          /\ FoundActive(a) = {u}
          /\ Begin(p, FALSE, <<InsertOrg(o, n, u), [do |-> "promote", id |-> u]>>)
    BY DEF Convert
<1> DEFINE s == InsertOrg(o, n, u)
           t == [do |-> "promote", id |-> u]
<1>2. /\ s \in Statement /\ s.id = o /\ s.do = "insert_org" /\ s.owner = u
      /\ t \in Statement /\ t.id = u /\ t.do = "promote"
      /\ o \in Organisation /\ o \notin User
    BY MadeStatements, MarkerFacts DEF NewOrg, InsertOrg
<1>3. Begin(p, FALSE, <<s, t>>) /\ users[u] # NoRow
    BY <1>1 DEF FoundActive, Found
<1> HIDE DEF s, t
<1>4. Members(<<s, t>>) = {s, t} /\ <<s, t>> \in Seq(Statement)
    BY <1>2, SequenceFacts
<1>5. Planned(FALSE, {s, t})
    BY <1>2, <1>3 DEF Planned
<1>6. QED
    BY <1>3, <1>4, <1>5, BeginStep

LEMMA EditUserStep ==
    ASSUME IInv, NEW p \in Request, ~InFlight(p), begun < MaxRequests, NEW u \in User,
           DeleteUser(p, u) \/ \E a \in Address : ChangeEmail(p, u, a)
    PROVE  IInv'
<1>1. CASE DeleteUser(p, u)
  <2> DEFINE s == [do |-> "delete_user", id |-> u]
  <2>1. Begin(p, FALSE, <<s>>) /\ users[u] # NoRow
      BY <1>1 DEF DeleteUser, Active
  <2>2. s \in Statement /\ s.id = u /\ s.do = "delete_user"
      BY MadeStatements
  <2> HIDE DEF s
  <2>3. QED
      BY <2>1, <2>2, BeginOne
<1>2. ASSUME NEW a \in Address, ChangeEmail(p, u, a)
      PROVE  IInv'
  <2> DEFINE s == [do |-> "email", id |-> u, email |-> a]
  <2>1. Begin(p, FALSE, <<s>>) /\ users[u] # NoRow
      BY <1>2 DEF ChangeEmail, Active
  <2>2. s \in Statement /\ s.id = u /\ s.do = "email"
      BY MadeStatements
  <2> HIDE DEF s
  <2>3. QED
      BY <2>1, <2>2, BeginOne
<1>3. QED
    BY <1>1, <1>2

LEMMA EditOrganisationStep ==
    ASSUME IInv, NEW p \in Request, ~InFlight(p), begun < MaxRequests,
           NEW o \in Organisation,
           DeleteOrganisation(p, o) \/ \E n \in Name : Rename(p, o, n)
    PROVE  IInv'
<1>1. CASE DeleteOrganisation(p, o)
  <2> DEFINE s == [do |-> "delete_org", id |-> o]
  <2>1. Begin(p, FALSE, <<s>>) /\ orgs[o] # NoRow
      BY <1>1 DEF DeleteOrganisation, Open
  <2>2. s \in Statement /\ s.id = o /\ s.do = "delete_org"
      BY MadeStatements
  <2> HIDE DEF s
  <2>3. QED
      BY <2>1, <2>2, BeginOne
<1>2. ASSUME NEW n \in Name, Rename(p, o, n)
      PROVE  IInv'
  <2> DEFINE s == [do |-> "name", id |-> o, name |-> n]
  <2>1. Begin(p, FALSE, <<s>>) /\ orgs[o] # NoRow
      BY <1>2 DEF Rename, Open
  <2>2. s \in Statement /\ s.id = o /\ s.do = "name"
      BY MadeStatements
  <2> HIDE DEF s
  <2>3. QED
      BY <2>1, <2>2, BeginOne
<1>3. QED
    BY <1>1, <1>2
-----------------------------------------------------------------------------
LEMMA InitStep == Init => IInv
<1>1. SUFFICES ASSUME Init PROVE IInv
    OBVIOUS
<1>2. RowsOK
    BY <1>1, AccountsAssumption DEF Init, RowsOK
<1>3. /\ \A p \in Request : TxOK(p)
      /\ \A p \in Request : \A q \in Request \ {p} : PairOK(p, q)
    BY <1>1 DEF Init, TxOK, PairOK, InFlight
<1>4. FoundersOwn /\ OwnersStored
    BY <1>1 DEF Init, FoundersOwn, OwnersStored
<1>5. \A i \in User \cup Organisation : Entries(i) = {}
    BY <1>1 DEF Init, Entries, EntriesOfUser, EntriesOfOrg, Open
<1>6. EntriesApart
    BY <1>5 DEF EntriesApart
<1>7. QED
    BY <1>2, <1>3, <1>4, <1>6 DEF IInv

LEMMA StutterStep ==
    ASSUME IInv, UNCHANGED vars
    PROVE  IInv'
<1>1. UNCHANGED <<users, orgs, founders, begun, tx>>
    BY DEF vars
<1>2. \A p : Statements(p)' = Statements(p) /\ (InFlight(p)' <=> InFlight(p))
    BY <1>1 DEF Statements, InFlight
<1>3. \A s : Adds(s)' = Adds(s) /\ Taken(s)' = Taken(s)
    BY <1>1, KeptRows
<1>4. \A p, s : Sound(p, s)' = Sound(p, s)
    BY <1>1, <1>2 DEF Sound
<1>5. \A p \in Request : TxOK(p)'
    BY <1>1, <1>2, <1>3, <1>4 DEF IInv, TxOK
<1>6. \A p \in Request : \A q \in Request \ {p} : PairOK(p, q)'
    BY <1>1, <1>2, <1>3 DEF IInv, PairOK
<1>7. RowsOK'
    BY <1>1 DEF IInv, RowsOK
<1>8. QED
    BY <1>1, <1>5, <1>6, <1>7, KeptRows DEF IInv

LEMMA NextStep == IInv /\ [Next]_vars => IInv'
<1>1. SUFFICES ASSUME IInv, [Next]_vars PROVE IInv'
    OBVIOUS
<1>2. ASSUME NEW p \in Request, Start(p)
      PROVE  IInv'
  <2>1. ~InFlight(p) /\ begun < MaxRequests
      BY <1>2 DEF Start
  <2>2. CASE \E a \in Address : CreateAdmin(p, a)
      BY <1>1, <2>1, <2>2, CreateAdminStep
  <2>3. CASE \E a \in Address, k \in Kind : CreateUser(p, a, k)
      BY <1>1, <2>1, <2>3, CreateUserStep
  <2>4. CASE \E a \in Address, n \in Name : CreateWithOwner(p, a, n)
      BY <1>1, <2>1, <2>4, CreateWithOwnerStep
  <2>5. CASE \E a \in Address, n \in Name : Convert(p, a, n)
      BY <1>1, <2>1, <2>5, ConvertStep
  <2>6. CASE \E u \in User : DeleteUser(p, u) \/ \E a \in Address : ChangeEmail(p, u, a)
      BY <1>1, <2>1, <2>6, EditUserStep
  <2>7. CASE \E o \in Organisation :
                 DeleteOrganisation(p, o) \/ \E n \in Name : Rename(p, o, n)
      BY <1>1, <2>1, <2>7, EditOrganisationStep
  <2>8. QED
      BY <1>2, <2>2, <2>3, <2>4, <2>5, <2>6, <2>7 DEF Start
<1>3. ASSUME NEW p \in Request, Execute(p)
      PROVE  IInv'
    BY <1>1, <1>3, ExecuteStep
<1>4. ASSUME NEW p \in Request, Conflict(p) \/ Abort(p)
      PROVE  IInv'
    BY <1>1, <1>4, EndStep DEF Conflict, Abort
<1>5. ASSUME NEW p \in Request, Commit(p)
      PROVE  IInv'
    BY <1>1, <1>5, CommitStep
<1>6. CASE UNCHANGED vars
    BY <1>1, <1>6, StutterStep
<1>7. QED
    BY <1>1, <1>2, <1>3, <1>4, <1>5, <1>6 DEF Next, Refuse

LEMMA Invariance == Spec => []IInv
BY InitStep, NextStep, PTL DEF Spec
-----------------------------------------------------------------------------
\* Type correctness: rows, histories and transactions are what the model says,
\* and every statement of a request in flight is one that the code sends.
THEOREM TypeCorrect == Spec => []TypeOK
<1>1. IInv => TypeOK
    BY TxFacts DEF IInv, RowsOK, TypeOK
<1>2. QED
    BY <1>1, Invariance, PTL

\* Creating an organisation with its owner stores both or neither, no
\* organisation is ever without a stored owner, and the unique indexes hold
\* for addresses, names and owners whatever requests wait for one another.
THEOREM NoHalves == Spec => []NoHalfOrganisation
<1>1. IInv => NoHalfOrganisation
    BY DEF IInv, FoundersOwn, OwnersStored, EntriesApart, NoHalfOrganisation
<1>2. QED
    BY <1>1, Invariance, PTL
=============================================================================
