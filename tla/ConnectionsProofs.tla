------------------------- MODULE ConnectionsProofs -------------------------
(***************************************************************************)
(* Theorems about Connections for every number of requests, workers,       *)
(* connections and rows: what a request may still have to lock, given what *)
(* it holds, and which circles of waiting this leaves.                     *)
(***************************************************************************)
EXTENDS Connections, FiniteSetTheorems, SequenceTheorems, TLAPS

ActorLock(l) == \E a \in Account : l = KeyShare(a)
AccountKey(l) == l.row \in Account /\ l.mode = "UPDATE"
ReportUpdate(l) == l.row \in Report /\ l.mode = "NO KEY UPDATE"
TokenLock == {l \in Lock : l.row \in Token}

(***************************************************************************)
(* The inductive invariant: for each request that takes its locks, the     *)
(* locks h that it holds and the list t of those that it has yet to take.  *)
(***************************************************************************)

\* Logins, reports, drafts, downloads and refreshes, at each point of their
\* lists.
PlainOrder(h, t) ==
    \/ h = {} /\ \E a \in Account : t = <<KeyShare(a)>>
    \/ h = {} /\ \E d \in Draft : t \in {<<Update(d)>>, <<KeyUpdate(d)>>}
    \/ \E r \in Report, a \in Account :
        \/ h = {} /\ t = <<KeyShare(r), KeyShare(a), Update(r)>>
        \/ h = {KeyShare(r)} /\ t = <<KeyShare(a), Update(r)>>
        \/ h = {KeyShare(r), KeyShare(a)} /\ t = <<Update(r)>>
        \/ h = {} /\ t = <<Update(r), KeyShare(a)>>
        \/ h = {Update(r)} /\ t = <<KeyShare(a)>>
    \/ \E k \in Token, a \in Account :
        \/ h = {} /\ t = <<Update(k), KeyShare(a)>>
        \/ h = {Update(k)} /\ t = <<KeyShare(a)>>

\* Operations on accounts and organisations lock no report, and the key of an
\* account only when nothing but the actor's lock is left to take.
AccountOrder(h, t) ==
    /\ \A l \in h :
        /\ l.row \notin Report
        /\ AccountKey(l) => Len(t) = 1 /\ ActorLock(t[1])
    /\ \A i \in 1..Len(t) :
        /\ t[i].row \notin Report
        /\ AccountKey(t[i]) => i + 1 = Len(t) /\ ActorLock(t[i + 1])

\* convert-to-org takes no key, and nothing but reports after a report.
ConvertOrder(h, t) ==
    /\ \A l \in h :
        /\ ~AccountKey(l)
        /\ l.row \in Report => \A i \in 1..Len(t) : ReportUpdate(t[i])
    /\ \A i \in 1..Len(t) :
        /\ ~AccountKey(t[i])
        /\ t[i].row \in Report => \A j \in i..Len(t) : ReportUpdate(t[j])

InOrder(k, h, t) ==
    /\ t # <<>>
    /\ IF k = "account" THEN AccountOrder(h, t) \/ ConvertOrder(h, t)
                        ELSE PlainOrder(h, t)

RequestOK(p) ==
    /\ pc[p] \in {"due", "queue", "begin"} => held[p] = {}
    /\ pc[p] = "run" => InOrder(kind[p], held[p], todo[p])

IInv == TypeOK /\ \A p \in Request : RequestOK(p)
-----------------------------------------------------------------------------
(***************************************************************************)
(* Locks and lists of locks.                                               *)
(***************************************************************************)
LEMMA LockFacts ==
    ASSUME NEW x \in Row
    PROVE  /\ KeyShare(x) \in Lock /\ Update(x) \in Lock /\ KeyUpdate(x) \in Lock
           /\ KeyShare(x).row = x /\ KeyShare(x).mode = "KEY SHARE"
           /\ Update(x).row = x /\ Update(x).mode = "NO KEY UPDATE"
           /\ KeyUpdate(x).row = x /\ KeyUpdate(x).mode = "UPDATE"
BY DEF KeyShare, Update, KeyUpdate, Lock

LEMMA RowFacts ==
    /\ \A x \in Account : x \in Row /\ x \notin Report /\ x \notin Token
    /\ \A x \in Report : x \in Row /\ x \notin Account /\ x \notin Token
    /\ \A x \in Token : x \in Row /\ x \notin Account /\ x \notin Report
    /\ \A x \in Organisation : x \in Row /\ x \notin Account /\ x \notin Report
    /\ \A x \in Draft : x \in Row /\ x \notin Account /\ x \notin Report
BY ConnectionsAssumption DEF Row

\* Two locks that conflict are on one row, and one of them is no KEY SHARE; a
\* KEY SHARE only ever waits for an UPDATE.
LEMMA ConflictFacts ==
    ASSUME NEW l \in Lock, NEW m \in Lock, Conflict(l, m)
    PROVE  /\ l.row = m.row
           /\ m.mode = "KEY SHARE" => l.mode = "UPDATE"
           /\ m.mode = "NO KEY UPDATE" => l.mode # "KEY SHARE"
BY DEF Conflict, Lock

LEMMA TailFacts ==
    ASSUME NEW t \in Seq(Lock), t # <<>>
    PROVE  /\ Len(t) \in Nat \ {0} /\ Head(t) = t[1] /\ Head(t) \in Lock
           /\ Tail(t) \in Seq(Lock) /\ Len(Tail(t)) = Len(t) - 1
           /\ \A i \in 1..Len(Tail(t)) : Tail(t)[i] = t[i + 1]
           /\ Len(t) # 1 => Tail(t) # <<>>
<1>1. Len(t) \in Nat \ {0} /\ Head(t) = t[1] /\ Head(t) \in Lock
    BY EmptySeq, LenProperties, HeadTailProperties
<1>2. /\ Tail(t) \in Seq(Lock) /\ Len(Tail(t)) = Len(t) - 1
      /\ \A i \in 1..Len(Tail(t)) : Tail(t)[i] = t[i + 1]
    BY HeadTailProperties
<1>3. Len(t) # 1 => Len(Tail(t)) # 0
    BY <1>1, <1>2
<1>4. Len(t) # 1 => Tail(t) # <<>>
    BY <1>2, <1>3, EmptySeq
<1>5. QED
    BY <1>1, <1>2, <1>4

\* What is left of an account operation's list, u, after the first of n locks.
LEMMA TakeKeepsAccountOrder ==
    ASSUME NEW h, NEW t, NEW u, NEW n \in Nat \ {0, 1}, AccountOrder(h, t),
           Len(t) = n, Len(u) = n - 1, \A i \in 1..(n - 1) : u[i] = t[i + 1]
    PROVE  AccountOrder(h \cup {t[1]}, u)
<1>1. \A i \in 1..n : /\ t[i].row \notin Report
                      /\ AccountKey(t[i]) => i + 1 = n /\ ActorLock(t[i + 1])
    BY DEF AccountOrder
<1>2. ASSUME NEW l \in h
      PROVE  l.row \notin Report /\ ~AccountKey(l)
    BY DEF AccountOrder
<1>3. /\ t[1].row \notin Report
      /\ AccountKey(t[1]) => n - 1 = 1 /\ ActorLock(u[1])
  <2>1. 1 \in 1..n /\ 1 \in 1..(n - 1)
      OBVIOUS
  <2>2. u[1] = t[1 + 1]
      BY <2>1
  <2>3. QED
      BY <1>1, <2>1, <2>2
<1>4. ASSUME NEW i \in 1..(n - 1)
      PROVE  /\ u[i].row \notin Report
             /\ AccountKey(u[i]) => i + 1 = n - 1 /\ ActorLock(u[i + 1])
  <2>1. i + 1 \in 1..n /\ u[i] = t[i + 1]
      OBVIOUS
  <2>2. (i + 1) + 1 = n => i + 1 = n - 1 /\ u[i + 1] = t[(i + 1) + 1]
      BY <2>1
  <2>3. QED
      BY <1>1, <2>1, <2>2
<1>5. QED
    BY <1>2, <1>3, <1>4 DEF AccountOrder

\* What is left of a conversion's list, u, after the first of n locks.
LEMMA TakeKeepsConvertOrder ==
    ASSUME NEW h, NEW t, NEW u, NEW n \in Nat \ {0, 1}, ConvertOrder(h, t),
           Len(t) = n, Len(u) = n - 1, \A i \in 1..(n - 1) : u[i] = t[i + 1]
    PROVE  ConvertOrder(h \cup {t[1]}, u)
<1>1. \A i \in 1..n :
          /\ ~AccountKey(t[i])
          /\ t[i].row \in Report => \A j \in i..n : ReportUpdate(t[j])
    BY DEF ConvertOrder
<1>2. ASSUME NEW l \in h \cup {t[1]}
      PROVE  /\ ~AccountKey(l)
             /\ l.row \in Report => \A j \in 1..n : ReportUpdate(t[j])
  <2>1. CASE l \in h
      BY <2>1 DEF ConvertOrder
  <2>2. CASE l = t[1]
    <3>1. 1 \in 1..n
        OBVIOUS
    <3>2. QED
        BY <1>1, <2>2, <3>1
  <2>3. QED
      BY <2>1, <2>2
<1>3. ASSUME NEW i \in 1..(n - 1)
      PROVE  /\ i + 1 \in 1..n /\ u[i] = t[i + 1]
             /\ \A j \in i..(n - 1) : /\ j \in 1..(n - 1)
                                      /\ j + 1 \in (i + 1)..n
    OBVIOUS
<1>4. ASSUME NEW l \in h \cup {t[1]}, l.row \in Report, NEW i \in 1..(n - 1)
      PROVE  ReportUpdate(u[i])
    BY <1>2, <1>3, <1>4
<1>5. ASSUME NEW i \in 1..(n - 1)
      PROVE  /\ ~AccountKey(u[i])
             /\ u[i].row \in Report => \A j \in i..(n - 1) : ReportUpdate(u[j])
  <2>1. ~AccountKey(u[i])
      BY <1>1, <1>3
  <2>2. ASSUME u[i].row \in Report, NEW j \in i..(n - 1)
        PROVE  ReportUpdate(u[j])
    <3>1. j \in 1..(n - 1) /\ j + 1 \in (i + 1)..n /\ u[j] = t[j + 1]
        BY <1>3
    <3>2. QED
        BY <1>1, <1>3, <2>2, <3>1
  <2>3. QED
      BY <2>1, <2>2
<1>6. QED
    BY <1>2, <1>4, <1>5 DEF ConvertOrder

\* Taking the next lock keeps the order.
LEMMA TakeKeepsOrder ==
    ASSUME NEW k, NEW h, NEW t \in Seq(Lock), InOrder(k, h, t), Len(t) # 1
    PROVE  InOrder(k, h \cup {Head(t)}, Tail(t))
<1>1. /\ Len(t) \in Nat \ {0} /\ Head(t) = t[1] /\ Len(Tail(t)) = Len(t) - 1
      /\ Tail(t) # <<>> /\ \A i \in 1..Len(Tail(t)) : Tail(t)[i] = t[i + 1]
    BY TailFacts DEF InOrder
<1>2. CASE k = "account"
  <2>1. PICK n \in Nat \ {0, 1} : n = Len(t)
      BY <1>1
  <2>2. AccountOrder(h, t) \/ ConvertOrder(h, t)
      BY <1>2 DEF InOrder
  <2>3. AccountOrder(h \cup {t[1]}, Tail(t)) \/ ConvertOrder(h \cup {t[1]}, Tail(t))
      BY <1>1, <2>1, <2>2, TakeKeepsAccountOrder, TakeKeepsConvertOrder
  <2>4. QED
      BY <1>1, <1>2, <2>3 DEF InOrder
<1>3. CASE k # "account"
  <2>1. PlainOrder(h, t)
      BY <1>3 DEF InOrder
  <2>2. PlainOrder(h \cup {Head(t)}, Tail(t))
    <3>1. ASSUME NEW r \in Report, NEW a \in Account,
                 h = {} /\ t = <<KeyShare(r), KeyShare(a), Update(r)>>
          PROVE  PlainOrder(h \cup {Head(t)}, Tail(t))
      <4>1. h \cup {Head(t)} = {KeyShare(r)} /\ Tail(t) = <<KeyShare(a), Update(r)>>
          BY <3>1
      <4>2. QED
          BY <4>1 DEF PlainOrder
    <3>2. ASSUME NEW r \in Report, NEW a \in Account,
                 h = {KeyShare(r)} /\ t = <<KeyShare(a), Update(r)>>
          PROVE  PlainOrder(h \cup {Head(t)}, Tail(t))
      <4>1. /\ h \cup {Head(t)} = {KeyShare(r), KeyShare(a)}
            /\ Tail(t) = <<Update(r)>>
          BY <3>2
      <4>2. QED
          BY <4>1 DEF PlainOrder
    <3>3. ASSUME NEW x \in Report \cup Token, NEW a \in Account,
                 h = {} /\ t = <<Update(x), KeyShare(a)>>
          PROVE  PlainOrder(h \cup {Head(t)}, Tail(t))
      <4>1. h \cup {Head(t)} = {Update(x)} /\ Tail(t) = <<KeyShare(a)>>
          BY <3>3
      <4>2. QED
          BY <4>1 DEF PlainOrder
    <3>4. \A l : t = <<l>> => Len(t) = 1
        OBVIOUS
    <3>5. QED
        BY <2>1, <3>1, <3>2, <3>3, <3>4 DEF PlainOrder
  <2>3. QED
      BY <1>1, <1>3, <2>2 DEF InOrder
<1>4. QED
    BY <1>2, <1>3
-----------------------------------------------------------------------------
(***************************************************************************)
(* The plans that requests begin with.                                     *)
(***************************************************************************)
Plan(k, t) == t \in Seq(Lock) /\ InOrder(k, {}, t)

\* Locks that are on no report and are not the key of an account.
Plain(l) == l.row \notin Report /\ ~AccountKey(l)

LEMMA PlainPlans ==
    ASSUME NEW k, k # "account", NEW a \in Account
    PROVE  /\ Plan(k, <<KeyShare(a)>>)
           /\ \A r \in Report : /\ Plan(k, <<KeyShare(r), KeyShare(a), Update(r)>>)
                                /\ Plan(k, <<Update(r), KeyShare(a)>>)
           /\ \A x \in Token : Plan(k, <<Update(x), KeyShare(a)>>)
<1>1. \A x \in Row : KeyShare(x) \in Lock /\ Update(x) \in Lock
    BY LockFacts
<1>2. \A x, y \in Lock : /\ <<x>> \in Seq(Lock) /\ <<x>> # <<>>
                         /\ <<x, y>> \in Seq(Lock) /\ <<x, y>> # <<>>
    OBVIOUS
<1>3. \A x, y, z \in Lock : <<x, y, z>> \in Seq(Lock) /\ <<x, y, z>> # <<>>
    OBVIOUS
<1>4. Plan(k, <<KeyShare(a)>>)
    BY <1>1, <1>2, RowFacts DEF Plan, InOrder, PlainOrder
<1>5. ASSUME NEW r \in Report
      PROVE  /\ Plan(k, <<KeyShare(r), KeyShare(a), Update(r)>>)
             /\ Plan(k, <<Update(r), KeyShare(a)>>)
    BY <1>1, <1>2, <1>3, RowFacts DEF Plan, InOrder, PlainOrder
<1>6. ASSUME NEW x \in Token
      PROVE  Plan(k, <<Update(x), KeyShare(a)>>)
    BY <1>1, <1>2, RowFacts DEF Plan, InOrder, PlainOrder
<1>7. QED
    BY <1>4, <1>5, <1>6

LEMMA DraftPlans ==
    ASSUME NEW k, k # "account", NEW d \in Draft
    PROVE  Plan(k, <<Update(d)>>) /\ Plan(k, <<KeyUpdate(d)>>)
<1>1. Update(d) \in Lock /\ KeyUpdate(d) \in Lock
    BY RowFacts, LockFacts
<1>2. \A x \in Lock : <<x>> \in Seq(Lock) /\ <<x>> # <<>>
    OBVIOUS
<1>3. QED
    BY <1>1, <1>2 DEF Plan, InOrder, PlainOrder

\* The elements of two lists one after the other.
LEMMA ConcatFacts ==
    ASSUME NEW s \in Seq(Lock), NEW v \in Seq(Lock), NEW n \in Nat, n = Len(s),
           NEW m \in Nat, m = Len(v), NEW t, t = s \o v
    PROVE  /\ t \in Seq(Lock) /\ Len(t) = n + m
           /\ \A i \in 1..n : t[i] = s[i]
           /\ \A j \in 1..m : t[n + j] = v[j]
           /\ m # 0 => t # <<>>
<1>1. t \in Seq(Lock) /\ Len(t) = n + m
    BY ConcatProperties
<1>2. \A i \in 1..(n + m) : t[i] = IF i <= n THEN s[i] ELSE v[i - n]
    BY ConcatProperties
<1>3. \A i \in 1..n : t[i] = s[i]
    BY <1>2
<1>4. ASSUME NEW j \in 1..m
      PROVE  t[n + j] = v[j]
  <2>1. /\ n + j \in 1..(n + m) /\ ~(n + j <= n) /\ (n + j) - n = j
      OBVIOUS
  <2>2. QED
      BY <1>2, <2>1
<1>5. m # 0 => t # <<>>
  <2>1. Len(<<>>) = 0
      OBVIOUS
  <2>2. m # 0 => Len(t) # 0
      BY <1>1
  <2>3. QED
      BY <2>1, <2>2
<1>6. QED
    BY <1>1, <1>3, <1>4, <1>5

\* What an account operation may end with, after plain locks.
LEMMA AccountPlans ==
    ASSUME NEW s \in Seq(Lock), \A i \in 1..Len(s) : Plain(s[i]),
           NEW a \in Account, NEW l \in Lock, l.row \notin Report
    PROVE  /\ Plan("account", s \o <<KeyShare(a)>>)
           /\ Plan("account", s \o <<l, KeyShare(a)>>)
<1>1. PICK e \in Lock : e = KeyShare(a) /\ Plain(e) /\ ActorLock(e)
  <2>1. a \in Row /\ a \notin Report
      BY RowFacts
  <2>2. /\ KeyShare(a) \in Lock /\ KeyShare(a).row = a
        /\ KeyShare(a).mode = "KEY SHARE"
      BY <2>1, LockFacts
  <2>3. Plain(KeyShare(a))
      BY <2>1, <2>2 DEF Plain, AccountKey
  <2>4. ActorLock(KeyShare(a))
      BY DEF ActorLock
  <2>5. QED
      BY <2>2, <2>3, <2>4
<1>2. PICK n \in Nat : n = Len(s)
    BY LenProperties
<1>3. Plan("account", s \o <<e>>)
  <2>1. <<e>> \in Seq(Lock) /\ Len(<<e>>) = 1 /\ <<e>>[1] = e
      OBVIOUS
  <2>2. PICK t : t = s \o <<e>>
      OBVIOUS
  <2>3. /\ t \in Seq(Lock) /\ Len(t) = n + 1 /\ t # <<>>
        /\ \A i \in 1..n : t[i] = s[i]
        /\ t[n + 1] = e
      BY <1>2, <2>1, <2>2, ConcatFacts
  <2>4. ASSUME NEW i \in 1..(n + 1)
        PROVE  Plain(t[i])
    <3>1. i \in 1..n \/ i = n + 1
        OBVIOUS
    <3>2. QED
        BY <1>1, <1>2, <2>3, <3>1
  <2>5. AccountOrder({}, t)
      BY <2>3, <2>4 DEF AccountOrder, Plain
  <2>6. QED
      BY <2>2, <2>3, <2>5 DEF Plan, InOrder
<1>4. Plan("account", s \o <<l, e>>)
  <2>1. /\ <<l, e>> \in Seq(Lock) /\ Len(<<l, e>>) = 2
        /\ <<l, e>>[1] = l /\ <<l, e>>[2] = e
      OBVIOUS
  <2>2. PICK t : t = s \o <<l, e>>
      OBVIOUS
  <2>3. /\ t \in Seq(Lock) /\ Len(t) = n + 2 /\ t # <<>>
        /\ \A i \in 1..n : t[i] = s[i]
        /\ t[n + 1] = l /\ t[n + 2] = e
    <3>1. /\ t \in Seq(Lock) /\ Len(t) = n + 2 /\ t # <<>>
          /\ \A i \in 1..n : t[i] = s[i]
          /\ \A j \in 1..2 : t[n + j] = <<l, e>>[j]
        BY <1>2, <2>1, <2>2, ConcatFacts
    <3>2. QED
        BY <2>1, <3>1
  <2>4. ASSUME NEW i \in 1..(n + 2)
        PROVE  /\ t[i].row \notin Report
               /\ AccountKey(t[i]) => i + 1 = n + 2 /\ ActorLock(t[i + 1])
    <3>1. CASE i \in 1..n
        BY <1>2, <2>3, <3>1 DEF Plain
    <3>2. CASE i = n + 1
      <4>1. i + 1 = n + 2
          BY <3>2
      <4>2. QED
          BY <1>1, <2>3, <3>2, <4>1
    <3>3. CASE i = n + 2
        BY <1>1, <2>3, <3>3 DEF Plain
    <3>4. QED
        BY <3>1, <3>2, <3>3
  <2>5. AccountOrder({}, t)
      BY <2>3, <2>4 DEF AccountOrder
  <2>6. QED
      BY <2>2, <2>3, <2>5 DEF Plan, InOrder
<1>5. QED
    BY <1>1, <1>3, <1>4

\* The plans without tokens.
LEMMA ShortAccountPlans ==
    ASSUME NEW a \in Account, NEW l \in Lock, l.row \notin Report
    PROVE  Plan("account", <<KeyShare(a)>>) /\ Plan("account", <<l, KeyShare(a)>>)
<1>1. PICK e \in Lock : e = KeyShare(a)
    BY RowFacts, LockFacts
<1>2. <<e>> \in Seq(Lock) /\ <<l, e>> \in Seq(Lock)
    OBVIOUS
<1>3. <<>> \o <<e>> = <<e>> /\ <<>> \o <<l, e>> = <<l, e>>
    BY <1>2, ConcatEmptySeq
<1>4. PICK s \in Seq(Lock) : s = <<>> /\ Len(s) = 0
    BY EmptySeq
<1>5. \A i \in 1..Len(s) : Plain(s[i])
    BY <1>4
<1>6. Plan("account", s \o <<e>>) /\ Plan("account", s \o <<l, e>>)
    BY <1>1, <1>5, AccountPlans
<1>7. QED
    BY <1>1, <1>3, <1>4, <1>6

\* A statement that locks tokens: plain locks, in one order or another.
LEMMA TokenOrders ==
    ASSUME NEW T \in SUBSET Token
    PROVE  /\ \A s \in InSomeOrder({KeyUpdate(x) : x \in T}) :
                  s \in Seq(Lock) /\ \A i \in 1..Len(s) : Plain(s[i])
           /\ \A s \in InSomeOrder({Update(x) : x \in T}) :
                  s \in Seq(Lock) /\ \A i \in 1..Len(s) : Plain(s[i])
<1>1. IsFiniteSet(T)
    BY ConnectionsAssumption, FS_Subset
<1>2. \A x \in T : /\ KeyUpdate(x) \in Lock /\ Plain(KeyUpdate(x))
                   /\ Update(x) \in Lock /\ Plain(Update(x))
  <2>1. ASSUME NEW x \in T
        PROVE  /\ KeyUpdate(x) \in Lock /\ Plain(KeyUpdate(x))
               /\ Update(x) \in Lock /\ Plain(Update(x))
    <3>1. x \in Row /\ x \notin Account /\ x \notin Report
        BY RowFacts
    <3>2. QED
        BY <3>1, LockFacts DEF Plain, AccountKey
  <2>2. QED
      BY <2>1
<1>3. ASSUME NEW L, IsFiniteSet(L), \A l \in L : l \in Lock /\ Plain(l),
             NEW s \in InSomeOrder(L)
      PROVE  s \in Seq(Lock) /\ \A i \in 1..Len(s) : Plain(s[i])
  <2>1. PICK n \in Nat : n = Cardinality(L)
      BY <1>3, FS_CardinalityType
  <2>2. s \in [1..n -> L]
      BY <1>3, <2>1 DEF InSomeOrder, SetToSeqs
  <2>3. QED
      BY <1>3, <2>1, <2>2
<1>4. IsFiniteSet({KeyUpdate(x) : x \in T})
  <2>1. [x \in T |-> KeyUpdate(x)] \in Surjection(T, {KeyUpdate(x) : x \in T})
      BY DEF Surjection
  <2>2. QED
      BY <1>1, <2>1, FS_Surjection
<1>5. IsFiniteSet({Update(x) : x \in T})
  <2>1. [x \in T |-> Update(x)] \in Surjection(T, {Update(x) : x \in T})
      BY DEF Surjection
  <2>2. QED
      BY <1>1, <2>1, FS_Surjection
<1>6. QED
    BY <1>2, <1>3, <1>4, <1>5

\* A statement may lock tokens after a plain lock of another row.
LEMMA AfterOne ==
    ASSUME NEW s \in Seq(Lock), \A i \in 1..Len(s) : Plain(s[i]),
           NEW l \in Lock, Plain(l)
    PROVE  /\ <<l>> \o s \in Seq(Lock)
           /\ \A i \in 1..Len(<<l>> \o s) : Plain((<<l>> \o s)[i])
<1>1. PICK n \in Nat : n = Len(s)
    BY LenProperties
<1>2. <<l>> \in Seq(Lock) /\ Len(<<l>>) = 1 /\ <<l>>[1] = l
    OBVIOUS
<1>3. PICK t : t = <<l>> \o s
    OBVIOUS
<1>4. /\ t \in Seq(Lock) /\ Len(t) = 1 + n
      /\ \A i \in 1..1 : t[i] = <<l>>[i]
      /\ \A j \in 1..n : t[1 + j] = s[j]
    BY <1>1, <1>2, <1>3, ConcatFacts
<1>5. ASSUME NEW i \in 1..(1 + n)
      PROVE  Plain(t[i])
  <2>1. CASE i = 1
      BY <1>2, <1>4, <2>1
  <2>2. CASE i # 1
    <3>1. PICK j \in 1..n : i = 1 + j
      <4>1. i - 1 \in 1..n /\ i = 1 + (i - 1)
          BY <1>5, <2>2
      <4>2. QED
          BY <4>1
    <3>2. QED
        BY <1>1, <1>4, <3>1
  <2>3. QED
      BY <2>1, <2>2
<1>6. QED
    BY <1>3, <1>4, <1>5

LEMMA AfterTwo ==
    ASSUME NEW s \in Seq(Lock), NEW n \in Nat, n = Len(s),
           NEW x \in Lock, NEW y \in Lock, NEW t, t = <<x, y>> \o s
    PROVE  /\ t \in Seq(Lock) /\ Len(t) = 2 + n /\ t # <<>>
           /\ t[1] = x /\ t[2] = y
           /\ \A j \in 1..n : t[2 + j] = s[j]
<1>1. /\ <<x, y>> \in Seq(Lock) /\ Len(<<x, y>>) = 2
      /\ <<x, y>>[1] = x /\ <<x, y>>[2] = y
    OBVIOUS
<1>2. /\ t \in Seq(Lock) /\ Len(t) = 2 + n
      /\ \A i \in 1..2 : t[i] = <<x, y>>[i]
      /\ \A j \in 1..n : t[2 + j] = s[j]
    BY <1>1, ConcatFacts
<1>3. t # <<>>
  <2>1. Len(<<>>) = 0
      OBVIOUS
  <2>2. Len(t) # 0
      BY <1>2
  <2>3. QED
      BY <2>1, <2>2
<1>4. QED
    BY <1>1, <1>2, <1>3

\* The account's locks, then the reports in some order.
LEMMA ConvertPlans ==
    ASSUME NEW u \in Account, NEW R \in SUBSET Report,
           NEW s \in InSomeOrder({Update(r) : r \in R})
    PROVE  Plan("account", <<KeyShare(u), Update(u)>> \o s)
<1> DEFINE L == {Update(r) : r \in R}
<1>1. IsFiniteSet(L)
  <2>1. IsFiniteSet(R)
      BY ConnectionsAssumption, FS_Subset
  <2>2. [r \in R |-> Update(r)] \in Surjection(R, L)
      BY DEF Surjection
  <2>3. QED
      BY <2>1, <2>2, FS_Surjection
<1>2. \A l \in L : l \in Lock /\ ReportUpdate(l)
  <2>1. ASSUME NEW r \in R
        PROVE  Update(r) \in Lock /\ ReportUpdate(Update(r))
    <3>1. r \in Report /\ r \in Row
        BY RowFacts
    <3>2. QED
        BY <3>1, LockFacts DEF ReportUpdate
  <2>2. QED
      BY <2>1
<1>3. PICK n \in Nat : n = Cardinality(L)
    BY <1>1, FS_CardinalityType
<1>4. s \in [1..n -> L]
  <2> HIDE DEF L
  <2>1. s \in InSomeOrder(L)
      BY DEF L
  <2>2. QED
      BY <1>3, <2>1 DEF InSomeOrder, SetToSeqs
<1> HIDE DEF L
<1>5. s \in Seq(Lock) /\ Len(s) = n /\ \A i \in 1..n : ReportUpdate(s[i])
    BY <1>2, <1>4
<1> DEFINE x == KeyShare(u)
           y == Update(u)
<1>6. /\ x \in Lock /\ x.row \notin Report /\ ~AccountKey(x)
      /\ y \in Lock /\ y.row \notin Report /\ ~AccountKey(y)
  <2>1. u \in Row /\ u \notin Report
      BY RowFacts
  <2>2. QED
      BY <2>1, LockFacts DEF AccountKey
<1> HIDE DEF x, y
<1>7. PICK t : t = <<x, y>> \o s
    OBVIOUS
<1>8. /\ t \in Seq(Lock) /\ Len(t) = 2 + n /\ t # <<>>
      /\ t[1] = x /\ t[2] = y
      /\ \A j \in 1..n : t[2 + j] = s[j]
    BY <1>5, <1>6, <1>7, AfterTwo
<1>9. ASSUME NEW i \in 1..(2 + n)
      PROVE  /\ ~AccountKey(t[i])
             /\ t[i].row \in Report => i > 2
             /\ i > 2 => ReportUpdate(t[i])
  <2>1. CASE i \in 1..2
      BY <1>6, <1>8, <2>1
  <2>2. CASE i > 2
    <3>1. PICK j \in 1..n : i = 2 + j
      <4>1. i - 2 \in 1..n /\ i = 2 + (i - 2)
          BY <2>2
      <4>2. QED
          BY <4>1
    <3>2. ReportUpdate(t[i])
        BY <1>5, <1>8, <3>1
    <3>3. ~AccountKey(t[i])
        BY <3>2 DEF ReportUpdate, AccountKey
    <3>4. QED
        BY <2>2, <3>2, <3>3
  <2>3. QED
      BY <2>1, <2>2
<1>10. ASSUME NEW i \in 1..(2 + n), t[i].row \in Report, NEW j \in i..(2 + n)
       PROVE  ReportUpdate(t[j])
  <2>1. j \in 1..(2 + n) /\ (i > 2 => j > 2)
      OBVIOUS
  <2>2. QED
      BY <1>9, <1>10, <2>1
<1>11. ConvertOrder({}, t)
    BY <1>8, <1>9, <1>10 DEF ConvertOrder
<1>12. Plan("account", t)
    BY <1>8, <1>11 DEF Plan, InOrder
<1>13. QED
    BY <1>7, <1>12 DEF x, y
-----------------------------------------------------------------------------
(***************************************************************************)
(* One lemma per kind of step.                                             *)
(***************************************************************************)
LEMMA OthersStay ==
    ASSUME IInv, NEW p \in Request, TypeOK', RequestOK(p)',
           \A q \in Request \ {p} : /\ pc'[q] = pc[q] /\ kind'[q] = kind[q]
                                    /\ held'[q] = held[q] /\ todo'[q] = todo[q]
    PROVE  IInv'
<1>1. \A q \in Request \ {p} : RequestOK(q)'
    BY DEF IInv, RequestOK
<1>2. QED
    BY <1>1 DEF IInv

\* The first statement is planned: nothing is held yet.
LEMMA PlanStep ==
    ASSUME IInv, NEW p, NEW k, NEW plans, Begin(p, k, plans), p \in Request,
           held[p] = {}, k \in Kind, \A t \in plans : Plan(k, t)
    PROVE  IInv'
<1>1. PICK t \in plans : todo' = [todo EXCEPT ![p] = t]
    BY DEF Begin
<1>2. TypeOK /\ RequestOK(p)
    BY DEF IInv
<1>3. /\ pc' = [pc EXCEPT ![p] = "run"] /\ kind' = [kind EXCEPT ![p] = k]
      /\ UNCHANGED <<worker, held>>
    BY DEF Begin, Goto
<1>4. t \in Seq(Lock) /\ InOrder(k, {}, t)
    BY <1>1 DEF Plan
<1>5. TypeOK'
    BY <1>1, <1>2, <1>3, <1>4 DEF TypeOK
<1>6. /\ pc'[p] = "run" /\ kind'[p] = k /\ held'[p] = {} /\ todo'[p] = t
      /\ \A q \in Request \ {p} : /\ pc'[q] = pc[q] /\ kind'[q] = kind[q]
                                  /\ held'[q] = held[q] /\ todo'[q] = todo[q]
    BY <1>1, <1>2, <1>3 DEF TypeOK, RequestOK
<1>7. RequestOK(p)'
    BY <1>4, <1>6 DEF RequestOK
<1>8. QED
    BY <1>5, <1>6, <1>7, OthersStay

LEMMA BeginStep ==
    ASSUME IInv, NEW p, NEW k, NEW plans, Begin(p, k, plans), p \in Request,
           pc[p] = "begin", k \in Kind, \A t \in plans : Plan(k, t)
    PROVE  IInv'
<1>1. held[p] = {}
    BY DEF IInv, RequestOK
<1>2. QED
    BY <1>1, PlanStep

\* Operations that are not on accounts.
LEMMA PlainHandlers ==
    ASSUME IInv, NEW p \in Request, pc[p] = "begin", NEW a \in Account
    PROVE  /\ Login(p, a) \/ CreateReport(p, a) \/ Download(p, a) => IInv'
           /\ CreateDraft(p, a) => IInv'
           /\ \A r \in Report : EditReport(p, a, r) \/ DeleteReport(p, a, r) => IInv'
<1>1. /\ {"light", "download"} \subseteq Kind
      /\ "light" # "account" /\ "download" # "account"
    BY DEF Kind
<1>2. CASE Login(p, a)
    BY <1>1, <1>2, PlainPlans, BeginStep DEF Login
<1>3. CASE CreateReport(p, a)
    BY <1>1, <1>3, PlainPlans, BeginStep DEF CreateReport
<1>4. CASE Download(p, a)
    BY <1>1, <1>4, PlainPlans, BeginStep DEF Download
<1>5. ASSUME NEW r \in Report, EditReport(p, a, r)
      PROVE  IInv'
    BY <1>1, <1>5, PlainPlans, BeginStep DEF EditReport
<1>6. ASSUME NEW r \in Report, DeleteReport(p, a, r)
      PROVE  IInv'
    BY <1>1, <1>6, PlainPlans, BeginStep DEF DeleteReport
<1>7. CASE CreateDraft(p, a)
    BY <1>1, <1>7, PlainPlans, BeginStep DEF CreateDraft
<1>8. QED
    BY <1>2, <1>3, <1>4, <1>5, <1>6, <1>7

LEMMA DraftHandlers ==
    ASSUME IInv, NEW p \in Request, pc[p] = "begin", NEW d \in Draft,
           UpdateDraft(p, d) \/ DeleteDraft(p, d)
    PROVE  IInv'
<1>1. "light" \in Kind /\ "light" # "account"
    BY DEF Kind
<1>2. QED
    BY <1>1, DraftPlans, BeginStep DEF UpdateDraft, DeleteDraft

LEMMA ReadOnlyStep ==
    ASSUME IInv, NEW p \in Request, pc[p] = "begin", ReadOnly(p)
    PROVE  IInv'
<1>1. /\ TypeOK /\ pc' = [pc EXCEPT ![p] = "commit"]
      /\ kind' = [kind EXCEPT ![p] = "light"] /\ UNCHANGED <<worker, held, todo>>
    BY DEF IInv, ReadOnly, Goto
<1>2. TypeOK'
    BY <1>1 DEF TypeOK, Kind
<1>3. /\ pc'[p] = "commit"
      /\ \A q \in Request \ {p} : /\ pc'[q] = pc[q] /\ kind'[q] = kind[q]
                                  /\ held'[q] = held[q] /\ todo'[q] = todo[q]
    BY <1>1 DEF TypeOK
<1>4. RequestOK(p)'
    BY <1>3 DEF RequestOK
<1>5. QED
    BY <1>2, <1>3, <1>4, OthersStay

LEMMA ConvertStep ==
    ASSUME IInv, NEW p \in Request, NEW u \in Account, ConvertToOrg(p, u)
    PROVE  IInv'
<1>1. PICK R \in SUBSET {r \in Report : AuthorOf[r] = u} :
          Begin(p, "account", {<<KeyShare(u), Update(u)>> \o s :
                                   s \in InSomeOrder({Update(r) : r \in R})})
    BY DEF ConvertToOrg
<1>2. R \in SUBSET Report /\ pc[p] = "due" /\ "account" \in Kind
    BY DEF ConvertToOrg, Kind
<1> DEFINE plans == {<<KeyShare(u), Update(u)>> \o s :
                         s \in InSomeOrder({Update(r) : r \in R})}
<1>3. \A t \in plans : Plan("account", t)
    BY <1>2, ConvertPlans
<1>4. Begin(p, "account", plans)
    BY <1>1
<1> HIDE DEF plans
<1>5. held[p] = {}
    BY <1>2 DEF IInv, RequestOK
<1>6. QED
    BY <1>2, <1>3, <1>4, <1>5, PlanStep

LEMMA RefreshHandler ==
    ASSUME IInv, NEW p \in Request, pc[p] = "begin", NEW k \in Token, Refresh(p, k)
    PROVE  IInv'
<1>1. OwnerOf[k] \in Account /\ "refresh" \in Kind /\ "refresh" # "account"
    BY ConnectionsAssumption DEF Kind
<1>2. QED
    BY <1>1, PlainPlans, BeginStep DEF Refresh

\* Operations on accounts and organisations.
LEMMA AccountHandlers ==
    ASSUME IInv, NEW p \in Request, pc[p] = "begin", NEW a \in Account
    PROVE  /\ CreateAccount(p, a) => IInv'
           /\ \A u \in Account : EditAccount(p, a, u) \/ DeleteAccount(p, a, u) => IInv'
           /\ \A o \in Organisation :
                  RenameOrganisation(p, a, o) \/ DeleteOrganisation(p, a, o) => IInv'
<1>1. "account" \in Kind
    BY DEF Kind
<1>2. \A x \in Account \cup Organisation :
          /\ Update(x) \in Lock /\ Update(x).row \notin Report /\ Plain(Update(x))
          /\ KeyUpdate(x) \in Lock /\ KeyUpdate(x).row \notin Report
  <2>1. ASSUME NEW x \in Account \cup Organisation
        PROVE  /\ Update(x) \in Lock /\ Update(x).row \notin Report /\ Plain(Update(x))
               /\ KeyUpdate(x) \in Lock /\ KeyUpdate(x).row \notin Report
    <3>1. x \in Row /\ x \notin Report
        BY RowFacts
    <3>2. QED
        BY <3>1, LockFacts DEF Plain, AccountKey
  <2>2. QED
      BY <2>1
<1>3. \A us : TokensOf(us) \in SUBSET Token
    BY DEF TokensOf
<1>4. CASE CreateAccount(p, a)
  <2>1. PICK l \in Lock : l.row \notin Report
      BY <1>2
  <2>2. Plan("account", <<KeyShare(a)>>)
      BY <2>1, ShortAccountPlans
  <2>3. QED
      BY <1>1, <1>4, <2>2, BeginStep DEF CreateAccount
<1>5. ASSUME NEW u \in Account, EditAccount(p, a, u)
      PROVE  IInv'
  <2>1. /\ Plan("account", <<Update(u), KeyShare(a)>>)
        /\ Plan("account", <<KeyUpdate(u), KeyShare(a)>>)
      BY <1>2, ShortAccountPlans
  <2>2. ASSUME NEW s \in InSomeOrder({KeyUpdate(x) : x \in TokensOf({u})})
        PROVE  /\ Plan("account", s \o <<Update(u), KeyShare(a)>>)
               /\ Plan("account", s \o <<KeyUpdate(u), KeyShare(a)>>)
    <3>1. s \in Seq(Lock) /\ \A i \in 1..Len(s) : Plain(s[i])
        BY <1>3, TokenOrders
    <3>2. QED
        BY <1>2, <3>1, AccountPlans
  <2> DEFINE orders == InSomeOrder({KeyUpdate(k) : k \in TokensOf({u})})
             plans == {<<Update(u), KeyShare(a)>>, <<KeyUpdate(u), KeyShare(a)>>}
                 \cup {s \o <<Update(u), KeyShare(a)>> : s \in orders}
                 \cup {s \o <<KeyUpdate(u), KeyShare(a)>> : s \in orders}
  <2>3. Begin(p, "account", plans)
      BY <1>5 DEF EditAccount
  <2>4. \A t \in plans : Plan("account", t)
    <3> HIDE DEF orders
    <3>1. \A s \in orders : /\ Plan("account", s \o <<Update(u), KeyShare(a)>>)
                            /\ Plan("account", s \o <<KeyUpdate(u), KeyShare(a)>>)
        BY <2>2 DEF orders
    <3>2. QED
        BY <2>1, <3>1
  <2> HIDE DEF plans
  <2>5. QED
      BY <1>1, <2>3, <2>4, BeginStep
<1>6. ASSUME NEW u \in Account, DeleteAccount(p, a, u)
      PROVE  IInv'
  <2>1. ASSUME NEW s \in InSomeOrder({KeyUpdate(x) : x \in TokensOf({u})})
        PROVE  Plan("account", <<Update(u)>> \o s \o <<KeyShare(a)>>)
    <3>1. s \in Seq(Lock) /\ \A i \in 1..Len(s) : Plain(s[i])
        BY <1>3, TokenOrders
    <3>2. PICK t \in Seq(Lock) : /\ t = <<Update(u)>> \o s
                                 /\ \A i \in 1..Len(t) : Plain(t[i])
        BY <1>2, <3>1, AfterOne
    <3>3. Plan("account", t \o <<KeyShare(a)>>)
        BY <1>2, <3>2, AccountPlans
    <3>4. QED
        BY <3>2, <3>3
  <2>2. QED
      BY <1>1, <1>6, <2>1, BeginStep DEF DeleteAccount
<1>7. ASSUME NEW o \in Organisation, RenameOrganisation(p, a, o)
      PROVE  IInv'
  <2>1. Plan("account", <<Update(o), KeyShare(a)>>)
      BY <1>2, ShortAccountPlans
  <2>2. QED
      BY <1>1, <1>7, <2>1, BeginStep DEF RenameOrganisation
<1>8. ASSUME NEW o \in Organisation, DeleteOrganisation(p, a, o)
      PROVE  IInv'
  <2> DEFINE T == TokensOf({u \in Account : OrgOf[u] = o})
  <2>1. ASSUME NEW s \in InSomeOrder({Update(x) : x \in T})
        PROVE  Plan("account", <<Update(o)>> \o s \o <<KeyShare(a)>>)
    <3>1. s \in Seq(Lock) /\ \A i \in 1..Len(s) : Plain(s[i])
        BY <1>3, TokenOrders
    <3>2. PICK t \in Seq(Lock) : /\ t = <<Update(o)>> \o s
                                 /\ \A i \in 1..Len(t) : Plain(t[i])
        BY <1>2, <3>1, AfterOne
    <3>3. Plan("account", t \o <<KeyShare(a)>>)
        BY <1>2, <3>2, AccountPlans
    <3>4. QED
        BY <3>2, <3>3
  <2>2. QED
      BY <1>1, <1>8, <2>1, BeginStep DEF DeleteOrganisation
<1>9. QED
    BY <1>4, <1>5, <1>6, <1>7, <1>8

LEMMA HandleStep ==
    ASSUME IInv, NEW p \in Request, Handle(p)
    PROVE  IInv'
<1>1. \A a \in Admin : a \in Account
    BY ConnectionsAssumption
<1>2. QED
    BY <1>1, PlainHandlers, DraftHandlers, ReadOnlyStep, RefreshHandler,
       AccountHandlers
    DEF Handle

\* A lock is granted, or a request ends or moves on with the locks it has.
LEMMA TakeLockStep ==
    ASSUME IInv, NEW p \in Request, TakeLock(p)
    PROVE  IInv'
<1>1. /\ TypeOK /\ RequestOK(p) /\ pc[p] = "run"
      /\ held' = [held EXCEPT ![p] = held[p] \cup {Head(todo[p])}]
      /\ todo' = [todo EXCEPT ![p] = Tail(todo[p])]
      /\ pc' = [pc EXCEPT ![p] =
                    IF Len(todo[p]) = 1 THEN Responding(kind[p]) ELSE "run"]
      /\ UNCHANGED <<kind, worker>>
    BY DEF IInv, TakeLock, Goto
<1>2. InOrder(kind[p], held[p], todo[p]) /\ todo[p] \in Seq(Lock) /\ todo[p] # <<>>
    BY <1>1 DEF RequestOK, TypeOK, InOrder
<1>3. Head(todo[p]) \in Lock /\ Tail(todo[p]) \in Seq(Lock)
    BY <1>2, TailFacts
<1>4. Responding(kind[p]) \in {"stream", "commit"}
    BY DEF Responding
<1>5. TypeOK'
    BY <1>1, <1>3, <1>4 DEF TypeOK
<1>6. /\ pc'[p] = IF Len(todo[p]) = 1 THEN Responding(kind[p]) ELSE "run"
      /\ held'[p] = held[p] \cup {Head(todo[p])} /\ todo'[p] = Tail(todo[p])
      /\ kind'[p] = kind[p]
      /\ \A q \in Request \ {p} : /\ pc'[q] = pc[q] /\ kind'[q] = kind[q]
                                  /\ held'[q] = held[q] /\ todo'[q] = todo[q]
    BY <1>1 DEF TypeOK
<1>7. RequestOK(p)'
    BY <1>2, <1>4, <1>6, TakeKeepsOrder DEF RequestOK
<1>8. QED
    BY <1>5, <1>6, <1>7, OthersStay

LEMMA EndStep ==
    ASSUME IInv, NEW p \in Request, End(p)
    PROVE  IInv'
<1>1. TypeOK
    BY DEF IInv
<1>2. TypeOK'
    BY <1>1, EmptySeq DEF TypeOK, End, Goto
<1>3. /\ pc'[p] = "ended"
      /\ \A q \in Request \ {p} : /\ pc'[q] = pc[q] /\ kind'[q] = kind[q]
                                  /\ held'[q] = held[q] /\ todo'[q] = todo[q]
    BY <1>1 DEF TypeOK, End, Goto
<1>4. RequestOK(p)'
    BY <1>3 DEF RequestOK
<1>5. QED
    BY <1>2, <1>3, <1>4, OthersStay

LEMMA MoveStep ==
    ASSUME IInv, NEW p \in Request, Arrive(p) \/ Dequeue(p) \/ ReadToEnd(p)
    PROVE  IInv'
<1>1. CASE End(p)
    BY <1>1, EndStep
<1>2. CASE ~End(p)
  <2>1. TypeOK /\ RequestOK(p)
      BY DEF IInv
  <2>2. /\ UNCHANGED <<kind, held, todo>>
        /\ \/ pc[p] = "due" /\ pc' = [pc EXCEPT ![p] = "queue"]
           \/ pc[p] = "queue" /\ pc' = [pc EXCEPT ![p] = "begin"]
           \/ pc[p] = "stream" /\ pc' = [pc EXCEPT ![p] = "commit"]
        /\ worker' \in [Request -> Worker \cup {None}]
      BY <1>2, <2>1 DEF Arrive, Dequeue, ReadToEnd, Goto, TypeOK
  <2>3. TypeOK'
      BY <2>1, <2>2 DEF TypeOK
  <2>4. /\ \/ pc[p] = "due" /\ pc'[p] = "queue"
           \/ pc[p] = "queue" /\ pc'[p] = "begin"
           \/ pc[p] = "stream" /\ pc'[p] = "commit"
        /\ \A q \in Request \ {p} : pc'[q] = pc[q]
      BY <2>1, <2>2 DEF TypeOK
  <2>5. RequestOK(p)'
      BY <2>1, <2>2, <2>4 DEF RequestOK
  <2>6. QED
      BY <2>2, <2>3, <2>4, <2>5, OthersStay
<1>3. QED
    BY <1>1, <1>2

LEMMA RestartStep ==
    ASSUME IInv, NEW w \in Worker, Restart(w)
    PROVE  IInv'
<1> DEFINE lost == {p \in Request : worker[p] = w}
           Reset(f, value) == [p \in Request |-> IF p \in lost THEN value ELSE f[p]]
<1>1. /\ TypeOK
      /\ pc' = Reset(pc, "ended") /\ kind' = Reset(kind, None)
      /\ worker' = Reset(worker, None) /\ held' = Reset(held, {})
      /\ todo' = Reset(todo, <<>>)
    BY DEF IInv, Restart
<1>2. \A q \in Request :
          \/ pc'[q] = "ended" /\ kind'[q] = None /\ worker'[q] = None
             /\ held'[q] = {} /\ todo'[q] = <<>>
          \/ pc'[q] = pc[q] /\ kind'[q] = kind[q] /\ worker'[q] = worker[q]
             /\ held'[q] = held[q] /\ todo'[q] = todo[q]
    BY <1>1
<1>3. <<>> \in Seq(Lock)
    BY EmptySeq
<1>4. TypeOK'
    BY <1>1, <1>3 DEF TypeOK
<1>5. ASSUME NEW q \in Request
      PROVE  RequestOK(q)'
    BY <1>2 DEF IInv, RequestOK
<1>6. QED
    BY <1>4, <1>5 DEF IInv
-----------------------------------------------------------------------------
(***************************************************************************)
(* The theorems.                                                           *)
(***************************************************************************)
LEMMA InitStep == Init => IInv
<1>1. <<>> \in Seq(Lock)
    BY EmptySeq
<1>2. QED
    BY <1>1 DEF Init, IInv, TypeOK, RequestOK

LEMMA NextStep == IInv /\ [Next]_vars => IInv'
<1> SUFFICES ASSUME IInv, [Next]_vars
             PROVE  IInv'
    OBVIOUS
<1>1. CASE UNCHANGED vars
    BY <1>1 DEF vars, IInv, TypeOK, RequestOK
<1>2. ASSUME NEW p \in Request, Arrive(p) \/ Serve(p) \/ ReadToEnd(p) \/ Abort(p)
      PROVE  IInv'
    BY <1>2, MoveStep, HandleStep, TakeLockStep, EndStep
    DEF Serve, Commit, BreakDeadlock, Abort
<1>3. ASSUME NEW w \in Worker, Restart(w)
      PROVE  IInv'
    BY <1>3, RestartStep
<1>4. ASSUME NEW p \in Request, NEW u \in Account, ConvertToOrg(p, u)
      PROVE  IInv'
    BY <1>4, ConvertStep
<1>5. QED
    BY <1>1, <1>2, <1>3, <1>4 DEF Next, Quiet

LEMMA Invariance == Spec => []IInv
BY InitStep, NextStep, PTL DEF Spec

\* Every reachable state is well typed: what is held and planned are locks.
THEOREM TypeCorrect == Spec => []TypeOK
<1>1. IInv => TypeOK
    BY DEF IInv
<1>2. QED
    BY Invariance, <1>1, PTL

\* What the next lock of an operation that is not on accounts may be, given
\* what it holds, and what it never holds.
LEMMA PlainFacts ==
    ASSUME IInv, NEW p \in Request, pc[p] = "run", kind[p] # "account", held[p] # {}
    PROVE  /\ Head(todo[p]) \in Lock
           /\ ActorLock(Head(todo[p])) \/ ReportUpdate(Head(todo[p]))
           /\ \A l \in held[p] :
                  /\ l.mode # "UPDATE"
                  /\ l.mode # "KEY SHARE" => ActorLock(Head(todo[p]))
           /\ ~ActorLock(Head(todo[p])) => \A l \in held[p] : l.mode = "KEY SHARE"
<1>1. PlainOrder(held[p], todo[p])
    BY DEF IInv, RequestOK, InOrder
<1>2. Head(todo[p]) \in Lock
    BY TailFacts DEF IInv, TypeOK, RequestOK, InOrder
<1>3. \A x \in Row : /\ KeyShare(x).mode = "KEY SHARE" /\ KeyShare(x).row = x
                     /\ Update(x).mode = "NO KEY UPDATE" /\ Update(x).row = x
    BY LockFacts
<1>4. ASSUME NEW r \in Report, NEW a \in Account,
             held[p] = {KeyShare(r)}, todo[p] = <<KeyShare(a), Update(r)>>
      PROVE  ActorLock(Head(todo[p])) /\ \A l \in held[p] : l.mode = "KEY SHARE"
  <2>1. Head(todo[p]) = KeyShare(a)
      BY <1>4
  <2>2. r \in Row
      BY RowFacts
  <2>3. QED
      BY <1>3, <1>4, <2>1, <2>2 DEF ActorLock
<1>5. ASSUME NEW r \in Report, NEW a \in Account,
             held[p] = {KeyShare(r), KeyShare(a)}, todo[p] = <<Update(r)>>
      PROVE  /\ ReportUpdate(Head(todo[p]))
             /\ \A l \in held[p] : l.mode = "KEY SHARE"
  <2>1. Head(todo[p]) = Update(r)
      BY <1>5
  <2>2. /\ KeyShare(r).mode = "KEY SHARE" /\ KeyShare(a).mode = "KEY SHARE"
        /\ Update(r).row = r /\ Update(r).mode = "NO KEY UPDATE"
      BY <1>3, RowFacts
  <2>3. ReportUpdate(Head(todo[p]))
      BY <2>1, <2>2 DEF ReportUpdate
  <2>4. \A l \in held[p] : l.mode = "KEY SHARE"
      BY <1>5, <2>2
  <2>5. QED
      BY <2>3, <2>4
<1>6. ASSUME NEW x \in Report \cup Token, NEW a \in Account,
             held[p] = {Update(x)}, todo[p] = <<KeyShare(a)>>
      PROVE  ActorLock(Head(todo[p])) /\ \A l \in held[p] : l.mode = "NO KEY UPDATE"
  <2>1. Head(todo[p]) = KeyShare(a)
      BY <1>6
  <2>2. x \in Row
      BY RowFacts
  <2>3. QED
      BY <1>3, <1>6, <2>1, <2>2 DEF ActorLock
<1>7. QED
    BY <1>1, <1>2, <1>4, <1>5, <1>6 DEF PlainOrder

\* A request of any kind that holds the key of an account has at most the
\* actor's lock left to take; one that holds more than a KEY SHARE on a report
\* at most that or, being a conversion, further reports.
LEMMA LastLock ==
    ASSUME IInv, NEW q \in Request, pc[q] = "run", NEW l \in held[q]
    PROVE  /\ AccountKey(l) => ActorLock(Head(todo[q]))
           /\ l.row \in Report /\ l.mode # "KEY SHARE" =>
                  ActorLock(Head(todo[q])) \/ ReportUpdate(Head(todo[q]))
<1>1. CASE kind[q] = "account"
  <2>1. /\ AccountOrder(held[q], todo[q]) \/ ConvertOrder(held[q], todo[q])
        /\ todo[q] # <<>> /\ todo[q] \in Seq(Lock)
      BY <1>1 DEF IInv, TypeOK, RequestOK, InOrder
  <2>2. Head(todo[q]) = todo[q][1] /\ 1 \in 1..Len(todo[q])
      BY <2>1, TailFacts
  <2>3. CASE AccountOrder(held[q], todo[q])
      BY <2>2, <2>3 DEF AccountOrder
  <2>4. CASE ConvertOrder(held[q], todo[q])
      BY <2>2, <2>4 DEF ConvertOrder
  <2>5. QED
      BY <2>1, <2>3, <2>4
<1>2. CASE kind[q] # "account"
    BY <1>2, PlainFacts DEF AccountKey
<1>3. QED
    BY <1>1, <1>2

\* Whom a request waits for that has only the actor's lock to take: one that
\* holds the key of that account.
LEMMA WaitsForKey ==
    ASSUME IInv, NEW p \in Request, NEW q \in Request, Waits(p, q),
           ActorLock(Head(todo[p]))
    PROVE  \E l \in held[q] : AccountKey(l)
<1>1. PICK l \in held[q] : Conflict(l, Head(todo[p]))
    BY DEF Waits
<1>2. PICK a \in Account : Head(todo[p]) = KeyShare(a)
    BY DEF ActorLock
<1>3. /\ KeyShare(a) \in Lock /\ KeyShare(a).row = a
      /\ KeyShare(a).mode = "KEY SHARE" /\ l \in Lock
    BY RowFacts, LockFacts DEF IInv, TypeOK
<1>4. AccountKey(l)
    BY <1>1, <1>2, <1>3, ConflictFacts DEF AccountKey
<1>5. QED
    BY <1>4

\* A request that is not on accounts is left out of a set that is closed under
\* waiting: all others while it holds nothing; those that have only their
\* actor's lock to take, or none, when that is what it waits for; and those
\* with a report in the way as well, when it waits for a report.
LEMMA NoOtherCycle ==
    ASSUME IInv, NEW p \in Request, OnCycle(p)
    PROVE  kind[p] = "account"
<1>1. SUFFICES ASSUME kind[p] # "account"
               PROVE  \E S \in SUBSET Request :
                          WaitedForBy(S \cup {p}) \subseteq S /\ p \notin S
    BY DEF OnCycle
<1>2. pc[p] = "run" /\ RequestOK(p)
    BY DEF OnCycle, IInv
<1>3. CASE held[p] = {}
  <2>1. WaitedForBy((Request \ {p}) \cup {p}) \subseteq Request \ {p}
      BY <1>3 DEF WaitedForBy, Waits
  <2>2. QED
      BY <2>1
<1>4. ASSUME held[p] # {}, NEW x \in Request, NEW q \in Request, Waits(x, q),
             ActorLock(Head(todo[x]))
      PROVE  q # p /\ (pc[q] = "run" => ActorLock(Head(todo[q])))
  <2>1. PICK l \in held[q] : AccountKey(l)
      BY <1>4, WaitsForKey
  <2>2. q # p
      BY <1>1, <1>2, <1>4, <2>1, PlainFacts DEF AccountKey
  <2>3. QED
      BY <2>1, <2>2, LastLock
<1>5. CASE held[p] # {} /\ ActorLock(Head(todo[p]))
  <2> DEFINE S == {q \in Request : q # p /\ (pc[q] = "run" => ActorLock(Head(todo[q])))}
  <2>1. ASSUME NEW q \in Request, NEW x \in S \cup {p}, Waits(x, q)
        PROVE  q \in S
    <3>1. x \in Request /\ ActorLock(Head(todo[x]))
        BY <1>5, <2>1 DEF Waits
    <3>2. QED
        BY <1>4, <1>5, <2>1, <3>1
  <2>2. WaitedForBy(S \cup {p}) \subseteq S
      BY <2>1 DEF WaitedForBy
  <2>3. S \in SUBSET Request /\ p \notin S
      OBVIOUS
  <2>4. QED
      BY <2>2, <2>3
<1>6. CASE held[p] # {} /\ ~ActorLock(Head(todo[p]))
  <2> DEFINE S == {q \in Request :
                       /\ q # p
                       /\ pc[q] = "run" => \/ ActorLock(Head(todo[q]))
                                           \/ ReportUpdate(Head(todo[q]))}
  <2>1. /\ ReportUpdate(Head(todo[p]))
        /\ \A l \in held[p] : l.mode = "KEY SHARE"
      BY <1>1, <1>2, <1>6, PlainFacts
  <2>2. ASSUME NEW q \in Request, NEW x \in S \cup {p}, Waits(x, q)
        PROVE  q \in S
    <3>1. /\ x \in Request /\ pc[x] = "run"
          /\ ActorLock(Head(todo[x])) \/ ReportUpdate(Head(todo[x]))
        BY <2>1, <2>2 DEF Waits
    <3>2. CASE ActorLock(Head(todo[x]))
        BY <1>4, <1>6, <2>2, <3>1, <3>2
    <3>3. CASE ReportUpdate(Head(todo[x]))
      <4>1. PICK l \in held[q] : Conflict(l, Head(todo[x]))
          BY <2>2 DEF Waits
      <4>2. l \in Lock /\ Head(todo[x]) \in Lock
          BY <3>1, TailFacts DEF IInv, TypeOK, RequestOK, InOrder
      <4>3. l.row \in Report /\ l.mode # "KEY SHARE"
          BY <3>3, <4>1, <4>2, ConflictFacts DEF ReportUpdate
      <4>4. q # p
          BY <2>1, <4>3
      <4>5. QED
          BY <4>3, <4>4, LastLock
    <3>4. QED
        BY <3>1, <3>2, <3>3
  <2>3. WaitedForBy(S \cup {p}) \subseteq S
      BY <2>2 DEF WaitedForBy
  <2>4. S \in SUBSET Request /\ p \notin S
      OBVIOUS
  <2>5. QED
      BY <2>3, <2>4
<1>7. QED
    BY <1>3, <1>5, <1>6

\* No login, refresh, download or operation on reports or drafts is ever part
\* of a deadlock over rows, so PostgreSQL never aborts one, however many
\* requests, workers and connections there are.
THEOREM OthersNeverDeadlock == Spec => []OnlyAccountsDeadlock
<1>1. IInv => OnlyAccountsDeadlock
    BY NoOtherCycle DEF OnlyAccountsDeadlock
<1>2. QED
    BY Invariance, <1>1, PTL
=============================================================================
