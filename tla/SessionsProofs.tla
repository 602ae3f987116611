--------------------------- MODULE SessionsProofs ---------------------------
(***************************************************************************)
(* Theorems about Sessions that hold for every set of accounts, tokens and *)
(* organisations, any number of requests and of password changes.          *)
(***************************************************************************)
EXTENDS Sessions, TLAPS

(***************************************************************************)
(* The inductive invariant.  A refresh reads its token's row before it     *)
(* locks it and writes both rows at the commit: what it may overwrite then *)
(* depends on who locks which row, and on nobody else having its new one.  *)
(***************************************************************************)

\* A committed row belongs to whom the token was made for, as did the token
\* that it was rotated from, which is spent.
TokenOK(k) ==
    Stored(k) =>
        /\ issuedTo[k] = tokens[k].user
        /\ tokens[k].parent # NoToken =>
               /\ issuedTo[tokens[k].parent] = tokens[k].user
               /\ ~Active(tokens[k].parent)

\* The token that a request has inserted is known to nobody else.
NewToken(p) ==
    /\ tx[p].new \in Token /\ ~Stored(tx[p].new)
    /\ issuedTo[tx[p].new] = tx[p].subject
    /\ \A k \in Token : Stored(k) => tokens[k].parent # tx[p].new

IssuerOK(p) ==
    /\ tx[p].subject \in User /\ tx[p].victims = {}
    /\ IF tx[p].op = "login"
       THEN tx[p].token = NoToken /\ pc[p] \in {"insert", "commit"}
       ELSE /\ tx[p].token \in Token /\ issuedTo[tx[p].token] = tx[p].subject
            /\ pc[p] \in {"scan", "mark", "insert", "commit"}
    /\ IF pc[p] = "commit" THEN NewToken(p) ELSE tx[p].new = NoToken

RevokerOK(p) ==
    /\ tx[p].subject \in IF tx[p].op = "delete_org" THEN Organisation ELSE User
    /\ tx[p].token = NoToken /\ tx[p].new = NoToken
    /\ pc[p] \in {"revoke", "revoking", "update", "commit"}
    /\ tx[p].op # "update_user" /\ pc[p] = "update" => tx[p].victims = {}

TxOK(p) ==
    /\ pc[p] = "idle" <=> tx[p] = NoTx
    /\ InFlight(p) => IF tx[p].op \in {"login", "refresh"} THEN IssuerOK(p)
                                                         ELSE RevokerOK(p)
    /\ \A k \in Token : LocksToken(p, k) => Stored(k)

\* One request at a time holds a row's lock, and each inserts its own token.
PairOK(p, q) ==
    /\ \A k \in Token : LocksToken(p, k) => ~LocksToken(q, k)
    /\ \A k \in Token : InFlight(p) /\ tx[p].new = k =>
                            ~(InFlight(q) /\ tx[q].new = k)

IInv ==
    /\ TypeOK
    /\ \A k \in Token : TokenOK(k)
    /\ \A p \in Request : TxOK(p)
    /\ \A p \in Request : \A q \in Request \ {p} : PairOK(p, q)

-----------------------------------------------------------------------------
(***************************************************************************)
(* What the history in the rows says.                                      *)
(***************************************************************************)

\* A row that a revocation could find is no older than the password, and its
\* account is not deleted.
RowOK(k) ==
    Stored(k) /\ ~tokens[k].late =>
        /\ ~users[tokens[k].user].deleted
        /\ tokens[k].password = users[tokens[k].user].password

\* What the revoking statement found is still all there is to find.
FoundOK(p) ==
    HasFound(p) =>
        \A k \in Token :
            Stored(k) /\ tokens[k].user \in About(tx[p].subject) /\ ~tokens[k].late
            => k \in tx[p].victims

\* A refresh that has found its token carries the row's password, and who
\* has rotated the token since has done so in its presence.
ReadOK(p) ==
    InFlight(p) /\ tx[p].op = "refresh" /\ pc[p] # "scan" =>
        /\ Stored(tx[p].token) => tokens[tx[p].token].password = tx[p].password
        /\ \A k \in Token : Stored(k) /\ tokens[k].parent = tx[p].token =>
               tokens[k].raced
        /\ \A q \in Request : InFlight(q) => tx[q].new # tx[p].token

RaceInv ==
    /\ \A k \in Token : RowOK(k)
    /\ \A p \in Request : FoundOK(p) /\ ReadOK(p)
    /\ SingleUseInTurn
-----------------------------------------------------------------------------
(***************************************************************************)
(* The kinds of step.                                                      *)
(***************************************************************************)

\* What a step of one request leaves alone.
Others(p) == \A q \in Request \ {p} : pc'[q] = pc[q] /\ tx'[q] = tx[q]

\* The markers are no tokens, no rows and no transactions.
LEMMA MarkerFacts ==
    /\ Nobody \notin User /\ NoToken \notin Token /\ NoToken \notin TokenRow
    /\ NoTx \notin Tx /\ User \cap Organisation = {}
BY SessionsAssumption

\* A transaction keeps its type when one column is set.
LEMMA TxFacts ==
    ASSUME NEW t \in Tx
    PROVE  /\ \A pw \in Password : [t EXCEPT !.password = pw] \in Tx
           /\ \A k \in Token : [t EXCEPT !.new = k] \in Tx
           /\ \A ks \in SUBSET Token : [t EXCEPT !.victims = ks] \in Tx
BY DEF Tx

\* A step that writes no row of refresh_tokens keeps the invariant if the
\* request that takes it does.
LEMMA PrivateStep ==
    ASSUME IInv, NEW p \in Request, TypeOK', tokens' = tokens, Others(p),
           \A k \in Token : issuedTo[k] # Nobody => issuedTo'[k] = issuedTo[k],
           TxOK(p)', \A q \in Request \ {p} : PairOK(p, q)'
    PROVE  IInv'
<1>1. \A k \in Token : TokenOK(k)'
  <2> TAKE k \in Token
  <2>1. CASE ~Stored(k)
      BY <2>1 DEF TokenOK, Stored
  <2>2. CASE Stored(k)
    <3>1. /\ TokenOK(k) /\ tokens[k] \in TokenRow
        BY <2>2 DEF IInv, TypeOK, Stored
    <3>2. /\ tokens[k].user \in User /\ tokens[k].parent \in Token \cup {NoToken}
        BY <3>1 DEF TokenRow
    <3>3. QED
        BY <2>2, <3>1, <3>2, MarkerFacts DEF TokenOK, Stored, Active
  <2>3. QED
      BY <2>1, <2>2
<1>2. ASSUME NEW q \in Request \ {p}
      PROVE  TxOK(q)'
  <2>1. TxOK(q) /\ pc'[q] = pc[q] /\ tx'[q] = tx[q]
      BY DEF IInv, Others
  <2>2. IssuerOK(q) => IssuerOK(q)'
      BY <2>1, MarkerFacts DEF IssuerOK, NewToken, Stored
  <2>3. RevokerOK(q) => RevokerOK(q)'
      BY <2>1 DEF RevokerOK
  <2>4. QED
      BY <2>1, <2>2, <2>3 DEF TxOK, InFlight, LocksToken, Stored
<1>3. ASSUME NEW q \in Request, NEW z \in Request \ {q}
      PROVE  PairOK(q, z)'
  <2>1. CASE q # p /\ z # p
      BY <2>1 DEF IInv, Others, PairOK, LocksToken, InFlight
  <2>2. PairOK(z, q)' => PairOK(q, z)'
      BY DEF PairOK
  <2>3. QED
      BY <2>1, <2>2
<1>4. QED
    BY <1>1, <1>2, <1>3 DEF IInv

\* A request that ends without a commit leaves no trace but its used-up id.
LEMMA EndStep ==
    ASSUME IInv, NEW p \in Request, End(p),
           UNCHANGED <<users, orgs, tokens, issuedTo, changes>>
    PROVE  IInv'
<1>1. TypeOK /\ TypeOK'
    BY DEF IInv, TypeOK, End, Step
<1>2. pc'[p] = "idle" /\ tx'[p] = NoTx /\ Others(p)
    BY <1>1 DEF End, TypeOK, Others
<1>3. TxOK(p)' /\ \A q \in Request \ {p} : PairOK(p, q)'
    BY <1>2 DEF TxOK, InFlight, LocksToken, PairOK
<1>4. QED
    BY <1>1, <1>2, <1>3, PrivateStep

\* The first step of a request, which holds nothing yet.
LEMMA BeginStep ==
    ASSUME IInv, NEW p \in Request, NEW s \in User \cup Organisation,
           NEW op \in {"login", "refresh", "update_user", "delete_user", "delete_org"},
           NEW k \in Token \cup {NoToken}, NEW pw \in Password, NEW first,
           Begin(p, first, op, s, k, pw), changes' \in 0..MaxChanges,
           \/ op = "login" /\ first = "insert" /\ k = NoToken
              /\ s \in User
           \/ op = "refresh" /\ first = "scan" /\ k \in Token /\ issuedTo[k] = s
              /\ s \in User
           \/ op = "update_user" /\ first = "revoke" /\ k = NoToken /\ s \in User
           \/ op = "delete_user" /\ first = "update" /\ k = NoToken /\ s \in User
           \/ op = "delete_org" /\ first = "update" /\ k = NoToken
              /\ s \in Organisation
    PROVE  IInv'
<1> DEFINE t == [op |-> op, subject |-> s, token |-> k, new |-> NoToken,
                 password |-> pw, victims |-> {}]
<1>1. TypeOK /\ pc[p] = "idle"
    BY DEF IInv, Begin
<1>2. t \in Tx
    BY DEF Tx
<1>3. pc'[p] = first /\ tx'[p] = t /\ Others(p)
    BY <1>1 DEF Begin, Goto, TypeOK, Others
<1>4. TypeOK'
  <2>1. tx' \in [Request -> Tx \cup {NoTx}]
      BY <1>1, <1>2 DEF Begin, TypeOK
  <2>2. pc' \in [Request -> Step]
      BY <1>1 DEF Begin, Goto, TypeOK, Step
  <2>3. QED
      BY <1>1, <2>1, <2>2 DEF Begin, TypeOK
<1>5. \A j \in Token : ~LocksToken(p, j)' /\ tx'[p].new # j
    BY <1>3, MarkerFacts DEF LocksToken
<1>6. TxOK(p)'
  <2>1. t # NoTx /\ first # "idle"
      BY <1>2, MarkerFacts
  <2>2. CASE op \in {"login", "refresh"}
      BY <1>3, <1>5, <2>1, <2>2 DEF TxOK, IssuerOK, Begin
  <2>3. CASE op \notin {"login", "refresh"}
      BY <1>3, <1>5, <2>1, <2>3 DEF TxOK, RevokerOK
  <2>4. QED
      BY <2>2, <2>3
<1>7. \A q \in Request \ {p} : PairOK(p, q)'
    BY <1>5 DEF PairOK
<1>8. QED
    BY <1>3, <1>4, <1>6, <1>7, PrivateStep DEF Begin

\* A step that only changes what its request carries.
LEMMA CarryStep ==
    ASSUME IInv, NEW p \in Request, InFlight(p), NEW t \in Tx, NEW next \in Step,
           tx' = [tx EXCEPT ![p] = t], Goto(p, next),
           UNCHANGED <<users, orgs, tokens, changes>>,
           issuedTo' \in [Token -> User \cup {Nobody}],
           \A k \in Token : issuedTo[k] # Nobody => issuedTo'[k] = issuedTo[k],
           TxOK(p)', \A q \in Request \ {p} : PairOK(p, q)'
    PROVE  IInv'
<1>1. TypeOK
    BY DEF IInv
<1>2. TypeOK' /\ Others(p)
    BY <1>1 DEF TypeOK, Goto, Others
<1>3. QED
    BY <1>2, PrivateStep

\* A refresh that has found its token active has not touched it yet.
LEMMA ScanStep ==
    ASSUME IInv, NEW p \in Request, Scan(p)
    PROVE  IInv'
<1>1. TypeOK /\ TxOK(p) /\ tx[p] \in Tx /\ InFlight(p)
    BY DEF IInv, TypeOK, TxOK, Scan, InFlight
<1>2. /\ tx[p].op \in {"login", "refresh"} /\ IssuerOK(p)
      /\ tx[p].token \in Token /\ tx[p].op = "refresh"
    BY <1>1 DEF TxOK, Scan, IssuerOK, RevokerOK
<1>3. CASE Active(tx[p].token)
  <2> DEFINE t == [tx[p] EXCEPT !.password = tokens[tx[p].token].password]
  <2>1. tokens[tx[p].token].password \in Password
      BY <1>1, <1>2, <1>3 DEF Active, Stored, TypeOK, TokenRow
  <2>2. t \in Tx
      BY <1>1, <2>1, TxFacts
  <2>3. tx' = [tx EXCEPT ![p] = t] /\ Goto(p, "mark")
      BY <1>3 DEF Scan
  <2>4. pc'[p] = "mark" /\ tx'[p] = t
      BY <1>1, <2>3 DEF Goto, TypeOK
  <2>5. /\ t.op = tx[p].op /\ t.subject = tx[p].subject /\ t.token = tx[p].token
        /\ t.new = tx[p].new /\ t.victims = tx[p].victims
      BY <1>1 DEF Tx
  <2>6. IssuerOK(p)'
      BY <1>2, <2>4, <2>5 DEF Scan, IssuerOK
  <2>7. \A j \in Token : ~LocksToken(p, j)' /\ tx'[p].new # j
      BY <1>2, <2>4, <2>5, MarkerFacts DEF LocksToken, IssuerOK, Scan
  <2>8. TxOK(p)' /\ \A q \in Request \ {p} : PairOK(p, q)'
      BY <1>2, <2>2, <2>4, <2>5, <2>6, <2>7, MarkerFacts DEF TxOK, PairOK
  <2>9. QED
      BY <1>1, <2>2, <2>3, <2>8, CarryStep DEF Scan, Step, TypeOK
<1>4. CASE ~Active(tx[p].token)
    BY <1>4, EndStep DEF Scan
<1>5. QED
    BY <1>3, <1>4

\* mark_used takes the lock of a row that is there and that nobody holds.
LEMMA MarkUsedStep ==
    ASSUME IInv, NEW p \in Request, MarkUsed(p)
    PROVE  IInv'
<1>1. TypeOK /\ TxOK(p) /\ tx[p] \in Tx /\ InFlight(p)
    BY DEF IInv, TypeOK, TxOK, MarkUsed, InFlight
<1>2. /\ tx[p].op = "refresh" /\ IssuerOK(p) /\ tx[p].token \in Token
    BY <1>1 DEF TxOK, MarkUsed, IssuerOK, RevokerOK
<1>3. CASE Stored(tx[p].token)
  <2>1. tx' = [tx EXCEPT ![p] = tx[p]] /\ Goto(p, "insert")
      BY <1>1, <1>3 DEF MarkUsed, TypeOK
  <2>2. pc'[p] = "insert" /\ tx'[p] = tx[p] /\ Others(p)
      BY <1>1, <2>1 DEF Goto, TypeOK, Others
  <2>3. IssuerOK(p)'
      BY <1>2, <2>2 DEF MarkUsed, IssuerOK
  <2>4. \A j \in Token : LocksToken(p, j)' => j = tx[p].token
      BY <2>2 DEF LocksToken
  <2>5. TxOK(p)'
      BY <1>1, <1>2, <1>3, <2>2, <2>3, <2>4, MarkerFacts
      DEF TxOK, MarkUsed, Stored, InFlight
  <2>6. tx[p].new = NoToken
      BY <1>2 DEF IssuerOK, MarkUsed
  <2>7. \A q \in Request \ {p} : PairOK(p, q)'
      BY <2>2, <2>4, <2>6, MarkerFacts DEF PairOK, MarkUsed, LocksToken, Others
  <2>8. QED
      BY <1>1, <2>1, <2>5, <2>7, CarryStep DEF MarkUsed, Step, TypeOK
<1>4. CASE ~Stored(tx[p].token)
    BY <1>4, EndStep DEF MarkUsed
<1>5. QED
    BY <1>3, <1>4

\* issue_tokens draws a token that nobody was ever given.
LEMMA IssueStep ==
    ASSUME IInv, NEW p \in Request, IssueTokens(p)
    PROVE  IInv'
<1>1. TypeOK /\ TxOK(p) /\ tx[p] \in Tx /\ InFlight(p)
    BY DEF IInv, TypeOK, TxOK, IssueTokens, InFlight
<1>2. tx[p].op \in {"login", "refresh"} /\ IssuerOK(p) /\ tx[p].subject \in User
    BY <1>1 DEF TxOK, IssueTokens, IssuerOK, RevokerOK
<1>3. PICK k \in Token : /\ issuedTo[k] = Nobody
                         /\ issuedTo' = [issuedTo EXCEPT ![k] = tx[p].subject]
                         /\ tx' = [tx EXCEPT ![p].new = k]
    BY DEF IssueTokens
<1> DEFINE t == [tx[p] EXCEPT !.new = k]
<1>4. t \in Tx /\ tx' = [tx EXCEPT ![p] = t] /\ Goto(p, "commit")
    BY <1>1, <1>3, TxFacts DEF IssueTokens
<1>5. pc'[p] = "commit" /\ tx'[p] = t /\ Others(p)
    BY <1>1, <1>4 DEF Goto, TypeOK, Others
<1>6. /\ t.op = tx[p].op /\ t.subject = tx[p].subject /\ t.token = tx[p].token
      /\ t.new = k /\ t.victims = tx[p].victims
    BY <1>1 DEF Tx
<1>7. /\ issuedTo' \in [Token -> User \cup {Nobody}] /\ issuedTo'[k] = tx[p].subject
      /\ \A j \in Token : issuedTo[j] # Nobody => issuedTo'[j] = issuedTo[j]
    BY <1>1, <1>2, <1>3 DEF TypeOK
<1>8. ~Stored(k) /\ \A j \in Token : Stored(j) => tokens[j].parent # k
  <2>1. \A j \in Token : Stored(j) => tokens[j].user \in User
      BY <1>1 DEF TypeOK, TokenRow, Stored
  <2>2. QED
      BY <1>3, <2>1, MarkerFacts DEF IInv, TokenOK
<1>9. IssuerOK(p)'
  <2> HIDE DEF t
  <2>1. NewToken(p)'
      BY <1>5, <1>6, <1>7, <1>8 DEF IssueTokens, NewToken, Stored
  <2>2. tx[p].op = "refresh" => issuedTo'[tx[p].token] = tx[p].subject
      BY <1>2, <1>7, MarkerFacts DEF IssuerOK
  <2>3. QED
      BY <1>2, <1>5, <1>6, <2>1, <2>2 DEF IssueTokens, IssuerOK
<1>10. \A j \in Token : LocksToken(p, j)' => LocksToken(p, j)
    BY <1>2, <1>5, <1>6 DEF LocksToken, IssueTokens, IssuerOK
<1>11. TxOK(p)'
    BY <1>1, <1>2, <1>4, <1>5, <1>6, <1>9, <1>10, MarkerFacts
    DEF TxOK, IssueTokens, Stored, InFlight
<1>12. ASSUME NEW q \in Request \ {p}
       PROVE  PairOK(p, q)'
  <2>1. InFlight(q) => tx[q].new # k
      BY <1>3, MarkerFacts DEF IInv, TypeOK, TxOK, IssuerOK, RevokerOK, NewToken, InFlight
  <2>2. QED
      BY <1>5, <1>6, <1>10, <2>1 DEF IInv, PairOK, LocksToken, Others, InFlight
<1>13. QED
    BY <1>1, <1>4, <1>7, <1>11, <1>12, CarryStep DEF IssueTokens, Step

\* A revoking request finds rows first and locks what is left of them.
LEMMA FindVictimsStep ==
    ASSUME IInv, NEW p \in Request, FindVictims(p)
    PROVE  IInv'
<1>1. TypeOK /\ TxOK(p) /\ tx[p] \in Tx /\ InFlight(p)
    BY DEF IInv, TypeOK, TxOK, FindVictims, InFlight
<1>2. tx[p].op \notin {"login", "refresh"} /\ RevokerOK(p)
    BY <1>1 DEF TxOK, FindVictims, IssuerOK
<1> DEFINE ks == TokensOf(About(tx[p].subject))
           t == [tx[p] EXCEPT !.victims = ks]
<1>3. t \in Tx /\ tx' = [tx EXCEPT ![p] = t] /\ Goto(p, "revoking")
    BY <1>1, TxFacts DEF FindVictims, TokensOf
<1>4. pc'[p] = "revoking" /\ tx'[p] = t
    BY <1>1, <1>3 DEF Goto, TypeOK
<1>5. /\ t.op = tx[p].op /\ t.subject = tx[p].subject /\ t.token = tx[p].token
      /\ t.new = tx[p].new
    BY <1>1 DEF Tx
<1>6. \A j \in Token : ~LocksToken(p, j)' /\ tx'[p].new # j
    BY <1>2, <1>4, <1>5, MarkerFacts DEF LocksToken, RevokerOK
<1>7. TxOK(p)' /\ \A q \in Request \ {p} : PairOK(p, q)'
    BY <1>2, <1>3, <1>4, <1>5, <1>6, MarkerFacts DEF TxOK, RevokerOK, PairOK
<1>8. QED
    BY <1>1, <1>3, <1>7, CarryStep DEF FindVictims, Step, TypeOK

LEMMA RevokeTokensStep ==
    ASSUME IInv, NEW p \in Request, RevokeTokens(p)
    PROVE  IInv'
<1>1. TypeOK /\ TxOK(p) /\ tx[p] \in Tx /\ InFlight(p)
    BY DEF IInv, TypeOK, TxOK, RevokeTokens, InFlight
<1>2. tx[p].op \notin {"login", "refresh"} /\ RevokerOK(p)
    BY <1>1 DEF TxOK, RevokeTokens, IssuerOK
<1> DEFINE ks == {k \in tx[p].victims : Stored(k)}
           t == [tx[p] EXCEPT !.victims = ks]
           next == IF tx[p].op = "update_user" THEN "update" ELSE "commit"
<1>3. ks \in SUBSET Token
    BY <1>1 DEF Tx
<1>4. t \in Tx /\ tx' = [tx EXCEPT ![p] = t] /\ Goto(p, next)
    BY <1>1, <1>3, TxFacts DEF RevokeTokens
<1>5. pc'[p] = next /\ tx'[p] = t /\ Others(p)
    BY <1>1, <1>4 DEF Goto, TypeOK, Others
<1>6. /\ t.op = tx[p].op /\ t.subject = tx[p].subject /\ t.token = tx[p].token
      /\ t.new = tx[p].new /\ t.victims = ks
    BY <1>1 DEF Tx
<1>7. \A j \in Token : LocksToken(p, j)' => Stored(j) /\ j \in tx[p].victims
    BY <1>2, <1>5, <1>6, MarkerFacts DEF LocksToken, RevokerOK
<1>8. TxOK(p)'
    BY <1>1, <1>2, <1>4, <1>5, <1>6, <1>7, MarkerFacts
    DEF TxOK, RevokerOK, RevokeTokens, Stored
<1>9. \A q \in Request \ {p} : PairOK(p, q)'
    BY <1>2, <1>5, <1>6, <1>7, MarkerFacts
    DEF PairOK, RevokerOK, RevokeTokens, LocksToken, Others
<1>10. QED
    BY <1>1, <1>4, <1>8, <1>9, CarryStep DEF RevokeTokens, Step, TypeOK

LEMMA UpdateSubjectStep ==
    ASSUME IInv, NEW p \in Request, UpdateSubject(p)
    PROVE  IInv'
<1>1. TypeOK /\ TxOK(p) /\ tx[p] \in Tx /\ InFlight(p)
    BY DEF IInv, TypeOK, TxOK, UpdateSubject, InFlight
<1>2. tx[p].op \notin {"login", "refresh"} /\ RevokerOK(p)
    BY <1>1 DEF TxOK, UpdateSubject, IssuerOK
<1> DEFINE next == IF tx[p].op = "update_user" THEN "commit" ELSE "revoke"
<1>3. tx' = [tx EXCEPT ![p] = tx[p]] /\ Goto(p, next)
    BY <1>1 DEF UpdateSubject, TypeOK
<1>4. pc'[p] = next /\ tx'[p] = tx[p] /\ Others(p)
    BY <1>1, <1>3 DEF Goto, TypeOK, Others
<1>5. \A j \in Token : LocksToken(p, j)' => LocksToken(p, j)
    BY <1>2, <1>4, MarkerFacts DEF LocksToken, RevokerOK, UpdateSubject
<1>6. TxOK(p)'
    BY <1>1, <1>2, <1>4, <1>5, MarkerFacts DEF TxOK, RevokerOK, UpdateSubject, Stored
<1>7. \A q \in Request \ {p} : PairOK(p, q)'
    BY <1>2, <1>4, <1>5, MarkerFacts DEF IInv, PairOK, RevokerOK, LocksToken, Others
<1>8. QED
    BY <1>1, <1>3, <1>6, <1>7, CarryStep DEF UpdateSubject, Step, TypeOK

\* A commit writes rows that its request has locked, and its new one.
Retires(p, k) ==
    /\ LocksToken(p, k)
    /\ \/ tokens'[k] = NoToken
       \/ /\ tokens'[k] \in TokenRow /\ tokens'[k].status # "active"
          /\ tokens'[k].user = tokens[k].user
          /\ tokens'[k].parent = tokens[k].parent
          /\ tokens'[k].password = tokens[k].password
          /\ tokens'[k].raced = tokens[k].raced
          /\ tokens'[k].late = tokens[k].late

Inserts(p, k) ==
    /\ tx[p].op \in {"login", "refresh"} /\ tx[p].new = k
    /\ tokens'[k] = NewRow(p)

Writes(p, k) == tokens'[k] = tokens[k] \/ Retires(p, k) \/ Inserts(p, k)

\* The row of a new token is well typed.
LEMMA NewRowFacts ==
    ASSUME IInv, NEW p \in Request, pc[p] = "commit",
           tx[p].op \in {"login", "refresh"}
    PROVE  /\ tx[p] \in Tx /\ IssuerOK(p) /\ NewToken(p)
           /\ NewRow(p) \in TokenRow
           /\ NewRow(p).user = tx[p].subject
           /\ NewRow(p).parent = tx[p].token
           /\ NewRow(p).status = "active"
           /\ NewRow(p).password = tx[p].password
           /\ NewRow(p).raced = Raced(p) /\ NewRow(p).late = Late(p)
<1>1. tx[p] \in Tx /\ IssuerOK(p)
    BY DEF IInv, TypeOK, TxOK, InFlight
<1>2. tx[p].subject \in User /\ NewToken(p)
    BY <1>1 DEF IssuerOK
<1>3. Raced(p) \in BOOLEAN /\ Late(p) \in BOOLEAN
    BY DEF Raced, Late
<1>4. QED
    BY <1>1, <1>2, <1>3 DEF NewRow, TokenRow, Tx

LEMMA CommitStep ==
    ASSUME IInv, NEW p \in Request, pc[p] = "commit", End(p),
           UNCHANGED <<issuedTo, changes>>,
           users' \in [User -> UserRow], orgs' \subseteq Organisation,
           tokens' \in [Token -> TokenRow \cup {NoToken}],
           \A k \in Token : Writes(p, k),
           tx[p].op = "refresh" => Retires(p, tx[p].token)
    PROVE  IInv'
<1>1. TypeOK /\ TypeOK' /\ tx[p] \in Tx
    BY DEF IInv, TypeOK, End, Step, TxOK
<1>2. pc'[p] = "idle" /\ tx'[p] = NoTx /\ Others(p)
    BY <1>1 DEF End, TypeOK, Others
<1>3. \A k \in Token : LocksToken(p, k) => Stored(k)
    BY DEF IInv, TxOK
<1>4. ASSUME NEW k \in Token, Inserts(p, k)
      PROVE  /\ ~Stored(k) /\ issuedTo[k] = tx[p].subject /\ tx[p].subject \in User
             /\ \A j \in Token : Stored(j) => tokens[j].parent # k
             /\ tokens'[k].user = tx[p].subject /\ tokens'[k].parent = tx[p].token
             /\ tx[p].token # k
             /\ tx[p].token = NoToken \/ issuedTo[tx[p].token] = tx[p].subject
  <2>1. IssuerOK(p) /\ NewToken(p) /\ tokens'[k] = NewRow(p) /\ tx[p].new = k
      BY <1>4, NewRowFacts DEF Inserts
  <2>2. tokens'[k].user = tx[p].subject /\ tokens'[k].parent = tx[p].token
      BY <1>4, <2>1, NewRowFacts DEF Inserts
  <2>3. tx[p].token # k
      BY <1>3, <2>1 DEF LocksToken, NewToken
  <2>4. QED
      BY <2>1, <2>2, <2>3 DEF NewToken, IssuerOK
<1>5. ASSUME NEW k \in Token
      PROVE  TokenOK(k)'
  <2> SUFFICES ASSUME Stored(k)'
               PROVE  /\ issuedTo[k] = tokens'[k].user
                      /\ tokens'[k].parent # NoToken =>
                             /\ issuedTo[tokens'[k].parent] = tokens'[k].user
                             /\ ~Active(tokens[k].parent)'
      BY DEF TokenOK
  <2>1. tokens'[k].parent \in Token \cup {NoToken}
      BY <1>1 DEF TypeOK, Stored, TokenRow
  <2>2. CASE Inserts(p, k)
    <3>1. tokens'[k].parent = tx[p].token /\ (tx[p].op # "refresh" => tx[p].token = NoToken)
        BY <1>4, <2>2, NewRowFacts DEF IssuerOK, Inserts
    <3>2. tokens'[k].parent # NoToken => ~Active(tokens[k].parent)'
        BY <3>1 DEF Retires, Active, Stored
    <3>3. QED
        BY <1>4, <2>2, <3>1, <3>2
  <2>3. CASE ~Inserts(p, k)
    <3>1. /\ Stored(k) /\ tokens'[k].user = tokens[k].user
          /\ tokens'[k].parent = tokens[k].parent
        BY <1>3, <2>3 DEF Writes, Retires, Stored
    <3>2. TokenOK(k)
        BY DEF IInv
    <3>3. ASSUME tokens[k].parent # NoToken
          PROVE  ~Active(tokens[k].parent)'
      <4> DEFINE j == tokens[k].parent
      <4>1. j \in Token /\ ~Active(j) /\ ~Inserts(p, j)
          BY <1>4, <2>1, <3>1, <3>2, <3>3 DEF TokenOK
      <4>2. tokens'[j] = NoToken \/ tokens'[j].status # "active"
          BY <4>1 DEF Writes, Retires, Active, Stored
      <4>3. QED
          BY <3>1, <4>2 DEF Active, Stored
    <3>4. QED
        BY <3>1, <3>2, <3>3 DEF TokenOK
  <2>4. QED
      BY <2>2, <2>3
<1>6. ASSUME NEW q \in Request \ {p}
      PROVE  TxOK(q)'
  <2>1. TxOK(q) /\ PairOK(p, q) /\ pc'[q] = pc[q] /\ tx'[q] = tx[q]
      BY <1>2 DEF IInv, Others
  <2>2. \A k \in Token : LocksToken(q, k) => tokens'[k] = tokens[k] /\ Stored(k)
      BY <1>4, <2>1 DEF Writes, Retires, PairOK, TxOK
  <2>3. NewToken(q) /\ InFlight(q) => NewToken(q)'
    <3> SUFFICES ASSUME NewToken(q), InFlight(q)
                 PROVE  NewToken(q)'
        OBVIOUS
    <3>1. tokens'[tx[q].new] = tokens[tx[q].new]
        BY <1>3, <2>1 DEF NewToken, Writes, Retires, Inserts, PairOK, InFlight
    <3>2. ASSUME NEW k \in Token, Stored(k)'
          PROVE  tokens'[k].parent # tx[q].new
      <4>1. CASE Inserts(p, k)
        <5>1. tokens'[k].parent = tx[p].token
            BY <1>4, <4>1
        <5>2. tx[p].token \in Token => Stored(tx[p].token)
            BY <1>3 DEF LocksToken
        <5>3. QED
            BY <5>1, <5>2 DEF NewToken
      <4>2. CASE ~Inserts(p, k)
          BY <1>3, <3>2, <4>2 DEF Writes, Retires, Stored, NewToken
      <4>3. QED
          BY <4>1, <4>2
    <3>3. QED
        BY <2>1, <3>1, <3>2 DEF NewToken, Stored
  <2>4. IssuerOK(q) => IssuerOK(q)'
      BY <2>1, <2>3 DEF IssuerOK, InFlight
  <2>5. RevokerOK(q) => RevokerOK(q)'
      BY <2>1 DEF RevokerOK
  <2>6. QED
      BY <2>1, <2>2, <2>4, <2>5 DEF TxOK, InFlight, LocksToken, Stored
<1>7. TxOK(p)'
    BY <1>2 DEF TxOK, InFlight, LocksToken
<1>8. ASSUME NEW q \in Request, NEW z \in Request \ {q}
      PROVE  PairOK(q, z)'
    BY <1>2 DEF IInv, Others, PairOK, LocksToken, InFlight
<1>9. QED
    BY <1>1, <1>5, <1>6, <1>7, <1>8 DEF IInv

\* What each commit writes to refresh_tokens.
LEMMA CommitWrites ==
    ASSUME IInv, NEW p \in Request,
           \/ CommitLogin(p) \/ CommitRefresh(p) \/ CommitPassword(p)
           \/ CommitDeleteUser(p) \/ CommitDeleteOrganisation(p)
    PROVE  /\ tokens' \in [Token -> TokenRow \cup {NoToken}]
           /\ \A k \in Token : Writes(p, k)
           /\ tx[p].op = "refresh" => Retires(p, tx[p].token)
<1>1. TypeOK /\ TxOK(p) /\ tx[p] \in Tx /\ pc[p] = "commit" /\ InFlight(p)
    BY DEF IInv, TypeOK, TxOK, InFlight, CommitLogin, CommitRefresh,
       CommitPassword, CommitDeleteUser, CommitDeleteOrganisation
<1>2. ASSUME NEW k \in Token, Stored(k)
      PROVE  /\ Spent(k) \in TokenRow /\ Spent(k).status = "used"
             /\ Spent(k).user = tokens[k].user /\ Spent(k).parent = tokens[k].parent
             /\ Spent(k).password = tokens[k].password
             /\ Spent(k).raced = tokens[k].raced /\ Spent(k).late = tokens[k].late
  <2>1. tokens[k] \in TokenRow
      BY <1>1, <1>2 DEF TypeOK, Stored
  <2>2. QED
      BY <2>1 DEF Spent, TokenRow
<1>3. CASE CommitLogin(p)
  <2>1. NewRow(p) \in TokenRow
      BY <1>1, <1>3, NewRowFacts DEF CommitLogin
  <2>2. QED
      BY <1>1, <1>3, <2>1 DEF CommitLogin, TypeOK, Writes, Inserts
<1>4. CASE CommitRefresh(p)
  <2> DEFINE j == tx[p].token
             n == tx[p].new
  <2>1. NewRow(p) \in TokenRow /\ IssuerOK(p) /\ NewToken(p)
      BY <1>1, <1>4, NewRowFacts DEF CommitRefresh
  <2>2. j \in Token /\ LocksToken(p, j)
      BY <1>1, <1>4, <2>1 DEF CommitRefresh, IssuerOK, LocksToken
  <2>3. Stored(j) /\ j # n /\ n \in Token
      BY <1>1, <2>1, <2>2 DEF TxOK, NewToken
  <2>4. tokens'[j] = Spent(j) /\ tokens'[n] = NewRow(p)
      BY <1>1, <1>4, <2>2, <2>3 DEF CommitRefresh, TypeOK
  <2>5. \A k \in Token \ {j, n} : tokens'[k] = tokens[k]
      BY <1>1, <1>4 DEF CommitRefresh, TypeOK
  <2>6. Retires(p, j)
      BY <1>2, <2>2, <2>3, <2>4 DEF Retires
  <2>7. tokens' \in [Token -> TokenRow \cup {NoToken}]
      BY <1>1, <1>2, <1>4, <2>1, <2>2, <2>3 DEF CommitRefresh, TypeOK
  <2>8. QED
      BY <1>4, <2>4, <2>5, <2>6, <2>7 DEF Writes, Inserts, CommitRefresh
<1>5. CASE CommitPassword(p) \/ CommitDeleteUser(p)
  <2>1. tokens' = Without(tx[p].victims) /\ tx[p].op # "refresh"
      BY <1>5 DEF CommitPassword, CommitDeleteUser
  <2>2. \A k \in Token : k \in tx[p].victims => LocksToken(p, k)
      BY <1>1 DEF LocksToken
  <2>3. QED
      BY <1>1, <2>1, <2>2 DEF Without, TypeOK, Writes, Retires
<1>6. CASE CommitDeleteOrganisation(p)
  <2>1. tokens' = Spending(tx[p].victims) /\ tx[p].op # "refresh"
      BY <1>6 DEF CommitDeleteOrganisation
  <2>2. \A k \in Token : k \in tx[p].victims => LocksToken(p, k) /\ Stored(k)
      BY <1>1 DEF LocksToken, TxOK
  <2>3. ASSUME NEW k \in Token
        PROVE  Writes(p, k) /\ tokens'[k] \in TokenRow \cup {NoToken}
    <3>1. CASE k \in tx[p].victims
        BY <1>2, <2>1, <2>2, <3>1 DEF Spending, Writes, Retires
    <3>2. CASE k \notin tx[p].victims
        BY <1>1, <2>1, <3>2 DEF Spending, Writes, TypeOK
    <3>3. QED
        BY <3>1, <3>2
  <2>4. tokens' \in [Token -> TokenRow \cup {NoToken}]
      BY <2>1, <2>3 DEF Spending
  <2>5. QED
      BY <2>1, <2>3, <2>4
<1>7. QED
    BY <1>3, <1>4, <1>5, <1>6

\* So every commit keeps the invariant.
LEMMA AnyCommitStep ==
    ASSUME IInv, NEW p \in Request,
           \/ CommitLogin(p) \/ CommitRefresh(p) \/ CommitPassword(p)
           \/ CommitDeleteUser(p) \/ CommitDeleteOrganisation(p)
    PROVE  IInv'
<1>1. TypeOK /\ TxOK(p) /\ tx[p] \in Tx /\ pc[p] = "commit" /\ InFlight(p)
    BY DEF IInv, TypeOK, TxOK, InFlight, CommitLogin, CommitRefresh,
       CommitPassword, CommitDeleteUser, CommitDeleteOrganisation
<1>2. users' \in [User -> UserRow]
  <2>1. CASE CommitPassword(p) \/ CommitDeleteUser(p)
    <3>1. tx[p].subject \in User /\ tx[p].password \in Password
        BY <1>1, <2>1 DEF TxOK, RevokerOK, Tx, CommitPassword, CommitDeleteUser
    <3>2. users[tx[p].subject] \in UserRow
        BY <1>1, <3>1 DEF TypeOK
    <3>3. /\ [users[tx[p].subject] EXCEPT !.password = tx[p].password] \in UserRow
          /\ [users[tx[p].subject] EXCEPT !.deleted = TRUE] \in UserRow
        BY <3>1, <3>2 DEF UserRow
    <3>4. QED
        BY <1>1, <2>1, <3>1, <3>3 DEF TypeOK, CommitPassword, CommitDeleteUser
  <2>2. CASE ~(CommitPassword(p) \/ CommitDeleteUser(p))
      BY <1>1, <2>2 DEF TypeOK, CommitLogin, CommitRefresh, CommitDeleteOrganisation
  <2>3. QED
      BY <2>1, <2>2
<1>3. orgs' \subseteq Organisation
  <2>1. CASE CommitDeleteOrganisation(p)
      BY <1>1, <2>1 DEF TypeOK, TxOK, RevokerOK, CommitDeleteOrganisation
  <2>2. CASE ~CommitDeleteOrganisation(p)
      BY <1>1, <2>2 DEF TypeOK, CommitLogin, CommitRefresh, CommitPassword,
         CommitDeleteUser
  <2>3. QED
      BY <2>1, <2>2
<1>4. End(p) /\ UNCHANGED <<issuedTo, changes>>
    BY DEF CommitLogin, CommitRefresh, CommitPassword, CommitDeleteUser,
       CommitDeleteOrganisation
<1>5. QED
    BY <1>1, <1>2, <1>3, <1>4, CommitWrites, CommitStep

\* So does the passing of expires_at.
LEMMA ExpireStep ==
    ASSUME IInv, NEW k \in Token, Expire(k)
    PROVE  IInv'
<1>1. TypeOK /\ Stored(k) /\ tokens[k] \in TokenRow
    BY DEF IInv, TypeOK, Expire, Active, Stored
<1>2. /\ tokens'[k] \in TokenRow /\ tokens'[k].status = "expired"
      /\ tokens'[k].user = tokens[k].user /\ tokens'[k].parent = tokens[k].parent
      /\ \A j \in Token \ {k} : tokens'[j] = tokens[j]
      /\ tokens' \in [Token -> TokenRow \cup {NoToken}]
    BY <1>1 DEF Expire, TypeOK, TokenRow
<1>3. /\ \A j \in Token : Stored(j)' <=> Stored(j)
      /\ \A j \in Token : Active(j)' => Active(j)
    BY <1>1, <1>2, MarkerFacts DEF Stored, Active
<1>4. TypeOK'
    BY <1>1, <1>2 DEF TypeOK, Expire
<1>5. ASSUME NEW j \in Token
      PROVE  TokenOK(j)'
  <2>1. CASE Stored(j)
    <3>1. /\ tokens'[j].user = tokens[j].user /\ tokens'[j].parent = tokens[j].parent
          /\ tokens[j].parent \in Token \cup {NoToken} /\ TokenOK(j)
        BY <1>1, <1>2, <2>1 DEF IInv, TypeOK, Stored, TokenRow
    <3>2. QED
        BY <1>3, <2>1, <3>1 DEF TokenOK, Expire
  <2>2. CASE ~Stored(j)
      BY <1>3, <2>2 DEF TokenOK
  <2>3. QED
      BY <2>1, <2>2
<1>6. ASSUME NEW q \in Request
      PROVE  TxOK(q)'
  <2>1. TxOK(q)
      BY DEF IInv
  <2>2. NewToken(q) => NewToken(q)'
      BY <1>2, <1>3 DEF NewToken, Expire
  <2>3. QED
      BY <1>3, <2>1, <2>2 DEF TxOK, IssuerOK, RevokerOK, LocksToken, InFlight, Expire
<1>7. ASSUME NEW q \in Request, NEW z \in Request \ {q}
      PROVE  PairOK(q, z)'
    BY DEF IInv, PairOK, LocksToken, InFlight, Expire
<1>8. QED
    BY <1>4, <1>5, <1>6, <1>7 DEF IInv

LEMMA InitStep == Init => IInv
<1> SUFFICES ASSUME Init
             PROVE  IInv
    OBVIOUS
<1>1. TypeOK
    BY SessionsAssumption DEF Init, TypeOK, UserRow, Password, Step
<1>2. \A p \in Request : TxOK(p) /\ \A q \in Request : PairOK(p, q)
    BY DEF Init, TxOK, PairOK, LocksToken, InFlight
<1>3. \A k \in Token : TokenOK(k)
    BY DEF Init, TokenOK, Stored
<1>4. QED
    BY <1>1, <1>2, <1>3 DEF IInv

LEMMA StutterStep == IInv /\ UNCHANGED vars => IInv'
BY DEF vars, IInv, TypeOK, TokenOK, TxOK, IssuerOK, RevokerOK, NewToken,
   PairOK, LocksToken, InFlight, Stored, Active

LEMMA StartStep ==
    ASSUME IInv, NEW p \in Request, Start(p)
    PROVE  IInv'
<1>1. TypeOK /\ 0 \in Password /\ \A u \in User : u \in User \cup Organisation
    BY SessionsAssumption DEF IInv, Password, TypeOK
<1>3. ASSUME NEW u \in User, NEW pw \in Password, Login(p, u, pw)
      PROVE  IInv'
    BY <1>1, <1>3, BeginStep DEF Login, TypeOK
<1>4. ASSUME NEW k \in Token, Refresh(p, k)
      PROVE  IInv'
    BY <1>1, <1>4, BeginStep DEF Refresh, TypeOK
<1>5. ASSUME NEW u \in User, ChangePassword(p, u)
      PROVE  IInv'
  <2>1. changes + 1 \in 0..MaxChanges /\ changes + 1 \in Password
      BY <1>1, <1>5, SessionsAssumption DEF ChangePassword, TypeOK, Password
  <2>2. QED
      BY <1>5, <2>1, BeginStep DEF ChangePassword
<1>6. ASSUME NEW u \in User, DeleteUser(p, u)
      PROVE  IInv'
    BY <1>1, <1>6, BeginStep DEF DeleteUser, TypeOK
<1>7. ASSUME NEW o \in Organisation, DeleteOrganisation(p, o)
      PROVE  IInv'
    BY <1>1, <1>7, BeginStep DEF DeleteOrganisation, TypeOK
<1>8. CASE Refuse(p)
    BY <1>8, StutterStep DEF Refuse
<1>9. QED
    BY <1>3, <1>4, <1>5, <1>6, <1>7, <1>8 DEF Start

\* Every step keeps the invariant.
LEMMA NextStep == IInv /\ [Next]_vars => IInv'
<1> SUFFICES ASSUME IInv, [Next]_vars
             PROVE  IInv'
    OBVIOUS
<1>1. CASE UNCHANGED vars
    BY <1>1, StutterStep
<1>2. ASSUME NEW p \in Request, Start(p) \/ Proceed(p) \/ Abort(p)
      PROVE  IInv'
  <2>1. CASE Start(p)
      BY <2>1, StartStep
  <2>2. CASE Scan(p) \/ MarkUsed(p) \/ IssueTokens(p)
      BY <2>2, ScanStep, MarkUsedStep, IssueStep
  <2>3. CASE FindVictims(p) \/ RevokeTokens(p) \/ UpdateSubject(p)
      BY <2>3, FindVictimsStep, RevokeTokensStep, UpdateSubjectStep
  <2>4. CASE \/ CommitLogin(p) \/ CommitRefresh(p) \/ CommitPassword(p)
             \/ CommitDeleteUser(p) \/ CommitDeleteOrganisation(p)
      BY <2>4, AnyCommitStep
  <2>5. CASE Abort(p)
      BY <2>5, EndStep DEF Abort
  <2>6. QED
      BY <1>2, <2>1, <2>2, <2>3, <2>4, <2>5 DEF Proceed
<1>3. ASSUME NEW k \in Token, Expire(k)
      PROVE  IInv'
    BY <1>3, ExpireStep
<1>4. QED
    BY <1>1, <1>2, <1>3 DEF Next

LEMMA Invariance == Spec => []IInv
BY InitStep, NextStep, PTL DEF Spec

\* Every reachable state is well typed.
THEOREM TypeCorrect == Spec => []TypeOK
<1>1. IInv => TypeOK
    BY DEF IInv
<1>2. QED
    BY Invariance, <1>1, PTL

\* refresh spends the token it was given, under any interleaving: while a
\* token's successor is committed the token cannot be presented again
\* (mark_used and the INSERT of issue_tokens are one transaction, and no
\* other request can make the old row active again).
THEOREM RotationsSpend == Spec => []RotationSpends
<1>1. IInv => RotationSpends
    BY DEF IInv, TokenOK, RotationSpends
<1>2. QED
    BY Invariance, <1>1, PTL
-----------------------------------------------------------------------------
(***************************************************************************)
(* What a step may do to the committed rows.                               *)
(***************************************************************************)
Action(p) == Start(p) \/ Proceed(p) \/ Abort(p)

Ends(p) == Others(p) /\ InFlight(p) /\ pc'[p] = "idle" /\ tx'[p] = NoTx

\* Only a commit writes rows, and only those of update_user and delete_user
\* write an account's.
LEMMA ActionEffect ==
    ASSUME IInv, NEW p \in Request, Action(p)
    PROVE  \/ UNCHANGED <<users, orgs, tokens>>
           \/ /\ pc[p] = "commit" /\ Ends(p)
              /\ \A k \in Token : Writes(p, k)
              /\ \A u \in User : users'[u] = users[u]
                    \/ /\ CommitPassword(p) \/ CommitDeleteUser(p)
                       /\ tx[p].subject = u
              /\ orgs' = orgs \/ CommitDeleteOrganisation(p)
<1>1. TypeOK
    BY DEF IInv
<1>2. CASE \/ CommitLogin(p) \/ CommitRefresh(p) \/ CommitPassword(p)
           \/ CommitDeleteUser(p) \/ CommitDeleteOrganisation(p)
  <2>1. pc[p] = "commit" /\ End(p)
      BY <1>2 DEF CommitLogin, CommitRefresh, CommitPassword, CommitDeleteUser,
         CommitDeleteOrganisation
  <2>2. Ends(p)
      BY <1>1, <2>1 DEF Ends, End, Others, InFlight, TypeOK
  <2>3. \A k \in Token : Writes(p, k)
      BY <1>2, CommitWrites
  <2>4. ASSUME NEW u \in User,
               ~((CommitPassword(p) \/ CommitDeleteUser(p)) /\ tx[p].subject = u)
        PROVE  users'[u] = users[u]
      BY <1>1, <1>2, <2>4 DEF TypeOK, CommitLogin, CommitRefresh, CommitPassword,
         CommitDeleteUser, CommitDeleteOrganisation
  <2>5. orgs' = orgs \/ CommitDeleteOrganisation(p)
      BY <1>2 DEF CommitLogin, CommitRefresh, CommitPassword, CommitDeleteUser
  <2>6. QED
      BY <2>1, <2>2, <2>3, <2>4, <2>5
<1>3. CASE UNCHANGED <<users, orgs, tokens>>
    BY <1>3
<1>4. QED
    BY <1>2, <1>3 DEF Action, Start, Login, Refresh, ChangePassword, DeleteUser,
       DeleteOrganisation, Refuse, Begin, Proceed, Scan, MarkUsed, IssueTokens,
       FindVictims, RevokeTokens, UpdateSubject, Abort, vars

\* Dead tokens stay dead: a used, expired or revoked token never becomes
\* active again, whatever a refresh that read it earlier commits; mark_used
\* itself does not ask whether used_at is still NULL.
THEOREM DeadForGood == Spec => DeadStaysDead
<1>1. IInv /\ [Next]_vars =>
          [\A k \in Token :
              /\ Stored(k) /\ ~Active(k) => ~Active(k)'
              /\ ~Stored(k) /\ Active(k)' =>
                     \E p \in Request : pc[p] = "commit" /\ tx[p].new = k]_vars
  <2> SUFFICES ASSUME IInv, Next, NEW k \in Token
               PROVE  /\ Stored(k) /\ ~Active(k) => ~Active(k)'
                      /\ ~Stored(k) /\ Active(k)' =>
                             \E p \in Request : pc[p] = "commit" /\ tx[p].new = k
      OBVIOUS
  <2>1. CASE tokens'[k] = tokens[k]
      BY <2>1 DEF Active, Stored
  <2>2. ASSUME NEW p \in Request, Action(p), tokens'[k] # tokens[k]
        PROVE  /\ Stored(k) /\ ~Active(k) => ~Active(k)'
               /\ ~Stored(k) /\ Active(k)' => pc[p] = "commit" /\ tx[p].new = k
    <3>1. pc[p] = "commit" /\ (Retires(p, k) \/ Inserts(p, k))
        BY <2>2, ActionEffect DEF Writes
    <3>2. CASE Retires(p, k)
        BY <3>2 DEF Retires, Active, Stored, IInv, TxOK
    <3>3. CASE Inserts(p, k)
        BY <3>1, <3>3, NewRowFacts DEF Inserts, NewToken
    <3>4. QED
        BY <3>1, <3>2, <3>3
  <2>3. ASSUME NEW j \in Token, Expire(j), tokens'[k] # tokens[k]
        PROVE  Stored(k) /\ ~Active(k)'
    <3>1. tokens[j] \in TokenRow /\ Stored(j)
        BY <2>3 DEF IInv, TypeOK, Expire, Active, Stored
    <3>2. k = j /\ tokens'[k].status = "expired"
        BY <2>3, <3>1 DEF IInv, TypeOK, Expire, TokenRow
    <3>3. QED
        BY <3>1, <3>2 DEF Active
  <2>4. QED
      BY <2>1, <2>2, <2>3 DEF Next, Action
<1>2. QED
    BY Invariance, <1>1, PTL DEF Spec, DeadStaysDead
-----------------------------------------------------------------------------
(***************************************************************************)
(* What escapes a revocation, and what is rotated twice.                   *)
(***************************************************************************)

\* A step of request p, seen from the other requests.
Advances(p) ==
    /\ Others(p) /\ InFlight(p) /\ InFlight(p)'
    /\ tx'[p].subject = tx[p].subject /\ tx'[p].op = tx[p].op
    /\ tx'[p].token = tx[p].token
    /\ tx'[p].new = tx[p].new \/ issuedTo[tx'[p].new] = Nobody
    /\ UNCHANGED <<users, orgs, tokens>>

Arrives(p) ==
    /\ Others(p) /\ ~InFlight(p) /\ UNCHANGED <<users, orgs, tokens>>
    /\ tx'[p].new = NoToken
    /\ \/ tx'[p].op = "login"
       \/ tx'[p].op = "refresh" /\ pc'[p] = "scan"
       \/ tx'[p].op = "update_user" /\ pc'[p] = "revoke"
       \/ tx'[p].op \in {"delete_user", "delete_org"} /\ pc'[p] = "update"

LEMMA BeginShape ==
    ASSUME IInv, NEW p \in Request, NEW first, NEW op, NEW s, NEW k, NEW pw,
           Begin(p, first, op, s, k, pw)
    PROVE  /\ Others(p) /\ ~InFlight(p) /\ UNCHANGED <<users, orgs, tokens>>
           /\ pc'[p] = first /\ tx'[p].op = op /\ tx'[p].new = NoToken
BY DEF IInv, TypeOK, Begin, Goto, Others, InFlight

LEMMA ActionShape ==
    ASSUME IInv, NEW p \in Request, Action(p)
    PROVE  UNCHANGED vars \/ Ends(p) \/ Advances(p) \/ Arrives(p)
<1>1. TypeOK /\ (InFlight(p) => tx[p] \in Tx)
    BY DEF IInv, TypeOK, TxOK, InFlight
<1>2. CASE Start(p)
  <2>1. ASSUME NEW u \in User, NEW pw \in Password, Login(p, u, pw)
        PROVE  Arrives(p)
      BY <2>1, BeginShape DEF Login, Arrives
  <2>2. ASSUME NEW k \in Token, Refresh(p, k)
        PROVE  Arrives(p)
      BY <2>2, BeginShape DEF Refresh, Arrives
  <2>3. ASSUME NEW u \in User, ChangePassword(p, u) \/ DeleteUser(p, u)
        PROVE  Arrives(p)
      BY <2>3, BeginShape DEF ChangePassword, DeleteUser, Arrives
  <2>4. ASSUME NEW o \in Organisation, DeleteOrganisation(p, o)
        PROVE  Arrives(p)
      BY <2>4, BeginShape DEF DeleteOrganisation, Arrives
  <2>5. QED
      BY <1>2, <2>1, <2>2, <2>3, <2>4 DEF Start, Refuse
<1>3. ASSUME End(p), InFlight(p)
      PROVE  Ends(p)
    BY <1>1, <1>3 DEF Ends, End, Others, TypeOK
<1>4. CASE \/ CommitLogin(p) \/ CommitRefresh(p) \/ CommitPassword(p)
           \/ CommitDeleteUser(p) \/ CommitDeleteOrganisation(p) \/ Abort(p)
    BY <1>3, <1>4 DEF CommitLogin, CommitRefresh, CommitPassword,
       CommitDeleteUser, CommitDeleteOrganisation, Abort, InFlight
<1>5. CASE Scan(p) \/ MarkUsed(p)
  <2>1. CASE End(p)
      BY <1>3, <1>5, <2>1 DEF Scan, MarkUsed, InFlight
  <2>2. CASE ~End(p)
      BY <1>1, <1>5, <2>2 DEF Scan, MarkUsed, Goto, Advances, Others, InFlight,
         TypeOK, Tx
  <2>3. QED
      BY <2>1, <2>2
<1>6. CASE IssueTokens(p) \/ FindVictims(p) \/ RevokeTokens(p) \/ UpdateSubject(p)
    BY <1>1, <1>6 DEF IssueTokens, FindVictims, RevokeTokens, UpdateSubject,
       Goto, Advances, Others, InFlight, TypeOK, Tx
<1>7. QED
    BY <1>2, <1>4, <1>5, <1>6 DEF Action, Proceed

\* Between its statements a revoking request knows what it has found.
LEMMA FoundStep ==
    ASSUME IInv, RaceInv, NEW p \in Request, Action(p),
           UNCHANGED <<users, tokens>>
    PROVE  FoundOK(p)'
<1>1. TypeOK /\ TxOK(p) /\ FoundOK(p)
    BY DEF IInv, RaceInv
<1>2. \A s : About(s)' = About(s)
    BY DEF About, Members
<1>3. CASE UNCHANGED vars
    BY <1>1, <1>3 DEF vars, FoundOK, HasFound, InFlight, Stored, About, Members
<1>4. CASE Ends(p) \/ Arrives(p)
    BY <1>4 DEF Ends, Arrives, FoundOK, HasFound, InFlight
<1>5. CASE Advances(p) /\ tx[p].op \in {"login", "refresh"}
    BY <1>5 DEF Advances, FoundOK, HasFound
<1>6. CASE Advances(p) /\ tx[p].op \notin {"login", "refresh"}
  <2>1. /\ tx[p] \in Tx /\ InFlight(p) /\ tx'[p].subject = tx[p].subject
        /\ tx'[p].op = tx[p].op /\ InFlight(p)' /\ RevokerOK(p)
      BY <1>1, <1>6 DEF Advances, TxOK, TypeOK, InFlight
  <2>2. CASE FindVictims(p)
    <3>1. tx'[p].victims = TokensOf(About(tx[p].subject))
        BY <1>1, <2>1, <2>2 DEF FindVictims, TypeOK, Tx
    <3>2. QED
        BY <1>2, <2>1, <3>1 DEF FoundOK, TokensOf, Stored
  <2>3. CASE RevokeTokens(p)
    <3>1. tx'[p].victims = {k \in tx[p].victims : Stored(k)} /\ HasFound(p)
        BY <1>1, <1>6, <2>1, <2>3 DEF RevokeTokens, TypeOK, Tx, HasFound
    <3>2. QED
        BY <1>1, <1>2, <2>1, <3>1 DEF FoundOK, Stored
  <2>4. CASE UpdateSubject(p)
    <3>1. tx' = tx /\ (HasFound(p)' => HasFound(p))
        BY <1>1, <1>6, <2>1, <2>4 DEF UpdateSubject, Goto, TypeOK, HasFound
    <3>2. QED
        BY <1>1, <1>2, <3>1 DEF FoundOK, Stored
  <2>5. QED
    <3>1. ~\/ CommitLogin(p) \/ CommitRefresh(p) \/ CommitPassword(p)
           \/ CommitDeleteUser(p) \/ CommitDeleteOrganisation(p) \/ Abort(p)
        BY <1>1, <2>1 DEF InFlight, CommitLogin, CommitRefresh,
           CommitPassword, CommitDeleteUser, CommitDeleteOrganisation, Abort,
           End, TypeOK
    <3>2. ~Start(p)
      <4>1. Refuse(p) => pc[p] = "idle"
          BY DEF Refuse
      <4>2. QED
          BY <2>1, <4>1 DEF InFlight, Start, Login, Refresh, ChangePassword,
             DeleteUser, DeleteOrganisation, Begin
    <3>3. ~(Scan(p) \/ MarkUsed(p) \/ IssueTokens(p))
        BY <2>1 DEF RevokerOK, Scan, MarkUsed, IssueTokens
    <3>4. QED
        BY <2>2, <2>3, <2>4, <3>1, <3>2, <3>3 DEF Action, Proceed
<1>7. QED
    BY <1>3, <1>4, <1>5, <1>6, ActionShape

\* A refresh reads its token's row while nobody has rotated it yet, and keeps
\* what it read.
LEMMA ReadStep ==
    ASSUME IInv, RaceInv, NEW p \in Request, Action(p), ~UNCHANGED vars,
           UNCHANGED <<users, tokens>>, NEW q \in Request
    PROVE  ReadOK(q)'
<1>1. TypeOK /\ TxOK(p) /\ TxOK(q) /\ ReadOK(q)
    BY DEF IInv, RaceInv
<1>2. Ends(p) \/ Advances(p) \/ Arrives(p)
    BY ActionShape
<1> SUFFICES ASSUME InFlight(q)', tx'[q].op = "refresh", pc'[q] # "scan"
             PROVE  /\ Stored(tx'[q].token) =>
                           tokens[tx'[q].token].password = tx'[q].password
                    /\ \A k \in Token : Stored(k) /\ tokens[k].parent = tx'[q].token
                           => tokens[k].raced
                    /\ \A r \in Request : InFlight(r)' => tx'[r].new # tx'[q].token
    BY DEF ReadOK, Stored
<1>3. /\ InFlight(q) /\ tx[q].op = "refresh" /\ tx'[q].token = tx[q].token
      /\ tx[q] \in Tx /\ IssuerOK(q)
      /\ tx[q].token \in Token /\ issuedTo[tx[q].token] \in User
    BY <1>1, <1>2 DEF Ends, Advances, Arrives, Others, InFlight, TxOK, IssuerOK, TypeOK
<1>4. ASSUME \A r \in Request : InFlight(r) => tx[r].new # tx[q].token,
             NEW r \in Request, InFlight(r)'
      PROVE  tx'[r].new # tx[q].token
    BY <1>2, <1>3, <1>4, MarkerFacts
    DEF Ends, Advances, Arrives, Others, InFlight
<1>5. CASE Scan(q) /\ q = p
  <2>1. /\ Active(tx[q].token) /\ tx'[q].password = tokens[tx[q].token].password
      BY <1>1, <1>3, <1>5 DEF Scan, End, Goto, InFlight, TypeOK, Tx
  <2>2. \A k \in Token : Stored(k) => tokens[k].parent # tx[q].token
      BY <1>3, <2>1, MarkerFacts DEF IInv, TokenOK
  <2>3. \A r \in Request : InFlight(r) => tx[r].new # tx[q].token
      BY <1>3, <2>1, MarkerFacts
      DEF IInv, TxOK, IssuerOK, RevokerOK, NewToken, Active
  <2>4. QED
      BY <1>3, <1>4, <2>1, <2>2, <2>3
<1>6. CASE ~(Scan(q) /\ q = p)
  <2>1. pc[q] # "scan" /\ tx'[q].password = tx[q].password
    <3>1. CASE q # p
        BY <1>2, <3>1 DEF Ends, Advances, Arrives, Others
    <3>2. CASE q = p
      <4>1. pc[p] # "idle" /\ pc'[p] # "idle" /\ IssuerOK(p) /\ tx[p].op = "refresh"
          BY <1>3, <3>2 DEF InFlight
      <4>2. ~Start(p)
        <5>1. Refuse(p) => pc[p] = "idle"
            BY DEF Refuse
        <5>2. QED
            BY <4>1, <5>1 DEF Start, Login, Refresh, ChangePassword,
               DeleteUser, DeleteOrganisation, Begin
      <4>3. ~\/ CommitLogin(p) \/ CommitRefresh(p) \/ CommitPassword(p)
             \/ CommitDeleteUser(p) \/ CommitDeleteOrganisation(p) \/ Abort(p)
          BY <1>1, <4>1 DEF CommitLogin, CommitRefresh,
             CommitPassword, CommitDeleteUser, CommitDeleteOrganisation, Abort,
             End, TypeOK
      <4>4. ~(FindVictims(p) \/ RevokeTokens(p) \/ UpdateSubject(p))
          BY <4>1 DEF IssuerOK, FindVictims, RevokeTokens, UpdateSubject
      <4>5. MarkUsed(p) \/ IssueTokens(p)
          BY <1>6, <3>2, <4>2, <4>3, <4>4 DEF Action, Proceed
      <4>6. QED
          BY <1>1, <1>3, <3>2, <4>1, <4>5
          DEF MarkUsed, IssueTokens, End, Goto, TypeOK, Tx
    <3>3. QED
        BY <3>1, <3>2
  <2>2. QED
      BY <1>1, <1>3, <1>4, <2>1 DEF ReadOK
<1>7. QED
    BY <1>5, <1>6

\* A step that writes no committed row keeps what the others have read.
LEMMA QuietStep ==
    ASSUME IInv, RaceInv, NEW p \in Request, Action(p), ~UNCHANGED vars,
           UNCHANGED <<users, tokens>>
    PROVE  RaceInv'
<1>1. \A k \in Token : RowOK(k)'
    BY DEF RaceInv, RowOK, Stored
<1>2. ASSUME NEW q \in Request \ {p}
      PROVE  FoundOK(q)'
  <2>1. pc'[q] = pc[q] /\ tx'[q] = tx[q] /\ FoundOK(q)
      BY ActionShape DEF RaceInv, Ends, Advances, Arrives, Others
  <2>2. QED
      BY <2>1 DEF FoundOK, HasFound, InFlight, Stored, About, Members
<1>3. \A q \in Request : FoundOK(q)' /\ ReadOK(q)'
    BY <1>2, FoundStep, ReadStep
<1>4. SingleUseInTurn'
    BY DEF RaceInv, SingleUseInTurn, Stored
<1>5. QED
    BY <1>1, <1>3, <1>4 DEF RaceInv

\* A commit, and what it inserts.
Commits(p) ==
    /\ pc[p] = "commit" /\ Ends(p) /\ \A k \in Token : Writes(p, k)
    /\ \A u \in User : \/ users'[u] = users[u]
                       \/ /\ CommitPassword(p) \/ CommitDeleteUser(p)
                          /\ tx[p].subject = u

LEMMA InsertFacts ==
    ASSUME IInv, RaceInv, NEW p \in Request, Commits(p), NEW k \in Token,
           Inserts(p, k)
    PROVE  /\ ~Stored(k) /\ IssuerOK(p) /\ tx[p].new = k /\ InFlight(p)
           /\ tokens'[k].user = tx[p].subject /\ tokens'[k].parent = tx[p].token
           /\ tokens'[k].password = tx[p].password
           /\ tokens'[k].raced = Raced(p) /\ tokens'[k].late = Late(p)
BY NewRowFacts DEF Commits, Inserts, NewToken, InFlight

\* A row that the commit did not insert was there before and is the same but
\* for its status.
LEMMA KeptFacts ==
    ASSUME IInv, NEW p \in Request, Commits(p), NEW k \in Token,
           Stored(k)', ~Inserts(p, k)
    PROVE  /\ Stored(k) /\ tokens'[k].user = tokens[k].user
           /\ tokens'[k].parent = tokens[k].parent
           /\ tokens'[k].password = tokens[k].password
           /\ tokens'[k].raced = tokens[k].raced
           /\ tokens'[k].late = tokens[k].late
BY DEF Commits, Writes, Retires, Stored, IInv, TxOK

LEMMA CommitRows ==
    ASSUME IInv, RaceInv, NEW p \in Request, Commits(p), NEW k \in Token
    PROVE  RowOK(k)'
<1> SUFFICES ASSUME Stored(k)', ~tokens'[k].late
             PROVE  /\ ~users'[tokens'[k].user].deleted
                    /\ tokens'[k].password = users'[tokens'[k].user].password
    BY DEF RowOK
<1>1. CASE Inserts(p, k)
  <2> DEFINE u == tx[p].subject
             j == tx[p].token
  <2>1. /\ IssuerOK(p) /\ InFlight(p) /\ tokens'[k].user = u /\ u \in User
        /\ tokens'[k].password = tx[p].password /\ ~Late(p)
        /\ tx[p].op \in {"login", "refresh"} /\ pc[p] = "commit"
      BY <1>1, InsertFacts DEF IssuerOK, Inserts, Commits
  <2>2. users'[u] = users[u]
      BY <2>1 DEF Commits, CommitPassword, CommitDeleteUser
  <2>3. CASE tx[p].op = "login"
      BY <2>1, <2>2, <2>3 DEF Late
  <2>4. CASE tx[p].op = "refresh"
    <3>1. j \in Token /\ issuedTo[j] = u /\ ~tokens[j].late
        BY <2>1, <2>4 DEF IssuerOK, Late
    <3>2. Stored(j) /\ tokens[j].user = u
        BY <2>1, <3>1 DEF IInv, TxOK, LocksToken, TokenOK
    <3>3. tokens[j].password = tx[p].password
        BY <2>1, <2>4, <3>2 DEF RaceInv, ReadOK
    <3>4. RowOK(j)
        BY <3>1 DEF RaceInv
    <3>5. QED
        BY <2>1, <2>2, <3>1, <3>2, <3>3, <3>4 DEF RowOK
  <2>5. QED
      BY <2>1, <2>3, <2>4
<1>2. CASE ~Inserts(p, k)
  <2>1. /\ Stored(k) /\ tokens'[k].user = tokens[k].user /\ ~tokens[k].late
        /\ tokens'[k].password = tokens[k].password /\ RowOK(k)
        /\ tokens[k].user \in User
      BY <1>2, KeptFacts DEF RaceInv, IInv, TypeOK, Stored, TokenRow
  <2>2. CASE users'[tokens[k].user] = users[tokens[k].user]
      BY <2>1, <2>2 DEF RowOK
  <2>3. CASE /\ CommitPassword(p) \/ CommitDeleteUser(p)
             /\ tx[p].subject = tokens[k].user
    <3>1. /\ HasFound(p) /\ tokens' = Without(tx[p].victims)
          /\ tokens[k].user \in About(tx[p].subject)
        BY <2>1, <2>3 DEF CommitPassword, CommitDeleteUser, HasFound, InFlight, About
    <3>2. k \in tx[p].victims
        BY <2>1, <3>1 DEF RaceInv, FoundOK
    <3>3. QED
        BY <3>1, <3>2 DEF Without, Stored
  <2>4. QED
      BY <2>1, <2>2, <2>3 DEF Commits
<1>3. QED
    BY <1>1, <1>2

LEMMA CommitOthers ==
    ASSUME IInv, RaceInv, NEW p \in Request, Commits(p), NEW q \in Request
    PROVE  FoundOK(q)' /\ ReadOK(q)'
<1>1. CASE q = p
    BY <1>1 DEF Commits, Ends, FoundOK, ReadOK, HasFound, InFlight
<1>2. CASE q # p
  <2>1. /\ pc'[q] = pc[q] /\ tx'[q] = tx[q] /\ FoundOK(q) /\ ReadOK(q) /\ TxOK(q)
        /\ HasFound(q)' <=> HasFound(q)
        /\ About(tx[q].subject)' = About(tx[q].subject)
      BY <1>2 DEF Commits, Ends, Others, RaceInv, IInv, HasFound, InFlight, About, Members
  <2>2. ASSUME HasFound(q), NEW k \in Token, Stored(k)', ~tokens'[k].late,
               tokens'[k].user \in About(tx[q].subject)
        PROVE  k \in tx[q].victims
    <3>1. ~Inserts(p, k)
        BY <2>2, InsertFacts DEF Late
    <3>2. QED
        BY <2>1, <2>2, <3>1, KeptFacts DEF FoundOK
  <2>3. ASSUME InFlight(q), tx[q].op = "refresh", pc[q] # "scan"
        PROVE  /\ Stored(tx[q].token)' => tokens'[tx[q].token].password = tx[q].password
               /\ \A k \in Token : Stored(k)' /\ tokens'[k].parent = tx[q].token =>
                      tokens'[k].raced
               /\ \A r \in Request : InFlight(r)' => tx'[r].new # tx[q].token
    <3>1. tx[q].token \in Token /\ InFlight(p)
        BY <2>1, <2>3 DEF TxOK, IssuerOK, Commits, Ends
    <3>2. \A r \in Request : InFlight(r) => tx[r].new # tx[q].token
        BY <2>1, <2>3 DEF ReadOK
    <3>3. ~Inserts(p, tx[q].token)
        BY <3>1, <3>2 DEF Inserts
    <3>4. Stored(tx[q].token)' => tokens'[tx[q].token].password = tx[q].password
        BY <2>1, <2>3, <3>1, <3>3, KeptFacts DEF ReadOK
    <3>5. ASSUME NEW k \in Token, Stored(k)', tokens'[k].parent = tx[q].token
          PROVE  tokens'[k].raced
      <4>1. CASE Inserts(p, k)
        <5>1. /\ tx[p].token = tx[q].token /\ IssuerOK(p) /\ tokens'[k].raced = Raced(p)
              /\ tx[p].op \in {"login", "refresh"}
            BY <3>5, <4>1, InsertFacts DEF Inserts
        <5>2. tx[p].op = "refresh"
            BY <3>1, <5>1, MarkerFacts DEF IssuerOK
        <5>3. QED
            BY <1>2, <2>3, <5>1, <5>2 DEF Raced
      <4>2. CASE ~Inserts(p, k)
          BY <2>1, <2>3, <3>5, <4>2, KeptFacts DEF ReadOK
      <4>3. QED
          BY <4>1, <4>2
    <3>6. \A r \in Request : InFlight(r)' => tx'[r].new # tx[q].token
        BY <3>2 DEF Commits, Ends, Others, InFlight
    <3>7. QED
        BY <3>4, <3>5, <3>6
  <2>4. FoundOK(q)'
      BY <2>1, <2>2 DEF FoundOK
  <2>5. ReadOK(q)'
      BY <2>1, <2>3 DEF ReadOK, InFlight
  <2>6. QED
      BY <2>4, <2>5
<1>3. QED
    BY <1>1, <1>2

\* The second rotation of a token was there when the first one committed.
LEMMA CommitUses ==
    ASSUME IInv, RaceInv, NEW p \in Request, Commits(p)
    PROVE  SingleUseInTurn'
<1>1. ASSUME NEW j \in Token, NEW k \in Token \ {j}, Stored(j)', Stored(k)',
             tokens'[j].parent # NoToken, tokens'[j].parent = tokens'[k].parent,
             Inserts(p, j)
      PROVE  tokens'[k].raced
  <2>1. /\ tokens'[j].parent = tx[p].token /\ IssuerOK(p) /\ InFlight(p)
        /\ tx[p].new = j /\ pc[p] = "commit"
      BY <1>1, InsertFacts DEF Commits
  <2>2. tx[p].op = "refresh" /\ ~Inserts(p, k)
      BY <1>1, <2>1 DEF IssuerOK, Inserts
  <2>3. QED
      BY <1>1, <2>1, <2>2, KeptFacts DEF RaceInv, ReadOK
<1>2. ASSUME NEW j \in Token, NEW k \in Token \ {j}, Stored(j)', Stored(k)',
             tokens'[j].parent # NoToken, tokens'[j].parent = tokens'[k].parent,
             ~Inserts(p, j), ~Inserts(p, k)
      PROVE  tokens'[j].raced \/ tokens'[k].raced
    BY <1>2, KeptFacts DEF RaceInv, SingleUseInTurn
<1>3. QED
    BY <1>1, <1>2 DEF SingleUseInTurn

\* Expiry concerns nobody but the token.
LEMMA ExpireRace ==
    ASSUME IInv, RaceInv, NEW k \in Token, Expire(k)
    PROVE  RaceInv'
<1>1. tokens[k] \in TokenRow /\ Stored(k) /\ TypeOK
    BY DEF IInv, TypeOK, Expire, Active, Stored
<1>2. /\ tokens'[k] = [tokens[k] EXCEPT !.status = "expired"]
      /\ \A j \in Token \ {k} : tokens'[j] = tokens[j]
    BY <1>1 DEF Expire, TypeOK
<1>3. \A j \in Token :
          /\ Stored(j)' <=> Stored(j)
          /\ Stored(j) => /\ tokens'[j].user = tokens[j].user
                          /\ tokens'[j].parent = tokens[j].parent
                          /\ tokens'[j].password = tokens[j].password
                          /\ tokens'[j].raced = tokens[j].raced
                          /\ tokens'[j].late = tokens[j].late
    BY <1>1, <1>2, MarkerFacts DEF TokenRow, Stored
<1>4. \A j \in Token : RowOK(j)'
    BY <1>3 DEF RaceInv, RowOK, Expire
<1>5. ASSUME NEW q \in Request
      PROVE  FoundOK(q)' /\ ReadOK(q)'
  <2>1. FoundOK(q) /\ ReadOK(q) /\ TxOK(q)
      BY DEF RaceInv, IInv
  <2>2. FoundOK(q)'
      BY <1>3, <2>1 DEF FoundOK, HasFound, InFlight, About, Members, Expire
  <2>3. ReadOK(q)'
      BY <1>3, <2>1 DEF ReadOK, TxOK, IssuerOK, InFlight, Expire
  <2>4. QED
      BY <2>2, <2>3
<1>6. SingleUseInTurn'
    BY <1>3 DEF RaceInv, SingleUseInTurn
<1>7. QED
    BY <1>4, <1>5, <1>6 DEF RaceInv

LEMMA RaceStep == IInv /\ RaceInv /\ [Next]_vars => RaceInv'
<1> SUFFICES ASSUME IInv, RaceInv, [Next]_vars
             PROVE  RaceInv'
    OBVIOUS
<1>1. CASE UNCHANGED vars
    BY <1>1 DEF vars, RaceInv, RowOK, FoundOK, ReadOK, HasFound, SingleUseInTurn,
       InFlight, About, Members, Stored
<1>2. ASSUME NEW p \in Request, Action(p), ~UNCHANGED vars
      PROVE  RaceInv'
  <2>1. CASE UNCHANGED <<users, orgs, tokens>>
      BY <1>2, <2>1, QuietStep
  <2>2. CASE Commits(p)
      BY <2>2, CommitRows, CommitOthers, CommitUses DEF RaceInv
  <2>3. QED
      BY <1>2, <2>1, <2>2, ActionEffect DEF Commits
<1>3. ASSUME NEW k \in Token, Expire(k)
      PROVE  RaceInv'
    BY <1>3, ExpireRace
<1>4. QED
    BY <1>1, <1>2, <1>3 DEF Next, Action

LEMMA RaceInit == Init => RaceInv
BY DEF Init, RaceInv, RowOK, FoundOK, ReadOK, HasFound, SingleUseInTurn, InFlight,
   Stored

LEMMA RaceInvariance == Spec => []RaceInv
BY Invariance, RaceInit, RaceStep, PTL DEF Spec

\* "Persisted, single-use refresh token": mark_used does not look at used_at,
\* yet a token gets a second successor only from a refresh that was already
\* presenting it when the first one committed.
THEOREM UsedOnce == Spec => []SingleUseInTurn
<1>1. RaceInv => SingleUseInTurn
    BY DEF RaceInv
<1>2. QED
    BY RaceInvariance, <1>1, PTL

\* "Changing a user's password revokes all their existing refresh tokens":
\* under any interleaving a token that can be refreshed knows the password
\* that the account has now, unless it was committed beside the change, after
\* the DELETE had looked, or stems from such a token.
THEOREM PasswordRevokes == Spec => []SessionsKnowThePassword
<1>1. RaceInv => SessionsKnowThePassword
    BY DEF RaceInv, RowOK, SessionsKnowThePassword, Active
<1>2. QED
    BY RaceInvariance, <1>1, PTL

\* delete_user revokes the account's tokens: only what was committed beside
\* the deletion, after the DELETE had looked, is left of them.
THEOREM DeletedAreRevoked == Spec => []DeletionRevokes
<1>1. IInv /\ RaceInv => DeletionRevokes
    BY DEF RaceInv, RowOK, DeletionRevokes, Active
<1>2. QED
    BY Invariance, RaceInvariance, <1>1, PTL

\* "All refresh tokens for users in that organisation are revoked": when the
\* deletion of an organisation commits, the members' active tokens are those
\* committed since its UPDATE looked.
THEOREM OrganisationRevokes == Spec => OrgDeletionRevokes
<1>1. IInv /\ RaceInv /\ [Next]_vars =>
          [\A o \in Organisation : o \in orgs' \ orgs =>
              \A k \in Token : Active(k)' /\ OrgOf[tokens'[k].user] = o =>
                  tokens'[k].late]_vars
  <2> SUFFICES ASSUME IInv, RaceInv, Next, NEW o \in Organisation,
                      o \in orgs' \ orgs, NEW k \in Token, Active(k)',
                      OrgOf[tokens'[k].user] = o
               PROVE  tokens'[k].late
      OBVIOUS
  <2>1. PICK p \in Request : Action(p)
      BY DEF Next, Action, Expire
  <2>2. Commits(p) /\ CommitDeleteOrganisation(p)
      BY <2>1, ActionEffect DEF Commits
  <2>3. /\ HasFound(p) /\ InFlight(p) /\ tx[p].subject = o /\ o \notin User
        /\ tokens' = Spending(tx[p].victims) /\ ~Inserts(p, k) /\ TypeOK
    <3>1. /\ pc[p] = "commit" /\ tx[p].op = "delete_org" /\ TypeOK
          /\ orgs' = orgs \cup {tx[p].subject}
          /\ tokens' = Spending(tx[p].victims)
        BY <2>2 DEF CommitDeleteOrganisation, IInv
    <3>2. QED
        BY <3>1, MarkerFacts DEF HasFound, InFlight, Inserts
  <2>4. /\ Stored(k) /\ tokens'[k].user = tokens[k].user
        /\ tokens'[k].late = tokens[k].late
      BY <2>2, <2>3, KeptFacts DEF Active, Stored
  <2>5. tokens[k] \in TokenRow /\ tokens[k].user \in About(o)
      BY <2>3, <2>4 DEF TypeOK, Stored, TokenRow, About, Members
  <2>6. k \notin tx[p].victims
      BY <2>3, <2>5 DEF Spending, Spent, Active, TokenRow
  <2>7. tokens[k].late
      BY <2>3, <2>4, <2>5, <2>6 DEF RaceInv, FoundOK
  <2>8. QED
      BY <2>4, <2>7
<1>2. QED
    BY Invariance, RaceInvariance, <1>1, PTL DEF Spec, OrgDeletionRevokes
=============================================================================
