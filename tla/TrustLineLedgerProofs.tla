----------------------- MODULE TrustLineLedgerProofs -----------------------
(***************************************************************************)
(* What holds of a trust line for every number of payments and every       *)
(* amount.                                                                 *)
(***************************************************************************)
EXTENDS TrustLineLedger, FiniteSetTheorems, WellFoundedInduction, TLAPS

(***************************************************************************)
(* TrustLine::pay and acceptPayment throw for no amount that the line      *)
(* announces as available, whatever the trust amounts and the balance are. *)
(***************************************************************************)
THEOREM AvailableIsAccepted ==
    ASSUME NEW l \in Line, NEW d \in Directions, NEW amount \in Nat \ {0},
           amount <= Available(l, d)
    PROVE  Accepts(l, BalanceAfter(l, d, amount))
<1>1. /\ l.incoming \in Nat /\ l.outgoing \in Nat /\ l.balance \in Int
      /\ d \in {"in", "out"}
  BY DEF Line, Directions
<1>2. CASE d = "out"
  BY <1>1, <1>2 DEF Available, AvailableOutgoing, Accepts, Settles, BalanceAfter
<1>3. CASE d = "in"
  BY <1>1, <1>3 DEF Available, AvailableIncoming, Accepts, Settles, BalanceAfter
<1>4. QED
  BY <1>1, <1>2, <1>3

-----------------------------------------------------------------------------
(* Type correctness. *)

\* A payment over a line leaves a line.
LEMMA MovesType ==
    ASSUME NEW l \in Line, NEW d \in Directions, NEW amount \in Nat
    PROVE  Moves(l, d, amount) \in Line
<1>1. /\ l.balance - amount \in Int /\ l.balance + amount \in Int
      /\ l.totalIn + amount \in Nat /\ l.totalOut + amount \in Nat
  BY DEF Line
<1>2. CASE d = "out"
  BY <1>1, <1>2 DEF Moves, Line
<1>3. CASE d # "out"
  BY <1>1, <1>3 DEF Moves, Line
<1>4. QED
  BY <1>2, <1>3

\* So does a change of a trust amount.
LEMMA WithSideType ==
    ASSUME NEW l \in Line, NEW side, NEW amount \in Nat
    PROVE  WithSide(l, side, amount) \in Line
BY DEF WithSide, Line

\* What the database restores is a line: the totals do not become negative.
LEMMA RestoredType == ASSUME TypeOK PROVE RestoredLine \in Line
<1>1. /\ audit.incoming \in Nat /\ audit.outgoing \in Nat /\ audit.balance \in Int
      /\ receipts["in"] \in Nat /\ receipts["out"] \in Nat
  BY DEF TypeOK, Directions
<1>2. \A n \in Int : Positive(n) \in Nat
  BY DEF Positive
<1>3. Positive(audit.balance) \in Nat /\ Positive(-audit.balance) \in Nat
  BY <1>1, <1>2
<1>4. QED
  BY <1>1, <1>3 DEF RestoredLine, Line

\* A change of a trust amount keeps the types.
LEMMA ChangeType ==
    ASSUME TypeOK, NEW side \in {"incoming", "outgoing"}, NEW amount \in Nat,
           NEW newState \in {"Modify", "AuditPending"}, NEW answer \in {"given", "awaited"},
           Change(side, amount, newState, answer)
    PROVE  TypeOK'
<1>1. line' \in Line
  BY WithSideType DEF Change, TypeOK
<1>2. change'.previous \in {"Active", "Archived"} /\ state' = newState
  BY DEF Change
<1>3. change' \in [side : {"none", "incoming", "outgoing"}, amount : Nat,
                  answer : {"given", "awaited", "recovered"},
                  previous : {"Active", "Archived", "unknown"}]
  BY DEF Change
<1>4. QED
  BY <1>1, <1>2, <1>3 DEF Change, TypeOK

\* A step of a payment keeps the types.
LEMMA PaymentStepType ==
    ASSUME TypeOK, NEW t \in Payments, PaymentStep(t)
    PROVE  TypeOK'
<1>1. ASSUME NEW d \in Directions, NEW a \in 1..2*MaxTrust, Reserve(t, d, a)
      PROVE  TypeOK'
  <2>1. a \in Nat
    BY LedgerAssumption
  <2>2. QED
    BY <1>1, <2>1 DEF Reserve, TypeOK
<1>2. ASSUME NEW a \in 1..2*MaxTrust, Shorten(t, a)
      PROVE  TypeOK'
  <2>1. a \in Nat
    BY LedgerAssumption
  <2>2. QED
    BY <1>2, <2>1 DEF Shorten, TypeOK
<1>3. CASE SaveReceipt(t)
  BY <1>3 DEF SaveReceipt, TypeOK
<1>4. CASE Vote(t)
  BY <1>4 DEF Vote, TypeOK
<1>5. NoReservation \in [direction : Directions, amount : Nat]
  BY DEF NoReservation, Directions
<1>6. CASE RollBack(t)
  BY <1>5, <1>6 DEF RollBack, TypeOK
<1>7. CASE Commit(t)
  <2>1. line' \in Line
    BY <1>7, MovesType DEF Commit, TypeOK
  <2>2. state' \in {"AuditPending", "KeysPending", state}
    BY <1>7 DEF Commit
  <2>3. QED
    BY <1>5, <1>7, <2>1, <2>2 DEF Commit, TypeOK
<1>8. QED
  BY <1>1, <1>2, <1>3, <1>4, <1>6, <1>7 DEF PaymentStep

\* So does a step that concerns the trust amounts, the audit or the keys.
LEMMA TrustStepType ==
    ASSUME TypeOK, TrustStep
    PROVE  TypeOK'
<1>1. ASSUME NEW a \in 0..MaxTrust, SetOutgoing(a) \/ SetIncoming(a)
      PROVE  TypeOK'
  <2>1. a \in Nat
    BY LedgerAssumption
  <2>2. QED
    BY <1>1, <2>1, ChangeType DEF SetOutgoing, SetIncoming
<1>2. CASE StopWaiting
  BY <1>2 DEF StopWaiting, TypeOK
<1>3. CASE OutgoingAccepted
  BY <1>3 DEF OutgoingAccepted, TypeOK
<1>4. NoChange \in [side : {"none", "incoming", "outgoing"}, amount : Nat,
                   answer : {"given", "awaited", "recovered"},
                   previous : {"Active", "Archived", "unknown"}]
  BY DEF NoChange
<1>5. CASE OutgoingRefused
  <2>1. change.previous \in {"Active", "Archived", "unknown"}
    BY DEF TypeOK
  <2>2. QED
    BY <1>4, <1>5, <2>1 DEF OutgoingRefused, TypeOK
<1>6. CASE Audit
  <2>1. line' \in Line
    BY <1>6 DEF Audit, TypeOK, Line
  <2>2. audit' \in [incoming : Nat, outgoing : Nat, balance : Int]
    BY <1>6 DEF Audit, TypeOK, Line
  <2>3. receipts' \in [Directions -> Nat]
    BY <1>6 DEF Audit
  <2>4. state' \in {"Archived", "Active", "KeysPending"}
    BY <1>6 DEF Audit
  <2>5. QED
    BY <1>4, <1>6, <2>1, <2>2, <2>3, <2>4 DEF Audit, TypeOK
<1>7. CASE KeysShared
  BY <1>7 DEF KeysShared, TypeOK
<1>8. QED
  BY <1>1, <1>2, <1>3, <1>5, <1>6, <1>7 DEF TrustStep

\* The types hold at every moment: no unsigned amount of the line underflows,
\* whatever is paid, changed, refused, audited and restored.
THEOREM TypeCorrect == Spec => []TypeOK
<1>1. Init => TypeOK
  <2>1. SUFFICES ASSUME Init PROVE TypeOK
    OBVIOUS
  <2>2. line \in Line /\ line.incoming \in Nat /\ line.outgoing \in Nat
    BY <2>1, LedgerAssumption DEF Init, Line
  <2>3. QED
    BY <2>1, <2>2 DEF Init, TypeOK, Line, NoReservation, NoChange, Directions
<1>2. TypeOK /\ [Next]_vars => TypeOK'
  <2>1. SUFFICES ASSUME TypeOK, [Next]_vars PROVE TypeOK'
    OBVIOUS
  <2>2. ASSUME NEW t \in Payments, PaymentStep(t) PROVE TypeOK'
    BY <2>1, <2>2, PaymentStepType
  <2>3. CASE TrustStep
    BY <2>1, <2>3, TrustStepType
  <2>4. CASE Crash
    <3>1. NoReservation \in [direction : Directions, amount : Nat]
      BY DEF NoReservation, Directions
    <3>2. QED
      BY <2>1, <2>4, <3>1 DEF Crash, TypeOK
  <2>5. CASE Restart
    <3>1. change' \in [side : {"none", "incoming", "outgoing"}, amount : Nat,
                      answer : {"given", "awaited", "recovered"},
                      previous : {"Active", "Archived", "unknown"}]
      BY <2>1, <2>5 DEF Restart, RecoveredChange, TypeOK
    <3>2. line' \in Line
      BY <2>1, <2>5, RestoredType, WithSideType DEF Restart, TypeOK
    <3>3. QED
      BY <2>1, <2>5, <3>1, <3>2 DEF Restart, TypeOK
  <2>6. CASE UNCHANGED vars
    BY <2>1, <2>6 DEF vars, TypeOK
  <2>7. QED
    BY <2>1, <2>2, <2>3, <2>4, <2>5, <2>6 DEF Next
<1>3. QED
  BY <1>1, <1>2, PTL DEF Spec

-----------------------------------------------------------------------------
(* Payments and trust. *)

\* A payment that pay or acceptPayment accepts leaves a debt within the trust
\* where it was.
LEMMA AcceptedIsWithinTrust ==
    ASSUME NEW l \in Line, NEW d \in Directions, NEW amount \in Nat,
           WithinTrust(l), Accepts(l, BalanceAfter(l, d, amount))
    PROVE  WithinTrust(Moves(l, d, amount))
BY DEF Line, WithinTrust, Accepts, Settles, BalanceAfter, Moves, Directions

\* A line of a running node whose debt is within the trust of the two sides
\* stays so until one of them lowers its trust: no order of payments, shortened
\* reservations, audits and key exchanges takes it out.
THEOREM TrustIsKept == Spec => PaymentsStayWithinTrust
<1> DEFINE Kept == up /\ up' /\ WithinTrust(line)
                   /\ line'.incoming >= line.incoming /\ line'.outgoing >= line.outgoing
                   => WithinTrust(line')
<1>1. TypeOK /\ [Next]_vars => Kept
  <2>1. SUFFICES ASSUME TypeOK, [Next]_vars, up, up', WithinTrust(line),
                        line'.incoming >= line.incoming, line'.outgoing >= line.outgoing
                 PROVE  WithinTrust(line')
    OBVIOUS
  <2>2. line \in Line
    BY <2>1 DEF TypeOK
  <2>3. ASSUME NEW t \in Payments, Commit(t) PROVE WithinTrust(line')
    <3>1. reservation[t].direction \in Directions /\ reservation[t].amount \in Nat
      BY <2>1 DEF TypeOK
    <3>2. QED
      BY <2>1, <2>2, <2>3, <3>1, AcceptedIsWithinTrust DEF Commit, Fits
  <2>4. ASSUME line'.balance = line.balance, line' \in Line PROVE WithinTrust(line')
    BY <2>1, <2>2, <2>4 DEF WithinTrust, Line
  <2>5. ASSUME NEW side, NEW a \in Nat, line' = WithSide(line, side, a)
        PROVE  line'.balance = line.balance /\ line' \in Line
    BY <2>2, <2>5 DEF WithSide, Line
  <2>6. ASSUME NEW a \in 0..MaxTrust, SetOutgoing(a) \/ SetIncoming(a)
        PROVE  WithinTrust(line')
    <3>1. a \in Nat
      BY LedgerAssumption
    <3>2. QED
      BY <2>4, <2>5, <2>6, <3>1 DEF SetOutgoing, SetIncoming, Change
  <2>7. CASE Audit
    <3>1. line'.balance = line.balance /\ line' \in Line
      BY <2>2, <2>7 DEF Audit, Line
    <3>2. QED
      BY <2>4, <3>1
  <2>8. CASE UNCHANGED line
    BY <2>1, <2>8
  <2>9. ASSUME NEW t \in Payments, PaymentStep(t) PROVE WithinTrust(line')
    BY <2>3, <2>8, <2>9 DEF PaymentStep, Reserve, Shorten, SaveReceipt, Vote, RollBack
  <2>10. CASE TrustStep
    BY <2>6, <2>7, <2>8, <2>10
    DEF TrustStep, StopWaiting, OutgoingAccepted, OutgoingRefused, KeysShared
  <2>11. ~Crash /\ ~Restart
    BY <2>1 DEF Crash, Restart
  <2>12. QED
    BY <2>1, <2>8, <2>9, <2>10, <2>11 DEF Next, vars
<1>2. QED
  BY <1>1, TypeCorrect, PTL DEF Spec, PaymentsStayWithinTrust

-----------------------------------------------------------------------------
(* Sums over finite sets, as MapThenSumSet takes them: element by element. *)

\* The element that is taken next, and the function g that sums up f over sets.
Chosen(s) == CHOOSE x \in s : TRUE
IsSum(g, f, D) ==
    g = [s \in D |-> IF s = {} THEN 0 ELSE f[Chosen(s)] + g[s \ {Chosen(s)}]]

\* A set of natural numbers has a smallest element.
LEMMA NatMin ==
    ASSUME NEW T \in SUBSET Nat, T # {}
    PROVE  \E x \in T : \A y \in T : x <= y
<1> DEFINE R == OpToRel(<, Nat)
<1>1. IsWellFoundedOn(R, Nat)
  BY NatLessThanWellFounded
<1>2. \A x, y \in Nat : y < x => <<y, x>> \in R
  BY DEF OpToRel
<1> HIDE DEF R
<1>3. PICK x \in T : \A y \in T : ~(<<y, x>> \in R)
  BY <1>1, WFMin
<1>4. ASSUME NEW y \in T PROVE x <= y
  <2>1. ~(y < x)
    BY <1>2, <1>3
  <2> QED BY <2>1
<1> QED BY <1>4

\* Of some subsets of a finite set, one has the fewest elements.
LEMMA Fewest ==
    ASSUME NEW S, IsFiniteSet(S), NEW F \in SUBSET (SUBSET S), F # {}
    PROVE  \E s \in F : \A u \in F : Cardinality(s) <= Cardinality(u)
<1>1. \A s \in F : Cardinality(s) \in Nat
  BY FS_Subset, FS_CardinalityType
<1>2. {Cardinality(s) : s \in F} \in SUBSET Nat /\ {Cardinality(s) : s \in F} # {}
  BY <1>1
<1>3. PICK n \in {Cardinality(s) : s \in F} : \A m \in {Cardinality(s) : s \in F} : n <= m
  BY <1>2, NatMin
<1> QED BY <1>3

\* Taking the chosen element out of a set.
LEMMA WithoutChosen ==
    ASSUME NEW S, IsFiniteSet(S), NEW s \in SUBSET S, s # {}
    PROVE  /\ Chosen(s) \in s
           /\ s \ {Chosen(s)} \in SUBSET S
           /\ Cardinality(s) \in Nat \ {0}
           /\ Cardinality(s \ {Chosen(s)}) = Cardinality(s) - 1
<1>1. Chosen(s) \in s
  BY DEF Chosen
<1>2. IsFiniteSet(s)
  BY FS_Subset
<1>3. Cardinality(s) \in Nat /\ Cardinality(s) # 0
  BY <1>2, FS_CardinalityType, FS_EmptySet
<1>4. Cardinality(s \ {Chosen(s)}) = Cardinality(s) - 1
  BY <1>1, <1>2, FS_RemoveElement
<1> QED BY <1>1, <1>3, <1>4

\* The sums over the subsets of a finite set exist.
LEMMA SumExists ==
    ASSUME NEW S, IsFiniteSet(S), NEW f
    PROVE  \E g : IsSum(g, f, SUBSET S)
<1> DEFINE Small(n) == {s \in SUBSET S : Cardinality(s) <= n}
           Bad == {n \in Nat : ~\E g : IsSum(g, f, Small(n))}
<1>1. Bad = {}
  <2>1. SUFFICES ASSUME Bad # {} PROVE FALSE
    OBVIOUS
  <2>2. PICK m \in Bad : \A n \in Bad : m <= n
    <3>1. Bad \in SUBSET Nat
      OBVIOUS
    <3> QED BY <2>1, <3>1, NatMin
  <2>3. CASE m = 0
    <3>1. \A s \in Small(0) : s = {}
      <4>1. ASSUME NEW s \in SUBSET S, s # {} PROVE ~(Cardinality(s) <= 0)
        <5>1. Cardinality(s) \in Nat \ {0}
          BY <4>1, WithoutChosen
        <5> QED BY <5>1
      <4> QED BY <4>1
    <3>2. IsSum([s \in Small(0) |-> 0], f, Small(0))
      BY <3>1 DEF IsSum
    <3> QED BY <2>2, <2>3, <3>2
  <2>4. CASE m # 0
    <3>0. m \in Nat
      BY <2>2
    <3>1. m - 1 \in Nat /\ m - 1 \notin Bad
      <4> HIDE DEF Bad
      <4> QED BY <2>2, <2>4, <3>0
    <3>2. PICK g : IsSum(g, f, Small(m - 1))
      BY <3>1
    <3> DEFINE Next1(s) == IF s = {} THEN 0 ELSE f[Chosen(s)] + g[s \ {Chosen(s)}]
               h == [s \in Small(m) |-> Next1(s)]
    <3>3. \A s \in Small(m) : s # {} => s \ {Chosen(s)} \in Small(m - 1)
      <4>1. ASSUME NEW s \in Small(m), s # {} PROVE s \ {Chosen(s)} \in Small(m - 1)
        <5>1. /\ s \ {Chosen(s)} \in SUBSET S /\ Cardinality(s) \in Nat
              /\ Cardinality(s \ {Chosen(s)}) = Cardinality(s) - 1
          BY <4>1, WithoutChosen
        <5> QED BY <2>2, <5>1
      <4> QED BY <4>1
    <3>4. \A s \in Small(m - 1) : g[s] = Next1(s)
      BY <3>2 DEF IsSum
    <3>5. Small(m - 1) \subseteq Small(m)
      <4>1. \A s \in SUBSET S : Cardinality(s) \in Nat
        BY FS_Subset, FS_CardinalityType
      <4> QED BY <2>2, <4>1
    <3>6. \A s \in Small(m - 1) : h[s] = g[s]
      BY <3>4, <3>5
    <3>7. \A s \in Small(m) :
             h[s] = IF s = {} THEN 0 ELSE f[Chosen(s)] + h[s \ {Chosen(s)}]
      BY <3>3, <3>6
    <3>8. IsSum(h, f, Small(m))
      <4> HIDE DEF Next1
      <4>1. h = [s \in Small(m) |-> h[s]]
        OBVIOUS
      <4> HIDE DEF h
      <4> QED BY <4>1, <3>7 DEF IsSum
    <3> QED BY <2>2, <3>8
  <2> QED BY <2>3, <2>4
<1>2. Cardinality(S) \in Nat
  BY FS_CardinalityType
<1>3. PICK g : IsSum(g, f, Small(Cardinality(S)))
  BY <1>1, <1>2
<1>4. Small(Cardinality(S)) = SUBSET S
  BY FS_Subset
<1> QED BY <1>3, <1>4

\* The sum of natural numbers is one, and none of them is more.
LEMMA SumBounds ==
    ASSUME NEW S, IsFiniteSet(S), NEW f \in [S -> Nat], NEW g, IsSum(g, f, SUBSET S)
    PROVE  \A s \in SUBSET S : g[s] \in Nat /\ \A x \in s : f[x] <= g[s]
<1> DEFINE Bad == {s \in SUBSET S : ~(g[s] \in Nat /\ \A x \in s : f[x] <= g[s])}
<1>1. SUFFICES ASSUME Bad # {} PROVE FALSE
  OBVIOUS
<1>2. PICK s \in Bad : \A u \in Bad : Cardinality(s) <= Cardinality(u)
  <2>1. Bad \in SUBSET (SUBSET S)
    OBVIOUS
  <2> HIDE DEF Bad
  <2> QED BY <1>1, <2>1, Fewest
<1>0. /\ g[{}] = 0
      /\ \A u \in SUBSET S : u # {} => g[u] = f[Chosen(u)] + g[u \ {Chosen(u)}]
  BY DEF IsSum
<1>3. s # {}
  <2>1. ASSUME s = {} PROVE FALSE
    BY <1>0, <1>2, <2>1
  <2> QED BY <2>1
<1>4. PICK x : x = Chosen(s)
  OBVIOUS
<1>5. /\ x \in s /\ s \ {x} \in SUBSET S
      /\ Cardinality(s) \in Nat /\ Cardinality(s \ {x}) = Cardinality(s) - 1
  BY <1>2, <1>3, <1>4, WithoutChosen
<1>6. s \ {x} \notin Bad
  <2> HIDE DEF Bad
  <2>1. Cardinality(s \ {x}) < Cardinality(s)
    BY <1>5
  <2> QED BY <1>2, <1>5, <2>1
<1>7. g[s] = f[x] + g[s \ {x}]
  BY <1>0, <1>2, <1>3, <1>4
<1>8. g[s \ {x}] \in Nat /\ \A y \in s \ {x} : f[y] <= g[s \ {x}]
  BY <1>5, <1>6
<1>9. f[x] \in Nat /\ \A y \in s : f[y] \in Nat
  BY <1>2, <1>5
<1>10. g[s] \in Nat
  BY <1>7, <1>8, <1>9
<1>11. ASSUME NEW y \in s PROVE f[y] <= g[s]
  <2>1. CASE y = x
    BY <1>7, <1>8, <1>9, <2>1
  <2>2. CASE y # x
    <3>1. f[y] <= g[s \ {x}]
      BY <1>8, <2>2
    <3>2. f[y] \in Nat
      BY <1>9
    <3> QED BY <1>7, <1>8, <1>9, <3>1, <3>2
  <2> QED BY <2>1, <2>2
<1> QED BY <1>2, <1>10, <1>11

\* Where no term grows, neither does the sum.
LEMMA SumGrows ==
    ASSUME NEW S, IsFiniteSet(S), NEW f \in [S -> Nat], NEW g, IsSum(g, f, SUBSET S),
           NEW e \in [S -> Nat], NEW h, IsSum(h, e, SUBSET S),
           \A x \in S : e[x] <= f[x]
    PROVE  \A s \in SUBSET S : h[s] <= g[s]
<1> DEFINE Bad == {s \in SUBSET S : ~(h[s] <= g[s])}
<1>1. SUFFICES ASSUME Bad # {} PROVE FALSE
  OBVIOUS
<1>2. PICK s \in Bad : \A u \in Bad : Cardinality(s) <= Cardinality(u)
  <2>1. Bad \in SUBSET (SUBSET S)
    OBVIOUS
  <2> HIDE DEF Bad
  <2> QED BY <1>1, <2>1, Fewest
<1>0. /\ g[{}] = 0
      /\ \A u \in SUBSET S : u # {} => g[u] = f[Chosen(u)] + g[u \ {Chosen(u)}]
      /\ h[{}] = 0
      /\ \A u \in SUBSET S : u # {} => h[u] = e[Chosen(u)] + h[u \ {Chosen(u)}]
  BY DEF IsSum
<1>3. s # {}
  <2>1. ASSUME s = {} PROVE FALSE
    BY <1>0, <1>2, <2>1
  <2> QED BY <2>1
<1>4. PICK x : x = Chosen(s)
  OBVIOUS
<1>5. /\ x \in s /\ s \ {x} \in SUBSET S
      /\ Cardinality(s) \in Nat /\ Cardinality(s \ {x}) = Cardinality(s) - 1
  BY <1>2, <1>3, <1>4, WithoutChosen
<1>6. h[s \ {x}] <= g[s \ {x}]
  BY <1>2, <1>5
<1>7. g[s] = f[x] + g[s \ {x}] /\ h[s] = e[x] + h[s \ {x}]
  BY <1>0, <1>2, <1>3, <1>4
<1>8. g[s \ {x}] \in Nat /\ h[s \ {x}] \in Nat
  BY <1>5, SumBounds
<1>9. f[x] \in Nat /\ e[x] \in Nat /\ e[x] <= f[x]
  BY <1>2, <1>5
<1> QED BY <1>2, <1>6, <1>7, <1>8, <1>9

\* A term that changes changes the sum by as much.
LEMMA SumChanges ==
    ASSUME NEW S, IsFiniteSet(S), NEW f \in [S -> Nat], NEW g, IsSum(g, f, SUBSET S),
           NEW e \in [S -> Nat], NEW h, IsSum(h, e, SUBSET S),
           NEW t \in S, \A x \in S : x # t => e[x] = f[x]
    PROVE  \A s \in SUBSET S : h[s] = IF t \in s THEN g[s] - f[t] + e[t] ELSE g[s]
<1> DEFINE Right(s) == h[s] = IF t \in s THEN g[s] - f[t] + e[t] ELSE g[s]
           Bad == {s \in SUBSET S : ~Right(s)}
<1>1. SUFFICES ASSUME Bad # {} PROVE FALSE
  OBVIOUS
<1>2. PICK s \in Bad : \A u \in Bad : Cardinality(s) <= Cardinality(u)
  <2>1. Bad \in SUBSET (SUBSET S)
    OBVIOUS
  <2> HIDE DEF Bad
  <2> QED BY <1>1, <2>1, Fewest
<1>0. /\ g[{}] = 0
      /\ \A u \in SUBSET S : u # {} => g[u] = f[Chosen(u)] + g[u \ {Chosen(u)}]
      /\ h[{}] = 0
      /\ \A u \in SUBSET S : u # {} => h[u] = e[Chosen(u)] + h[u \ {Chosen(u)}]
  BY DEF IsSum
<1>3. s # {}
  <2>1. ASSUME s = {} PROVE FALSE
    BY <1>0, <1>2, <2>1
  <2> QED BY <2>1
<1>4. PICK x : x = Chosen(s)
  OBVIOUS
<1>5. /\ x \in s /\ s \ {x} \in SUBSET S
      /\ Cardinality(s) \in Nat /\ Cardinality(s \ {x}) = Cardinality(s) - 1
  BY <1>2, <1>3, <1>4, WithoutChosen
<1>6. Right(s \ {x})
  <2> HIDE DEF Right
  <2> QED BY <1>2, <1>5
<1>7. g[s] = f[x] + g[s \ {x}] /\ h[s] = e[x] + h[s \ {x}]
  BY <1>0, <1>2, <1>3, <1>4
<1>8. g[s \ {x}] \in Nat /\ h[s \ {x}] \in Nat /\ g[s] \in Nat
  BY <1>2, <1>5, SumBounds
<1>9. f[x] \in Nat /\ e[x] \in Nat /\ f[t] \in Nat /\ e[t] \in Nat
  BY <1>2, <1>5
<1>10. CASE x = t
  BY <1>2, <1>5, <1>6, <1>7, <1>8, <1>9, <1>10
<1>11. CASE x # t
  <2>1. e[x] = f[x]
    BY <1>2, <1>5, <1>11
  <2>2. t \in s <=> t \in s \ {x}
    BY <1>11
  <2> QED BY <1>2, <1>6, <1>7, <1>8, <1>9, <2>1, <2>2
<1> QED BY <1>10, <1>11

-----------------------------------------------------------------------------
(* What the payments have reserved. *)

\* What the payments hold in a direction when their reservations are r, and its sum.
Reservations == [Payments -> [direction : Directions, amount : Nat]]
Held(r, d) == [t \in Payments |-> IF r[t].direction = d THEN r[t].amount ELSE 0]
Total(r, d) ==
    MapThenSumSet(LAMBDA t : IF r[t].direction = d THEN r[t].amount ELSE 0, Payments)

\* totalReserved adds up what is held.
LEMMA TotalIsSum ==
    ASSUME NEW r, NEW d
    PROVE  \E g : IsSum(g, Held(r, d), SUBSET Payments) /\ Total(r, d) = g[Payments]
<1> DEFINE IsTotal(h) ==
               h = [s \in SUBSET Payments |->
                       IF s = {} THEN 0
                       ELSE (IF r[Chosen(s)].direction = d THEN r[Chosen(s)].amount ELSE 0)
                            + h[s \ {Chosen(s)}]]
           g == CHOOSE h : IsTotal(h)
<1>1. Total(r, d) = g[Payments]
  BY Zenon DEF Total, MapThenSumSet, MapThenFoldSet, Chosen
<1>2. \E h : IsSum(h, Held(r, d), SUBSET Payments)
  BY LedgerAssumption, SumExists
<1>3. \A h : IsSum(h, Held(r, d), SUBSET Payments) <=> IsTotal(h)
  <2>1. \A s \in SUBSET Payments : s # {} => Chosen(s) \in Payments
    BY DEF Chosen
  <2> HIDE DEF g
  <2> QED BY <2>1 DEF IsSum, Held
<1>4. IsSum(g, Held(r, d), SUBSET Payments)
  <2> HIDE DEF IsTotal
  <2> QED BY <1>2, <1>3
<1> QED BY <1>1, <1>4

\* What is held is a natural number for every payment.
LEMMA HeldType ==
    ASSUME NEW r \in Reservations, NEW d
    PROVE  Held(r, d) \in [Payments -> Nat]
BY DEF Reservations, Held

\* It is a natural number, and no reservation is more.
LEMMA TotalBounds ==
    ASSUME NEW r \in Reservations, NEW d
    PROVE  /\ Total(r, d) \in Nat
           /\ \A t \in Payments : r[t].direction = d => r[t].amount <= Total(r, d)
<1>1. PICK g : IsSum(g, Held(r, d), SUBSET Payments) /\ Total(r, d) = g[Payments]
  BY TotalIsSum
<1>2. \A s \in SUBSET Payments : g[s] \in Nat /\ \A t \in s : Held(r, d)[t] <= g[s]
  BY <1>1, HeldType, LedgerAssumption, SumBounds
<1>3. g[Payments] \in Nat /\ \A t \in Payments : Held(r, d)[t] <= g[Payments]
  BY <1>2
<1> QED BY <1>1, <1>3 DEF Held

\* It does not grow when reservations are dropped or shortened.
LEMMA TotalGrows ==
    ASSUME NEW r \in Reservations, NEW q \in Reservations, NEW d,
           \A t \in Payments : Held(q, d)[t] <= Held(r, d)[t]
    PROVE  Total(q, d) <= Total(r, d)
<1>1. PICK g : IsSum(g, Held(r, d), SUBSET Payments) /\ Total(r, d) = g[Payments]
  BY TotalIsSum
<1>2. PICK h : IsSum(h, Held(q, d), SUBSET Payments) /\ Total(q, d) = h[Payments]
  BY TotalIsSum
<1>3. Held(r, d) \in [Payments -> Nat] /\ Held(q, d) \in [Payments -> Nat]
  BY HeldType
<1>4. \A s \in SUBSET Payments : h[s] <= g[s]
  BY <1>1, <1>2, <1>3, LedgerAssumption, SumGrows
<1> QED BY <1>1, <1>2, <1>4

\* It changes by as much as the reservation of one payment.
LEMMA TotalChanges ==
    ASSUME NEW r \in Reservations, NEW q \in Reservations, NEW d, NEW t \in Payments,
           \A u \in Payments \ {t} : q[u] = r[u]
    PROVE  Total(q, d) = Total(r, d) - Held(r, d)[t] + Held(q, d)[t]
<1>1. PICK g : IsSum(g, Held(r, d), SUBSET Payments) /\ Total(r, d) = g[Payments]
  BY TotalIsSum
<1>2. PICK h : IsSum(h, Held(q, d), SUBSET Payments) /\ Total(q, d) = h[Payments]
  BY TotalIsSum
<1>3. Held(r, d) \in [Payments -> Nat] /\ Held(q, d) \in [Payments -> Nat]
  BY HeldType
<1>4. \A u \in Payments \ {t} : Held(q, d)[u] = Held(r, d)[u]
  BY DEF Held
<1>5. \A s \in SUBSET Payments :
         h[s] = IF t \in s THEN g[s] - Held(r, d)[t] + Held(q, d)[t] ELSE g[s]
  <2>1. PICK f, e : f = Held(r, d) /\ e = Held(q, d)
    OBVIOUS
  <2>2. /\ f \in [Payments -> Nat] /\ e \in [Payments -> Nat]
        /\ IsSum(g, f, SUBSET Payments) /\ IsSum(h, e, SUBSET Payments)
        /\ \A u \in Payments : u # t => e[u] = f[u]
    BY <1>1, <1>2, <1>3, <1>4, <2>1
  <2>3. IsFiniteSet(Payments)
    BY LedgerAssumption
  <2>4. \A s \in SUBSET Payments : h[s] = IF t \in s THEN g[s] - f[t] + e[t] ELSE g[s]
    BY <2>2, <2>3, SumChanges
  <2> QED BY <2>1, <2>4
<1> QED BY <1>1, <1>2, <1>5

-----------------------------------------------------------------------------
(* Reservations that are covered. *)

\* A payment that has reserved nothing yet, or has ended, holds nothing.
NothingHeld ==
    \A t \in Payments : stage[t] \in {"free", "closed"} => reservation[t] = NoReservation

\* Every step keeps it so.
LEMMA NothingHeldStep ==
    ASSUME TypeOK, NothingHeld, [Next]_vars
    PROVE  NothingHeld'
<1>1. ASSUME NEW t \in Payments, PaymentStep(t) PROVE NothingHeld'
  <2>1. ASSUME NEW d \in Directions, NEW a \in 1..2*MaxTrust, Reserve(t, d, a)
        PROVE NothingHeld'
    BY <2>1 DEF Reserve, NothingHeld, TypeOK
  <2>2. ASSUME NEW a \in 1..2*MaxTrust, Shorten(t, a) PROVE NothingHeld'
    BY <2>2 DEF Shorten, NothingHeld, TypeOK
  <2>3. CASE SaveReceipt(t) \/ Vote(t)
    BY <2>3 DEF SaveReceipt, Vote, NothingHeld, TypeOK
  <2>4. CASE RollBack(t)
    BY <2>4 DEF RollBack, NothingHeld, TypeOK
  <2>5. CASE Commit(t)
    BY <2>5 DEF Commit, NothingHeld, TypeOK
  <2> QED BY <1>1, <2>1, <2>2, <2>3, <2>4, <2>5 DEF PaymentStep
<1>2. CASE Crash
  BY <1>2 DEF Crash, NothingHeld, TypeOK
<1>3. CASE UNCHANGED <<stage, reservation>>
  BY <1>3 DEF NothingHeld
<1>4. TrustStep => UNCHANGED <<stage, reservation>>
  BY DEF TrustStep, SetOutgoing, SetIncoming, Change, StopWaiting, OutgoingAccepted,
         OutgoingRefused, Audit, KeysShared
<1>5. Restart \/ UNCHANGED vars => UNCHANGED <<stage, reservation>>
  BY DEF Restart, vars
<1> QED BY <1>1, <1>2, <1>3, <1>4, <1>5 DEF Next

\* It is what totalReserved adds up, before and after a step.
LEMMA ReservedIsTotal ==
    /\ \A d : Reserved(Payments, d) = Total(reservation, d)
    /\ \A d : Reserved(Payments, d)' = Total(reservation', d)
<1>1. \A d : Reserved(Payments, d) = Total(reservation, d)
  BY DEF Reserved, Total
<1>2. \A d : Reserved(Payments, d)' = Total(reservation', d)
  BY DEF Reserved, Total, MapThenSumSet, MapThenFoldSet
<1> QED BY <1>1, <1>2

\* A line never announces less than nothing, and no less when the trust is raised.
LEMMA AvailableBounds ==
    ASSUME NEW l \in Line, NEW d \in Directions
    PROVE  /\ Available(l, d) \in Nat
           /\ \A k \in Line : k.balance = l.balance /\ k.incoming >= l.incoming
                            /\ k.outgoing >= l.outgoing
                => Available(k, d) >= Available(l, d)
BY DEF Line, Directions, Available, AvailableOutgoing, AvailableIncoming

(***************************************************************************)
(* useReservation throws for no payment that is covered: neither the other *)
(* payments of the line nor its trust amounts make a commit fail.          *)
(***************************************************************************)
THEOREM CoveredFit == Spec => []CoveredReservationsFit
<1>1. TypeOK => CoveredReservationsFit
  <2>1. SUFFICES ASSUME TypeOK, Covered, NEW t \in Payments, reservation[t].amount > 0
                 PROVE  Fits(t)
    BY DEF CoveredReservationsFit
  <2>2. PICK d, amount : d = reservation[t].direction /\ amount = reservation[t].amount
    OBVIOUS
  <2>3. d \in Directions /\ amount \in Nat \ {0} /\ line \in Line /\ reservation \in Reservations
    BY <2>1, <2>2 DEF TypeOK, Reservations
  <2>4. amount <= Total(reservation, d) /\ Total(reservation, d) \in Nat
    BY <2>2, <2>3, TotalBounds
  <2>5. Total(reservation, d) <= Available(line, d)
    BY <2>1, <2>3, ReservedIsTotal DEF Covered
  <2>6. Available(line, d) \in Nat
    BY <2>3, AvailableBounds
  <2>7. amount <= Available(line, d)
    BY <2>3, <2>4, <2>5, <2>6
  <2> QED BY <2>2, <2>3, <2>7, AvailableIsAccepted DEF Fits
<1> QED BY <1>1, TypeCorrect, PTL

-----------------------------------------------------------------------------
(* Payments stay covered. *)

\* Where no more is held and no less is available, payments stay covered.
LEMMA CoveredByLess ==
    ASSUME TypeOK, TypeOK', Covered,
           \A d \in Directions : \A t \in Payments : Held(reservation', d)[t] <= Held(reservation, d)[t],
           \A d \in Directions : Available(line', d) >= Available(line, d)
    PROVE  Covered'
<1>1. reservation \in Reservations /\ reservation' \in Reservations /\ line \in Line /\ line' \in Line
  BY DEF TypeOK, Reservations
<1>2. ASSUME NEW d \in Directions PROVE Reserved(Payments, d)' <= Available(line', d)
  <2>1. Total(reservation', d) <= Total(reservation, d)
    BY <1>1, TotalGrows
  <2>2. Total(reservation, d) \in Nat /\ Total(reservation', d) \in Nat
    BY <1>1, TotalBounds
  <2>3. Total(reservation, d) <= Available(line, d)
    BY ReservedIsTotal DEF Covered
  <2>4. Available(line, d) \in Nat /\ Available(line', d) \in Nat
    BY <1>1, AvailableBounds
  <2> QED BY <2>1, <2>2, <2>3, <2>4, ReservedIsTotal
<1> QED BY <1>2 DEF Covered

\* A reservation is granted out of what is left.
LEMMA ReserveCovered ==
    ASSUME TypeOK, TypeOK', Covered, NothingHeld,
           NEW t \in Payments, NEW d \in Directions, NEW a \in 1..2*MaxTrust, Reserve(t, d, a)
    PROVE  Covered'
<1>1. reservation \in Reservations /\ reservation' \in Reservations /\ line' = line /\ a \in Nat
      /\ line \in Line
  BY LedgerAssumption DEF TypeOK, Reservations, Reserve
<1>2. /\ \A u \in Payments \ {t} : reservation'[u] = reservation[u]
      /\ reservation'[t] = [direction |-> d, amount |-> a]
      /\ reservation[t] = NoReservation
  BY DEF Reserve, NothingHeld, TypeOK
<1>3. ASSUME NEW e \in Directions PROVE Reserved(Payments, e)' <= Available(line', e)
  <2>1. Total(reservation', e) = Total(reservation, e) - Held(reservation, e)[t] + Held(reservation', e)[t]
    BY <1>1, <1>2, TotalChanges
  <2>2. /\ Held(reservation, e)[t] = 0
        /\ Held(reservation', e)[t] = IF e = d THEN a ELSE 0
    BY <1>2 DEF Held, NoReservation
  <2>3. Total(reservation, e) \in Nat /\ Available(line, e) \in Nat
    BY <1>1, TotalBounds, AvailableBounds
  <2>4. Total(reservation, e) <= Available(line, e)
    BY ReservedIsTotal DEF Covered
  <2>5. e = d => a <= Available(line, e) - Total(reservation, e)
    BY ReservedIsTotal DEF Reserve, Grants
  <2> QED BY <1>1, <2>1, <2>2, <2>3, <2>4, <2>5, ReservedIsTotal
<1> QED BY <1>3 DEF Covered

\* A commit takes as much from what is available as from what is reserved.
LEMMA CommitCovered ==
    ASSUME TypeOK, TypeOK', Covered, NEW t \in Payments, Commit(t)
    PROVE  Covered'
<1>1. PICK d, a : d = reservation[t].direction /\ a = reservation[t].amount
  OBVIOUS
<1>2. /\ reservation \in Reservations /\ reservation' \in Reservations
      /\ line' = Moves(line, d, a) /\ a \in Nat /\ d \in Directions
      /\ line \in Line /\ line' \in Line
  BY <1>1 DEF TypeOK, Reservations, Commit
<1>3. /\ \A u \in Payments \ {t} : reservation'[u] = reservation[u]
      /\ reservation'[t] = NoReservation
  BY DEF Commit, TypeOK
<1>4. ASSUME NEW e \in Directions PROVE Reserved(Payments, e)' <= Available(line', e)
  <2>1. Total(reservation', e) = Total(reservation, e) - Held(reservation, e)[t] + Held(reservation', e)[t]
    BY <1>2, <1>3, TotalChanges
  <2>2. /\ Held(reservation, e)[t] = IF e = d THEN a ELSE 0
        /\ Held(reservation', e)[t] = 0
    BY <1>1, <1>3 DEF Held, NoReservation
  <2>3. Total(reservation, e) \in Nat /\ Total(reservation', e) \in Nat
        /\ Available(line, e) \in Nat /\ Available(line', e) \in Nat
    BY <1>2, TotalBounds, AvailableBounds
  <2>4. Total(reservation, e) <= Available(line, e)
    BY ReservedIsTotal DEF Covered
  <2>5. Available(line, e) - (IF e = d THEN a ELSE 0) <= Available(line', e)
    BY <1>2 DEF Moves, Line, Available, AvailableOutgoing, AvailableIncoming, Directions
  <2> QED BY <1>2, <2>1, <2>2, <2>3, <2>4, <2>5, ReservedIsTotal
<1> QED BY <1>4 DEF Covered

\* A restarted node has all reservations back, or is not running.
LEMMA RestartCovered ==
    ASSUME TypeOK, TypeOK', Restart
    PROVE  Covered'
<1>1. reservation' = reservation /\ reservation \in Reservations /\ line' \in Line
  BY DEF TypeOK, Reservations, Restart
<1>2. ASSUME NEW d \in Directions PROVE Reserved(Payments, d)' <= Available(line', d)
  <2>1. Total(reservation, d) \in Nat /\ Available(line', d) \in Nat
    BY <1>1, TotalBounds, AvailableBounds
  <2>2. CASE Total(reservation, d) = 0
    BY <1>1, <2>1, <2>2, ReservedIsTotal
  <2>3. CASE Total(reservation, d) > 0
    <3>1. state = "Active" /\ Total(reservation, d) <= Available(RestoredLine, d)
      BY <2>3, ReservedIsTotal DEF Restart, CanReserveAgain
    <3>2. line' = RestoredLine
      BY <3>1 DEF Restart
    <3> QED BY <1>1, <3>1, <3>2, ReservedIsTotal
  <2> QED BY <2>1, <2>2, <2>3
<1> QED BY <1>2 DEF Covered

(***************************************************************************)
(* Only a trust amount that is lowered uncovers a reservation: no order of *)
(* payments, shortenings, audits, key exchanges, crashes and restarts      *)
(* takes away what a payment has reserved.                                 *)
(***************************************************************************)
THEOREM StayCovered == Spec => PaymentsStayCovered
<1> DEFINE Kept == Covered /\ line'.incoming >= line.incoming /\ line'.outgoing >= line.outgoing
                   => Covered'
<1>1. Init => NothingHeld
  BY DEF Init, NothingHeld
<1>2. TypeOK /\ NothingHeld /\ [Next]_vars => NothingHeld'
  BY NothingHeldStep
<1>3. TypeOK /\ TypeOK' /\ NothingHeld /\ [Next]_vars => Kept
  <2>1. SUFFICES ASSUME TypeOK, TypeOK', NothingHeld, [Next]_vars, Covered,
                        line'.incoming >= line.incoming, line'.outgoing >= line.outgoing
                 PROVE  Covered'
    OBVIOUS
  <2>2. line \in Line /\ line' \in Line /\ reservation \in Reservations
        /\ reservation' \in Reservations
    BY <2>1 DEF TypeOK, Reservations
  <2>3. line'.balance = line.balance => \A d \in Directions : Available(line', d) >= Available(line, d)
    BY <2>1, <2>2, AvailableBounds
  <2>4. \A d \in Directions : \A t \in Payments : Held(reservation, d)[t] \in Nat
    BY <2>2, HeldType
  <2>5. ASSUME line'.balance = line.balance, UNCHANGED reservation PROVE Covered'
    <3>1. \A d \in Directions : \A t \in Payments : Held(reservation', d)[t] <= Held(reservation, d)[t]
      BY <2>4, <2>5
    <3> QED BY <2>1, <2>3, <2>5, <3>1, CoveredByLess
  <2>6. ASSUME NEW t \in Payments, PaymentStep(t) PROVE Covered'
    <3>1. ASSUME NEW d \in Directions, NEW a \in 1..2*MaxTrust, Reserve(t, d, a) PROVE Covered'
      BY <2>1, <3>1, ReserveCovered
    <3>2. ASSUME NEW a \in 1..2*MaxTrust, Shorten(t, a) PROVE Covered'
      <4>1. \A d \in Directions : \A u \in Payments : Held(reservation', d)[u] <= Held(reservation, d)[u]
        <5>1. a \in Nat /\ a < reservation[t].amount
              /\ reservation' = [reservation EXCEPT ![t].amount = a]
          BY <3>2, LedgerAssumption DEF Shorten
        <5>2. \A u \in Payments : /\ reservation'[u].direction = reservation[u].direction
                                   /\ reservation'[u].amount <= reservation[u].amount
          BY <2>2, <5>1 DEF Reservations
        <5> QED BY <5>2 DEF Held
      <4>2. line' = line
        BY <3>2 DEF Shorten
      <4> QED BY <2>1, <2>3, <4>1, <4>2, CoveredByLess
    <3>3. CASE SaveReceipt(t) \/ Vote(t)
      BY <2>5, <3>3 DEF SaveReceipt, Vote
    <3>4. CASE RollBack(t)
      <4>1. \A d \in Directions : \A u \in Payments : Held(reservation', d)[u] <= Held(reservation, d)[u]
        <5>1. reservation' = [reservation EXCEPT ![t] = NoReservation]
          BY <3>4 DEF RollBack
        <5>2. \A d \in Directions : \A u \in Payments \ {t} : Held(reservation', d)[u] = Held(reservation, d)[u]
          BY <5>1, <2>2 DEF Held, Reservations
        <5>3. \A d \in Directions : Held(reservation', d)[t] = 0
          BY <5>1, <2>2 DEF Held, Reservations, NoReservation
        <5> QED BY <2>4, <5>2, <5>3
      <4>2. line' = line
        BY <3>4 DEF RollBack
      <4> QED BY <2>1, <2>3, <4>1, <4>2, CoveredByLess
    <3>5. CASE Commit(t)
      BY <2>1, <3>5, CommitCovered
    <3> QED BY <2>6, <3>1, <3>2, <3>3, <3>4, <3>5 DEF PaymentStep
  <2>7. CASE TrustStep
    <3>1. UNCHANGED reservation
      BY <2>7 DEF TrustStep, SetOutgoing, SetIncoming, Change, StopWaiting, OutgoingAccepted,
             OutgoingRefused, Audit, KeysShared
    <3>2. ASSUME NEW a \in 0..MaxTrust, SetOutgoing(a) \/ SetIncoming(a)
          PROVE  line'.balance = line.balance
      BY <2>2, <3>2 DEF SetOutgoing, SetIncoming, Change, WithSide, Line
    <3>3. Audit => line'.balance = line.balance
      BY <2>2 DEF Audit, Line
    <3>4. line'.balance = line.balance
      BY <2>7, <3>2, <3>3 DEF TrustStep, StopWaiting, OutgoingAccepted, OutgoingRefused, KeysShared
    <3> QED BY <2>5, <3>1, <3>4
  <2>8. CASE Crash
    <3>1. \A d \in Directions : \A u \in Payments : Held(reservation', d)[u] <= Held(reservation, d)[u]
      <4>1. \A u \in Payments : reservation'[u] = reservation[u] \/ reservation'[u] = NoReservation
        BY <2>8 DEF Crash
      <4>2. ASSUME NEW d \in Directions, NEW u \in Payments
            PROVE  Held(reservation', d)[u] \in {Held(reservation, d)[u], 0}
        BY <4>1 DEF Held, NoReservation
      <4> QED BY <2>4, <4>2
    <3>2. line' = line
      BY <2>8 DEF Crash
    <3> QED BY <2>1, <2>3, <3>1, <3>2, CoveredByLess
  <2>9. CASE Restart
    BY <2>1, <2>9, RestartCovered
  <2>10. CASE UNCHANGED vars
    BY <2>5, <2>10 DEF vars
  <2> QED BY <2>1, <2>6, <2>7, <2>8, <2>9, <2>10 DEF Next
<1> QED BY <1>1, <1>2, <1>3, TypeCorrect, PTL DEF Spec, PaymentsStayCovered
=============================================================================
