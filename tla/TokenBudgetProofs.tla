-------------------------- MODULE TokenBudgetProofs --------------------------
(******************************************************************************)
(* Proofs about TokenBudget for any users, connections, limit and costs.      *)
(* The overshoot bound is not inductive: nothing in a counter's value says    *)
(* how many calls are still to be charged to it.  BudgetInv adds OvershootInv *)
(* (the room kept for the requests at risk), that no key is of a day to come, *)
(* and that no counter of such a day exists.  Neither does the state of a     *)
(* counter say when its TTL was set: NoResetWithinDay needs that an expiry    *)
(* always lies after the day of its key.                                      *)
(******************************************************************************)
EXTENDS TokenBudget, FiniteSetTheorems, TLAPS

LEMMA ProductIsNat ==
    ASSUME NEW a \in Nat, NEW b \in Nat
    PROVE  a * b \in Nat
  OBVIOUS

LEMMA TimeIsNat ==
    ASSUME BudgetAssumption, TypeOK
    PROVE  Time \in Nat /\ Time + DayTtl \in Nat \ {0}
  <1>1. today \in Nat /\ hour \in Nat /\ DayLength \in Nat \ {0}
    BY DEF BudgetAssumption, TypeOK, Days, Hours
  <1>2. today * DayLength \in Nat
    BY <1>1, ProductIsNat
  <1> QED
    BY <1>1, <1>2 DEF Time, DayTtl

\* The two ways the clock moves, seen from the day.
LEMMA TickMoves ==
    ASSUME Tick, TypeOK, BudgetAssumption
    PROVE  /\ UNCHANGED <<spent, ttl, phase, keyDay>>
           /\ today' \in Days
           /\ hour' \in Hours
           /\ today' \in {today, today + 1}
  BY DEF Tick, HourPasses, Midnight, TypeOK, Days, Hours, BudgetAssumption

\* TypeOK is an invariant.
THEOREM BudgetTypeCorrect == Spec => []TypeOK
  <1> USE BudgetAssumption DEF BudgetAssumption, TypeOK, Days, Phases
  <1>1. Init => TypeOK
    BY DEF Init, Hours
  <1>2. TypeOK /\ [Next]_budgetVars => TypeOK'
    <2> SUFFICES ASSUME TypeOK, [Next]_budgetVars PROVE TypeOK'
      OBVIOUS
    <2>1. ASSUME NEW c \in Conns, RequestStep(c) PROVE TypeOK'
      <3> USE DEF Move
      <3>1. CASE Check(c)
        BY <3>1 DEF Check
      <3>2. CASE Pass(c)
        BY <3>2 DEF Pass
      <3>3. CASE Refuse(c) \/ CheckFails(c) \/ Finish(c)
        BY <3>3 DEF Refuse, CheckFails, Finish
      <3>4. CASE Record(c)
        BY <3>4 DEF Record
      <3>5. ASSUME NEW t \in TokenCosts, IncrBy(c, t)
            PROVE  spent' \in [Users -> [Days -> Nat]]
        <4>1. /\ t \in Nat /\ UserOf[c] \in Users /\ keyDay[c] \in Days
              /\ spent[UserOf[c]] \in [Days -> Nat]
              /\ spent[UserOf[c]][keyDay[c]] + t \in Nat
          OBVIOUS
        <4> QED
          BY <3>5, <4>1 DEF IncrBy
      <3>6. ASSUME NEW t \in TokenCosts, Charge(c, t) PROVE TypeOK'
        BY <3>5, <3>6 DEF Charge
      <3>7. ASSUME NEW t \in TokenCosts, ChargeFails(c, t) PROVE TypeOK'
        BY <3>5, <3>7 DEF ChargeFails
      <3>8. CASE SetTtl(c) \/ SetTtlFails(c)
        <4>1. Time + DayTtl \in Nat
          BY TimeIsNat
        <4>2. /\ UserOf[c] \in Users /\ keyDay[c] \in Days
              /\ ttl[UserOf[c]] \in [Days -> Nat]
          OBVIOUS
        <4>3. ASSUME NEW t \in Nat, NEW u \in Users, NEW d \in Days
              PROVE  [ttl EXCEPT ![u][d] = t] \in [Users -> [Days -> Nat]]
          OBVIOUS
        <4>4. ttl' = ttl \/ ttl' = [ttl EXCEPT ![UserOf[c]][keyDay[c]] = Time + DayTtl]
          BY <3>8 DEF SetTtl, SetTtlFails, Expire
        <4>5. [ttl EXCEPT ![UserOf[c]][keyDay[c]] = Time + DayTtl]
                  \in [Users -> [Days -> Nat]]
          BY ONLY <4>1, <4>2, <4>3
        <4>6. ttl' \in [Users -> [Days -> Nat]]
          BY <4>4, <4>5
        <4> QED
          BY <3>8, <4>6 DEF SetTtl, SetTtlFails
      <3> QED
        BY <2>1, <3>1, <3>2, <3>3, <3>4, <3>6, <3>7, <3>8 DEF RequestStep
    <2>2. CASE Tick
      BY <2>2, TickMoves
    <2>3. ASSUME NEW u \in Users, NEW d \in Days, Lapse(u, d) PROVE TypeOK'
      BY <2>3 DEF Lapse
    <2>4. CASE UNCHANGED budgetVars
      BY <2>4 DEF budgetVars
    <2> QED
      BY <2>1, <2>2, <2>3, <2>4 DEF Next
  <1> QED
    BY <1>1, <1>2, PTL DEF Spec

----------------------------------------------------------------------------
(* The overshoot bound *)

\* OvershootInv for one counter.
Room(u, d) ==
    spent[u][d] >= TokenBudgetDaily =>
        spent[u][d] + MaxTokens * Cardinality(AtRisk(u, d))
            <= (TokenBudgetDaily - 1) + MaxTokens * Cardinality(ConnsOf(u))

KeysAreOfThePast == \A c \in Conns : keyDay[c] <= today

FutureIsUnspent == \A u \in Users, d \in Days : d > today => spent[u][d] = 0

BudgetInv ==
    /\ TypeOK
    /\ KeysAreOfThePast
    /\ FutureIsUnspent
    /\ OvershootInv

LEMMA RoomForAll ==
    OvershootInv <=> (Limited => \A u \in Users, d \in Days : Room(u, d))
  BY DEF OvershootInv, Room

LEMMA MulMonotone ==
    ASSUME NEW m \in Nat, NEW a \in Nat, NEW b \in Nat, a <= b
    PROVE  m * a <= m * b /\ m * a \in Nat /\ m * b \in Nat
  OBVIOUS

LEMMA MulPredecessor ==
    ASSUME NEW m \in Nat, NEW a \in Nat, NEW b \in Nat, a < b
    PROVE  m * a + m <= m * b /\ m * a \in Nat /\ m * b \in Nat
  <1>1. PICK k \in Nat : b = a + 1 + k
    <2>1. b - a - 1 \in Nat /\ b = a + 1 + (b - a - 1)
      OBVIOUS
    <2> QED
      BY <2>1
  <1>2. m * b = m * a + m + m * k /\ m * k \in Nat /\ m * a \in Nat
    BY <1>1
  <1> QED
    BY <1>2

LEMMA AtRiskFinite ==
    ASSUME BudgetAssumption, NEW u, NEW d
    PROVE  /\ AtRisk(u, d) \subseteq ConnsOf(u)
           /\ IsFiniteSet(AtRisk(u, d))
           /\ IsFiniteSet(ConnsOf(u))
           /\ Cardinality(AtRisk(u, d)) \in Nat
           /\ Cardinality(ConnsOf(u)) \in Nat
           /\ Cardinality(AtRisk(u, d)) <= Cardinality(ConnsOf(u))
  <1>1. AtRisk(u, d) \subseteq ConnsOf(u)
    BY DEF AtRisk
  <1>2. ConnsOf(u) \in SUBSET Conns
    BY DEF ConnsOf
  <1>3. IsFiniteSet(ConnsOf(u))
    BY <1>2, FS_Subset DEF BudgetAssumption
  <1> QED
    BY <1>1, <1>3, FS_Subset, FS_CardinalityType

\* A counter that is not touched keeps its room if nobody new is at risk.
LEMMA RoomKept ==
    ASSUME BudgetAssumption, TypeOK,
           NEW u \in Users, NEW d \in Days,
           Room(u, d),
           spent'[u][d] = spent[u][d],
           spent[u][d] >= TokenBudgetDaily => AtRisk(u, d)' \subseteq AtRisk(u, d)
    PROVE  Room(u, d)'
  <1> SUFFICES ASSUME spent'[u][d] >= TokenBudgetDaily
               PROVE  spent'[u][d] + MaxTokens * Cardinality(AtRisk(u, d)')
                        <= (TokenBudgetDaily - 1) + MaxTokens * Cardinality(ConnsOf(u))
    BY DEF Room, ConnsOf
  <1>1. /\ spent[u][d] \in Nat /\ MaxTokens \in Nat /\ TokenBudgetDaily \in Nat
    BY DEF TypeOK, BudgetAssumption
  <1>2. spent[u][d] + MaxTokens * Cardinality(AtRisk(u, d))
          <= (TokenBudgetDaily - 1) + MaxTokens * Cardinality(ConnsOf(u))
    BY DEF Room
  <1>3. /\ Cardinality(AtRisk(u, d)') \in Nat
        /\ Cardinality(AtRisk(u, d)') <= Cardinality(AtRisk(u, d))
    BY AtRiskFinite, FS_Subset, FS_CardinalityType
  <1>4. /\ MaxTokens * Cardinality(AtRisk(u, d)') <= MaxTokens * Cardinality(AtRisk(u, d))
        /\ MaxTokens * Cardinality(AtRisk(u, d)') \in Nat
        /\ MaxTokens * Cardinality(AtRisk(u, d)) \in Nat
        /\ MaxTokens * Cardinality(ConnsOf(u)) \in Nat
    BY <1>1, <1>3, AtRiskFinite, MulMonotone
  <1> QED
    BY <1>1, <1>2, <1>4

\* A charge costs at most MaxTokens and takes its request out of those at risk.
LEMMA RoomCharged ==
    ASSUME BudgetAssumption, TypeOK,
           NEW u \in Users, NEW d \in Days, NEW c \in AtRisk(u, d),
           NEW t \in 1..MaxTokens,
           Room(u, d),
           spent'[u][d] = spent[u][d] + t,
           AtRisk(u, d)' \subseteq AtRisk(u, d) \ {c}
    PROVE  Room(u, d)'
  <1> DEFINE n == Cardinality(ConnsOf(u))
             a == Cardinality(AtRisk(u, d))
             b == Cardinality(AtRisk(u, d)')
  <1> SUFFICES ASSUME spent'[u][d] >= TokenBudgetDaily
               PROVE  spent'[u][d] + MaxTokens * b
                        <= (TokenBudgetDaily - 1) + MaxTokens * n
    BY DEF Room, ConnsOf
  <1>1. /\ spent[u][d] \in Nat /\ MaxTokens \in Nat /\ TokenBudgetDaily \in Nat
        /\ t \in Nat /\ t <= MaxTokens
    BY DEF TypeOK, BudgetAssumption
  <1>2. a \in Nat /\ n \in Nat /\ a <= n /\ IsFiniteSet(AtRisk(u, d))
    BY AtRiskFinite
  <1>3. Cardinality(AtRisk(u, d) \ {c}) = a - 1 /\ IsFiniteSet(AtRisk(u, d) \ {c})
    BY <1>2, FS_RemoveElement
  <1>4. b \in Nat /\ b < a
    <2>1. b \in Nat /\ b <= Cardinality(AtRisk(u, d) \ {c})
      BY <1>3, FS_Subset, FS_CardinalityType
    <2> QED
      BY <1>2, <1>3, <2>1
  <1> HIDE DEF n, a, b
  <1>5. /\ MaxTokens * b + MaxTokens <= MaxTokens * a
        /\ MaxTokens * a <= MaxTokens * n
        /\ MaxTokens * b \in Nat /\ MaxTokens * a \in Nat /\ MaxTokens * n \in Nat
    BY <1>1, <1>2, <1>4, MulPredecessor, MulMonotone
  <1>6. CASE spent[u][d] >= TokenBudgetDaily
    <2>1. spent[u][d] + MaxTokens * a <= (TokenBudgetDaily - 1) + MaxTokens * n
      BY <1>6 DEF Room, n, a
    <2> QED
      BY <1>1, <1>5, <2>1
  <1>7. CASE spent[u][d] < TokenBudgetDaily
    BY <1>1, <1>5, <1>7
  <1> QED
    BY <1>1, <1>6, <1>7

LEMMA RoomNext ==
    ASSUME BudgetAssumption, BudgetInv, Limited, [Next]_budgetVars,
           NEW u \in Users, NEW d \in Days
    PROVE  Room(u, d)'
  <1>0. /\ TypeOK /\ KeysAreOfThePast /\ FutureIsUnspent
        /\ Room(u, d)
        /\ today \in Int /\ d \in Int /\ spent[u][d] \in Nat
        /\ spent[u][d] >= TokenBudgetDaily => d <= today
    <2>1. TypeOK /\ KeysAreOfThePast /\ FutureIsUnspent /\ Room(u, d)
      BY RoomForAll DEF BudgetInv
    <2>2. today \in Int /\ d \in Int /\ spent[u][d] \in Nat
      BY <2>1 DEF TypeOK, Days, BudgetAssumption
    <2>3. d > today => spent[u][d] = 0
      BY <2>1 DEF FutureIsUnspent
    <2>4. TokenBudgetDaily \in Nat /\ TokenBudgetDaily > 0
      BY DEF Limited, BudgetAssumption
    <2> QED
      BY <2>1, <2>2, <2>3, <2>4
  <1>a. \A c \in Conns : keyDay[c] \in Int /\ keyDay[c] <= today
    BY <1>0 DEF TypeOK, Days, BudgetAssumption, KeysAreOfThePast
  <1>1. ASSUME NEW c \in Conns, RequestStep(c) PROVE Room(u, d)'
    <2> USE DEF Move
    <2>1. CASE Check(c)
      <3>1. spent[u][d] >= TokenBudgetDaily => AtRisk(u, d)' \subseteq AtRisk(u, d)
        BY <1>0, <2>1 DEF Check, AtRisk, ConnsOf, TypeOK
      <3> QED
        BY <1>0, <2>1, <3>1, RoomKept DEF Check
    <2>2. CASE Pass(c)
      <3>1. spent[u][d] >= TokenBudgetDaily => AtRisk(u, d)' \subseteq AtRisk(u, d)
        <4>1. SUFFICES ASSUME spent[u][d] >= TokenBudgetDaily,
                              NEW e \in AtRisk(u, d)'
                       PROVE  e \in AtRisk(u, d)
          OBVIOUS
        <4>2. CASE e # c
          BY <2>2, <4>1, <4>2 DEF Pass, AtRisk, ConnsOf, TypeOK
        <4>3. CASE e = c
          <5>1. UserOf[c] = u /\ today <= d /\ phase[c] = "checking"
            BY <2>2, <4>1, <4>3, <1>0 DEF Pass, AtRisk, ConnsOf, TypeOK
          <5>2. keyDay[c] # d
            BY <2>2, <4>1, <5>1, <1>0 DEF Pass, WithinBudget, Used, BudgetAssumption
          <5>3. keyDay[c] < d
            BY <1>a, <1>0, <5>1, <5>2
          <5> QED
            BY <4>3, <5>1, <5>3 DEF AtRisk, ConnsOf
        <4> QED
          BY <4>2, <4>3
      <3> QED
        BY <1>0, <2>2, <3>1, RoomKept DEF Pass
    <2>3. CASE Refuse(c) \/ CheckFails(c) \/ Finish(c)
      <3>1. AtRisk(u, d)' \subseteq AtRisk(u, d)
        BY <1>0, <2>3 DEF Refuse, CheckFails, Finish, AtRisk, ConnsOf, TypeOK
      <3> QED
        BY <1>0, <2>3, <3>1, RoomKept DEF Refuse, CheckFails, Finish
    <2>4. CASE Record(c)
      <3>1. AtRisk(u, d)' \subseteq AtRisk(u, d)
        BY <1>0, <2>4 DEF Record, AtRisk, ConnsOf, TypeOK
      <3> QED
        BY <1>0, <2>4, <3>1, RoomKept DEF Record
    <2>5. ASSUME NEW t \in TokenCosts, IncrBy(c, t),
                 phase[c] = "charging", phase'[c] # "charging", phase'[c] # "in",
                 phase'[c] # "checking",
                 \A e \in Conns : e # c => phase'[e] = phase[e],
                 UNCHANGED <<today, keyDay>>
          PROVE  Room(u, d)'
      <3>1. AtRisk(u, d)' \subseteq AtRisk(u, d) \ {c}
        BY <2>5 DEF AtRisk, ConnsOf
      <3>2. CASE UserOf[c] = u /\ keyDay[c] = d
        <4>1. c \in AtRisk(u, d)
          BY <2>5, <3>2 DEF AtRisk, ConnsOf
        <4>2. t \in 1..MaxTokens
          BY DEF BudgetAssumption
        <4>3. spent'[u][d] = spent[u][d] + t
          BY <1>0, <2>5, <3>2 DEF IncrBy, TypeOK
        <4> QED
          BY <1>0, <3>1, <4>1, <4>2, <4>3, RoomCharged
      <3>3. CASE ~(UserOf[c] = u /\ keyDay[c] = d)
        <4>1. spent'[u][d] = spent[u][d]
          BY <1>0, <2>5, <3>3 DEF IncrBy, TypeOK
        <4> QED
          BY <1>0, <3>1, <4>1, RoomKept
      <3> QED
        BY <3>2, <3>3
    <2>6. ASSUME NEW t \in TokenCosts, Charge(c, t) PROVE Room(u, d)'
      BY <1>0, <2>5, <2>6 DEF Charge, TypeOK
    <2>7. ASSUME NEW t \in TokenCosts, ChargeFails(c, t) PROVE Room(u, d)'
      <3>1. CASE IncrBy(c, t)
        BY <1>0, <2>5, <2>7, <3>1 DEF ChargeFails, TypeOK
      <3>2. CASE UNCHANGED spent
        <4>1. AtRisk(u, d)' \subseteq AtRisk(u, d)
          BY <1>0, <2>7 DEF ChargeFails, AtRisk, ConnsOf, TypeOK
        <4> QED
          BY <1>0, <3>2, <4>1, RoomKept
      <3> QED
        BY <2>7, <3>1, <3>2 DEF ChargeFails
    <2>8. CASE SetTtl(c) \/ SetTtlFails(c)
      <3>1. AtRisk(u, d)' \subseteq AtRisk(u, d)
        BY <1>0, <2>8 DEF SetTtl, SetTtlFails, AtRisk, ConnsOf, TypeOK
      <3> QED
        BY <1>0, <2>8, <3>1, RoomKept DEF SetTtl, SetTtlFails
    <2> QED
      BY <1>1, <2>1, <2>2, <2>3, <2>4, <2>6, <2>7, <2>8 DEF RequestStep
  <1>2. CASE Tick
    <2>1. /\ UNCHANGED <<spent, phase, keyDay>>
          /\ today' \in {today, today + 1}
      BY <1>0, <1>2, TickMoves
    <2>2. AtRisk(u, d)' \subseteq AtRisk(u, d)
      BY <1>0, <2>1 DEF AtRisk, ConnsOf
    <2> QED
      BY <1>0, <2>1, <2>2, RoomKept
  <1>3. ASSUME NEW v \in Users, NEW e \in Days, Lapse(v, e) PROVE Room(u, d)'
    <2>1. AtRisk(u, d)' = AtRisk(u, d)
      BY <1>3 DEF Lapse, AtRisk, ConnsOf
    <2>2. CASE u = v /\ d = e
      <3>1. spent'[u][d] = 0
        BY <1>0, <1>3, <2>2 DEF Lapse, TypeOK
      <3> QED
        BY <3>1 DEF Room, Limited, BudgetAssumption
    <2>3. CASE ~(u = v /\ d = e)
      <3>1. spent'[u][d] = spent[u][d]
        BY <1>0, <1>3, <2>3 DEF Lapse, TypeOK
      <3> QED
        BY <1>0, <2>1, <3>1, RoomKept
    <2> QED
      BY <2>2, <2>3
  <1>4. CASE UNCHANGED budgetVars
    <2>1. AtRisk(u, d)' = AtRisk(u, d)
      BY <1>4 DEF budgetVars, AtRisk, ConnsOf
    <2> QED
      BY <1>0, <1>4, <2>1, RoomKept DEF budgetVars
  <1> QED
    BY <1>1, <1>2, <1>3, <1>4 DEF Next

\* What a request does to the counters, nothing or one increment, and to its key.
LEMMA RequestSpends ==
    ASSUME NEW c \in Conns, RequestStep(c)
    PROVE  /\ today' = today
           /\ UNCHANGED spent \/ \E t \in TokenCosts : IncrBy(c, t)
           /\ UNCHANGED keyDay \/ keyDay' = [keyDay EXCEPT ![c] = today]
  BY DEF RequestStep, Check, Pass, Refuse, CheckFails, Finish,
         Record, Charge, ChargeFails, SetTtl, SetTtlFails

LEMMA BudgetInvariant == Spec => []BudgetInv
  <1> USE BudgetAssumption
  <1>1. Init => KeysAreOfThePast /\ FutureIsUnspent /\ OvershootInv
    BY DEF Init, KeysAreOfThePast, FutureIsUnspent, OvershootInv, Limited,
           BudgetAssumption, Days
  <1>2. BudgetInv /\ [Next]_budgetVars => KeysAreOfThePast'
    <2> SUFFICES ASSUME TypeOK, KeysAreOfThePast, [Next]_budgetVars
                 PROVE  KeysAreOfThePast'
      BY DEF BudgetInv
    <2> USE DEF KeysAreOfThePast, TypeOK, Days, BudgetAssumption
    <2>1. ASSUME NEW c \in Conns, RequestStep(c) PROVE KeysAreOfThePast'
      <3>1. /\ today' = today
            /\ UNCHANGED keyDay \/ keyDay' = [keyDay EXCEPT ![c] = today]
        BY <2>1, RequestSpends
      <3>2. ASSUME NEW e \in Conns PROVE keyDay'[e] <= today'
        <4>1. keyDay'[e] \in {keyDay[e], today}
          BY ONLY <3>1, TypeOK DEF TypeOK
        <4>2. keyDay[e] <= today /\ today <= today
          OBVIOUS
        <4> QED
          BY ONLY <3>1, <4>1, <4>2
      <3> QED
        BY <3>2
    <2>2. CASE Tick
      <3>1. keyDay' = keyDay /\ today' \in {today, today + 1}
        BY <2>2, TickMoves
      <3>2. /\ today \in Int
            /\ \A c \in Conns : keyDay[c] \in Int /\ keyDay[c] <= today
        OBVIOUS
      <3>3. ASSUME NEW c \in Conns PROVE keyDay'[c] <= today'
        <4>1. keyDay[c] \in Int /\ keyDay[c] <= today /\ today \in Int
          BY <3>2
        <4>2. keyDay'[c] = keyDay[c] /\ (today' = today \/ today' = today + 1)
          BY <3>1
        <4> QED
          BY ONLY <4>1, <4>2
      <3> QED
        BY <3>3
    <2>3. ASSUME NEW u \in Users, NEW d \in Days, Lapse(u, d)
          PROVE  KeysAreOfThePast'
      BY <2>3 DEF Lapse
    <2>4. CASE UNCHANGED budgetVars
      BY <2>4 DEF budgetVars
    <2> QED
      BY <2>1, <2>2, <2>3, <2>4 DEF Next
  <1>3. BudgetInv /\ [Next]_budgetVars => FutureIsUnspent'
    <2> SUFFICES ASSUME TypeOK, KeysAreOfThePast, FutureIsUnspent, [Next]_budgetVars,
                        NEW v \in Users, NEW e \in Days, e > today'
                 PROVE  spent'[v][e] = 0
      BY DEF BudgetInv, FutureIsUnspent
    <2>0. /\ today \in Int /\ e \in Int
          /\ \A c \in Conns : keyDay[c] \in Int /\ keyDay[c] <= today
          /\ e > today => spent[v][e] = 0
      BY DEF TypeOK, Days, BudgetAssumption, KeysAreOfThePast, FutureIsUnspent
    <2>1. ASSUME NEW c \in Conns, RequestStep(c) PROVE spent'[v][e] = 0
      <3>1. today' = today
        BY <2>1, RequestSpends
      <3>2. \/ UNCHANGED spent
            \/ \E t \in TokenCosts : IncrBy(c, t)
        BY <2>1, RequestSpends
      <3>3. keyDay[c] # e
        BY <2>0, <3>1
      <3> QED
        BY <2>0, <3>1, <3>2, <3>3 DEF IncrBy, TypeOK
    <2>2. CASE Tick
      BY <2>0, <2>2, TickMoves
    <2>3. ASSUME NEW u \in Users, NEW d \in Days, Lapse(u, d)
          PROVE  spent'[v][e] = 0
      BY <2>0, <2>3 DEF Lapse, TypeOK
    <2>4. CASE UNCHANGED budgetVars
      BY <2>0, <2>4 DEF budgetVars
    <2> QED
      BY <2>1, <2>2, <2>3, <2>4 DEF Next
  <1>4. BudgetInv /\ [Next]_budgetVars => OvershootInv'
    <2>1. ASSUME BudgetInv, [Next]_budgetVars, Limited, NEW u \in Users, NEW d \in Days
          PROVE  Room(u, d)'
      BY <2>1, RoomNext
    <2> QED
      BY <2>1 DEF OvershootInv, Room, Limited, Days, ConnsOf
  <1>5. TypeOK /\ KeysAreOfThePast /\ FutureIsUnspent /\ OvershootInv <=> BudgetInv
    BY DEF BudgetInv
  <1> QED
    BY <1>1, <1>2, <1>3, <1>4, <1>5, BudgetTypeCorrect, PTL DEF Spec

\* Once a counter has reached the limit, the room it has left covers every request
\* still at risk.
THEOREM BudgetRoomKept == Spec => []OvershootInv
  BY BudgetInvariant, PTL DEF BudgetInv

\* However many tabs a user opens and however their requests, midnight and Redis
\* failures interleave, a day's counter never exceeds the limit by more than one
\* LLM call per connection of that user.
THEOREM BudgetOvershootBounded == Spec => []OvershootBounded
  <1>1. BudgetInv => OvershootBounded
    <2> SUFFICES ASSUME BudgetInv, Limited, NEW u \in Users, NEW d \in Days
                 PROVE  spent[u][d] <= (TokenBudgetDaily - 1)
                                         + MaxTokens * Cardinality(ConnsOf(u))
      BY DEF OvershootBounded
    <2>1. /\ spent[u][d] \in Nat /\ MaxTokens \in Nat /\ TokenBudgetDaily \in Nat
      BY BudgetAssumption DEF BudgetInv, TypeOK, BudgetAssumption
    <2>2. Room(u, d)
      BY RoomForAll DEF BudgetInv
    <2>3. /\ MaxTokens * Cardinality(AtRisk(u, d)) \in Nat
          /\ MaxTokens * Cardinality(ConnsOf(u)) \in Nat
      BY <2>1, BudgetAssumption, AtRiskFinite, MulMonotone
    <2> QED
      BY <2>1, <2>2, <2>3 DEF Room
  <1> QED
    BY <1>1, BudgetInvariant, PTL

----------------------------------------------------------------------------
(* Expiry of the counters *)

\* The expiry of a key lies after its day.
ExpiresAfterItsDay ==
    \A u \in Users, d \in Days : ttl[u][d] # 0 => ttl[u][d] >= (d + 1) * DayLength

\* A TTL of a whole day, set on the day of the key or later, ends after that day.
LEMMA WholeDayReaches ==
    ASSUME NEW n \in Nat, NEW d \in Nat, NEW t \in Nat, NEW h \in Nat, d <= t
    PROVE  t * n + h + n >= (d + 1) * n
  <1>1. PICK k \in Nat : t = d + k
    <2>1. t - d \in Nat /\ t = d + (t - d)
      OBVIOUS
    <2> QED
      BY <2>1
  <1>2. d * n \in Nat /\ k * n \in Nat
    BY ProductIsNat
  <1>3. t * n = d * n + k * n /\ (d + 1) * n = d * n + n
    BY <1>1
  <1> QED
    BY <1>2, <1>3

\* Before the end of day t, no later day has begun.
LEMMA DayNotOver ==
    ASSUME NEW n \in Nat \ {0}, NEW d \in Nat, NEW t \in Nat, NEW h \in 0..(n - 1),
           t * n + h >= (d + 1) * n
    PROVE  d < t
  <1> SUFFICES ASSUME t <= d PROVE FALSE
    OBVIOUS
  <1>1. PICK k \in Nat : d = t + k
    <2>1. d - t \in Nat /\ d = t + (d - t)
      OBVIOUS
    <2> QED
      BY <2>1
  <1>2. t * n \in Nat /\ k * n \in Nat
    BY ProductIsNat
  <1>3. (d + 1) * n = t * n + k * n + n
    BY <1>1
  <1> QED
    BY <1>2, <1>3

LEMMA ExpiryInvariant == Spec => []ExpiresAfterItsDay
  <1> USE BudgetAssumption
  <1>1. Init => ExpiresAfterItsDay
    BY DEF Init, ExpiresAfterItsDay
  <1>2. /\ TypeOK /\ KeysAreOfThePast /\ ExpiresAfterItsDay
        /\ [Next]_budgetVars
        => ExpiresAfterItsDay'
    <2> SUFFICES ASSUME TypeOK, KeysAreOfThePast, ExpiresAfterItsDay, [Next]_budgetVars,
                        NEW v \in Users, NEW e \in Days, ttl'[v][e] # 0
                 PROVE  ttl'[v][e] >= (e + 1) * DayLength
      BY DEF ExpiresAfterItsDay
    <2>0. /\ ttl \in [Users -> [Days -> Nat]]
          /\ ttl[v][e] # 0 => ttl[v][e] >= (e + 1) * DayLength
      BY DEF TypeOK, ExpiresAfterItsDay
    <2>1. ASSUME NEW c \in Conns, RequestStep(c)
          PROVE  ttl'[v][e] >= (e + 1) * DayLength
      <3>1. UNCHANGED ttl \/ Expire(UserOf[c], keyDay[c])
        BY <2>1 DEF RequestStep, Check, Pass, Refuse, CheckFails, Finish,
                    Record, Charge, ChargeFails, SetTtl, SetTtlFails
      <3>2. CASE Expire(UserOf[c], keyDay[c]) /\ UserOf[c] = v /\ keyDay[c] = e
        <4>1. ttl'[v][e] = Time + DayTtl
          BY <2>0, <3>2 DEF Expire
        <4>2. /\ today \in Nat /\ hour \in Nat /\ e \in Nat /\ DayLength \in Nat
              /\ e <= today
          BY <3>2 DEF TypeOK, Days, Hours, BudgetAssumption, KeysAreOfThePast
        <4>3. today * DayLength + hour + DayLength >= (e + 1) * DayLength
          BY <4>2, WholeDayReaches
        <4> QED
          BY <4>1, <4>3 DEF Time, DayTtl
      <3>3. CASE Expire(UserOf[c], keyDay[c]) /\ ~(UserOf[c] = v /\ keyDay[c] = e)
        <4>1. ttl'[v][e] = ttl[v][e]
          BY <2>0, <3>3 DEF Expire
        <4> QED
          BY <2>0, <4>1
      <3> QED
        BY <2>0, <3>1, <3>2, <3>3
    <2>2. CASE Tick
      BY <2>0, <2>2 DEF Tick
    <2>3. ASSUME NEW u \in Users, NEW d \in Days, Lapse(u, d)
          PROVE  ttl'[v][e] >= (e + 1) * DayLength
      <3>1. ttl'[v][e] = ttl[v][e]
        BY <2>0, <2>3 DEF Lapse
      <3> QED
        BY <2>0, <3>1
    <2>4. CASE UNCHANGED budgetVars
      BY <2>0, <2>4 DEF budgetVars
    <2> QED
      BY <2>1, <2>2, <2>3, <2>4 DEF Next
  <1>3. BudgetInv => TypeOK /\ KeysAreOfThePast
    BY DEF BudgetInv
  <1> QED
    BY <1>1, <1>2, <1>3, BudgetInvariant, PTL DEF Spec

\* No step lowers a counter during its own day: EXPIRE gives a key 24 hours from an
\* hour of its day or a later one, so they cannot end before the day does.
THEOREM BudgetNoResetWithinDay == Spec => NoResetWithinDay
  <1> USE BudgetAssumption DEF BudgetAssumption, TypeOK, Days
  <1> DEFINE Kept == \A u \in Users : spent'[u][today] >= spent[u][today]
  <1>1. TypeOK /\ ExpiresAfterItsDay /\ [Next]_budgetVars => [Kept]_budgetVars
    <2> SUFFICES ASSUME TypeOK, ExpiresAfterItsDay, Next, NEW u \in Users
                 PROVE  spent'[u][today] >= spent[u][today]
      OBVIOUS
    <2>0. spent[u][today] \in Nat
      OBVIOUS
    <2>1. ASSUME NEW c \in Conns, RequestStep(c)
          PROVE  spent'[u][today] >= spent[u][today]
      <3>1. ASSUME NEW t \in TokenCosts, IncrBy(c, t)
            PROVE  spent'[u][today] >= spent[u][today]
        <4>1. t \in Nat
          OBVIOUS
        <4>2. CASE UserOf[c] = u /\ keyDay[c] = today
          <5>1. spent'[u][today] = spent[u][today] + t
            BY <3>1, <4>2 DEF IncrBy
          <5> QED
            BY ONLY <2>0, <4>1, <5>1
        <4>3. CASE ~(UserOf[c] = u /\ keyDay[c] = today)
          <5>1. spent'[u][today] = spent[u][today]
            BY <3>1, <4>3 DEF IncrBy
          <5> QED
            BY ONLY <2>0, <5>1
        <4> QED
          BY <4>2, <4>3
      <3>2. CASE UNCHANGED spent
        BY <2>0, <3>2
      <3>3. UNCHANGED spent \/ \E t \in TokenCosts : IncrBy(c, t)
        BY <2>1, RequestSpends
      <3> QED
        BY <3>1, <3>2, <3>3
    <2>2. CASE Tick
      BY <2>0, <2>2 DEF Tick
    <2>3. ASSUME NEW v \in Users, NEW d \in Days, Lapse(v, d)
          PROVE  spent'[u][today] >= spent[u][today]
      <3>1. d < today
        <4>1. /\ ttl[v][d] \in Nat /\ d \in Nat /\ today \in Nat
              /\ ttl[v][d] >= (d + 1) * DayLength
              /\ ttl[v][d] <= Time
          BY <2>3 DEF Lapse, HasLapsed, ExpiresAfterItsDay
        <4>2. Time \in Nat
          BY TimeIsNat
        <4>3. DayLength \in Nat /\ d + 1 \in Nat
          BY <4>1
        <4>4. (d + 1) * DayLength \in Nat
          BY ONLY <4>3, ProductIsNat
        <4>5. today * DayLength + hour >= (d + 1) * DayLength
          BY <4>1, <4>2, <4>4 DEF Time
        <4> QED
          BY <4>1, <4>5, DayNotOver DEF Hours
      <3>2. spent'[u][today] = spent[u][today]
        BY <2>3, <3>1 DEF Lapse
      <3> QED
        BY <2>0, <3>2
    <2> QED
      BY <2>1, <2>2, <2>3 DEF Next
  <1> QED
    BY <1>1, BudgetTypeCorrect, ExpiryInvariant, PTL DEF Spec, NoResetWithinDay

\* Only a request whose own INCRBY or EXPIRE raised leaves a counter without an
\* expiry: the increment that creates the key is the one whose total equals its own
\* tokens, and its request still has to send EXPIRE.
THEOREM BudgetCountersExpire == Spec => OnlyFailuresLoseExpiry
  <1> USE BudgetAssumption DEF BudgetAssumption, TypeOK, Days, Phases
  <1> DEFINE Failure(u) ==
                 \E c \in ConnsOf(u) :
                     \/ SetTtlFails(c)
                     \/ \E tokens \in TokenCosts : ChargeFails(c, tokens)
             Kept == \A u \in Users, d \in Days :
                         ~NeverExpires(u, d) /\ NeverExpires(u, d)' => Failure(u)
  <1>1. TypeOK /\ [Next]_budgetVars => [Kept]_budgetVars
    <2> SUFFICES ASSUME TypeOK, Next, NEW u \in Users, NEW d \in Days,
                        ~NeverExpires(u, d), ~Failure(u), spent'[u][d] > 0
                 PROVE  \/ ttl'[u][d] # 0
                        \/ \E e \in Conns : phase'[e] = "first" /\ Key(e)' = <<u, d>>
      BY DEF NeverExpires
    <2> DEFINE Due == \E e \in Conns : phase[e] = "first" /\ Key(e) = <<u, d>>
               Goal == \/ ttl'[u][d] # 0
                       \/ \E e \in Conns : phase'[e] = "first" /\ Key(e)' = <<u, d>>
    <2>0. spent[u][d] \in Nat /\ (spent[u][d] > 0 => ttl[u][d] # 0 \/ Due)
      BY DEF NeverExpires
    <2>1. ASSUME NEW c \in Conns, RequestStep(c) PROVE Goal
      <3> USE DEF Move, Key
      <3>1. ASSUME phase[c] # "first", UNCHANGED ttl, spent'[u][d] = spent[u][d],
                   \A e \in Conns : e # c => phase'[e] = phase[e] /\ keyDay'[e] = keyDay[e]
            PROVE  Goal
        BY <2>0, <3>1
      <3>2. CASE Check(c) \/ Record(c)
        BY <3>1, <3>2 DEF Check, Record
      <3>3. CASE Pass(c) \/ Refuse(c) \/ CheckFails(c) \/ Finish(c)
        BY <3>1, <3>3 DEF Pass, Refuse, CheckFails, Finish
      <3>4. ASSUME NEW t \in TokenCosts, Charge(c, t) PROVE Goal
        <4>1. CASE spent[u][d] > 0
          BY <2>0, <3>4, <4>1 DEF Charge
        <4>2. CASE spent[u][d] = 0
          <5>1. UserOf[c] = u /\ keyDay[c] = d
            <6> SUFFICES ASSUME ~(UserOf[c] = u /\ keyDay[c] = d) PROVE FALSE
              OBVIOUS
            <6>1. spent'[u][d] = spent[u][d]
              BY <3>4 DEF Charge, IncrBy
            <6> QED
              BY <4>2, <6>1
          <5>2. IsFirst(c, t)
            <6>1. Used(c) = 0 /\ t \in Int
              BY <4>2, <5>1 DEF Used
            <6> QED
              BY <6>1 DEF IsFirst
          <5> QED
            BY <3>4, <5>1, <5>2 DEF Charge
        <4>3. spent[u][d] > 0 \/ spent[u][d] = 0
          BY ONLY <2>0
        <4> QED
          BY ONLY <4>1, <4>2, <4>3
      <3>5. CASE SetTtl(c)
        <4>1. CASE Key(c) = <<u, d>>
          <5>1. ttl'[u][d] = Time + DayTtl
            BY <3>5, <4>1 DEF SetTtl, Expire
          <5>2. Time + DayTtl # 0
            BY TimeIsNat
          <5> QED
            BY <5>1, <5>2
        <4>2. CASE Key(c) # <<u, d>>
          <5>1. ttl'[u][d] = ttl[u][d]
            BY <3>5, <4>2 DEF SetTtl, Expire
          <5> QED
            BY <2>0, <3>5, <4>2, <5>1 DEF SetTtl
        <4> QED
          BY <4>1, <4>2
      <3>6. ASSUME NEW t \in TokenCosts, ChargeFails(c, t) PROVE Goal
        <4>1. UserOf[c] # u
          BY <3>6 DEF ConnsOf
        <4>2. spent'[u][d] = spent[u][d]
          BY <3>6, <4>1 DEF ChargeFails, IncrBy
        <4> QED
          BY <3>1, <3>6, <4>2 DEF ChargeFails
      <3>7. CASE SetTtlFails(c)
        <4>1. UserOf[c] # u
          BY <3>7 DEF ConnsOf
        <4>2. ttl'[u][d] = ttl[u][d]
          BY <3>7, <4>1 DEF SetTtlFails, Expire
        <4> QED
          BY <2>0, <3>7, <4>1, <4>2 DEF SetTtlFails
      <3> QED
        BY <2>1, <3>2, <3>3, <3>4, <3>5, <3>6, <3>7 DEF RequestStep
    <2>2. CASE Tick
      BY <2>0, <2>2 DEF Tick, Key
    <2>3. ASSUME NEW v \in Users, NEW e \in Days, Lapse(v, e) PROVE Goal
      <3>1. <<u, d>> # <<v, e>>
        BY <2>3 DEF Lapse
      <3>2. spent'[u][d] = spent[u][d]
        BY <2>3, <3>1 DEF Lapse
      <3> QED
        BY <2>0, <2>3, <3>1, <3>2 DEF Lapse, Key
    <2> QED
      BY <2>1, <2>2, <2>3 DEF Next
  <1>2. [Kept]_budgetVars =>
            [\A u \in Users, d \in Days :
                 ~NeverExpires(u, d) /\ NeverExpires(u, d)' =>
                     \E c \in ConnsOf(u) :
                         \/ SetTtlFails(c)
                         \/ \E tokens \in TokenCosts : ChargeFails(c, tokens)]_budgetVars
    OBVIOUS
  <1> QED
    BY <1>1, <1>2, BudgetTypeCorrect, PTL DEF Spec, OnlyFailuresLoseExpiry
==============================================================================
