---------------------------- MODULE LlmGateProofs ----------------------------
(*****************************************************************************)
(* Proofs about LlmGate for every finite set of connections and every number *)
(* of permits.  The inductive invariant GateInv says that a handler is in at *)
(* most one place -- inside the block, woken, or pending once -- and that    *)
(* every permit is accounted for; it is what makes the cardinalities add up. *)
(*****************************************************************************)
EXTENDS LlmGate, FiniteSetTheorems, TLAPS

Distinct(q) == \A i, j \in 1..Len(q) : q[i] = q[j] => i = j

GateInv ==
    /\ value \in Nat
    /\ queue \in Seq(Conns)
    /\ woken \subseteq Conns
    /\ holders \subseteq Conns
    /\ Distinct(queue)
    /\ woken \cap holders = {}
    /\ Queued \cap (woken \cup holders) = {}
    /\ PermitsConserved

----------------------------------------------------------------------------

\* What taking the head of a list of distinct waiters leaves.
LEMMA PopFacts ==
    ASSUME NEW S, NEW q \in Seq(S), q # << >>, Distinct(q)
    PROVE  /\ Tail(q) \in Seq(S)
           /\ Head(q) \in S
           /\ Distinct(Tail(q))
           /\ Head(q) \in {q[i] : i \in DOMAIN q}
           /\ {Tail(q)[i] : i \in DOMAIN Tail(q)}
                = {q[i] : i \in DOMAIN q} \ {Head(q)}
  <1>1. /\ Len(q) \in Nat \ {0}
        /\ DOMAIN q = 1..Len(q)
        /\ Tail(q) \in Seq(S)
        /\ Head(q) = q[1]
        /\ Len(Tail(q)) = Len(q) - 1
        /\ DOMAIN Tail(q) = 1..(Len(q) - 1)
        /\ \A i \in 1..(Len(q) - 1) : Tail(q)[i] = q[i + 1]
    OBVIOUS
  <1>2. Distinct(Tail(q))
    BY <1>1 DEF Distinct
  <1>3. \A i \in 1..(Len(q) - 1) : Tail(q)[i] # q[1]
    BY <1>1 DEF Distinct
  <1>4. \A i \in 1..Len(q) : i # 1 => /\ i - 1 \in 1..(Len(q) - 1)
                                      /\ q[i] = Tail(q)[i - 1]
    BY <1>1
  <1>5. {Tail(q)[i] : i \in DOMAIN Tail(q)} = {q[i] : i \in DOMAIN q} \ {q[1]}
    <2>1. ASSUME NEW x \in {Tail(q)[i] : i \in DOMAIN Tail(q)}
          PROVE  x \in {q[i] : i \in DOMAIN q} \ {q[1]}
      <3>1. PICK i \in 1..(Len(q) - 1) : x = Tail(q)[i]
        BY <1>1, <2>1
      <3>2. i + 1 \in DOMAIN q /\ x = q[i + 1]
        BY <1>1, <3>1
      <3> QED
        BY <1>3, <3>1, <3>2
    <2>2. ASSUME NEW x \in {q[i] : i \in DOMAIN q} \ {q[1]}
          PROVE  x \in {Tail(q)[i] : i \in DOMAIN Tail(q)}
      <3>1. PICK i \in 1..Len(q) : x = q[i]
        BY <1>1, <2>2
      <3>2. i # 1
        BY <2>2, <3>1
      <3> QED
        BY <1>1, <1>4, <3>1, <3>2
    <2> QED
      BY <2>1, <2>2
  <1>6. 1 \in DOMAIN q /\ q[1] \in S
    BY <1>1
  <1>7. q[1] \in {q[i] : i \in DOMAIN q}
    BY <1>6
  <1> QED
    BY <1>1, <1>2, <1>5, <1>6, <1>7

\* Waking the next handler moves it from the pending list to the woken set and
\* takes the permit it gets from the free ones.
LEMMA WakeUpFacts ==
    ASSUME GateAssumption,
           NEW free \in Nat, NEW up \in SUBSET Conns,
           queue \in Seq(Conns), Distinct(queue),
           Queued \cap up = {},
           queue # << >> => free > 0,
           WakeUpNext(free, up)
    PROVE  /\ value' \in Nat
           /\ queue' \in Seq(Conns)
           /\ woken' \subseteq Conns
           /\ Distinct(queue')
           /\ Queued' \subseteq Queued
           /\ up \subseteq woken'
           /\ woken' \subseteq up \cup Queued
           /\ Queued' \cap woken' = {}
           /\ value' + Cardinality(woken') = free + Cardinality(up)
           /\ queue # << >> => woken' # {}
  <1>0. IsFiniteSet(up)
    BY FS_Subset DEF GateAssumption
  <1>c. Cardinality(up) \in Nat
    BY <1>0, FS_CardinalityType
  <1>1. CASE queue = << >>
    BY <1>1, <1>c DEF WakeUpNext, Queued
  <1>2. CASE queue # << >>
    <2>1. /\ value' = free - 1
          /\ woken' = up \cup {Head(queue)}
          /\ queue' = Tail(queue)
      BY <1>2 DEF WakeUpNext
    <2>2. /\ Tail(queue) \in Seq(Conns)
          /\ Head(queue) \in Conns
          /\ Distinct(Tail(queue))
          /\ Head(queue) \in Queued
          /\ Queued' = Queued \ {Head(queue)}
      <3>1. /\ Queued = {queue[i] : i \in DOMAIN queue}
            /\ Queued' = {Tail(queue)[i] : i \in DOMAIN Tail(queue)}
        BY <2>1 DEF Queued
      <3> HIDE DEF Queued
      <3> QED
        BY <1>2, <3>1, PopFacts
    <2>3. Cardinality(woken') = Cardinality(up) + 1
      BY <1>0, <2>1, <2>2, FS_AddElement
    <2> QED
      BY <1>2, <1>c, <2>1, <2>2, <2>3
  <1> QED
    BY <1>1, <1>2

----------------------------------------------------------------------------

LEMMA GateInvInit == GateAssumption /\ Init => GateInv
  BY FS_EmptySet DEF GateAssumption, Init, GateInv, PermitsConserved, Queued, Distinct

LEMMA GateInvNext == GateAssumption /\ GateInv /\ [Next]_gateVars => GateInv'
  <1> SUFFICES ASSUME GateAssumption, GateInv, [Next]_gateVars
               PROVE  GateInv'
    OBVIOUS
  <1> USE DEF PermitsConserved
  <1>f. /\ IsFiniteSet(woken) /\ Cardinality(woken) \in Nat
        /\ IsFiniteSet(holders) /\ Cardinality(holders) \in Nat
        /\ MaxConcurrentLlm \in Nat
    BY FS_Subset, FS_CardinalityType DEF GateAssumption, GateInv
  <1>1. ASSUME NEW c \in Conns, AcquireNow(c)
        PROVE  GateInv'
    <2>1. Cardinality(holders') = Cardinality(holders) + 1
      BY <1>1, <1>f, FS_AddElement DEF AcquireNow, Outside
    <2>2. value > 0 /\ Queued' = Queued
      BY <1>1 DEF AcquireNow, Locked, GateInv, Queued
    <2> QED
      BY <1>1, <1>f, <2>1, <2>2 DEF AcquireNow, Outside, GateInv
  <1>2. ASSUME NEW c \in Conns, Enqueue(c)
        PROVE  GateInv'
    <2>1. /\ Len(queue) \in Nat
          /\ queue' \in Seq(Conns)
          /\ Len(queue') = Len(queue) + 1
          /\ \A i \in 1..Len(queue) : queue'[i] = queue[i]
          /\ queue'[Len(queue) + 1] = c
          /\ DOMAIN queue' = 1..(Len(queue) + 1)
          /\ DOMAIN queue = 1..Len(queue)
      BY <1>2 DEF Enqueue, GateInv
    <2>2. \A i \in 1..Len(queue) : queue[i] # c
      BY <1>2, <2>1 DEF Enqueue, Outside, Queued
    <2>3. Distinct(queue')
      BY <2>1, <2>2 DEF Distinct, GateInv
    <2>4. Queued' = Queued \cup {c}
      BY <2>1 DEF Queued
    <2> QED
      BY <1>2, <2>1, <2>3, <2>4 DEF Enqueue, Outside, GateInv
  <1>3. ASSUME NEW c \in Conns, Resume(c)
        PROVE  GateInv'
    <2>1. /\ Cardinality(holders') = Cardinality(holders) + 1
          /\ Cardinality(woken \ {c}) = Cardinality(woken) - 1
      BY <1>3, <1>f, FS_AddElement, FS_RemoveElement DEF Resume, GateInv
    <2>2. CASE value > 0
      <3>1. WakeUpNext(value, woken \ {c})
        BY <1>3, <2>2 DEF Resume
      <3>2. /\ value \in Nat /\ queue \in Seq(Conns) /\ Distinct(queue)
            /\ woken \ {c} \in SUBSET Conns
            /\ Queued \cap (woken \ {c}) = {}
        BY DEF GateInv
      <3>3. /\ value' \in Nat
            /\ queue' \in Seq(Conns)
            /\ woken' \subseteq Conns
            /\ Distinct(queue')
            /\ Queued' \subseteq Queued
            /\ woken' \subseteq (woken \ {c}) \cup Queued
            /\ Queued' \cap woken' = {}
            /\ value' + Cardinality(woken') = value + Cardinality(woken \ {c})
        BY <2>2, <3>1, <3>2, WakeUpFacts
      <3>4. IsFiniteSet(woken') /\ Cardinality(woken') \in Nat
        BY <3>3, FS_Subset, FS_CardinalityType DEF GateAssumption
      <3>5. value' + Cardinality(holders') + Cardinality(woken') = MaxConcurrentLlm
        <4>1. /\ value \in Nat
              /\ value + Cardinality(holders) + Cardinality(woken) = MaxConcurrentLlm
          BY DEF GateInv
        <4> QED
          BY <1>f, <2>1, <3>3, <3>4, <4>1
      <3>6. holders' = holders \cup {c} /\ c \in woken
        BY <1>3 DEF Resume
      <3> QED
        BY <3>3, <3>5, <3>6 DEF GateInv
    <2>3. CASE ~(value > 0)
      <3>1. UNCHANGED <<value, queue>> /\ Queued' = Queued
        BY <1>3, <2>3 DEF Resume, Queued
      <3>2. woken' = woken \ {c} /\ holders' = holders \cup {c} /\ c \in woken
        BY <1>3, <2>3 DEF Resume
      <3>3. value' + Cardinality(holders') + Cardinality(woken') = MaxConcurrentLlm
        <4>1. /\ value \in Nat
              /\ value + Cardinality(holders) + Cardinality(woken) = MaxConcurrentLlm
          BY DEF GateInv
        <4> QED
          BY <1>f, <2>1, <3>1, <3>2, <4>1
      <3> QED
        BY <3>1, <3>2, <3>3 DEF GateInv
    <2> QED
      BY <2>2, <2>3
  <1>4. ASSUME NEW c \in Conns, Release(c)
        PROVE  GateInv'
    <2>1. Cardinality(holders') = Cardinality(holders) - 1
      BY <1>4, <1>f, FS_RemoveElement DEF Release
    <2>2. WakeUpNext(value + 1, woken)
      BY <1>4 DEF Release
    <2>3. /\ value + 1 \in Nat /\ value + 1 > 0
          /\ queue \in Seq(Conns) /\ Distinct(queue)
          /\ woken \in SUBSET Conns
          /\ Queued \cap woken = {}
      BY DEF GateInv
    <2>4. /\ value' \in Nat
          /\ queue' \in Seq(Conns)
          /\ woken' \subseteq Conns
          /\ Distinct(queue')
          /\ Queued' \subseteq Queued
          /\ woken' \subseteq woken \cup Queued
          /\ Queued' \cap woken' = {}
          /\ value' + Cardinality(woken') = value + 1 + Cardinality(woken)
      BY <2>2, <2>3, WakeUpFacts
    <2>5. IsFiniteSet(woken') /\ Cardinality(woken') \in Nat
      BY <2>4, FS_Subset, FS_CardinalityType DEF GateAssumption
    <2>6. value' + Cardinality(holders') + Cardinality(woken') = MaxConcurrentLlm
      BY <1>f, <2>1, <2>4, <2>5 DEF GateInv
    <2>7. holders' = holders \ {c}
      BY <1>4 DEF Release
    <2> QED
      BY <2>4, <2>6, <2>7 DEF GateInv
  <1>5. CASE UNCHANGED gateVars
    BY <1>5 DEF gateVars, GateInv, Queued
  <1> QED
    BY <1>1, <1>2, <1>3, <1>4, <1>5 DEF Next

\* GateInv holds in every reachable state.
LEMMA GateInvariant == Spec => []GateInv
  BY GateAssumption, GateInvInit, GateInvNext, PTL DEF Spec

\* Permits are neither lost nor made up, whatever the handlers do: those free,
\* those in use and those handed over but not yet taken up are max_concurrent_llm.
THEOREM GatePermitsConserved == Spec => []PermitsConserved
  <1>1. GateInv => PermitsConserved
    BY DEF GateInv
  <1> QED
    BY <1>1, GateInvariant, PTL

\* TypeOK, whose bound on the free permits is a consequence of the accounting.
THEOREM GateTypeCorrect == Spec => []TypeOK
  <1>1. GateInv => TypeOK
    <2> SUFFICES ASSUME GateInv PROVE TypeOK
      OBVIOUS
    <2>1. Cardinality(woken) \in Nat /\ Cardinality(holders) \in Nat
      BY GateAssumption, FS_Subset, FS_CardinalityType DEF GateAssumption, GateInv
    <2> QED
      BY <2>1, GateAssumption DEF GateAssumption, GateInv, PermitsConserved, TypeOK
  <1> QED
    BY <1>1, GateInvariant, PTL

\* No lost wakeup: a free permit and a pending handler never coexist unless a
\* woken handler is about to resume and pass the permit on.
THEOREM GateNoIdlePermit == Spec => []NoIdlePermit
  <1> USE DEF NoIdlePermit
  <1>1. Init => NoIdlePermit
    BY DEF Init
  <1>2. GateInv /\ NoIdlePermit /\ [Next]_gateVars => NoIdlePermit'
    <2> SUFFICES ASSUME GateInv, NoIdlePermit, [Next]_gateVars
                 PROVE  NoIdlePermit'
      OBVIOUS
    <2>1. ASSUME NEW c \in Conns, AcquireNow(c)
          PROVE  NoIdlePermit'
      BY <2>1 DEF AcquireNow, Locked
    <2>2. ASSUME NEW c \in Conns, Enqueue(c)
          PROVE  NoIdlePermit'
      BY <2>2 DEF Enqueue, Locked, GateInv
    <2>3. ASSUME NEW c \in Conns, Resume(c)
          PROVE  NoIdlePermit'
      BY <2>3 DEF Resume, WakeUpNext, GateInv
    <2>4. ASSUME NEW c \in Conns, Release(c)
          PROVE  NoIdlePermit'
      BY <2>4 DEF Release, WakeUpNext
    <2>5. CASE UNCHANGED gateVars
      BY <2>5 DEF gateVars
    <2> QED
      BY <2>1, <2>2, <2>3, <2>4, <2>5 DEF Next
  <1> QED
    BY <1>1, <1>2, GateInvariant, PTL DEF Spec

\* First come, first served, as a property of every step.
THEOREM GateFirstComeFirstServed == Spec => FirstComeFirstServed
  <1> DEFINE Fair == /\ \A c \in Queued : c \in woken' => c = Head(queue)
                     /\ queue # << >> => holders' \ holders \subseteq woken
  <1>1. GateInv /\ [Next]_gateVars => [Fair]_gateVars
    <2> SUFFICES ASSUME GateInv, Next PROVE Fair
      OBVIOUS
    <2>0. Queued \cap woken = {}
      BY DEF GateInv
    <2>1. ASSUME NEW c \in Conns, AcquireNow(c)
          PROVE  Fair
      BY <2>0, <2>1 DEF AcquireNow, Locked
    <2>2. ASSUME NEW c \in Conns, Enqueue(c)
          PROVE  Fair
      BY <2>0, <2>2 DEF Enqueue
    <2>3. ASSUME NEW c \in Conns, Resume(c)
          PROVE  Fair
      BY <2>0, <2>3 DEF Resume, WakeUpNext
    <2>4. ASSUME NEW c \in Conns, Release(c)
          PROVE  Fair
      BY <2>0, <2>4 DEF Release, WakeUpNext
    <2> QED
      BY <2>1, <2>2, <2>3, <2>4 DEF Next
  <1> QED
    BY <1>1, GateInvariant, PTL DEF Spec, FirstComeFirstServed
==============================================================================
