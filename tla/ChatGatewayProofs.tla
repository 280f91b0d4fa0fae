-------------------------- MODULE ChatGatewayProofs --------------------------
(****************************************************************************)
(* Proofs about ChatGateway for any connections, users, texts and limits:   *)
(* it drives the semaphore, the budget and the registry as they allow, and  *)
(* its clients get one reply per message, answers that belong to the user   *)
(* and the text, answers that are in chat_logs, and no trouble from Redis   *)
(* when no budget is configured.                                            *)
(****************************************************************************)
EXTENDS ChatGateway, FiniteSetTheorems, SequenceTheorems, TLAPS

----------------------------------------------------------------------------
(* Types, and what the locals of a handler hold at each stage *)

\* A valid question is in hand.
Asked == {"lookup", "hit", "hitlog", "budget", "over", "typing", "acquire",
          "waiting", "llm", "store", "spend", "expire", "persist", "reply"}

\* An answer is in hand.
Answered == {"hit", "hitlog", "store", "spend", "expire", "persist", "reply"}

\* No question is in hand, though a message may be.
Unasked == {"new", "idle", "refuse", "badformat"}

StageInv ==
    \A c \in Conns :
        /\ pc[c] \in Asked => query[c] \in Queries /\ received[c] \in 1..MaxMessages
        /\ pc[c] \in Unasked => query[c] = NoQuery
        /\ pc[c] \in Answered => answer[c] \in Answers

TypeInv == TypeOK /\ StageInv

LEMMA InHandTyped ==
    ASSUME GatewayAssumption, TypeInv, NEW c \in Conns, pc[c] \in Asked
    PROVE  /\ KeyInHand(c) \in Keys
           /\ UserOf[c] \in Users
           /\ pc[c] \in Answered => Frame(c) \in Frames /\ Row(c) \in Rows
  BY DEF GatewayAssumption, TypeInv, TypeOK, StageInv, KeyInHand, Keys,
         Frame, Frames, Row, Rows, Answers

\* The answer of c, and no other, is replaced by a well-formed one.
AnswerOf(c) ==
    /\ answer' \in [Conns -> Answers \cup {NoAnswer}]
    /\ answer'[c] \in Answers
    /\ \A e \in Conns : e # c => answer'[e] = answer[e]

LEMMA AnswerTyped ==
    ASSUME TypeInv, NEW c \in Conns, pc[c] \in Asked,
           NEW s \in BOOLEAN, AnswerInHand(c, s)
    PROVE  AnswerOf(c)
  <1>1. query[c] \in Queries /\ received[c] \in 1..MaxMessages
    BY DEF TypeInv, StageInv
  <1>2. [conn |-> c, msg |-> received[c], query |-> query[c], ok |-> s] \in Answers
    BY <1>1 DEF Answers
  <1>3. answer \in [Conns -> Answers \cup {NoAnswer}]
    BY DEF TypeInv, TypeOK
  <1> QED
    BY <1>2, <1>3 DEF AnswerOf, AnswerInHand

LEMMA LlmAnswerTyped ==
    ASSUME TypeInv, NEW c \in Conns, LlmSucceeds(c) \/ LlmFails(c)
    PROVE  AnswerOf(c)
  <1>1. pc[c] \in Asked
    BY DEF LlmSucceeds, LlmFails, Asked
  <1>2. CASE LlmSucceeds(c)
    <2>1. AnswerInHand(c, TRUE)
      BY <1>2 DEF LlmSucceeds
    <2> QED
      BY <1>1, <2>1, AnswerTyped
  <1>3. CASE LlmFails(c)
    <2>1. AnswerInHand(c, FALSE)
      BY <1>3 DEF LlmFails
    <2> QED
      BY <1>1, <2>1, AnswerTyped
  <1> QED
    BY <1>2, <1>3

LEMMA TypeInvariant == Spec => []TypeInv
  <1> USE GatewayAssumption DEF GatewayAssumption
  <1>1. Init => TypeInv
    BY DEF Init, TypeInv, TypeOK, StageInv, Stages, Asked, Answered, Unasked
  <1>2. TypeInv /\ [Next]_vars => TypeInv'
    <2> SUFFICES ASSUME TypeInv, [Next]_vars PROVE TypeInv'
      OBVIOUS
    <2> USE DEF TypeInv, TypeOK, StageInv, Stages, Asked, Answered, Unasked, Goto,
                messageVars, wireVars, storeVars
    <2>1. ASSUME NEW c \in Conns, ClientStep(c) PROVE TypeInv'
      <3>1. ASSUME NEW t \in Users \cup {BadToken}, Handshake(c, t) PROVE TypeInv'
        BY <3>1 DEF Handshake, Accept, RejectToken
      <3>2. ASSUME NEW q \in Queries, ReceiveQuestion(c, q) PROVE TypeInv'
        BY <3>2 DEF ReceiveQuestion, Receive
      <3>3. CASE ReceiveUnusable(c) \/ ReceiveMalformed(c)
        BY <3>3 DEF ReceiveUnusable, ReceiveMalformed, Receive
      <3>4. CASE ReceiveNonObject(c)
        BY <3>4 DEF ReceiveNonObject, Receive, Count
      <3>5. CASE ClientLeaves(c)
        BY <3>5 DEF ClientLeaves, Live
      <3> QED
        BY <2>1, <3>1, <3>2, <3>3, <3>4, <3>5 DEF ClientStep
    <2>2. ASSUME NEW c \in Conns, HandlerStep(c) PROVE TypeInv'
      <3> USE DEF Count, Crash, Forget, SendRaises, WriteFrame
      <3>1. CASE ReceiveDisconnect(c) \/ CloseMalformed(c) \/ Cleanup(c)
        BY <3>1 DEF ReceiveDisconnect, CloseMalformed, Cleanup
      <3>2. CASE RefuseMessage(c)
        BY <3>2 DEF RefuseMessage, SendError
      <3>3. CASE LookupHit(c)
        BY <3>3, InHandTyped DEF LookupHit
      <3>4. CASE LookupMiss(c)
        BY <3>4 DEF LookupMiss
      <3>5. CASE SendHit(c)
        BY <3>5, InHandTyped DEF SendHit, SendAnswer
      <3>6. CASE PersistHit(c)
        BY <3>6, InHandTyped DEF PersistHit, PersistLog
      <3>7. CASE CheckBudget(c)
        BY <3>7 DEF CheckBudget
      <3>8. CASE SendOverBudget(c)
        BY <3>8 DEF SendOverBudget, SendError
      <3>9. CASE SendTyping(c)
        BY <3>9 DEF SendTyping
      <3>10. CASE AcquireSemaphore(c) \/ ResumeWithPermit(c)
        BY <3>10 DEF AcquireSemaphore, ResumeWithPermit
      <3>11. CASE LlmSucceeds(c)
        <4>1. AnswerOf(c)
          BY <3>11, LlmAnswerTyped
        <4>2. /\ pc[c] = "llm"
              /\ Goto(c, "store") /\ Count("success")
              /\ UNCHANGED <<query, received, wireVars, storeVars>>
          BY <3>11 DEF LlmSucceeds
        <4> QED
          BY <4>1, <4>2 DEF AnswerOf
      <3>12. CASE LlmFails(c)
        <4>1. AnswerOf(c)
          BY <3>12, LlmAnswerTyped
        <4>2. /\ pc[c] = "llm"
              /\ Goto(c, "persist") /\ Count("error")
              /\ UNCHANGED <<query, received, wireVars, storeVars>>
          BY <3>12 DEF LlmFails
        <4> QED
          BY <4>1, <4>2 DEF AnswerOf
      <3>13. CASE StoreInCache(c)
        BY <3>13, InHandTyped DEF StoreInCache, PutInCache
      <3>14. ASSUME NEW t \in TokenCosts, RecordSpend(c, t) PROVE TypeInv'
        BY <3>14 DEF RecordSpend
      <3>15. CASE ExpireCounter(c)
        BY <3>15 DEF ExpireCounter
      <3>16. CASE PersistAnswer(c)
        BY <3>16, InHandTyped DEF PersistAnswer, PersistLog
      <3>17. CASE Reply(c)
        BY <3>17, InHandTyped DEF Reply, SendAnswer
      <3> QED
        BY <2>2, <3>1, <3>2, <3>3, <3>4, <3>5, <3>6, <3>7, <3>8, <3>9, <3>10, <3>11,
           <3>12, <3>13, <3>14, <3>15, <3>16, <3>17 DEF HandlerStep
    <2>3. ASSUME NEW k \in Keys, CacheLapse(k) PROVE TypeInv'
      BY <2>3 DEF CacheLapse
    <2>4. CASE TimePasses \/ \E u \in Users, d \in 0..LastDay : CounterLapses(u, d)
      BY <2>4 DEF TimePasses, CounterLapses
    <2>5. CASE AllDone \/ UNCHANGED vars
      BY <2>5 DEF AllDone, vars
    <2> QED
      BY <2>1, <2>2, <2>3, <2>4, <2>5 DEF Next
  <1> QED
    BY <1>1, <1>2, PTL DEF Spec

\* TypeOK is an invariant.
THEOREM GatewayTypeCorrect == Spec => []TypeOK
  BY TypeInvariant, PTL DEF TypeInv
----------------------------------------------------------------------------
(* The handler implements the semaphore's specification *)

LEMMA HoldersKept ==
    ASSUME TypeInv, NEW c \in Conns, NEW s \in Stages, Goto(c, s),
           pc[c] # "llm", s # "llm"
    PROVE  Holders' = Holders
  BY DEF TypeInv, TypeOK, Goto, Holders

LEMMA GateUntouched ==
    ASSUME TypeInv, NEW c \in Conns, UNCHANGED gateVars, NEW s \in Stages,
           Goto(c, s), pc[c] # "llm", s # "llm"
    PROVE  UNCHANGED Gate!gateVars
  BY HoldersKept DEF gateVars, Gate!gateVars

\* Every step of a handler is a step of LlmGate or leaves the semaphore alone, so
\* the LLM is called under a permit only and every path out of the call frees it.
THEOREM GatewayImplementsGate == Spec => GateSpec
  <1>1. Init => Gate!Init
    BY DEF Init, Gate!Init, Holders
  <1>2. TypeInv /\ [Next]_vars => [Gate!Next]_(Gate!gateVars)
    <2> SUFFICES ASSUME TypeInv, [Next]_vars
                 PROVE  Gate!Next \/ UNCHANGED Gate!gateVars
      OBVIOUS
    <2>1. ASSUME NEW c \in Conns, ClientStep(c) PROVE UNCHANGED Gate!gateVars
      <3>1. CASE ClientLeaves(c)
        BY <3>1 DEF ClientLeaves, gateVars, Gate!gateVars, Holders
      <3>2. CASE ~ClientLeaves(c)
        <4>1. /\ UNCHANGED gateVars
              /\ pc[c] \in {"new", "idle"}
              /\ \E s \in {"idle", "done", "lookup", "refuse", "badformat", "closing"} :
                     Goto(c, s)
          BY <2>1, <3>2 DEF ClientStep, Handshake, Accept, RejectToken, Receive,
                 ReceiveQuestion, ReceiveUnusable, ReceiveMalformed, ReceiveNonObject
        <4> QED
          BY <4>1, GateUntouched DEF Stages
      <3> QED
        BY <3>1, <3>2
    <2>2. ASSUME NEW c \in Conns, HandlerStep(c)
          PROVE  Gate!Next \/ UNCHANGED Gate!gateVars
      <3>1. CASE AcquireSemaphore(c)
        BY <3>1 DEF AcquireSemaphore, Gate!Next
      <3>2. CASE ResumeWithPermit(c)
        BY <3>2 DEF ResumeWithPermit, Gate!Next
      <3>3. CASE LlmSucceeds(c)
        BY <3>3 DEF LlmSucceeds, Gate!Next
      <3>4. CASE LlmFails(c)
        BY <3>4 DEF LlmFails, Gate!Next
      <3>5. CASE ~(AcquireSemaphore(c) \/ ResumeWithPermit(c) \/ LlmSucceeds(c)
                     \/ LlmFails(c))
        <4>1. /\ UNCHANGED gateVars
              /\ pc[c] # "llm"
              /\ \E s \in Stages \ {"llm"} : Goto(c, s)
          <5> USE DEF Stages
          <5>1. CASE \/ ReceiveDisconnect(c) \/ RefuseMessage(c) \/ CloseMalformed(c)
                     \/ LookupHit(c) \/ LookupMiss(c) \/ SendHit(c) \/ PersistHit(c)
            BY <5>1 DEF ReceiveDisconnect, RefuseMessage, CloseMalformed, LookupHit,
                        LookupMiss, SendHit, PersistHit, SendError, SendAnswer, SendRaises
          <5>2. CASE \/ CheckBudget(c) \/ SendOverBudget(c) \/ SendTyping(c)
                     \/ StoreInCache(c) \/ ExpireCounter(c)
            BY <5>2 DEF CheckBudget, SendOverBudget, SendTyping, StoreInCache,
                        ExpireCounter, SendError, SendRaises, Crash
          <5>3. ASSUME NEW t \in TokenCosts, RecordSpend(c, t)
                PROVE  /\ UNCHANGED gateVars
                       /\ pc[c] # "llm"
                       /\ \E s \in Stages \ {"llm"} : Goto(c, s)
            BY <5>3 DEF RecordSpend, Crash
          <5>4. CASE PersistAnswer(c) \/ Reply(c) \/ Cleanup(c)
            BY <5>4 DEF PersistAnswer, Reply, Cleanup, SendAnswer, SendRaises
          <5> QED
            BY <2>2, <3>5, <5>1, <5>2, <5>3, <5>4 DEF HandlerStep
        <4> QED
          BY <4>1, GateUntouched
      <3> QED
        BY <3>1, <3>2, <3>3, <3>4, <3>5
    <2>3. CASE \/ \E k \in Keys : CacheLapse(k)
               \/ TimePasses
               \/ \E u \in Users, d \in 0..LastDay : CounterLapses(u, d)
               \/ AllDone
               \/ UNCHANGED vars
      BY <2>3 DEF CacheLapse, TimePasses, CounterLapses, AllDone, vars,
                  gateVars, Gate!gateVars, Holders
    <2> QED
      BY <2>1, <2>2, <2>3 DEF Next
  <1> QED
    BY <1>1, <1>2, TypeInvariant, PTL DEF Spec, GateSpec, Gate!Spec
----------------------------------------------------------------------------
(* The handler implements the budget's specification *)

LEMMA PhaseKept ==
    ASSUME TypeInv, NEW c \in Conns, UNCHANGED budgetVars, NEW s \in Stages,
           Goto(c, s), PhaseOf(s) = PhaseOf(pc[c])
    PROVE  UNCHANGED Budget!budgetVars
  <1>1. pc' = [pc EXCEPT ![c] = s] /\ pc \in [Conns -> Stages]
    BY DEF TypeInv, TypeOK, Goto
  <1>2. \A e \in Conns : PhaseOf(pc'[e]) = PhaseOf(pc[e])
    BY <1>1
  <1>3. UNCHANGED BudgetPhase
    BY <1>2 DEF BudgetPhase
  <1> QED
    BY <1>3 DEF budgetVars, Budget!budgetVars

LEMMA BudgetStep ==
    ASSUME NEW c \in Conns, Budget!RequestStep(c)
    PROVE  Budget!Next
  BY DEF Budget!Next

\* Every step of a handler is a step of TokenBudget or leaves the budget alone, so
\* the LLM is called after a check only and what is charged was called.
THEOREM GatewayImplementsBudget == Spec => BudgetSpec
  <1>1. Init => Budget!Init
    BY DEF Init, Budget!Init, Budget!Days, BudgetPhase, PhaseOf
  <1>2. TypeInv /\ [Next]_vars => [Budget!Next]_(Budget!budgetVars)
    <2> SUFFICES ASSUME TypeInv, [Next]_vars
                 PROVE  Budget!Next \/ UNCHANGED Budget!budgetVars
      OBVIOUS
    <2>1. ASSUME NEW c \in Conns, ClientStep(c) PROVE UNCHANGED Budget!budgetVars
      <3>1. CASE ClientLeaves(c)
        BY <3>1 DEF ClientLeaves, budgetVars, Budget!budgetVars, BudgetPhase
      <3>2. CASE ~ClientLeaves(c)
        <4>1. /\ UNCHANGED budgetVars
              /\ pc[c] \in {"new", "idle"}
              /\ \E s \in {"idle", "done", "lookup", "refuse", "badformat", "closing"} :
                     Goto(c, s)
          BY <2>1, <3>2 DEF ClientStep, Handshake, Accept, RejectToken, Receive,
                 ReceiveQuestion, ReceiveUnusable, ReceiveMalformed, ReceiveNonObject
        <4>2. PICK s \in {"idle", "done", "lookup", "refuse", "badformat", "closing"} :
                     Goto(c, s)
          BY <4>1
        <4>3. PhaseOf(s) = PhaseOf(pc[c]) /\ s \in Stages
          BY <4>1, <4>2 DEF PhaseOf, Stages
        <4> QED
          BY <4>1, <4>2, <4>3, PhaseKept
      <3> QED
        BY <3>1, <3>2
    <2>2. ASSUME NEW c \in Conns, HandlerStep(c)
          PROVE  Budget!Next \/ UNCHANGED Budget!budgetVars
      <3>1. CASE LookupMiss(c) \/ CheckBudget(c) \/ LlmFails(c) \/ StoreInCache(c)
                   \/ ExpireCounter(c) \/ \E t \in TokenCosts : RecordSpend(c, t)
        <4>1. Budget!RequestStep(c)
          BY <3>1 DEF LookupMiss, CheckBudget, LlmFails, StoreInCache, ExpireCounter,
                      RecordSpend, Budget!RequestStep
        <4> QED
          BY <4>1, BudgetStep
      <3>2. CASE SendTyping(c)
        <4>1. CASE Budget!Finish(c)
          BY <4>1, BudgetStep DEF Budget!RequestStep
        <4>2. CASE ~Budget!Finish(c)
          <5>1. pc[c] = "typing" /\ Goto(c, "acquire") /\ UNCHANGED budgetVars
            BY <3>2, <4>2 DEF SendTyping
          <5>2. PhaseOf("acquire") = PhaseOf(pc[c]) /\ "acquire" \in Stages
            BY <5>1 DEF PhaseOf, Stages
          <5> QED
            BY <5>1, <5>2, PhaseKept
        <4> QED
          BY <4>1, <4>2
      <3>3. CASE AcquireSemaphore(c) \/ ResumeWithPermit(c) \/ LlmSucceeds(c)
        <4>1. /\ UNCHANGED budgetVars
              /\ pc[c] \in {"acquire", "waiting", "llm"}
              /\ \E s \in {"llm", "waiting", "store"} : Goto(c, s)
          BY <3>3 DEF AcquireSemaphore, ResumeWithPermit, LlmSucceeds
        <4>2. PICK s \in {"llm", "waiting", "store"} : Goto(c, s)
          BY <4>1
        <4>3. PhaseOf(s) = PhaseOf(pc[c]) /\ s \in Stages
          BY <4>1, <4>2 DEF PhaseOf, Stages
        <4> QED
          BY <4>1, <4>2, <4>3, PhaseKept
      <3>4. CASE \/ ReceiveDisconnect(c) \/ RefuseMessage(c) \/ CloseMalformed(c)
                 \/ LookupHit(c) \/ SendHit(c) \/ PersistHit(c) \/ SendOverBudget(c)
                 \/ PersistAnswer(c) \/ Reply(c) \/ Cleanup(c)
        <4>1. /\ UNCHANGED budgetVars
              /\ pc[c] \in {"idle", "refuse", "badformat", "lookup", "hit", "hitlog",
                            "over", "persist", "reply", "closing"}
              /\ \E s \in {"closing", "idle", "hit", "hitlog", "reply", "done"} :
                     Goto(c, s)
          BY <3>4 DEF ReceiveDisconnect, RefuseMessage, CloseMalformed, LookupHit,
                 SendHit, PersistHit, SendOverBudget, PersistAnswer, Reply, Cleanup,
                 SendError, SendAnswer, SendRaises
        <4>2. PICK s \in {"closing", "idle", "hit", "hitlog", "reply", "done"} :
                     Goto(c, s)
          BY <4>1
        <4>3. PhaseOf(s) = PhaseOf(pc[c]) /\ s \in Stages
          BY <4>1, <4>2 DEF PhaseOf, Stages
        <4> QED
          BY <4>1, <4>2, <4>3, PhaseKept
      <3> QED
        BY <2>2, <3>1, <3>2, <3>3, <3>4 DEF HandlerStep
    <2>3. CASE TimePasses
      BY <2>3 DEF TimePasses, Budget!Next
    <2>4. ASSUME NEW u \in Users, NEW d \in 0..LastDay, CounterLapses(u, d)
          PROVE  Budget!Next
      BY <2>4 DEF CounterLapses, Budget!Next, Budget!Days
    <2>5. CASE \/ \E k \in Keys : CacheLapse(k)
               \/ AllDone
               \/ UNCHANGED vars
      BY <2>5 DEF CacheLapse, AllDone, vars, budgetVars, Budget!budgetVars, BudgetPhase
    <2> QED
      BY <2>1, <2>2, <2>3, <2>4, <2>5 DEF Next
  <1> QED
    BY <1>1, <1>2, TypeInvariant, PTL DEF Spec, BudgetSpec, Budget!Spec

----------------------------------------------------------------------------
(* What is proved of the semaphore, the budget and the registry on their own *)
(* is carried over to the gateway that drives them.                          *)

GateP == INSTANCE LlmGateProofs WITH holders <- Holders

BudgetP == INSTANCE TokenBudgetProofs WITH phase <- BudgetPhase

----------------------------------------------------------------------------
(* An instance brings its own copies of the operators of FiniteSets *)

LEMMA SameFinite ==
    ASSUME NEW S
    PROVE  /\ GateP!IsFiniteSet(S) <=> IsFiniteSet(S)
           /\ BudgetP!IsFiniteSet(S) <=> IsFiniteSet(S)
  BY DEF IsFiniteSet, GateP!IsFiniteSet, BudgetP!IsFiniteSet

LEMMA SameCardinality ==
    ASSUME NEW S
    PROVE  /\ GateP!Cardinality(S) = Cardinality(S)
           /\ Budget!Cardinality(S) = Cardinality(S)
           /\ BudgetP!Cardinality(S) = Cardinality(S)
           /\ Registry!Cardinality(S) = Cardinality(S)
  BY Zenon DEF Cardinality, GateP!Cardinality, Budget!Cardinality,
               BudgetP!Cardinality, Registry!Cardinality

----------------------------------------------------------------------------
(* The semaphore *)

LEMMA SameGate == GateSpec => GateP!Spec
  <1>1. Gate!Init => GateP!Init
    BY DEF Gate!Init, GateP!Init
  <1> USE DEF Gate!Outside, GateP!Outside, Gate!Queued, GateP!Queued
  <1>2. ASSUME NEW c \in Conns
        PROVE  /\ Gate!AcquireNow(c) => GateP!AcquireNow(c)
               /\ Gate!Enqueue(c) => GateP!Enqueue(c)
    BY DEF Gate!AcquireNow, GateP!AcquireNow, Gate!Enqueue, GateP!Enqueue,
           Gate!Locked, GateP!Locked
  <1>3. ASSUME NEW c \in Conns
        PROVE  /\ Gate!Resume(c) => GateP!Resume(c)
               /\ Gate!Release(c) => GateP!Release(c)
    BY DEF Gate!Resume, GateP!Resume, Gate!Release, GateP!Release,
           Gate!WakeUpNext, GateP!WakeUpNext
  <1>4. [Gate!Next]_(Gate!gateVars) => [GateP!Next]_(GateP!gateVars)
    BY <1>2, <1>3 DEF Gate!Next, GateP!Next, Gate!gateVars, GateP!gateVars
  <1> QED
    BY <1>1, <1>4, PTL DEF GateSpec, Gate!Spec, GateP!Spec

\* LLM calls in flight never exceed max_concurrent_llm, on whatever path the
\* handlers enter and leave the call.
THEOREM GatewayCallsAreCapped ==
    Spec => [](Cardinality(Holders) <= MaxConcurrentLlm)
  <1>1. GateP!GateAssumption
    BY GatewayAssumption, SameFinite DEF GatewayAssumption, GateP!GateAssumption
  <1>2. GateP!Spec => []GateP!PermitsConserved /\ []GateP!TypeOK
    BY <1>1, GateP!GatePermitsConserved, GateP!GateTypeCorrect, PTL
  <1>3. GateP!PermitsConserved /\ GateP!TypeOK
            => Cardinality(Holders) <= MaxConcurrentLlm
    <2> SUFFICES ASSUME GateP!PermitsConserved, GateP!TypeOK
                 PROVE  Cardinality(Holders) <= MaxConcurrentLlm
      OBVIOUS
    <2>1. IsFiniteSet(woken) /\ IsFiniteSet(Holders)
      BY GatewayAssumption, FS_Subset DEF GatewayAssumption, GateP!TypeOK
    <2>2. Cardinality(woken) \in Nat /\ Cardinality(Holders) \in Nat
      BY <2>1, FS_CardinalityType
    <2>3. value \in Nat /\ MaxConcurrentLlm \in Nat
      BY GatewayAssumption DEF GatewayAssumption, GateP!TypeOK
    <2> QED
      BY <2>2, <2>3, SameCardinality DEF GateP!PermitsConserved
  <1> QED
    BY <1>2, <1>3, SameGate, GatewayImplementsGate, PTL

----------------------------------------------------------------------------
(* The budget *)

LEMMA SameBudget == BudgetSpec => BudgetP!Spec
  <1> USE DEF Budget!Days, BudgetP!Days, Budget!Limited, BudgetP!Limited,
              Budget!Move, BudgetP!Move
  <1>1. Budget!Init => BudgetP!Init
    BY DEF Budget!Init, BudgetP!Init
  <1>2. ASSUME NEW c \in Conns, Budget!RequestStep(c) PROVE BudgetP!RequestStep(c)
    <2> USE DEF BudgetP!RequestStep
    <2>1. CASE Budget!Check(c) \/ Budget!Finish(c) \/ Budget!Record(c)
      BY <2>1 DEF Budget!Check, BudgetP!Check, Budget!Finish, BudgetP!Finish,
                  Budget!Record, BudgetP!Record
    <2>2. CASE Budget!Pass(c) \/ Budget!Refuse(c) \/ Budget!CheckFails(c)
      BY <2>2 DEF Budget!Pass, BudgetP!Pass, Budget!Refuse, BudgetP!Refuse,
                  Budget!CheckFails, BudgetP!CheckFails, Budget!WithinBudget,
                  BudgetP!WithinBudget, Budget!Used, BudgetP!Used
    <2>3. ASSUME NEW t \in TokenCosts, Budget!Charge(c, t) \/ Budget!ChargeFails(c, t)
          PROVE  BudgetP!Charge(c, t) \/ BudgetP!ChargeFails(c, t)
      BY <2>3 DEF Budget!Charge, BudgetP!Charge, Budget!ChargeFails,
                  BudgetP!ChargeFails, Budget!IncrBy, BudgetP!IncrBy,
                  Budget!IsFirst, BudgetP!IsFirst, Budget!Used, BudgetP!Used
    <2>4. CASE Budget!SetTtl(c) \/ Budget!SetTtlFails(c)
      BY <2>4 DEF Budget!SetTtl, BudgetP!SetTtl, Budget!SetTtlFails,
                  BudgetP!SetTtlFails, Budget!Expire, BudgetP!Expire, Budget!Time,
                  BudgetP!Time, Budget!DayTtl, BudgetP!DayTtl
    <2> QED
      BY <1>2, <2>1, <2>2, <2>3, <2>4 DEF Budget!RequestStep
  <1>3. Budget!Tick => BudgetP!Tick
    BY DEF Budget!Tick, BudgetP!Tick, Budget!HourPasses, BudgetP!HourPasses,
           Budget!Midnight, BudgetP!Midnight
  <1>4. ASSUME NEW u \in Users, NEW d \in Budget!Days, Budget!Lapse(u, d)
        PROVE  BudgetP!Lapse(u, d)
    BY <1>4 DEF Budget!Lapse, BudgetP!Lapse, Budget!HasLapsed, BudgetP!HasLapsed,
                Budget!Time, BudgetP!Time
  <1>5. [Budget!Next]_(Budget!budgetVars) => [BudgetP!Next]_(BudgetP!budgetVars)
    BY <1>2, <1>3, <1>4 DEF Budget!Next, BudgetP!Next, Budget!budgetVars,
                            BudgetP!budgetVars
  <1> QED
    BY <1>1, <1>5, PTL DEF BudgetSpec, Budget!Spec, BudgetP!Spec

\* What a user spends in a day through the gateway exceeds the limit by less than
\* one LLM call per connection, whatever the tabs, the clock and Redis do.
THEOREM GatewayOvershootBounded == Spec => []Budget!OvershootBounded
  <1>1. BudgetP!BudgetAssumption
    BY GatewayAssumption, SameFinite DEF GatewayAssumption, BudgetP!BudgetAssumption
  <1>2. BudgetP!Spec => []BudgetP!OvershootBounded
    BY <1>1, BudgetP!BudgetOvershootBounded
  <1>3. BudgetP!OvershootBounded => Budget!OvershootBounded
    BY SameCardinality DEF BudgetP!OvershootBounded, Budget!OvershootBounded, BudgetP!Limited,
           Budget!Limited, BudgetP!Days, Budget!Days, BudgetP!ConnsOf, Budget!ConnsOf
  <1> QED
    BY <1>2, <1>3, SameBudget, GatewayImplementsBudget, PTL

----------------------------------------------------------------------------
(* The connection registry *)

LEMMA LiveFinite == ASSUME GatewayAssumption PROVE IsFiniteSet(Live)
  BY FS_Subset DEF GatewayAssumption, Live

\* The entry of each user is the live sockets of that user.
LEMMA SessionsAreLive ==
    ASSUME RegistryMirrorsHandlers, NEW u
    PROVE  /\ DOMAIN connections = {UserOf[c] : c \in Live}
           /\ Registry!Sessions(u) = {c \in Live : UserOf[c] = u}
           /\ \A v \in DOMAIN connections : connections[v] = {c \in Live : UserOf[c] = v}
  BY DEF RegistryMirrorsHandlers, Registry!RegistryMirrorsHandlers, Registry!Sessions

LEMMA ConnectMirrors ==
    ASSUME GatewayAssumption, RegistryMirrorsHandlers, NEW c \in Conns,
           Registry!Connect(c)
    PROVE  RegistryMirrorsHandlers'
  <1> DEFINE u == UserOf[c]
  <1>1. /\ DOMAIN connections = {UserOf[d] : d \in Live}
        /\ Registry!Sessions(u) = {d \in Live : UserOf[d] = u}
        /\ \A v \in DOMAIN connections : connections[v] = {d \in Live : UserOf[d] = v}
    BY SessionsAreLive
  <1>2. Live' = Live \cup {c} /\ c \notin Live /\ IsFiniteSet(Live)
    BY LiveFinite DEF Registry!Connect
  <1>3. connections' = [v \in {UserOf[d] : d \in Live'} |->
                            {d \in Live' : UserOf[d] = v}]
    <2>1. connections' = [v \in DOMAIN connections \cup {u} |->
                             IF v = u THEN Registry!Sessions(u) \cup {c} ELSE connections[v]]
      BY DEF Registry!Connect
    <2>2. DOMAIN connections \cup {u} = {UserOf[d] : d \in Live'}
      BY <1>1, <1>2
    <2>3. ASSUME NEW v \in {UserOf[d] : d \in Live'}
          PROVE  (IF v = u THEN Registry!Sessions(u) \cup {c} ELSE connections[v])
                     = {d \in Live' : UserOf[d] = v}
      <3>1. CASE v = u
        BY <1>1, <1>2, <3>1
      <3>2. CASE v # u
        <4>1. v \in DOMAIN connections
          BY <2>2, <3>2
        <4> QED
          BY <1>1, <1>2, <3>2, <4>1
      <3> QED
        BY <3>1, <3>2
    <2> QED
      BY <2>1, <2>2, <2>3
  <1>4. gauge' = Cardinality(Live')
    <2>1. gauge' = Cardinality(Live) + 1
      BY SameCardinality DEF Registry!Connect, RegistryMirrorsHandlers,
                             Registry!RegistryMirrorsHandlers
    <2> QED
      BY <1>2, <2>1, FS_AddElement
  <1> QED
    BY <1>3, <1>4, SameCardinality DEF RegistryMirrorsHandlers, Registry!RegistryMirrorsHandlers

LEMMA DisconnectMirrors ==
    ASSUME GatewayAssumption, RegistryMirrorsHandlers, NEW c \in Conns,
           Registry!Disconnect(c)
    PROVE  RegistryMirrorsHandlers'
  <1> DEFINE u == UserOf[c]
             rest == Registry!Sessions(u) \ {c}
             kept == DOMAIN connections \ (IF rest = {} THEN {u} ELSE {})
  <1>1. /\ DOMAIN connections = {UserOf[d] : d \in Live}
        /\ Registry!Sessions(u) = {d \in Live : UserOf[d] = u}
        /\ \A v \in DOMAIN connections : connections[v] = {d \in Live : UserOf[d] = v}
    BY SessionsAreLive
  <1>2. Live' = Live \ {c} /\ c \in Live /\ IsFiniteSet(Live)
    BY LiveFinite DEF Registry!Disconnect
  <1>3. connections' = [v \in {UserOf[d] : d \in Live'} |->
                            {d \in Live' : UserOf[d] = v}]
    <2>1. connections' = [v \in kept |-> IF v = u THEN rest ELSE connections[v]]
      BY DEF Registry!Disconnect, Registry!Without
    <2>2. rest = {d \in Live' : UserOf[d] = u}
      BY <1>1, <1>2
    <2>3. kept = {UserOf[d] : d \in Live'}
      <3>1. ASSUME NEW v \in kept PROVE \E d \in Live' : UserOf[d] = v
        <4>1. CASE v = u
          <5>1. rest # {}
            BY <3>1, <4>1
          <5> QED
            BY <2>2, <4>1, <5>1
        <4>2. CASE v # u
          BY <1>1, <1>2, <3>1, <4>2
        <4> QED
          BY <4>1, <4>2
      <3>2. ASSUME NEW d \in Live' PROVE UserOf[d] \in kept
        <4>1. UserOf[d] \in DOMAIN connections
          BY <1>1, <1>2
        <4>2. UserOf[d] = u => rest # {}
          BY <2>2
        <4> QED
          BY <4>1, <4>2
      <3> HIDE DEF kept
      <3> QED
        BY <3>1, <3>2
    <2>4. ASSUME NEW v \in kept
          PROVE  (IF v = u THEN rest ELSE connections[v]) = {d \in Live' : UserOf[d] = v}
      <3>1. v \in DOMAIN connections
        BY <2>4
      <3> HIDE DEF kept, rest
      <3>2. CASE v = u
        BY <2>2, <3>2
      <3>3. CASE v # u
        BY <1>1, <1>2, <3>1, <3>3
      <3> QED
        BY <3>2, <3>3
    <2> HIDE DEF kept, rest
    <2> QED
      BY <2>1, <2>3, <2>4
  <1>4. gauge' = Cardinality(Live')
    <2>1. gauge' = Cardinality(Live) - 1
      BY SameCardinality DEF Registry!Disconnect, RegistryMirrorsHandlers,
                             Registry!RegistryMirrorsHandlers
    <2> QED
      BY <1>2, <2>1, FS_RemoveElement
  <1> QED
    BY <1>3, <1>4, SameCardinality DEF RegistryMirrorsHandlers, Registry!RegistryMirrorsHandlers

\* A handler whose stage stays on one side of the finally keeps the live set.
LEMMA LiveKept ==
    ASSUME TypeInv, NEW c \in Conns, c \in Live, UNCHANGED registryVars,
           NEW s \in Stages \ {"new", "done"}, Goto(c, s)
    PROVE  UNCHANGED Registry!registryVars
  <1>1. Live' = Live
    BY DEF Live, Goto, TypeInv, TypeOK
  <1> QED
    BY <1>1 DEF registryVars, Registry!registryVars

LEMMA GatewayImplementsRegistry == Spec => Registry!Spec
  <1>1. Init => Registry!Init
    BY DEF Init, Registry!Init, Live
  <1>2. TypeInv /\ [Next]_vars => [Registry!Next]_(Registry!registryVars)
    <2> SUFFICES ASSUME TypeInv, [Next]_vars
                 PROVE  Registry!Next \/ UNCHANGED Registry!registryVars
      OBVIOUS
    <2>1. ASSUME NEW c \in Conns, ClientStep(c)
          PROVE  Registry!Next \/ UNCHANGED Registry!registryVars
      <3>1. ASSUME NEW t \in Users \cup {BadToken}, Handshake(c, t)
            PROVE  Registry!Next \/ UNCHANGED Registry!registryVars
        <4>1. CASE Accept(c)
          BY <4>1 DEF Accept, Registry!Next
        <4>2. CASE RejectToken(c)
          <5>1. Live' = Live
            BY <4>2 DEF RejectToken, Goto, Live, TypeInv, TypeOK
          <5> QED
            BY <4>2, <5>1 DEF RejectToken, registryVars, Registry!registryVars
        <4> QED
          BY <3>1, <4>1, <4>2 DEF Handshake
      <3>2. CASE ClientLeaves(c)
        BY <3>2 DEF ClientLeaves, registryVars, Registry!registryVars, Live
      <3>3. CASE \/ \E q \in Queries : ReceiveQuestion(c, q)
                 \/ ReceiveUnusable(c)
                 \/ ReceiveMalformed(c)
                 \/ ReceiveNonObject(c)
        <4>1. /\ c \in Live /\ UNCHANGED registryVars
              /\ \E s \in Stages \ {"new", "done"} : Goto(c, s)
          BY <3>3 DEF ReceiveQuestion, ReceiveUnusable, ReceiveMalformed,
                      ReceiveNonObject, Receive, Live, Stages
        <4> QED
          BY <4>1, LiveKept
      <3> QED
        BY <2>1, <3>1, <3>2, <3>3 DEF ClientStep
    <2>2. ASSUME NEW c \in Conns, HandlerStep(c)
          PROVE  Registry!Next \/ UNCHANGED Registry!registryVars
      <3>1. CASE Cleanup(c)
        BY <3>1 DEF Cleanup, Registry!Next
      <3>2. CASE ~Cleanup(c)
        <4>1. /\ c \in Live /\ UNCHANGED registryVars
              /\ \E s \in Stages \ {"new", "done"} : Goto(c, s)
          <5> USE <3>2 DEF Stages, Live
          <5>1. CASE \/ ReceiveDisconnect(c) \/ RefuseMessage(c) \/ CloseMalformed(c)
                     \/ LookupHit(c) \/ LookupMiss(c) \/ SendHit(c) \/ PersistHit(c)
            BY <5>1 DEF ReceiveDisconnect, RefuseMessage, CloseMalformed, LookupHit,
                        LookupMiss, SendHit, PersistHit, SendError, SendAnswer, SendRaises
          <5>2. CASE \/ CheckBudget(c) \/ SendOverBudget(c) \/ SendTyping(c)
                     \/ AcquireSemaphore(c) \/ ResumeWithPermit(c)
            BY <5>2 DEF CheckBudget, SendOverBudget, SendTyping, AcquireSemaphore,
                        ResumeWithPermit, SendError, SendRaises, Crash
          <5>3. CASE \/ LlmSucceeds(c) \/ LlmFails(c) \/ StoreInCache(c)
                     \/ PersistAnswer(c) \/ Reply(c)
            BY <5>3 DEF LlmSucceeds, LlmFails, StoreInCache, PersistAnswer, Reply,
                        SendAnswer, SendRaises
          <5>4. CASE ExpireCounter(c) \/ \E t \in TokenCosts : RecordSpend(c, t)
            BY <5>4 DEF ExpireCounter, RecordSpend, Crash
          <5> QED
            BY <2>2, <5>1, <5>2, <5>3, <5>4 DEF HandlerStep
        <4> QED
          BY <4>1, LiveKept
      <3> QED
        BY <3>1, <3>2
    <2>3. CASE \/ \E k \in Keys : CacheLapse(k)
               \/ TimePasses
               \/ \E u \in Users, d \in 0..LastDay : CounterLapses(u, d)
               \/ AllDone
               \/ UNCHANGED vars
      BY <2>3 DEF CacheLapse, TimePasses, CounterLapses, AllDone, vars,
                  registryVars, Registry!registryVars, Live
    <2> QED
      BY <2>1, <2>2, <2>3 DEF Next
  <1> QED
    BY <1>1, <1>2, TypeInvariant, PTL DEF Spec, Registry!Spec

\* The manager holds exactly the sockets whose handlers run, and the gauge counts
\* them: the finally block of chat_websocket is reached on every path.
THEOREM GatewayRegistryMirrorsHandlers == Spec => []RegistryMirrorsHandlers
  <1> USE GatewayAssumption
  <1>1. Registry!Init => RegistryMirrorsHandlers
    <2> SUFFICES ASSUME Registry!Init PROVE RegistryMirrorsHandlers
      OBVIOUS
    <2>1. connections = [u \in {UserOf[c] : c \in Live} |-> {c \in Live : UserOf[c] = u}]
      BY DEF Registry!Init
    <2>2. gauge = Cardinality(Live)
      BY FS_EmptySet DEF Registry!Init
    <2> QED
      BY <2>1, <2>2, SameCardinality DEF RegistryMirrorsHandlers, Registry!RegistryMirrorsHandlers
  <1>2. RegistryMirrorsHandlers /\ [Registry!Next]_(Registry!registryVars)
            => RegistryMirrorsHandlers'
    <2> SUFFICES ASSUME RegistryMirrorsHandlers, [Registry!Next]_(Registry!registryVars)
                 PROVE  RegistryMirrorsHandlers'
      OBVIOUS
    <2>1. ASSUME NEW c \in Conns, Registry!Connect(c) \/ Registry!Disconnect(c)
          PROVE  RegistryMirrorsHandlers'
      BY <2>1, ConnectMirrors, DisconnectMirrors
    <2>2. CASE UNCHANGED Registry!registryVars
      BY <2>2 DEF Registry!registryVars, RegistryMirrorsHandlers,
                  Registry!RegistryMirrorsHandlers
    <2> QED
      BY <2>1, <2>2 DEF Registry!Next
  <1> QED
    BY <1>1, <1>2, GatewayImplementsRegistry, PTL DEF Registry!Spec

----------------------------------------------------------------------------
(* One reply per message *)

\* A message that was received and not replied to yet is in hand.
Pending == (Asked \ {"hitlog"}) \cup {"refuse"}

ReplyInv ==
    \A c \in Conns :
        /\ replies[c] <= received[c]
        /\ pc[c] \in {"new", "idle", "hitlog"} => replies[c] = received[c]
        /\ pc[c] \in Pending => replies[c] + 1 = received[c]

\* The handler reads the next message only when every one before it has had its
\* reply, and no message gets two.
THEOREM GatewayOneReplyPerMessage == Spec => []OneReplyPerMessage
  <1> USE GatewayAssumption DEF GatewayAssumption
  <1>1. Init => ReplyInv
    BY DEF Init, ReplyInv, Pending, Asked
  <1>2. TypeInv /\ ReplyInv /\ [Next]_vars => ReplyInv'
    <2> SUFFICES ASSUME TypeInv, ReplyInv, [Next]_vars PROVE ReplyInv'
      OBVIOUS
    <2>0. /\ pc \in [Conns -> Stages]
          /\ received \in [Conns -> 0..MaxMessages]
          /\ replies \in [Conns -> Nat]
      BY DEF TypeInv, TypeOK
    <2> USE DEF ReplyInv, Pending, Asked, Goto, messageVars, wireVars, Forget,
                WriteFrame, SendRaises
    <2>1. ASSUME NEW c \in Conns, ClientStep(c) PROVE ReplyInv'
      <3>1. CASE ClientLeaves(c) \/ \E t \in Users \cup {BadToken} : Handshake(c, t)
        BY <2>0, <3>1 DEF ClientLeaves, Handshake, Accept, RejectToken
      <3>2. CASE ~(ClientLeaves(c) \/ \E t \in Users \cup {BadToken} : Handshake(c, t))
        <4>1. \E s \in {"lookup", "refuse", "badformat", "closing"} : Receive(c, s)
          BY <2>1, <3>2 DEF ClientStep, ReceiveQuestion, ReceiveUnusable,
                            ReceiveMalformed, ReceiveNonObject
        <4> QED
          BY <2>0, <4>1 DEF Receive
      <3> QED
        BY <3>1, <3>2
    <2>2. ASSUME NEW c \in Conns, HandlerStep(c) PROVE ReplyInv'
      <3>1. CASE \/ ReceiveDisconnect(c) \/ CloseMalformed(c) \/ LookupHit(c)
                 \/ LookupMiss(c) \/ PersistHit(c)
        BY <2>0, <3>1 DEF ReceiveDisconnect, CloseMalformed, LookupHit, LookupMiss,
                          PersistHit
      <3>2. CASE RefuseMessage(c) \/ SendOverBudget(c)
        BY <2>0, <3>2 DEF RefuseMessage, SendOverBudget, SendError
      <3>3. CASE SendHit(c) \/ Reply(c)
        BY <2>0, <3>3 DEF SendHit, Reply, SendAnswer
      <3>4. CASE CheckBudget(c) \/ SendTyping(c) \/ StoreInCache(c) \/ ExpireCounter(c)
        BY <2>0, <3>4 DEF CheckBudget, SendTyping, StoreInCache, ExpireCounter, Crash
      <3>5. CASE \/ AcquireSemaphore(c) \/ ResumeWithPermit(c) \/ LlmSucceeds(c)
                 \/ LlmFails(c)
        <4>1. /\ pc[c] \in Pending /\ \E s \in Pending : Goto(c, s)
              /\ UNCHANGED <<received, replies>>
          BY <3>5 DEF AcquireSemaphore, ResumeWithPermit, LlmSucceeds, LlmFails
        <4> QED
          BY <2>0, <4>1
      <3>6. ASSUME NEW t \in TokenCosts, RecordSpend(c, t) PROVE ReplyInv'
        BY <2>0, <3>6 DEF RecordSpend, Crash
      <3>7. CASE PersistAnswer(c) \/ Cleanup(c)
        BY <2>0, <3>7 DEF PersistAnswer, Cleanup
      <3> QED
        BY <2>2, <3>1, <3>2, <3>3, <3>4, <3>5, <3>6, <3>7 DEF HandlerStep
    <2>3. CASE \/ \E k \in Keys : CacheLapse(k)
               \/ TimePasses
               \/ \E u \in Users, d \in 0..LastDay : CounterLapses(u, d)
               \/ AllDone
               \/ UNCHANGED vars
      BY <2>3 DEF CacheLapse, TimePasses, CounterLapses, AllDone, vars
    <2> QED
      BY <2>1, <2>2, <2>3 DEF Next
  <1>3. ReplyInv => OneReplyPerMessage
    BY DEF ReplyInv, OneReplyPerMessage
  <1> QED
    BY <1>1, <1>2, <1>3, TypeInvariant, PTL DEF Spec
----------------------------------------------------------------------------
(* Answers belong to the user and the text *)

\* A successful answer that may be replayed under key k.
Replayable(a, k) ==
    /\ a \in Answers
    /\ a.ok
    /\ CacheKey(UserOf[a.conn], a.query) = k

\* The answer the agent produced for the very message it goes with.
Own(a, c, m, q) == a \in Answers /\ a.conn = c /\ a.msg = m /\ a.query = q

OwnInHand(c) == Own(answer[c], c, received[c], query[c])

CacheInv == \A k \in Keys : cache[k] # NoAnswer => Replayable(cache[k], k)

InHandInv ==
    \A c \in Conns :
        /\ pc[c] \in {"hit", "hitlog"} => Replayable(answer[c], KeyInHand(c))
        /\ pc[c] \in {"store", "spend", "expire", "persist", "reply"} => OwnInHand(c)
        /\ pc[c] = "store" => answer[c].ok

SentInv ==
    \A f \in sent :
        \/ f.answer.conn = f.to /\ f.answer.msg = f.msg
        \/ Replayable(f.answer, CacheKey(UserOf[f.to], f.query))

AnswerInv == CacheInv /\ InHandInv /\ SentInv

\* What c holds, or what there is to compare it with, did not change.
LEMMA InHandKept ==
    ASSUME TypeInv, InHandInv, NEW c \in Conns, NEW s \in Stages, Goto(c, s),
           \A e \in Conns : e # c => UNCHANGED <<answer[e], query[e], received[e]>>,
           s \in {"hit", "hitlog"} => Replayable(answer[c], KeyInHand(c))',
           s \in {"store", "spend", "expire", "persist", "reply"} => OwnInHand(c)',
           s = "store" => answer'[c].ok
    PROVE  InHandInv'
  <1>1. pc' = [pc EXCEPT ![c] = s] /\ pc \in [Conns -> Stages]
    BY DEF TypeInv, TypeOK, Goto
  <1> QED
    BY <1>1 DEF InHandInv, OwnInHand, KeyInHand

\* An answer that was just produced.
LEMMA ProducedIsOwn ==
    ASSUME TypeInv, NEW c \in Conns, pc[c] \in Asked, NEW s \in BOOLEAN,
           AnswerInHand(c, s), UNCHANGED <<query, received>>
    PROVE  /\ OwnInHand(c)' /\ answer'[c].ok = s
           /\ \A e \in Conns : e # c => answer'[e] = answer[e]
  <1>1. AnswerOf(c)
    BY AnswerTyped
  <1>2. answer'[c] = [conn |-> c, msg |-> received[c], query |-> query[c], ok |-> s]
    BY DEF AnswerInHand, TypeInv, TypeOK
  <1> QED
    BY <1>1, <1>2 DEF OwnInHand, Own, AnswerOf

\* An answer of one's own is replayable for the text in hand if it succeeded.
LEMMA OwnIsReplayable ==
    ASSUME NEW c \in Conns, OwnInHand(c), answer[c].ok
    PROVE  Replayable(answer[c], KeyInHand(c))
  BY DEF OwnInHand, Own, Replayable, KeyInHand

LEMMA SentKept ==
    ASSUME SentInv, NEW c \in Conns,
           sent' = sent \/ sent' = sent \cup {Frame(c)},
           OwnInHand(c) \/ Replayable(answer[c], KeyInHand(c))
    PROVE  SentInv'
  BY DEF SentInv, Frame, OwnInHand, Own, KeyInHand

LEMMA AnswerInvariant == Spec => []AnswerInv
  <1> USE GatewayAssumption
  <1>1. Init => AnswerInv
    BY DEF Init, AnswerInv, CacheInv, InHandInv, SentInv
  <1>2. TypeInv /\ AnswerInv /\ [Next]_vars => AnswerInv'
    <2> SUFFICES ASSUME TypeInv, CacheInv, InHandInv, SentInv, [Next]_vars
                 PROVE  CacheInv' /\ InHandInv' /\ SentInv'
      BY DEF AnswerInv
    <2> DEFINE Goal == CacheInv' /\ InHandInv' /\ SentInv'
    <2>a. ASSUME UNCHANGED cache PROVE CacheInv'
      BY <2>a DEF CacheInv
    <2>b. ASSUME UNCHANGED sent PROVE SentInv'
      BY <2>b DEF SentInv
    <2>1. ASSUME NEW c \in Conns, ClientStep(c) PROVE Goal
      <3>0. UNCHANGED <<cache, sent>>
        BY <2>1 DEF ClientStep, ClientLeaves, Handshake, Accept, RejectToken, Receive,
                    ReceiveQuestion, ReceiveUnusable, ReceiveMalformed,
                    ReceiveNonObject, wireVars, storeVars
      <3>1. CASE ClientLeaves(c)
        BY <3>1, <3>0, <2>a, <2>b
           DEF ClientLeaves, messageVars, InHandInv, OwnInHand, KeyInHand
      <3>2. CASE ~ClientLeaves(c)
        <4>1. /\ \E s \in {"idle", "done", "lookup", "refuse", "badformat", "closing"} :
                     Goto(c, s)
              /\ UNCHANGED answer
              /\ query' = query \/ \E q \in Queries : query' = [query EXCEPT ![c] = q]
              /\ received' = received \/ received' = [received EXCEPT ![c] = @ + 1]
          BY <2>1, <3>2 DEF ClientStep, Handshake, Accept, RejectToken, Receive,
                 ReceiveQuestion, ReceiveUnusable, ReceiveMalformed, ReceiveNonObject,
                 messageVars
        <4>2. \A e \in Conns : e # c => UNCHANGED <<answer[e], query[e], received[e]>>
          BY <4>1 DEF TypeInv, TypeOK
        <4>3. InHandInv'
          BY <4>1, <4>2, InHandKept DEF Stages
        <4> QED
          BY <3>0, <4>3, <2>a, <2>b
      <3> QED
        BY <3>1, <3>2
    <2>2. ASSUME NEW c \in Conns, HandlerStep(c) PROVE Goal
      <3>1. CASE LookupHit(c)
        <4>1. /\ Goto(c, "hit") /\ UNCHANGED <<query, received, sent, cache>>
              /\ pc[c] = "lookup" /\ cache[KeyInHand(c)] # NoAnswer
              /\ answer' = [answer EXCEPT ![c] = cache[KeyInHand(c)]]
          BY <3>1 DEF LookupHit, wireVars, storeVars
        <4>2. Replayable(cache[KeyInHand(c)], KeyInHand(c))
          BY <4>1, InHandTyped DEF CacheInv, Asked
        <4>3. /\ answer'[c] = cache[KeyInHand(c)] /\ KeyInHand(c)' = KeyInHand(c)
              /\ \A e \in Conns : e # c => answer'[e] = answer[e]
          BY <4>1 DEF TypeInv, TypeOK, KeyInHand
        <4>4. Replayable(answer[c], KeyInHand(c))'
          BY <4>2, <4>3 DEF Replayable
        <4>5. InHandInv'
          BY <4>1, <4>3, <4>4, InHandKept DEF Stages
        <4> QED
          BY <4>1, <4>5, <2>a, <2>b
      <3>2. CASE LlmSucceeds(c) \/ LlmFails(c)
        <4>1. /\ pc[c] \in Asked /\ UNCHANGED <<query, received, sent, cache>>
              /\ \/ Goto(c, "store") /\ AnswerInHand(c, TRUE)
                 \/ Goto(c, "persist") /\ AnswerInHand(c, FALSE)
          BY <3>2 DEF LlmSucceeds, LlmFails, Asked, wireVars, storeVars
        <4>2. CASE Goto(c, "store") /\ AnswerInHand(c, TRUE)
          <5>1. /\ OwnInHand(c)' /\ answer'[c].ok
                /\ \A e \in Conns : e # c => answer'[e] = answer[e]
            BY <4>1, <4>2, ProducedIsOwn
          <5>2. InHandInv'
            BY <4>1, <4>2, <5>1, InHandKept DEF Stages
          <5> QED
            BY <4>1, <5>2, <2>a, <2>b
        <4>3. CASE Goto(c, "persist") /\ AnswerInHand(c, FALSE)
          <5>1. /\ OwnInHand(c)'
                /\ \A e \in Conns : e # c => answer'[e] = answer[e]
            BY <4>1, <4>3, ProducedIsOwn
          <5>2. InHandInv'
            BY <4>1, <4>3, <5>1, InHandKept DEF Stages
          <5> QED
            BY <4>1, <5>2, <2>a, <2>b
        <4> QED
          BY <4>1, <4>2, <4>3
      <3>3. CASE SendHit(c) \/ Reply(c)
        <4>1. /\ pc[c] \in {"hit", "reply"}
              /\ pc[c] = "hit" \/ pc'[c] # "hitlog"
              /\ \E s \in {"hitlog", "idle", "closing"} :
                     Goto(c, s) /\ (s = "hitlog" => pc[c] = "hit")
              /\ UNCHANGED <<cache, received>>
              /\ sent' = sent \/ sent' = sent \cup {Frame(c)}
              /\ UNCHANGED <<query, answer>> \/ (Goto(c, "idle") /\ Forget(c))
          BY <3>3 DEF SendHit, Reply, SendAnswer, SendRaises, Forget, Goto,
                      messageVars, storeVars, TypeInv, TypeOK
        <4>2. OwnInHand(c) \/ Replayable(answer[c], KeyInHand(c))
          BY <4>1 DEF InHandInv
        <4>3. \A e \in Conns : e # c => UNCHANGED <<answer[e], query[e], received[e]>>
          BY <4>1 DEF Forget, TypeInv, TypeOK
        <4>4. CASE Goto(c, "hitlog")
          <5>1. /\ UNCHANGED <<query, answer>> /\ pc[c] = "hit"
            BY <4>1, <4>4 DEF Goto, TypeInv, TypeOK
          <5>2. Replayable(answer[c], KeyInHand(c))'
            BY <5>1 DEF InHandInv, Replayable, KeyInHand
          <5> QED
            BY <4>1, <4>2, <4>3, <4>4, <5>2, <2>a, InHandKept, SentKept DEF Stages
        <4>5. CASE Goto(c, "idle") \/ Goto(c, "closing")
          BY <4>1, <4>2, <4>3, <4>5, <2>a, InHandKept, SentKept DEF Stages
        <4> QED
          BY <4>1, <4>4, <4>5
      <3>4. CASE StoreInCache(c)
        <4>1. /\ pc[c] = "store" /\ UNCHANGED <<query, received, answer, sent>>
              /\ \E s \in {"spend", "persist"} : Goto(c, s)
              /\ cache' = cache \/ cache' = [cache EXCEPT ![KeyInHand(c)] = answer[c]]
          BY <3>4 DEF StoreInCache, PutInCache, messageVars, wireVars
        <4>2. OwnInHand(c) /\ answer[c].ok
          BY <4>1 DEF InHandInv
        <4>3. CacheInv'
          <5>1. Replayable(answer[c], KeyInHand(c))
            BY <4>2, OwnIsReplayable
          <5> QED
            BY <4>1, <5>1 DEF CacheInv, TypeInv, TypeOK
        <4>4. OwnInHand(c)'
          BY <4>1, <4>2 DEF OwnInHand
        <4>5. InHandInv'
          BY <4>1, <4>4, InHandKept DEF Stages
        <4> QED
          BY <4>1, <4>3, <4>5, <2>b
      <3>5. ASSUME UNCHANGED <<query, received, answer, sent, cache>>,
                   NEW s \in {"spend", "expire", "persist", "reply", "closing"},
                   Goto(c, s),
                   pc[c] \in {"spend", "expire", "persist"}
            PROVE  Goal
        <4>1. OwnInHand(c)'
          BY <3>5 DEF InHandInv, OwnInHand
        <4>2. InHandInv'
          BY <3>5, <4>1, InHandKept DEF Stages
        <4> QED
          BY <3>5, <4>2, <2>a, <2>b
      <3>6. ASSUME NEW t \in TokenCosts, RecordSpend(c, t) PROVE Goal
        <4>1. /\ pc[c] = "spend" /\ \E s \in {"expire", "persist", "closing"} : Goto(c, s)
              /\ UNCHANGED <<query, received, answer, sent, cache>>
          BY <3>6 DEF RecordSpend, Crash, messageVars, wireVars, storeVars
        <4> QED
          BY <4>1, <3>5
      <3>7. CASE ExpireCounter(c) \/ PersistAnswer(c)
        <4>1. /\ pc[c] \in {"expire", "persist"}
              /\ \E s \in {"persist", "reply", "closing"} : Goto(c, s)
              /\ UNCHANGED <<query, received, answer, sent, cache>>
          BY <3>7 DEF ExpireCounter, PersistAnswer, Crash, messageVars, wireVars, storeVars
        <4> QED
          BY <4>1, <3>5
      <3>8. CASE \/ ReceiveDisconnect(c) \/ RefuseMessage(c) \/ CloseMalformed(c)
                 \/ LookupMiss(c) \/ PersistHit(c) \/ CheckBudget(c)
                 \/ SendOverBudget(c) \/ SendTyping(c) \/ AcquireSemaphore(c)
                 \/ ResumeWithPermit(c) \/ Cleanup(c)
        <4>1. /\ \E s \in {"idle", "closing", "done", "budget", "typing", "over",
                           "acquire", "waiting", "llm"} : Goto(c, s)
              /\ UNCHANGED <<cache, sent, received>>
              /\ UNCHANGED messageVars \/ Forget(c)
          <5> USE DEF messageVars, wireVars, storeVars
          <5>1. CASE \/ ReceiveDisconnect(c) \/ RefuseMessage(c) \/ CloseMalformed(c)
                     \/ LookupMiss(c) \/ PersistHit(c)
            BY <5>1 DEF ReceiveDisconnect, RefuseMessage, CloseMalformed, LookupMiss,
                        PersistHit, SendError, SendRaises, Forget
          <5>2. CASE CheckBudget(c) \/ SendOverBudget(c) \/ SendTyping(c)
            BY <5>2 DEF CheckBudget, SendOverBudget, SendTyping, SendError, SendRaises,
                        Crash, Forget
          <5>3. CASE AcquireSemaphore(c) \/ ResumeWithPermit(c) \/ Cleanup(c)
            BY <5>3 DEF AcquireSemaphore, ResumeWithPermit, Cleanup, Forget
          <5> QED
            BY <3>8, <5>1, <5>2, <5>3
        <4>2. \A e \in Conns : e # c => UNCHANGED <<answer[e], query[e], received[e]>>
          BY <4>1 DEF Forget, messageVars, TypeInv, TypeOK
        <4>3. InHandInv'
          BY <4>1, <4>2, InHandKept DEF Stages
        <4> QED
          BY <4>1, <4>3, <2>a, <2>b
      <3> QED
        BY <2>2, <3>1, <3>2, <3>3, <3>4, <3>6, <3>7, <3>8 DEF HandlerStep
    <2>3. ASSUME NEW k \in Keys, CacheLapse(k) PROVE Goal
      <3>1. /\ UNCHANGED <<pc, query, received, answer, sent>>
            /\ cache' = [cache EXCEPT ![k] = NoAnswer]
        BY <2>3 DEF CacheLapse, messageVars, wireVars
      <3>2. CacheInv'
        BY <3>1 DEF CacheInv, TypeInv, TypeOK
      <3> QED
        BY <3>1, <3>2, <2>b DEF InHandInv, OwnInHand, KeyInHand
    <2>4. CASE \/ TimePasses
               \/ \E u \in Users, d \in 0..LastDay : CounterLapses(u, d)
               \/ AllDone
               \/ UNCHANGED vars
      <3>1. UNCHANGED <<pc, query, received, answer, sent, cache>>
        BY <2>4 DEF TimePasses, CounterLapses, AllDone, vars, messageVars,
                    wireVars, storeVars
      <3> QED
        BY <3>1, <2>a, <2>b DEF InHandInv, OwnInHand, KeyInHand
    <2> QED
      BY <2>1, <2>2, <2>3, <2>4 DEF Next
  <1> QED
    BY <1>1, <1>2, TypeInvariant, PTL DEF Spec

\* The elements of a concatenation, those of either part under their own index.
LEMMA Concat ==
    ASSUME NEW S, NEW u \in Seq(S), NEW t \in Seq(S)
    PROVE  /\ u \o t \in Seq(S)
           /\ Len(u \o t) = Len(u) + Len(t)
           /\ \A i \in 1..Len(u) : (u \o t)[i] = u[i]
           /\ \A i \in 1..Len(t) : (u \o t)[Len(u) + i] = t[i]
  <1>1. Len(u) \in Nat /\ Len(t) \in Nat
    OBVIOUS
  <1>2. /\ u \o t \in Seq(S)
        /\ Len(u \o t) = Len(u) + Len(t)
        /\ \A i \in 1 .. Len(u) + Len(t) : (u \o t)[i] =
                     IF i <= Len(u) THEN u[i] ELSE t[i - Len(u)]
    BY ConcatProperties
  <1>3. ASSUME NEW i \in 1..Len(t) PROVE (u \o t)[Len(u) + i] = t[i]
    <2>1. Len(u) + i \in 1..Len(u) + Len(t) /\ ~(Len(u) + i <= Len(u)) /\ (Len(u) + i) - Len(u) = i
      BY <1>1
    <2> QED
      BY <1>2, <2>1
  <1>4. ASSUME NEW i \in 1..Len(u) PROVE (u \o t)[i] = u[i]
    <2>1. i \in 1..Len(u) + Len(t) /\ i <= Len(u)
      BY <1>1
    <2> QED
      BY <1>2, <2>1
  <1> QED
    BY <1>2, <1>3, <1>4

\* The elements of two sequences around a separator.
LEMMA SplicedParts ==
    ASSUME NEW S, NEW k \in S, NEW u \in Seq(S), NEW t \in Seq(S)
    PROVE  /\ u \o <<k>> \o t \in Seq(S)
           /\ Len(u \o <<k>> \o t) = Len(u) + 1 + Len(t)
           /\ \A i \in 1..Len(u) : (u \o <<k>> \o t)[i] = u[i]
           /\ (u \o <<k>> \o t)[Len(u) + 1] = k
           /\ \A i \in 1..Len(t) : (u \o <<k>> \o t)[Len(u) + 1 + i] = t[i]
  <1>1. <<k>> \in Seq(S) /\ Len(<<k>>) = 1 /\ <<k>>[1] = k
    OBVIOUS
  <1>2. PICK c \in Seq(S) : c = <<k>> /\ Len(c) = 1 /\ c[1] = k
    BY <1>1
  <1>3. PICK a \in Seq(S) :
            /\ a = u \o c
            /\ Len(a) = Len(u) + 1
            /\ \A i \in 1..Len(u) : a[i] = u[i]
            /\ a[Len(u) + 1] = k
    <2>1. /\ u \o c \in Seq(S) /\ Len(u \o c) = Len(u) + Len(c)
          /\ \A i \in 1..Len(u) : (u \o c)[i] = u[i]
          /\ \A i \in 1..Len(c) : (u \o c)[Len(u) + i] = c[i]
      BY Concat
    <2>2. 1 \in 1..Len(c)
      BY <1>2
    <2> QED
      BY <1>2, <2>1, <2>2
  <1>4. /\ a \o t \in Seq(S) /\ Len(a \o t) = Len(a) + Len(t)
        /\ \A i \in 1..Len(a) : (a \o t)[i] = a[i]
        /\ \A i \in 1..Len(t) : (a \o t)[Len(a) + i] = t[i]
    BY Concat
  <1>5. Len(u) + 1 \in 1..Len(a) /\ \A i \in 1..Len(u) : i \in 1..Len(a)
    BY <1>3
  <1>6. /\ a \o t \in Seq(S)
        /\ Len(a \o t) = Len(u) + 1 + Len(t)
        /\ \A i \in 1..Len(u) : (a \o t)[i] = u[i]
        /\ (a \o t)[Len(u) + 1] = k
        /\ \A i \in 1..Len(t) : (a \o t)[Len(u) + 1 + i] = t[i]
    BY <1>3, <1>4, <1>5
  <1> QED
    BY <1>2, <1>3, <1>6

Joined(u, t) == u \o <<":">> \o t

LEMMA JoinedParts ==
    ASSUME GatewayAssumption, NEW u \in Texts, NEW t \in Texts
    PROVE  /\ Joined(u, t) \in Texts
           /\ Len(Joined(u, t)) = Len(u) + 1 + Len(t)
           /\ \A i \in 1..Len(u) : Joined(u, t)[i] = u[i]
           /\ Joined(u, t)[Len(u) + 1] = ":"
           /\ \A i \in 1..Len(t) : Joined(u, t)[Len(u) + 1 + i] = t[i]
  <1>1. PICK k \in Chars : k = ":"
    BY DEF GatewayAssumption
  <1>2. Joined(u, t) = u \o <<k>> \o t
    BY <1>1 DEF Joined
  <1>3. u \in Seq(Chars) /\ t \in Seq(Chars)
    BY DEF Texts
  <1> QED
    BY <1>1, <1>2, <1>3, SplicedParts DEF Texts

\* Two ids of one length that make one key are the same, with the same text.
LEMMA JoinedSame ==
    ASSUME GatewayAssumption, NEW u \in Texts, NEW t \in Texts,
           NEW v \in Texts, NEW s \in Texts,
           Joined(u, t) = Joined(v, s), Len(u) = Len(v)
    PROVE  u = v /\ t = s
  <1>1. /\ u \in Seq(Chars) /\ t \in Seq(Chars)
        /\ v \in Seq(Chars) /\ s \in Seq(Chars)
    BY DEF Texts
  <1>2. PICK j \in Seq(Chars), n \in Nat, k \in Nat :
            /\ j = Joined(u, t) /\ n = Len(u) /\ k = Len(t)
            /\ Len(j) = n + 1 + k
            /\ \A i \in 1..n : j[i] = u[i]
            /\ \A i \in 1..k : j[n + 1 + i] = t[i]
    <2>1. /\ Joined(u, t) \in Seq(Chars)
          /\ Len(Joined(u, t)) = Len(u) + 1 + Len(t)
          /\ \A i \in 1..Len(u) : Joined(u, t)[i] = u[i]
          /\ \A i \in 1..Len(t) : Joined(u, t)[Len(u) + 1 + i] = t[i]
      BY JoinedParts DEF Texts
    <2>2. Len(u) \in Nat /\ Len(t) \in Nat
      BY ONLY <1>1
    <2> QED
      BY ONLY <2>1, <2>2
  <1>3. PICK m \in Nat :
            /\ m = Len(s)
            /\ Len(j) = n + 1 + m
            /\ \A i \in 1..n : j[i] = v[i]
            /\ \A i \in 1..m : j[n + 1 + i] = s[i]
    <2>1. /\ Len(Joined(v, s)) = Len(v) + 1 + Len(s)
          /\ \A i \in 1..Len(v) : Joined(v, s)[i] = v[i]
          /\ \A i \in 1..Len(s) : Joined(v, s)[Len(v) + 1 + i] = s[i]
      BY JoinedParts
    <2>2. Len(s) \in Nat /\ Len(v) = n /\ Joined(v, s) = j
      BY <1>1, <1>2
    <2> QED
      BY ONLY <2>1, <2>2
  <1>4. k = m
    BY ONLY <1>2, <1>3, n \in Nat, k \in Nat, m \in Nat
  <1>5. ASSUME NEW i \in 1..n PROVE u[i] = v[i]
    BY ONLY <1>2, <1>3, i \in 1..n
  <1>6. ASSUME NEW i \in 1..k PROVE t[i] = s[i]
    BY ONLY <1>2, <1>3, <1>4, i \in 1..k
  <1>7. u = v
    BY ONLY <1>1, <1>2, <1>5, Len(u) = Len(v), SeqEqual
  <1>8. t = s
    BY ONLY <1>1, <1>2, <1>3, <1>4, <1>6, SeqEqual
  <1> QED
    BY <1>7, <1>8

\* A longer id makes the key of a shorter one by continuing it after a colon.
LEMMA JoinedLonger ==
    ASSUME GatewayAssumption, NEW u \in Texts, NEW t \in Texts,
           NEW v \in Texts, NEW s \in Texts,
           Joined(u, t) = Joined(v, s), Len(u) < Len(v)
    PROVE  Shifted(u, t, v, s)
  <1>1. /\ u \in Seq(Chars) /\ t \in Seq(Chars)
        /\ v \in Seq(Chars) /\ s \in Seq(Chars)
    BY DEF Texts
  <1>2. PICK n \in Nat, m \in Nat : n = Len(u) /\ m = Len(v)
    BY <1>1
  <1>3. PICK j \in Seq(Chars) : j = Joined(v, s)
    BY JoinedParts DEF Texts
  <1>4. /\ \A i \in 1..n : j[i] = u[i]
        /\ j[n + 1] = ":"
        /\ \A i \in 1..Len(t) : j[n + 1 + i] = t[i]
        /\ Len(j) = n + 1 + Len(t)
    <2>1. /\ Len(Joined(u, t)) = Len(u) + 1 + Len(t)
          /\ \A i \in 1..Len(u) : Joined(u, t)[i] = u[i]
          /\ Joined(u, t)[Len(u) + 1] = ":"
          /\ \A i \in 1..Len(t) : Joined(u, t)[Len(u) + 1 + i] = t[i]
      BY JoinedParts
    <2>2. Joined(u, t) = j /\ Len(u) = n
      BY <1>2, <1>3
    <2> QED
      BY ONLY <2>1, <2>2
  <1>5. /\ \A i \in 1..m : j[i] = v[i]
        /\ j[m + 1] = ":"
        /\ \A i \in 1..Len(s) : j[m + 1 + i] = s[i]
        /\ Len(j) = m + 1 + Len(s)
    <2>1. /\ Len(Joined(v, s)) = Len(v) + 1 + Len(s)
          /\ \A i \in 1..Len(v) : Joined(v, s)[i] = v[i]
          /\ Joined(v, s)[Len(v) + 1] = ":"
          /\ \A i \in 1..Len(s) : Joined(v, s)[Len(v) + 1 + i] = s[i]
      BY JoinedParts
    <2>2. Joined(v, s) = j /\ Len(v) = m
      BY <1>2, <1>3
    <2> QED
      BY ONLY <2>1, <2>2
  <1>6. n < m /\ Len(t) \in Nat /\ Len(s) \in Nat
    <2>1. Len(t) \in Nat /\ Len(s) \in Nat
      BY ONLY <1>1
    <2> QED
      BY ONLY <1>2, <2>1, Len(u) < Len(v)
  <1>7. Len(t) = (m - n - 1) + 1 + Len(s)
    <2>1. Len(j) = n + 1 + Len(t) /\ Len(j) = m + 1 + Len(s)
      BY ONLY <1>4, <1>5
    <2> QED
      BY ONLY <1>6, <2>1, n \in Nat, m \in Nat
  <1>8. u = SubSeq(v, 1, n)
    <2>1. SubSeq(v, 1, n) \in Seq(Chars) /\ Len(SubSeq(v, 1, n)) = n
      BY <1>1, <1>2, <1>6
    <2>2. ASSUME NEW i \in 1..n PROVE u[i] = SubSeq(v, 1, n)[i]
      <3>1. i \in 1..m
        BY <1>6
      <3>2. SubSeq(v, 1, n)[i] = v[i]
        BY <1>1, <1>2, <1>6
      <3> QED
        BY <1>4, <1>5, <3>1, <3>2
    <2> QED
      BY <1>1, <1>2, <2>1, <2>2
  <1>9. v[n + 1] = ":"
    <2>1. n + 1 \in 1..m
      BY <1>6
    <2> QED
      BY <1>4, <1>5, <2>1
  <1>10. PICK w \in Texts :
            /\ w = SubSeq(v, n + 2, m)
            /\ Len(w) = m - n - 1
            /\ \A i \in 1..(m - n - 1) : w[i] = v[n + 1 + i]
    <2>1. /\ SubSeq(v, n + 2, m) \in Seq(Chars)
          /\ Len(SubSeq(v, n + 2, m)) = m - n - 1
          /\ \A i \in 1..(m - n - 1) : SubSeq(v, n + 2, m)[i] = v[n + 1 + i]
      BY <1>1, <1>2, <1>6
    <2> QED
      BY <2>1 DEF Texts
  <1>11. PICK r \in Seq(Chars) :
            /\ r = Joined(w, s)
            /\ Len(r) = (m - n - 1) + 1 + Len(s)
            /\ \A i \in 1..(m - n - 1) : r[i] = w[i]
            /\ r[m - n] = ":"
            /\ \A i \in 1..Len(s) : r[(m - n) + i] = s[i]
    <2>1. /\ Joined(w, s) \in Seq(Chars)
          /\ Len(Joined(w, s)) = Len(w) + 1 + Len(s)
          /\ \A i \in 1..Len(w) : Joined(w, s)[i] = w[i]
          /\ Joined(w, s)[Len(w) + 1] = ":"
          /\ \A i \in 1..Len(s) : Joined(w, s)[Len(w) + 1 + i] = s[i]
      BY JoinedParts DEF Texts
    <2>2. Len(w) = m - n - 1 /\ Len(w) + 1 = m - n
      BY <1>10
    <2> QED
      BY ONLY <2>1, <2>2
  <1>12. ASSUME NEW i \in 1..Len(t) PROVE t[i] = r[i]
    <2>1. t[i] = j[n + 1 + i]
      BY <1>4
    <2>2. CASE i < m - n
      <3>1. i \in 1..(m - n - 1) /\ n + 1 + i \in 1..m
        BY <1>6, <2>2
      <3> QED
        BY <1>5, <1>10, <1>11, <2>1, <3>1
    <2>3. CASE i = m - n
      <3>1. n + 1 + i = m + 1
        BY <1>6, <2>3
      <3> QED
        BY <1>5, <1>11, <2>1, <2>3, <3>1
    <2>4. CASE i > m - n
      <3>1. PICK k \in 1..Len(s) : i = (m - n) + k /\ n + 1 + i = m + 1 + k
        <4>1. /\ i - (m - n) \in 1..Len(s)
              /\ i = (m - n) + (i - (m - n))
              /\ n + 1 + i = m + 1 + (i - (m - n))
          BY <1>6, <1>7, <2>4
        <4> QED
          BY <4>1
      <3> QED
        BY <1>5, <1>11, <2>1, <3>1
    <2> QED
      BY <1>6, <2>2, <2>3, <2>4
  <1>13. t = r
    BY ONLY <1>1, <1>7, <1>11, <1>12, SeqEqual
  <1> QED
    BY <1>2, <1>6, <1>8, <1>9, <1>10, <1>11, <1>13 DEF Shifted, Joined

\* An answer that is not for the message it was produced for comes from the same
\* user and the same normalized text, whatever tabs, users and lapses interleave,
\* or from a user id and a text that the colon in the key tells apart from neither.
THEOREM GatewayReplayedAnswersFit == Spec => []ReplayedAnswersFit
  <1>1. TypeInv /\ AnswerInv => ReplayedAnswersFit
    <2> SUFFICES ASSUME TypeInv, AnswerInv, NEW f \in sent,
                        ~(f.answer.conn = f.to /\ f.answer.msg = f.msg)
                 PROVE  LET u == UserOf[f.answer.conn]
                            t == Normalize[f.answer.query]
                            v == UserOf[f.to]
                            s == Normalize[f.query]
                        IN \/ u = v /\ t = s
                           \/ Shifted(u, t, v, s)
                           \/ Shifted(v, s, u, t)
      BY DEF ReplayedAnswersFit
    <2> DEFINE u == UserOf[f.answer.conn]
               t == Normalize[f.answer.query]
               v == UserOf[f.to]
               s == Normalize[f.query]
    <2>1. Replayable(f.answer, CacheKey(UserOf[f.to], f.query))
      BY DEF AnswerInv, SentInv
    <2>2. f \in Frames
      BY DEF TypeInv, TypeOK
    <2>3. u \in Texts /\ t \in Texts /\ v \in Texts /\ s \in Texts
      BY <2>1, <2>2, GatewayAssumption DEF GatewayAssumption, Replayable, Answers, Frames
    <2>4. Joined(u, t) = Joined(v, s)
      BY <2>1 DEF Replayable, CacheKey, Joined
    <2> HIDE DEF u, t, v, s
    <2>5. Len(u) = Len(v) => u = v /\ t = s
      BY <2>3, <2>4, JoinedSame, GatewayAssumption
    <2>6. Len(u) < Len(v) => Shifted(u, t, v, s)
      BY <2>3, <2>4, JoinedLonger, GatewayAssumption
    <2>7. Len(v) < Len(u) => Shifted(v, s, u, t)
      BY <2>3, <2>4, JoinedLonger, GatewayAssumption
    <2>8. Len(u) = Len(v) \/ Len(u) < Len(v) \/ Len(v) < Len(u)
      <3>1. Len(u) \in Nat /\ Len(v) \in Nat
        BY ONLY <2>3 DEF Texts
      <3> QED
        BY ONLY <3>1
    <2>9. (u = v /\ t = s) \/ Shifted(u, t, v, s) \/ Shifted(v, s, u, t)
      BY ONLY <2>5, <2>6, <2>7, <2>8
    <2> QED
      BY <2>9 DEF u, t, v, s
  <1> QED
    BY <1>1, TypeInvariant, AnswerInvariant, PTL

\* The fallback text of a failed call is sent for no other message.
THEOREM GatewayFallbacksAreNotReplayed == Spec => []FallbacksAreNotReplayed
  <1>1. AnswerInv => FallbacksAreNotReplayed
    BY DEF AnswerInv, SentInv, FallbacksAreNotReplayed, Replayable
  <1> QED
    BY <1>1, AnswerInvariant, PTL
----------------------------------------------------------------------------
(* Answers that were sent are in chat_logs *)

\* The hit that was just sent and is about to be logged.
JustSent(f) == pc[f.to] = "hitlog" /\ f = Frame(f.to)

LogInv ==
    /\ \A f \in sent : f.to \in Conns /\ (RowOf(f) \in logs \/ JustSent(f))
    /\ \A c \in Conns : pc[c] = "reply" => Row(c) \in logs

\* A step that sends nothing, loses no row and leaves the hits about to be logged
\* and the answers about to be sent as they are.
LEMMA LogKept ==
    ASSUME TypeInv, LogInv, NEW c \in Conns, NEW s \in Stages, Goto(c, s),
           pc[c] # "hitlog" \/ Row(c) \in logs', s # "reply" \/ Row(c)' \in logs',
           UNCHANGED sent, logs \subseteq logs',
           \A e \in Conns : e # c => UNCHANGED <<answer[e], query[e], received[e]>>
    PROVE  LogInv'
  <1>1. pc' = [pc EXCEPT ![c] = s] /\ pc \in [Conns -> Stages]
    BY DEF TypeInv, TypeOK, Goto
  <1>2. \A e \in Conns : e # c => UNCHANGED <<pc[e], Frame(e), Row(e)>>
    BY <1>1 DEF Frame, Row
  <1>3. ASSUME NEW f \in sent PROVE RowOf(f) \in logs' \/ JustSent(f)'
    <2>1. CASE RowOf(f) \in logs
      BY <2>1
    <2>2. CASE JustSent(f) /\ f.to = c
      <3>1. RowOf(f) = Row(c)
        BY <2>2 DEF JustSent, Frame, Row, RowOf
      <3> QED
        BY <2>2, <3>1 DEF JustSent
    <2>3. CASE JustSent(f) /\ f.to # c
      BY <1>2, <2>3 DEF JustSent, LogInv
    <2> QED
      BY <2>1, <2>2, <2>3 DEF LogInv
  <1>4. ASSUME NEW e \in Conns, pc'[e] = "reply" PROVE Row(e)' \in logs'
    BY <1>1, <1>2, <1>4 DEF LogInv
  <1> QED
    BY <1>3, <1>4 DEF LogInv, RowOf

\* As long as PostgreSQL takes the rows, every answer a client got is in chat_logs
\* before its handler does anything else.
THEOREM GatewaySentAnswersAreLogged == Spec => []SentAnswersAreLogged
  <1> USE GatewayAssumption
  <1>1. Init => LogInv
    BY DEF Init, LogInv
  <1>2. ~DbMayFail /\ TypeInv /\ LogInv /\ [Next]_vars => LogInv'
    <2> SUFFICES ASSUME ~DbMayFail, TypeInv, LogInv, [Next]_vars PROVE LogInv'
      OBVIOUS
    <2>1. ASSUME NEW c \in Conns, ClientStep(c) PROVE LogInv'
      <3>0. UNCHANGED <<sent, logs>>
        BY <2>1 DEF ClientStep, ClientLeaves, Handshake, Accept, RejectToken, Receive,
                    ReceiveQuestion, ReceiveUnusable, ReceiveMalformed,
                    ReceiveNonObject, wireVars, storeVars
      <3>1. CASE ClientLeaves(c)
        BY <3>1, <3>0 DEF ClientLeaves, messageVars, LogInv, JustSent, Frame, Row, RowOf
      <3>2. CASE ~ClientLeaves(c)
        <4>1. /\ pc[c] \in {"new", "idle"}
              /\ \E s \in {"idle", "done", "lookup", "refuse", "badformat", "closing"} :
                     Goto(c, s)
              /\ UNCHANGED answer
              /\ query' = query \/ \E q \in Queries : query' = [query EXCEPT ![c] = q]
              /\ received' = received \/ received' = [received EXCEPT ![c] = @ + 1]
          BY <2>1, <3>2 DEF ClientStep, Handshake, Accept, RejectToken, Receive,
                 ReceiveQuestion, ReceiveUnusable, ReceiveMalformed, ReceiveNonObject,
                 messageVars
        <4>2. \A e \in Conns : e # c => UNCHANGED <<answer[e], query[e], received[e]>>
          BY <4>1 DEF TypeInv, TypeOK
        <4> QED
          BY <3>0, <4>1, <4>2, LogKept DEF Stages
      <3> QED
        BY <3>1, <3>2
    <2>2. ASSUME NEW c \in Conns, HandlerStep(c) PROVE LogInv'
      <3>1. CASE SendHit(c) \/ Reply(c)
        <4>1. /\ UNCHANGED <<logs, received>>
              /\ \E s \in {"hitlog", "idle", "closing"} : Goto(c, s)
              /\ sent' = sent \/ sent' = sent \cup {Frame(c)}
              /\ UNCHANGED <<query, answer>> \/ (Forget(c) /\ pc[c] = "reply")
          BY <3>1 DEF SendHit, Reply, SendAnswer, SendRaises, Forget,
                      messageVars, storeVars
        <4>2. /\ pc[c] = "reply" => Row(c) \in logs
              /\ pc[c] # "reply" => pc[c] = "hit" /\ UNCHANGED <<query, answer>>
              /\ sent' # sent => pc[c] = "reply" \/ pc'[c] = "hitlog"
          <5>1. CASE SendHit(c)
            BY <5>1 DEF SendHit, SendAnswer, SendRaises, Goto, messageVars, TypeInv,
                        TypeOK
          <5>2. CASE Reply(c)
            BY <5>2 DEF Reply, LogInv
          <5> QED
            BY <3>1, <5>1, <5>2
        <4>3. /\ \A e \in Conns : e # c => pc'[e] = pc[e]
              /\ \A e \in Conns : e # c => Frame(e)' = Frame(e) /\ Row(e)' = Row(e)
              /\ pc'[c] # "reply" /\ pc[c] # "hitlog"
          BY <4>1, <4>2 DEF Goto, Forget, Frame, Row, TypeInv, TypeOK
        <4>4. ASSUME NEW f \in sent PROVE RowOf(f) \in logs' \/ JustSent(f)'
          BY <4>1, <4>3 DEF LogInv, JustSent
        <4>5. CASE sent' = sent
          BY <4>1, <4>3, <4>4, <4>5 DEF LogInv, RowOf
        <4>6. CASE sent' # sent
          <5>1. sent' = sent \cup {Frame(c)} /\ Frame(c).to = c
            BY <4>1, <4>6 DEF Frame
          <5>2. ASSUME NEW f, f = Frame(c) PROVE RowOf(f) \in logs' \/ JustSent(f)'
            <6>1. CASE pc[c] = "reply"
              <7>1. RowOf(f) = Row(c)
                BY <5>2 DEF RowOf, Frame, Row
              <7> QED
                BY <4>1, <4>2, <6>1, <7>1
            <6>2. CASE pc[c] # "reply"
              <7>1. UNCHANGED <<query, answer, received>> /\ pc'[c] = "hitlog"
                BY <4>1, <4>2, <4>6, <6>2
              <7>2. f = Frame(c)' /\ f.to = c
                BY <5>2, <7>1 DEF Frame
              <7> QED
                BY <7>1, <7>2 DEF JustSent
            <6> QED
              BY <6>1, <6>2
          <5>3. ASSUME NEW f \in sent' PROVE f.to \in Conns /\ (RowOf(f) \in logs' \/ JustSent(f)')
            <6>1. CASE f \in sent
              BY <4>4, <6>1 DEF LogInv
            <6>2. CASE f = Frame(c)
              BY <5>1, <5>2, <6>2
            <6> QED
              BY <5>1, <6>1, <6>2
          <5>4. ASSUME NEW e \in Conns, pc'[e] = "reply" PROVE Row(e)' \in logs'
            BY <4>1, <4>3, <5>4 DEF LogInv
          <5> QED
            BY <5>3, <5>4 DEF LogInv, RowOf
        <4> QED
          BY <4>5, <4>6
      <3>2. CASE PersistHit(c) \/ PersistAnswer(c)
        <4>1. /\ logs' = logs \cup {Row(c)} /\ UNCHANGED <<sent, received>>
              /\ \/ Goto(c, "idle") /\ Forget(c)
                 \/ Goto(c, "reply") /\ UNCHANGED <<query, answer>>
          BY <3>2 DEF PersistHit, PersistAnswer, PersistLog, Forget, messageVars, wireVars
        <4>2. \A e \in Conns : e # c => UNCHANGED <<answer[e], query[e], received[e]>>
          BY <4>1 DEF Forget, TypeInv, TypeOK
        <4>3. CASE Goto(c, "idle")
          BY <4>1, <4>2, <4>3, LogKept DEF Stages
        <4>4. CASE Goto(c, "reply") /\ UNCHANGED <<query, answer>>
          <5>1. Row(c)' = Row(c)
            BY <4>1, <4>4 DEF Row
          <5> QED
            BY <4>1, <4>2, <4>4, <5>1, LogKept DEF Stages
        <4> QED
          BY <4>1, <4>3, <4>4
      <3>3. ASSUME pc[c] # "hitlog", UNCHANGED <<sent, logs, received>>,
                   NEW s \in Stages \ {"reply"}, Goto(c, s),
                   \A e \in Conns : e # c => UNCHANGED <<answer[e], query[e]>>
            PROVE  LogInv'
        BY <3>3, LogKept
      <3>4. CASE LlmSucceeds(c) \/ LlmFails(c)
        <4>1. AnswerOf(c)
          BY <3>4, LlmAnswerTyped
        <4>2. /\ pc[c] = "llm" /\ \E s \in {"store", "persist"} : Goto(c, s)
              /\ UNCHANGED <<sent, logs, received, query>>
          BY <3>4 DEF LlmSucceeds, LlmFails, wireVars, storeVars
        <4> QED
          BY <4>1, <4>2, <3>3 DEF AnswerOf, Stages
      <3>5. CASE \/ ReceiveDisconnect(c) \/ RefuseMessage(c) \/ CloseMalformed(c)
                 \/ LookupHit(c) \/ LookupMiss(c)
                 \/ CheckBudget(c) \/ SendOverBudget(c) \/ SendTyping(c)
                 \/ AcquireSemaphore(c) \/ ResumeWithPermit(c) \/ StoreInCache(c)
                 \/ ExpireCounter(c) \/ Cleanup(c)
                 \/ \E t \in TokenCosts : RecordSpend(c, t)
        <4>1. /\ pc[c] # "hitlog"
              /\ \E s \in Stages \ {"reply"} : Goto(c, s)
              /\ UNCHANGED <<sent, logs, received>>
              /\ \/ UNCHANGED <<query, answer>>
                 \/ Forget(c)
                 \/ UNCHANGED query /\ \E a : answer' = [answer EXCEPT ![c] = a]
          <5> USE DEF messageVars, wireVars, storeVars, Stages
          <5>1. CASE \/ ReceiveDisconnect(c) \/ RefuseMessage(c) \/ CloseMalformed(c)
                     \/ LookupHit(c) \/ LookupMiss(c)
            BY <5>1 DEF ReceiveDisconnect, RefuseMessage, CloseMalformed, LookupHit,
                        LookupMiss, SendError, SendRaises
          <5>2. CASE CheckBudget(c) \/ SendOverBudget(c) \/ SendTyping(c)
            BY <5>2 DEF CheckBudget, SendOverBudget, SendTyping, SendError, SendRaises,
                        Crash, Forget
          <5>3. CASE \/ AcquireSemaphore(c) \/ ResumeWithPermit(c) \/ StoreInCache(c)
            BY <5>3 DEF AcquireSemaphore, ResumeWithPermit, StoreInCache, PutInCache
          <5>4. CASE \/ ExpireCounter(c) \/ Cleanup(c)
                     \/ \E t \in TokenCosts : RecordSpend(c, t)
            BY <5>4 DEF ExpireCounter, Cleanup, RecordSpend, Crash, Forget
          <5> QED
            BY <3>5, <5>1, <5>2, <5>3, <5>4
        <4>2. \A e \in Conns : e # c => UNCHANGED <<answer[e], query[e]>>
          BY <4>1 DEF Forget, TypeInv, TypeOK
        <4> QED
          BY <4>1, <4>2, <3>3
      <3> QED
        BY <2>2, <3>1, <3>2, <3>4, <3>5 DEF HandlerStep
    <2>3. CASE \/ \E k \in Keys : CacheLapse(k)
               \/ TimePasses
               \/ \E u \in Users, d \in 0..LastDay : CounterLapses(u, d)
               \/ AllDone
               \/ UNCHANGED vars
      <3>1. UNCHANGED <<pc, query, received, answer, sent, logs>>
        BY <2>3 DEF CacheLapse, TimePasses, CounterLapses, AllDone, vars,
                    messageVars, wireVars, storeVars
      <3> QED
        BY <3>1 DEF LogInv, JustSent, Frame, Row, RowOf
    <2> QED
      BY <2>1, <2>2, <2>3 DEF Next
  <1>3. LogInv => SentAnswersAreLogged
    BY DEF LogInv, SentAnswersAreLogged, JustSent, Frame
  <1>4. CASE DbMayFail
    <2>1. SentAnswersAreLogged
      BY <1>4 DEF SentAnswersAreLogged
    <2> QED
      BY <1>4, PTL DEF SentAnswersAreLogged
  <1>5. CASE ~DbMayFail
    BY <1>1, <1>2, <1>3, <1>5, TypeInvariant, PTL DEF Spec
  <1> QED
    BY <1>4, <1>5

----------------------------------------------------------------------------
(* Redis and the unlimited budget *)

RedisInv ==
    TokenBudgetDaily = 0 =>
        \A c \in Conns :
            /\ pc[c] \notin {"budget", "over", "spend", "expire"}
            /\ pc[c] = "closing" /\ c \notin gone => query[c] = NoQuery

\* One handler moves to a stage where Redis is not needed, and to its finally only
\* when its client left or no question is in hand.
LEMMA RedisKept ==
    ASSUME TypeInv, RedisInv, NEW c \in Conns, NEW s \in Stages, Goto(c, s),
           UNCHANGED gone,
           \A e \in Conns : e # c => query'[e] = query[e],
           TokenBudgetDaily = 0 =>
               /\ s \notin {"budget", "over", "spend", "expire"}
               /\ s = "closing" => c \in gone \/ query'[c] = NoQuery
    PROVE  RedisInv'
  <1>1. pc'[c] = s /\ \A e \in Conns : e # c => pc'[e] = pc[e]
    BY DEF Goto, TypeInv, TypeOK
  <1> QED
    BY <1>1 DEF RedisInv

\* Without a budget, a handler whose client is present ends on no question in hand,
\* whatever Redis does: the cache fails open and the budget does not touch Redis.
THEOREM GatewayRedisOutageCostsNoAnswer == Spec => []RedisOutageCostsNoAnswer
  <1> USE GatewayAssumption
  <1>1. Init => RedisInv
    BY DEF Init, RedisInv
  <1>2. TypeInv /\ RedisInv /\ [Next]_vars => RedisInv'
    <2> SUFFICES ASSUME TypeInv, RedisInv, [Next]_vars PROVE RedisInv'
      OBVIOUS
    <2> USE DEF messageVars, wireVars, storeVars
    <2>1. ASSUME NEW c \in Conns, ClientStep(c) PROVE RedisInv'
      <3>1. CASE ClientLeaves(c)
        BY <3>1 DEF ClientLeaves, RedisInv
      <3>2. CASE ~ClientLeaves(c)
        <4>1. /\ pc[c] \in {"new", "idle"} /\ UNCHANGED gone
              /\ \E s \in {"idle", "done", "lookup", "refuse", "badformat", "closing"} :
                     /\ Goto(c, s)
                     /\ s = "closing" => UNCHANGED query
              /\ query' = query \/ \E q \in Queries : query' = [query EXCEPT ![c] = q]
          BY <2>1, <3>2 DEF ClientStep, Handshake, Accept, RejectToken, Receive,
                 ReceiveQuestion, ReceiveUnusable, ReceiveMalformed, ReceiveNonObject
        <4>2. query[c] = NoQuery /\ \A e \in Conns : e # c => query'[e] = query[e]
          BY <4>1 DEF TypeInv, TypeOK, StageInv, Unasked
        <4> QED
          BY <4>1, <4>2, RedisKept DEF Stages
      <3> QED
        BY <3>1, <3>2
    <2>2. ASSUME NEW c \in Conns, HandlerStep(c) PROVE RedisInv'
      <3>1. /\ UNCHANGED gone
            /\ UNCHANGED query \/ Forget(c)
            /\ \E s \in Stages :
                   /\ Goto(c, s)
                   /\ TokenBudgetDaily = 0 =>
                          /\ s \notin {"budget", "over", "spend", "expire"}
                          /\ s = "closing" => c \in gone \/ query'[c] = NoQuery
        <4> USE DEF Stages
        <4>0. /\ pc[c] \in {"idle", "refuse", "badformat"} => query[c] = NoQuery
              /\ TokenBudgetDaily = 0 => pc[c] \notin {"budget", "over", "spend", "expire"}
              /\ TokenBudgetDaily \in Nat
          BY DEF TypeInv, StageInv, Unasked, RedisInv, GatewayAssumption
        <4>1. CASE ReceiveDisconnect(c) \/ RefuseMessage(c) \/ CloseMalformed(c)
          BY <4>0, <4>1 DEF ReceiveDisconnect, RefuseMessage, CloseMalformed, SendError,
                            SendRaises
        <4>2. CASE LookupHit(c) \/ LookupMiss(c)
          BY <4>0, <4>2 DEF LookupHit, LookupMiss, Budget!Limited
        <4>3. CASE SendHit(c) \/ PersistHit(c) \/ PersistAnswer(c) \/ Reply(c)
          BY <4>3 DEF SendHit, PersistHit, PersistAnswer, Reply, SendAnswer, SendRaises,
                      Forget
        <4>4. CASE \/ CheckBudget(c) \/ SendOverBudget(c) \/ ExpireCounter(c)
                   \/ \E t \in TokenCosts : RecordSpend(c, t)
          <5>1. TokenBudgetDaily # 0 /\ UNCHANGED gone /\ (UNCHANGED query \/ Forget(c))
            BY <4>0, <4>4 DEF CheckBudget, SendOverBudget, ExpireCounter, RecordSpend
          <5>2. \E s \in Stages : Goto(c, s)
            BY <4>4 DEF CheckBudget, SendOverBudget, ExpireCounter, RecordSpend, Crash,
                        SendError, SendRaises
          <5> QED
            BY <5>1, <5>2
        <4>5. CASE SendTyping(c) \/ AcquireSemaphore(c) \/ ResumeWithPermit(c)
          BY <4>5 DEF SendTyping, AcquireSemaphore, ResumeWithPermit, SendRaises
        <4>6. CASE LlmSucceeds(c) \/ LlmFails(c) \/ StoreInCache(c)
          <5>1. UNCHANGED <<gone, query>>
            BY <4>6 DEF LlmSucceeds, LlmFails, StoreInCache
          <5>2. \E s \in Stages : Goto(c, s) /\ s # "closing" /\ (s = "spend" => Budget!Record(c))
                                   /\ s \notin {"budget", "over", "expire"}
            BY <4>6 DEF LlmSucceeds, LlmFails, StoreInCache
          <5>3. TokenBudgetDaily = 0 => ~Budget!Record(c)
            BY DEF Budget!Record, Budget!Limited
          <5> QED
            BY <5>1, <5>2, <5>3
        <4>7. CASE Cleanup(c)
          BY <4>7 DEF Cleanup
        <4> QED
          BY <2>2, <4>1, <4>2, <4>3, <4>4, <4>5, <4>6, <4>7 DEF HandlerStep
      <3>2. \A e \in Conns : e # c => query'[e] = query[e]
        BY <3>1 DEF Forget, TypeInv, TypeOK
      <3> QED
        BY <3>1, <3>2, RedisKept
    <2>3. CASE \/ \E k \in Keys : CacheLapse(k)
               \/ TimePasses
               \/ \E u \in Users, d \in 0..LastDay : CounterLapses(u, d)
               \/ AllDone
               \/ UNCHANGED vars
      <3>1. UNCHANGED <<pc, query, gone>>
        BY <2>3 DEF CacheLapse, TimePasses, CounterLapses, AllDone, vars
      <3> QED
        BY <3>1 DEF RedisInv
    <2> QED
      BY <2>1, <2>2, <2>3 DEF Next
  <1>3. RedisInv => RedisOutageCostsNoAnswer
    BY DEF RedisInv, RedisOutageCostsNoAnswer
  <1> QED
    BY <1>1, <1>2, <1>3, TypeInvariant, PTL DEF Spec

----------------------------------------------------------------------------
(* How connections end *)

\* The handlers that end, or have ended, with neither a client that left nor a
\* close code to show for it.
Unexplained == {c \in Conns : pc[c] \in {"closing", "done"} /\ c \notin gone
                                  /\ closeCode[c] = 0}

CountInv == Cardinality(Unexplained) <= aiResponses["error"]

\* The errors counted between two states of the counter.
Counted(n) == aiResponses'["error"] = aiResponses["error"] + n

\* A step joins at most one handler to the unexplained ones, and only when it
\* counts an error.
LEMMA CountKept ==
    ASSUME GatewayAssumption, TypeInv, CountInv, NEW c \in Conns,
           \A e \in Conns : e # c => pc'[e] = pc[e],
           gone \subseteq gone',
           \A e \in Conns : e # c => closeCode'[e] = closeCode[e],
           \/ Counted(1)
           \/ Counted(0) /\ (c \in Unexplained' => c \in Unexplained)
    PROVE  CountInv'
  <1>1. /\ IsFiniteSet(Unexplained) /\ IsFiniteSet(Unexplained \cup {c})
        /\ Cardinality(Unexplained) \in Nat
    BY FS_Subset, FS_AddElement, FS_CardinalityType DEF GatewayAssumption, Unexplained
  <1>2. Unexplained' \subseteq Unexplained \cup {c}
    BY DEF Unexplained
  <1>3. /\ Cardinality(Unexplained \cup {c}) <= Cardinality(Unexplained) + 1
        /\ Cardinality(Unexplained \cup {c}) \in Nat
    BY <1>1, FS_AddElement, FS_CardinalityType
  <1>4. aiResponses["error"] \in Nat
    BY DEF TypeInv, TypeOK
  <1>5. CASE Counted(1)
    <2>1. /\ Cardinality(Unexplained') <= Cardinality(Unexplained \cup {c})
          /\ Cardinality(Unexplained') \in Nat
      BY <1>1, <1>2, FS_Subset, FS_CardinalityType
    <2> QED
      BY <1>1, <1>3, <1>4, <1>5, <2>1 DEF CountInv, Counted
  <1>6. CASE Counted(0) /\ (c \in Unexplained' => c \in Unexplained)
    <2>1. Unexplained' \subseteq Unexplained
      BY <1>2, <1>6
    <2>2. /\ Cardinality(Unexplained') <= Cardinality(Unexplained)
          /\ Cardinality(Unexplained') \in Nat
      BY <1>1, <2>1, FS_Subset, FS_CardinalityType
    <2> QED
      BY <1>1, <1>4, <1>6, <2>2 DEF CountInv, Counted
  <1> QED
    BY <1>5, <1>6

\* A handler moves, leaves the close codes and the clients alone, and ends only
\* for a client that left, after a counted error, or because it was ending.
LEMMA MoveCounted ==
    ASSUME GatewayAssumption, TypeInv, CountInv, NEW c \in Conns,
           NEW s \in Stages, Goto(c, s), UNCHANGED <<gone, closeCode>>,
           \/ Counted(1)
           \/ /\ Counted(0)
              /\ s \notin {"closing", "done"} \/ c \in gone \/ pc[c] = "closing"
    PROVE  CountInv'
  <1>1. pc'[c] = s /\ \A e \in Conns : e # c => pc'[e] = pc[e]
    BY DEF Goto, TypeInv, TypeOK
  <1>2. CASE Counted(1)
    BY <1>1, <1>2, CountKept
  <1>3. CASE Counted(0) /\ (s \notin {"closing", "done"} \/ c \in gone \/ pc[c] = "closing")
    <2>1. c \in Unexplained' => c \in Unexplained
      BY <1>1, <1>3 DEF Unexplained
    <2> QED
      BY <1>1, <1>3, <2>1, CountKept
  <1> QED
    BY <1>2, <1>3

\* A handler is rejected or closed with a code of its own.
LEMMA CodeGiven ==
    ASSUME GatewayAssumption, TypeInv, CountInv, NEW c \in Conns,
           NEW s \in Stages, Goto(c, s), UNCHANGED <<gone, aiResponses>>,
           closeCode'[c] # 0,
           \A e \in Conns : e # c => closeCode'[e] = closeCode[e]
    PROVE  CountInv'
  <1>1. \A e \in Conns : e # c => pc'[e] = pc[e]
    BY DEF Goto, TypeInv, TypeOK
  <1>2. Counted(0)
    BY DEF Counted, TypeInv, TypeOK
  <1>3. c \notin Unexplained'
    BY <1>1 DEF Unexplained
  <1> QED
    BY <1>1, <1>2, <1>3, CountKept

\* No connection of a client that stayed ends silently: there are at least as many
\* errors in ai_response_total as handlers that ended with no close code.
THEOREM GatewayEveryEndIsAccountedFor == Spec => []EveryEndIsAccountedFor
  <1> USE GatewayAssumption
  <1>1. Init => CountInv
    <2> SUFFICES ASSUME Init PROVE CountInv
      OBVIOUS
    <2>1. Unexplained = {}
      BY DEF Init, Unexplained
    <2>2. aiResponses["error"] = 0
      BY DEF Init
    <2> QED
      BY <2>1, <2>2, FS_EmptySet DEF CountInv
  <1>2. TypeInv /\ CountInv /\ [Next]_vars => CountInv'
    <2> SUFFICES ASSUME TypeInv, CountInv, [Next]_vars PROVE CountInv'
      OBVIOUS
    <2> USE DEF messageVars, wireVars, storeVars
    <2>1. /\ UNCHANGED aiResponses => Counted(0)
          /\ Count("success") => Counted(0)
          /\ Count("error") => Counted(1)
      BY DEF Counted, Count, TypeInv, TypeOK
    <2>2. ASSUME NEW c \in Conns, ClientStep(c) PROVE CountInv'
      <3>1. CASE ClientLeaves(c)
        <4>1. /\ UNCHANGED <<pc, closeCode>> /\ gone \subseteq gone'
              /\ UNCHANGED aiResponses
          BY <3>1 DEF ClientLeaves
        <4> QED
          BY <2>1, <4>1, CountKept DEF Unexplained
      <3>2. CASE \E t \in Users \cup {BadToken} : Handshake(c, t)
        <4>1. CASE Accept(c)
          <5>1. Goto(c, "idle") /\ UNCHANGED <<gone, closeCode, aiResponses>>
            BY <4>1 DEF Accept
          <5> QED
            BY <2>1, <5>1, MoveCounted DEF Stages
        <4>2. CASE RejectToken(c)
          <5>1. /\ Goto(c, "done") /\ UNCHANGED <<gone, aiResponses>>
                /\ closeCode' = [closeCode EXCEPT ![c] = 4001]
            BY <4>2 DEF RejectToken
          <5>2. /\ closeCode'[c] # 0
                /\ \A e \in Conns : e # c => closeCode'[e] = closeCode[e]
            BY <5>1 DEF TypeInv, TypeOK
          <5> QED
            BY <5>1, <5>2, CodeGiven DEF Stages
        <4> QED
          BY <3>2, <4>1, <4>2 DEF Handshake
      <3>3. CASE \/ \E q \in Queries : ReceiveQuestion(c, q)
                 \/ ReceiveUnusable(c) \/ ReceiveMalformed(c)
        <4>1. /\ UNCHANGED <<gone, closeCode, aiResponses>>
              /\ \E s \in {"lookup", "refuse", "badformat"} : Goto(c, s)
          BY <3>3 DEF ReceiveQuestion, ReceiveUnusable, ReceiveMalformed, Receive
        <4> QED
          BY <2>1, <4>1, MoveCounted DEF Stages
      <3>4. CASE ReceiveNonObject(c)
        <4>1. Goto(c, "closing") /\ UNCHANGED <<gone, closeCode>> /\ Count("error")
          BY <3>4 DEF ReceiveNonObject, Receive
        <4> QED
          BY <2>1, <4>1, MoveCounted DEF Stages
      <3> QED
        BY <2>2, <3>1, <3>2, <3>3, <3>4 DEF ClientStep
    <2>3. ASSUME NEW c \in Conns, HandlerStep(c), ~CloseMalformed(c) PROVE CountInv'
      <3>1. /\ UNCHANGED <<gone, closeCode>>
            /\ \E s \in Stages :
                   /\ Goto(c, s)
                   /\ \/ Count("error")
                      \/ /\ UNCHANGED aiResponses \/ Count("success")
                         /\ \/ s \notin {"closing", "done"}
                            \/ c \in gone
                            \/ pc[c] = "closing"
        <4> USE DEF Stages, SendError, SendAnswer, SendRaises
        <4>1. CASE \/ ReceiveDisconnect(c) \/ RefuseMessage(c)
                   \/ LookupHit(c) \/ LookupMiss(c) \/ SendHit(c) \/ PersistHit(c)
          <5>1. CASE ReceiveDisconnect(c) \/ RefuseMessage(c)
            BY <5>1 DEF ReceiveDisconnect, RefuseMessage
          <5>2. CASE LookupHit(c)
            BY <5>2 DEF LookupHit
          <5>3. CASE LookupMiss(c)
            BY <5>3 DEF LookupMiss
          <5>4. CASE SendHit(c) \/ PersistHit(c)
            BY <5>4 DEF SendHit, PersistHit
          <5> QED
            BY <4>1, <5>1, <5>2, <5>3, <5>4
        <4>2. CASE \/ CheckBudget(c) \/ ExpireCounter(c)
                   \/ \E t \in TokenCosts : RecordSpend(c, t)
          BY <4>2 DEF CheckBudget, ExpireCounter, RecordSpend, Crash
        <4>3. CASE \/ SendOverBudget(c) \/ SendTyping(c) \/ AcquireSemaphore(c)
                   \/ ResumeWithPermit(c) \/ PersistAnswer(c) \/ Reply(c)
          BY <4>3 DEF SendOverBudget, SendTyping, AcquireSemaphore, ResumeWithPermit,
                      PersistAnswer, Reply
        <4>4. CASE LlmSucceeds(c) \/ LlmFails(c) \/ StoreInCache(c)
          BY <4>4 DEF LlmSucceeds, LlmFails, StoreInCache
        <4>5. CASE Cleanup(c)
          BY <4>5 DEF Cleanup
        <4> QED
          BY <2>3, <4>1, <4>2, <4>3, <4>4, <4>5 DEF HandlerStep
      <3>2. PICK s \in Stages :
                   /\ Goto(c, s)
                   /\ \/ Counted(1)
                      \/ /\ Counted(0)
                         /\ \/ s \notin {"closing", "done"}
                            \/ c \in gone
                            \/ pc[c] = "closing"
        BY <2>1, <3>1
      <3> QED
        BY <3>1, <3>2, MoveCounted
    <2>4. ASSUME NEW c \in Conns, CloseMalformed(c) PROVE CountInv'
      <3>1. /\ Goto(c, "closing") /\ UNCHANGED <<gone, aiResponses>>
            /\ closeCode' = [closeCode EXCEPT ![c] = 4002]
        BY <2>4 DEF CloseMalformed
      <3>2. /\ closeCode'[c] # 0
            /\ \A e \in Conns : e # c => closeCode'[e] = closeCode[e]
        BY <3>1 DEF TypeInv, TypeOK
      <3> QED
        BY <3>1, <3>2, CodeGiven DEF Stages
    <2>5. CASE \/ \E k \in Keys : CacheLapse(k)
               \/ TimePasses
               \/ \E u \in Users, d \in 0..LastDay : CounterLapses(u, d)
               \/ AllDone
               \/ UNCHANGED vars
      <3>1. UNCHANGED <<pc, gone, closeCode, aiResponses>>
        BY <2>5 DEF CacheLapse, TimePasses, CounterLapses, AllDone, vars
      <3> QED
        BY <3>1 DEF CountInv, Unexplained
    <2> QED
      BY <2>2, <2>3, <2>4, <2>5 DEF Next
  <1>3. TypeInv /\ CountInv => EveryEndIsAccountedFor
    <2> SUFFICES ASSUME TypeInv, CountInv PROVE EveryEndIsAccountedFor
      OBVIOUS
    <2> DEFINE Silent == {c \in Conns : pc[c] = "done" /\ c \notin gone
                                            /\ closeCode[c] = 0}
    <2>1. Silent \subseteq Unexplained /\ IsFiniteSet(Unexplained)
      BY FS_Subset DEF Unexplained, GatewayAssumption
    <2>2. /\ Cardinality(Silent) <= Cardinality(Unexplained)
          /\ Cardinality(Silent) \in Nat /\ Cardinality(Unexplained) \in Nat
      BY <2>1, FS_Subset, FS_CardinalityType
    <2>3. aiResponses["error"] \in Nat
      BY DEF TypeInv, TypeOK
    <2> QED
      BY <2>2, <2>3 DEF CountInv, EveryEndIsAccountedFor
  <1> QED
    BY <1>1, <1>2, <1>3, TypeInvariant, PTL DEF Spec
=============================================================================
