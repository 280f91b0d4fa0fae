--------------------------- MODULE LifespanProofs ---------------------------
(****************************************************************************)
(* Workers fill the vector store at most once each and serve whole, for any *)
(* set of workers and any bound on the faults.  LifespanInv carries the     *)
(* argument: who is about to store the FAQ saw the store empty, and has     *)
(* therefore not stored it before, not even in an earlier process.          *)
(****************************************************************************)
EXTENDS Lifespan, TLAPS

\* A process that ends leaves nothing to promise but what PostgreSQL holds.
LEMMA DiePreserves ==
  ASSUME LifespanInv, NEW w \in Workers, Die(w), faults' \in 0..MaxFaults,
         UNCHANGED <<copies, faqFile>>, up' \subseteq Deps
  PROVE  LifespanInv'
  BY LifespanAssumption DEF LifespanInv, TypeOK, FaqCopiesBounded, ServingWorkersAreWhole,
     Die, Stages, Starting, Needs, StoreEmpty, LifespanAssumption

\* The invariant holds in every reachable state.
THEOREM LifespanInvariant == Spec => []LifespanInv
  <1> USE LifespanAssumption DEF LifespanAssumption
  <1>1. Init => LifespanInv
    BY DEF Init, LifespanInv, TypeOK, FaqCopiesBounded, ServingWorkersAreWhole, Deps,
           Stages, Starting, Needs
  <1>2. LifespanInv /\ [Next]_vars => LifespanInv'
    <2> SUFFICES ASSUME LifespanInv, [Next]_vars PROVE LifespanInv'
      OBVIOUS
    <2> USE DEF LifespanInv, TypeOK, FaqCopiesBounded, ServingWorkersAreWhole, Stages,
                Starting, Needs, StoreEmpty, Move, Health, World
    <2>1. ASSUME NEW w \in Workers, StartupStep(w) PROVE LifespanInv'
      <3>1. CASE Start(w)
        BY <3>1 DEF Start
      <3>2. CASE CheckPostgres(w)
        BY <3>2 DEF CheckPostgres
      <3>3. CASE PingRedis(w)
        BY <3>3 DEF PingRedis
      <3>4. CASE FindIndexed(w)
        BY <3>4 DEF FindIndexed, BuildAgent
      <3>5. CASE FindEmpty(w)
        BY <3>5 DEF FindEmpty
      <3>6. CASE FindNoFile(w)
        BY <3>6 DEF FindNoFile
      <3>7. CASE AddDocuments(w)
        BY <3>7 DEF AddDocuments, BuildAgent
      <3>8. CASE Abort(w)
        BY <3>8, DiePreserves DEF Abort
      <3> QED
        BY <2>1, <3>1, <3>2, <3>3, <3>4, <3>5, <3>6, <3>7, <3>8 DEF StartupStep
    <2>2. ASSUME NEW w \in Workers, ProbeStep(w) \/ CloseRedis(w) \/ Crash(w)
                                    \/ CrashAfterCommit(w) \/ Shutdown(w)
          PROVE  LifespanInv'
      <3>1. CASE ProbeStep(w)
        BY <3>1 DEF ProbeStep, HealthPostgres, HealthRedis
      <3>2. CASE CloseRedis(w)
        BY <3>2, DiePreserves DEF CloseRedis
      <3>3. CASE Crash(w)
        BY <3>3, DiePreserves DEF Crash, Fault
      <3>4. CASE CrashAfterCommit(w)
        BY <3>4 DEF CrashAfterCommit, Fault, Die
      <3>5. CASE Shutdown(w)
        BY <3>5 DEF Shutdown, Fault
      <3> QED
        BY <2>2, <3>1, <3>2, <3>3, <3>4, <3>5
    <2>3. ASSUME NEW d \in Deps, Outage(d) \/ Recover(d) PROVE LifespanInv'
      <3>1. CASE Outage(d)
        BY <3>1 DEF Outage, Fault
      <3>2. CASE Recover(d)
        BY <3>2 DEF Recover
      <3> QED
        BY <2>3, <3>1, <3>2
    <2>4. CASE UNCHANGED vars
      BY <2>4 DEF vars
    <2> QED
      BY <2>1, <2>2, <2>3, <2>4 DEF Next
  <1> QED
    BY <1>1, <1>2, PTL DEF Spec

\* Crashes and races at start-up store the FAQ at most once per worker.
THEOREM FaqStoredOncePerWorker == Spec => []FaqCopiesBounded
  <1>1. LifespanInv => FaqCopiesBounded
    BY DEF LifespanInv
  <1> QED
    BY <1>1, LifespanInvariant, PTL

\* No worker serves without its Redis client, nor without an agent it could have.
THEOREM ServingWorkersWhole == Spec => []ServingWorkersAreWhole
  <1>1. LifespanInv => ServingWorkersAreWhole
    BY DEF LifespanInv
  <1> QED
    BY <1>1, LifespanInvariant, PTL
=============================================================================
