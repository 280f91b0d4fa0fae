--------------------------- MODULE OrderDeskProofs ---------------------------
(****************************************************************************)
(* OrderDesk implements OrderLife, for any orders, conversations and pool.  *)
(* DeskInv carries the argument: a call that decides holds the row, so the  *)
(* status it read is still the status it overwrites; and of the calls that  *)
(* committed, only one is on its way to tell a customer about an order.     *)
(****************************************************************************)
EXTENDS OrderDesk, TLAPS

\* The invariant, the locals of the calls included.
THEOREM DeskInvariant == Spec => []DeskInv
  <1> USE DeskAssumption DEF DeskAssumption
  <1>1. Init => DeskInv
    BY DEF Init, Life!LifeInit, DeskInv, TypeOK, Life!LifeTypeOK, Life!Statuses, Stages,
           DecisionsAreCurrent, OneConfirmationIsDue, ConfirmedIsCancelled
  <1>2. DeskInv /\ [Next]_vars => DeskInv'
    <2> SUFFICES ASSUME DeskInv, [Next]_vars PROVE DeskInv'
      OBVIOUS
    <2> USE DEF DeskInv, TypeOK, Life!LifeTypeOK, Life!Statuses, Stages,
                DecisionsAreCurrent, OneConfirmationIsDue, ConfirmedIsCancelled, Move
    <2>1. ASSUME NEW v \in Convs, NEW o \in Orders, NEW tool \in {"search", "cancel"},
                 Call(v, o, tool)
          PROVE  DeskInv'
      BY <2>1 DEF Call
    <2>2. ASSUME NEW v \in Convs, ToolStep(v) \/ Fails(v) \/ CommitReplyLost(v) PROVE DeskInv'
      <3>1. CASE CheckOut(v)
        BY <3>1 DEF CheckOut
      <3>2. CASE PoolTimeout(v)
        BY <3>2 DEF PoolTimeout, Return
      <3>3. CASE ReadOrder(v)
        BY <3>3 DEF ReadOrder, Return
      <3>4. CASE LockRow(v)
        BY <3>4 DEF LockRow
      <3>5. CASE Refuse(v)
        BY <3>5 DEF Refuse, Return, Unlock
      <3>6. CASE Commit(v)
        BY <3>6 DEF Commit, SetStatus, Unlock
      <3>7. CASE Confirm(v)
        BY <3>7 DEF Confirm, Return
      <3>8. CASE Fails(v)
        BY <3>8 DEF Fails, Return, Unlock
      <3>9. CASE CommitReplyLost(v)
        BY <3>9 DEF CommitReplyLost, Return, SetStatus, Unlock
      <3> QED
        BY <2>2, <3>1, <3>2, <3>3, <3>4, <3>5, <3>6, <3>7, <3>8, <3>9 DEF ToolStep
    <2>3. ASSUME NEW o \in Orders, Ship(o) \/ Deliver(o) PROVE DeskInv'
      BY <2>3 DEF Ship, Deliver, Advance, SetStatus
    <2>4. CASE UNCHANGED vars
      BY <2>4 DEF vars
    <2> QED
      BY <2>1, <2>2, <2>3, <2>4 DEF Next
  <1> QED
    BY <1>1, <1>2, PTL DEF Spec

\* Every step of the tools is a step of the order's life or leaves it alone: two
\* conversations cannot both cancel an order, none cancels one that was shipped,
\* and no customer is told of a cancellation that did not happen.
THEOREM DeskImplementsLife == Spec => OrderLifeSpec
  <1>1. Init => Life!LifeInit
    BY DEF Init
  <1>2. DeskInv /\ [Next]_vars => [Life!LifeNext]_(Life!lifeVars)
    <2> SUFFICES ASSUME DeskInv, [Next]_vars
                 PROVE  Life!LifeNext \/ UNCHANGED <<status, confirmed>>
      BY DEF Life!lifeVars
    <2> USE DEF DeskInv, TypeOK, Life!LifeTypeOK, Move
    <2>1. ASSUME NEW v \in Convs, Commit(v) \/ CommitReplyLost(v) PROVE Life!LifeNext
      <3>1. wants[v] \in Orders /\ status[wants[v]] = "preparing"
        BY <2>1 DEF Commit, CommitReplyLost, Return, DecisionsAreCurrent
      <3>2. Life!LifeCancel(wants[v])
        BY <2>1, <3>1 DEF Commit, CommitReplyLost, SetStatus, Life!LifeCancel, Life!Become
      <3> QED
        BY <3>1, <3>2 DEF Life!LifeNext
    <2>2. ASSUME NEW v \in Convs, Confirm(v) PROVE Life!LifeNext
      <3>1. /\ wants[v] \in Orders
            /\ status[wants[v]] = "cancelled" /\ confirmed[wants[v]] = 0
        BY <2>2 DEF Confirm, Return, OneConfirmationIsDue
      <3>2. Life!LifeConfirm(wants[v])
        BY <2>2, <3>1 DEF Confirm, Life!LifeConfirm
      <3> QED
        BY <3>1, <3>2 DEF Life!LifeNext
    <2>3. ASSUME NEW o \in Orders, Ship(o) \/ Deliver(o) PROVE Life!LifeNext
      <3>1. Life!LifeShip(o) \/ Life!LifeDeliver(o)
        BY <2>3 DEF Ship, Deliver, Advance, SetStatus,
                    Life!LifeShip, Life!LifeDeliver, Life!Become
      <3> QED
        BY <3>1 DEF Life!LifeNext
    <2>4. ASSUME NEW v \in Convs, ToolStep(v) \/ Fails(v) \/ CommitReplyLost(v)
          PROVE  Life!LifeNext \/ UNCHANGED <<status, confirmed>>
      BY <2>1, <2>2, <2>4 DEF ToolStep, CheckOut, PoolTimeout, ReadOrder, LockRow,
                              Refuse, Fails
    <2>5. ASSUME NEW v \in Convs, NEW o \in Orders, NEW tool \in {"search", "cancel"},
                 Call(v, o, tool)
          PROVE  UNCHANGED <<status, confirmed>>
      BY <2>5 DEF Call
    <2>6. CASE UNCHANGED vars
      BY <2>6 DEF vars
    <2> QED
      BY <2>3, <2>4, <2>5, <2>6 DEF Next
  <1> QED
    BY <1>1, <1>2, DeskInvariant, PTL DEF Spec, OrderLifeSpec, Life!LifeSpec
=============================================================================
