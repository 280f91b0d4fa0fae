------------------------------ MODULE OrderDesk ------------------------------
(****************************************************************************)
(* The order tools of app/agent/tools.py on app/storage/repositories/       *)
(* order_repo.py: conversations that look up and cancel orders of one       *)
(* PostgreSQL table, through the connection pool of database.py.            *)
(*                                                                          *)
(* A conversation has at most one tool call under way: the agent awaits     *)
(* each.  pc[v] is the await that call is suspended in.                     *)
(****************************************************************************)
EXTENDS Naturals, FiniteSets

CONSTANTS
    Orders,         \* order ids a customer may name, in the table or not
    Convs,          \* conversations
    Nobody,         \* no conversation
    NoOrder,        \* no order
    PoolSize,       \* pool_size + max_overflow
    DbMayFail       \* whether PostgreSQL may raise or drop a connection

ASSUME DeskAssumption ==
    /\ IsFiniteSet(Convs)
    /\ Nobody \notin Convs
    /\ NoOrder \notin Orders
    /\ PoolSize \in Nat \ {0}
    /\ DbMayFail \in BOOLEAN

VARIABLES
    status,         \* the committed status of each order
    confirmed,      \* how often a customer was told that it is cancelled
    lockedBy,       \* the conversation whose transaction holds the row
    pc,             \* where the tool call of each conversation stands
    wants,          \* the order it is about
    seen            \* the status a cancellation read, "absent" before

vars == <<status, confirmed, lockedBy, pc, wants, seen>>

Life == INSTANCE OrderLife

Stages == {"idle", "search", "reading", "cancel", "locking", "deciding",
           "refresh", "refreshing"}

\* The calls that hold a connection of the pool.  It goes back to the pool when a
\* transaction ends, so the refresh needs one again.
Connected == {v \in Convs : pc[v] \in {"reading", "locking", "deciding", "refreshing"}}

TypeOK ==
    /\ Life!LifeTypeOK
    /\ lockedBy \in [Orders -> Convs \cup {Nobody}]
    /\ pc \in [Convs -> Stages]
    /\ wants \in [Convs -> Orders \cup {NoOrder}]
    /\ \A v \in Convs : pc[v] # "idle" => wants[v] \in Orders
    /\ seen \in [Convs -> Life!Statuses]

Init ==
    /\ Life!LifeInit
    /\ lockedBy = [o \in Orders |-> Nobody]
    /\ pc = [v \in Convs |-> "idle"]
    /\ wants = [v \in Convs |-> NoOrder]
    /\ seen = [v \in Convs |-> "absent"]

----------------------------------------------------------------------------
(* Steps shared by several stages *)

Move(v, from, to) ==
    /\ pc[v] = from
    /\ pc' = [pc EXCEPT ![v] = to]

\* The tool call of v returns or raises; its locals are gone.
Return(v, from) ==
    /\ Move(v, from, "idle")
    /\ wants' = [wants EXCEPT ![v] = NoOrder]
    /\ seen' = [seen EXCEPT ![v] = "absent"]

SetStatus(o, s) == status' = [status EXCEPT ![o] = s]

\* The end of a transaction, or of the connection, frees the row.
Unlock(v) ==
    lockedBy' = [o \in Orders |-> IF lockedBy[o] = v THEN Nobody ELSE lockedBy[o]]

----------------------------------------------------------------------------
(* The connection pool *)

\* The agent decides to call search_order_status or cancel_order.
Call(v, o, tool) ==
    /\ Move(v, "idle", tool)
    /\ wants' = [wants EXCEPT ![v] = o]
    /\ UNCHANGED <<status, confirmed, lockedBy, seen>>

\* The first statement of a transaction takes a connection and is sent.
CheckOut(v) ==
    /\ Cardinality(Connected) < PoolSize
    /\ \/ Move(v, "search", "reading")
       \/ Move(v, "cancel", "locking")
       \/ Move(v, "refresh", "refreshing")
    /\ UNCHANGED <<status, confirmed, lockedBy, wants, seen>>

\* The pool raises TimeoutError when no connection was free for too long.
PoolTimeout(v) ==
    /\ Cardinality(Connected) >= PoolSize
    /\ \E stage \in {"search", "cancel", "refresh"} : Return(v, stage)
    /\ UNCHANGED <<status, confirmed, lockedBy>>

----------------------------------------------------------------------------
(* search_order_status *)

ReadOrder(v) ==
    /\ Return(v, "reading")
    /\ UNCHANGED <<status, confirmed, lockedBy>>

----------------------------------------------------------------------------
(* cancel_order *)

\* Mutated form of LockRow: the row is read without FOR UPDATE.
ReadRowUnlocked(v) ==
    /\ Move(v, "locking", "deciding")
    /\ seen' = [seen EXCEPT ![v] = status[wants[v]]]
    /\ UNCHANGED <<status, confirmed, lockedBy, wants>>

\* SELECT ... FOR UPDATE returns the committed row once no other transaction
\* holds it; an id that is not in the table locks nothing.
LockRow(v) ==
    /\ Move(v, "locking", "deciding")
    /\ lockedBy[wants[v]] = Nobody
    /\ seen' = [seen EXCEPT ![v] = status[wants[v]]]
    /\ lockedBy' = IF status[wants[v]] = "absent" THEN lockedBy
                   ELSE [lockedBy EXCEPT ![wants[v]] = v]
    /\ UNCHANGED <<status, confirmed, wants>>

\* Mutated form of Refuse: the transaction is left open.
RefuseHolding(v) ==
    /\ seen[v] # "preparing"
    /\ Return(v, "deciding")
    /\ UNCHANGED <<status, confirmed, lockedBy>>

\* No such order, or not in preparation: ValueError rolls back, and the tool
\* returns its text.
Refuse(v) ==
    /\ seen[v] # "preparing"
    /\ Return(v, "deciding")
    /\ Unlock(v)
    /\ UNCHANGED <<status, confirmed>>

\* Mutated form of Commit: the status is not looked at.
CommitAnything(v) ==
    /\ Move(v, "deciding", "refresh")
    /\ SetStatus(wants[v], "cancelled")
    /\ Unlock(v)
    /\ UNCHANGED <<confirmed, wants, seen>>

\* UPDATE and COMMIT at the end of the begin() block.
Commit(v) ==
    /\ seen[v] = "preparing"
    /\ Move(v, "deciding", "refresh")
    /\ SetStatus(wants[v], "cancelled")
    /\ Unlock(v)
    /\ UNCHANGED <<confirmed, wants, seen>>

\* The refresh after the commit succeeds and the tool reports the cancellation.
Confirm(v) ==
    /\ Return(v, "refreshing")
    /\ confirmed' = [confirmed EXCEPT ![wants[v]] = @ + 1]
    /\ UNCHANGED <<status, lockedBy>>

----------------------------------------------------------------------------
(* Failures *)

\* Any exception but ValueError leaves the tool; the session is closed.
Fails(v) ==
    /\ DbMayFail
    /\ \E stage \in {"reading", "locking", "deciding", "refreshing"} :
           Return(v, stage)
    /\ Unlock(v)
    /\ UNCHANGED <<status, confirmed>>

\* The connection is lost after PostgreSQL committed, before it said so.
CommitReplyLost(v) ==
    /\ DbMayFail
    /\ seen[v] = "preparing"
    /\ Return(v, "deciding")
    /\ SetStatus(wants[v], "cancelled")
    /\ Unlock(v)
    /\ UNCHANGED confirmed

----------------------------------------------------------------------------
(* The shop moves orders on by updates of its own, which take the row lock. *)

Advance(o, from, to) ==
    /\ lockedBy[o] = Nobody
    /\ status[o] = from
    /\ SetStatus(o, to)
    /\ UNCHANGED <<confirmed, lockedBy, pc, wants, seen>>

Ship(o) == Advance(o, "preparing", "shipping")

Deliver(o) == Advance(o, "shipping", "delivered")

----------------------------------------------------------------------------
(* The specification *)

\* A step of a call that goes on, or that the pool or the order puts an end to.
ToolStep(v) ==
    \/ CheckOut(v)
    \/ PoolTimeout(v)
    \/ ReadOrder(v)
    \/ LockRow(v)
    \/ Refuse(v)
    \/ Commit(v)
    \/ Confirm(v)

Next ==
    \/ \E v \in Convs, o \in Orders, tool \in {"search", "cancel"} : Call(v, o, tool)
    \/ \E v \in Convs : ToolStep(v) \/ Fails(v) \/ CommitReplyLost(v)
    \/ \E o \in Orders : Ship(o) \/ Deliver(o)

Spec == Init /\ [][Next]_vars

\* The event loop and PostgreSQL go on with every call; PostgreSQL queues the
\* transactions that wait for a row, so that none waits for ever.  No failure is
\* counted on to come to the rescue.
Fairness == \A v \in Convs : WF_vars(ToolStep(v)) /\ SF_vars(LockRow(v))

FairSpec == Spec /\ Fairness

----------------------------------------------------------------------------
(* Properties *)

\* Concurrent cancellations, shipments and failures leave each order a life that
\* OrderLife allows: cancelled at most once, never after it was shipped, and
\* confirmed at most once, after the fact.
OrderLifeSpec == Life!LifeSpec

\* A call that decides on a row holds its lock, so what it read is still so.
DecisionsAreCurrent ==
    \A v \in Convs :
        pc[v] = "deciding" =>
            /\ seen[v] = status[wants[v]]
            /\ seen[v] # "absent" => lockedBy[wants[v]] = v

\* Between the commit and the confirmation the order is cancelled, no one was told,
\* and no other call is as far with it.
OneConfirmationIsDue ==
    \A v \in Convs :
        pc[v] \in {"refresh", "refreshing"} =>
            /\ status[wants[v]] = "cancelled"
            /\ confirmed[wants[v]] = 0
            /\ \A w \in Convs \ {v} :
                   pc[w] \in {"refresh", "refreshing"} => wants[w] # wants[v]

\* An order that was confirmed as cancelled is cancelled.
ConfirmedIsCancelled ==
    \A o \in Orders : confirmed[o] > 0 => status[o] = "cancelled"

\* What makes the refinement of OrderLife inductive.
DeskInv ==
    /\ TypeOK
    /\ DecisionsAreCurrent
    /\ OneConfirmationIsDue
    /\ ConfirmedIsCancelled

\* Every tool call returns, whatever waits for the row and for the pool.
EveryCallReturns == \A v \in Convs : pc[v] # "idle" ~> pc[v] = "idle"

\* The docstring of cancel_order lets it raise only when there is no such order or
\* it cannot be cancelled: a call that has cancelled its order says so.
CommittedCallsConfirm ==
    [][\A v \in Convs :
          pc[v] \in {"refresh", "refreshing"} /\ pc'[v] = "idle" =>
              confirmed' # confirmed]_vars
=============================================================================
