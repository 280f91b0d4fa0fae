------------------------------ MODULE OrderLife ------------------------------
(****************************************************************************)
(* What a customer may rely on about an order: it is cancelled in one step, *)
(* only while it is being prepared, and the cancellation is confirmed at    *)
(* most once, when it has happened.                                         *)
(****************************************************************************)
EXTENDS Naturals

CONSTANT Orders     \* order ids a customer may name, in the table or not

\* orders.status, or "absent" for an id that is not in the table.
Statuses == {"absent", "preparing", "shipping", "delivered", "cancelled"}

VARIABLES
    status,         \* the committed status of each order
    confirmed       \* how often a customer was told that it is cancelled

lifeVars == <<status, confirmed>>

LifeTypeOK ==
    /\ status \in [Orders -> Statuses]
    /\ confirmed \in [Orders -> Nat]

LifeInit ==
    /\ status \in [Orders -> Statuses \ {"cancelled"}]
    /\ confirmed = [o \in Orders |-> 0]

Become(o, from, to) ==
    /\ status[o] = from
    /\ status' = [status EXCEPT ![o] = to]
    /\ UNCHANGED confirmed

LifeCancel(o) == Become(o, "preparing", "cancelled")

LifeConfirm(o) ==
    /\ status[o] = "cancelled"
    /\ confirmed[o] = 0
    /\ confirmed' = [confirmed EXCEPT ![o] = 1]
    /\ UNCHANGED status

LifeShip(o) == Become(o, "preparing", "shipping")

LifeDeliver(o) == Become(o, "shipping", "delivered")

LifeNext ==
    \E o \in Orders :
        LifeCancel(o) \/ LifeConfirm(o) \/ LifeShip(o) \/ LifeDeliver(o)

LifeSpec == LifeInit /\ [][LifeNext]_lifeVars
=============================================================================
