------------------------------ MODULE LlmGate ------------------------------
(****************************************************************************)
(* The semaphore that caps concurrent LLM calls in one worker process:      *)
(* _get_llm_semaphore and the "async with" of _handle_user_message in       *)
(* app/api/chat_ws.py, over asyncio.Semaphore of Python 3.11.               *)
(*                                                                          *)
(* The event loop is cooperative, so each action is what runs between two   *)
(* suspensions of a handler.  asyncio.Semaphore keeps one list of futures;  *)
(* the futures already completed by a release are the set woken (their      *)
(* handlers are scheduled but have not resumed), the others are queue.      *)
(* Handlers are never cancelled while they wait: the code starts no task    *)
(* with a timeout, and a client that goes away does not cancel anything.    *)
(****************************************************************************)
EXTENDS Integers, Sequences, FiniteSets

CONSTANTS
    Conns,              \* WebSocket connections, one handler task each
    MaxConcurrentLlm    \* settings.max_concurrent_llm

\* config.py declares max_concurrent_llm with ge=1.
ASSUME GateAssumption ==
    /\ MaxConcurrentLlm \in Nat \ {0}
    /\ IsFiniteSet(Conns)

VARIABLES
    value,      \* Semaphore._value: permits nobody owns
    queue,      \* pending futures of Semaphore._waiters, in arrival order
    woken,      \* handlers whose future is done and that have yet to resume
    holders     \* handlers inside "async with semaphore"

gateVars == <<value, queue, woken, holders>>

Queued == {queue[i] : i \in DOMAIN queue}

TypeOK ==
    /\ value \in 0..MaxConcurrentLlm
    /\ queue \in Seq(Conns)
    /\ woken \subseteq Conns
    /\ holders \subseteq Conns

Init ==
    /\ value = MaxConcurrentLlm
    /\ queue = << >>
    /\ woken = {}
    /\ holders = {}

----------------------------------------------------------------------------
(* asyncio.Semaphore *)

\* locked(): no free permit, or somebody is still in the waiter list, done or not.
Locked == value = 0 \/ woken # {} \/ queue # << >>

\* Mutated form of WakeUpNext: the waiter list served as a stack.
WakeUpNewest(free, up) ==
    IF queue # << >>
    THEN /\ value' = free - 1
         /\ woken' = up \cup {queue[Len(queue)]}
         /\ queue' = SubSeq(queue, 1, Len(queue) - 1)
    ELSE /\ value' = free
         /\ woken' = up
         /\ UNCHANGED queue

\* _wake_up_next() with "free" permits unowned and "up" already woken: the
\* first pending future, if any, gets one of them.
WakeUpNext(free, up) ==
    IF queue # << >>
    THEN /\ value' = free - 1
         /\ woken' = up \cup {Head(queue)}
         /\ queue' = Tail(queue)
    ELSE /\ value' = free
         /\ woken' = up
         /\ UNCHANGED queue

Outside(c) == c \notin holders \cup woken \cup Queued

\* acquire() on the fast path: the permit is taken without suspending.
AcquireNow(c) ==
    /\ Outside(c)
    /\ ~Locked
    /\ value' = value - 1
    /\ holders' = holders \cup {c}
    /\ UNCHANGED <<queue, woken>>

\* acquire() when locked: a future is appended and the handler suspends.
Enqueue(c) ==
    /\ Outside(c)
    /\ Locked
    /\ queue' = Append(queue, c)
    /\ UNCHANGED <<value, woken, holders>>

\* Mutated form of Resume: what was released meanwhile is not passed on.
ResumeAlone(c) ==
    /\ c \in woken
    /\ holders' = holders \cup {c}
    /\ woken' = woken \ {c}
    /\ UNCHANGED <<value, queue>>

\* The handler resumes after its future completed.  Permits released while it
\* was scheduled, when nobody was pending, go to those who queued since.
Resume(c) ==
    /\ c \in woken
    /\ holders' = holders \cup {c}
    /\ IF value > 0
       THEN WakeUpNext(value, woken \ {c})
       ELSE woken' = woken \ {c} /\ UNCHANGED <<value, queue>>

\* Mutated form of Release: a permit that is not given back, as when the
\* release is not in a finally and the call inside raises.
ReleaseForgotten(c) ==
    /\ c \in holders
    /\ holders' = holders \ {c}
    /\ UNCHANGED <<value, queue, woken>>

\* __aexit__ of the "async with": release() and wake the first pending future.
Release(c) ==
    /\ c \in holders
    /\ holders' = holders \ {c}
    /\ WakeUpNext(value + 1, woken)

Next ==
    \E c \in Conns :
        \/ AcquireNow(c)
        \/ Enqueue(c)
        \/ Resume(c)
        \/ Release(c)

Spec == Init /\ [][Next]_gateVars

\* A scheduled handler is resumed by the event loop, and an LLM call ends: it
\* runs under llm_timeout_seconds and llm_max_retries (config.py).
Fairness ==
    \A c \in Conns :
        /\ WF_gateVars(Resume(c))
        /\ WF_gateVars(Release(c))

FairSpec == Spec /\ Fairness

----------------------------------------------------------------------------
(* Properties *)

\* Every permit is free, or owned by exactly one handler that is inside the
\* block or has been handed the permit and is about to resume.
PermitsConserved ==
    value + Cardinality(holders) + Cardinality(woken) = MaxConcurrentLlm

\* No lost wakeup: a permit may be free while a handler is pending only as long
\* as a woken handler is still to resume and will pass it on.
NoIdlePermit == (value > 0 /\ queue # << >>) => woken # {}

\* Starvation freedom: a handler that queued for the LLM gets its turn, however
\* many other handlers keep asking.
EveryWaiterIsServed ==
    \A c \in Conns : (c \in Queued) ~> (c \in holders)

\* First come, first served: a step that wakes a pending handler wakes the one
\* that waited longest, and nobody enters past a handler that is pending.
FirstComeFirstServed ==
    [][/\ \A c \in Queued : c \in woken' => c = Head(queue)
       /\ queue # << >> => holders' \ holders \subseteq woken]_gateVars

============================================================================
