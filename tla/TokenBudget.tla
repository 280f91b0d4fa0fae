----------------------------- MODULE TokenBudget -----------------------------
(*****************************************************************************)
(* The daily token budget of app/api/middleware.py: is_within_budget before  *)
(* an LLM call, record_token_spend after it, over one Redis counter per      *)
(* user and UTC day.                                                         *)
(*                                                                           *)
(* A request is identified with its connection: a handler has at most one    *)
(* message in hand.  The key is computed before the await and used by Redis  *)
(* later, so keyDay may be yesterday when the command runs.  Time passes in  *)
(* hours, DayLength of them to a day: a day of the key and the 24 hours of a *)
(* TTL are the same length but seldom start together.                        *)
(*****************************************************************************)
EXTENDS Integers, FiniteSets

CONSTANTS
    Conns,              \* connections
    Users,              \* user ids
    UserOf,             \* the user of each connection
    TokenBudgetDaily,   \* settings.token_budget_daily; 0 is unlimited
    TokenCosts,         \* values of total_tokens an LLM call may report
    MaxTokens,          \* an upper bound of TokenCosts
    DayLength,          \* the hours of a day: how finely time is cut
    LastDay,            \* bound: the last UTC day considered
    RedisMayFail        \* whether a Redis command may raise

ASSUME BudgetAssumption ==
    /\ IsFiniteSet(Conns)
    /\ UserOf \in [Conns -> Users]
    /\ TokenBudgetDaily \in Nat
    /\ MaxTokens \in Nat \ {0}
    /\ TokenCosts \subseteq 1..MaxTokens
    /\ DayLength \in Nat \ {0}
    /\ LastDay \in Nat
    /\ RedisMayFail \in BOOLEAN

Days == 0..LastDay

Hours == 0..(DayLength - 1)

Phases == {"out", "checking", "in", "charging", "first"}

VARIABLES
    today,      \* the current UTC day
    hour,       \* the time of day, in whole hours
    spent,      \* spent[u][d]: the counter of user u for day d, 0 if no key
    ttl,        \* ttl[u][d]: when that key expires, 0 if it has no expiry
    phase,      \* where the request of each connection stands
    keyDay      \* the day in the key that request last computed

budgetVars == <<today, hour, spent, ttl, phase, keyDay>>

TypeOK ==
    /\ today \in Days
    /\ hour \in Hours
    /\ spent \in [Users -> [Days -> Nat]]
    /\ ttl \in [Users -> [Days -> Nat]]
    /\ phase \in [Conns -> Phases]
    /\ keyDay \in [Conns -> Days]

Init ==
    /\ today = 0 /\ hour = 0
    /\ spent = [u \in Users |-> [d \in Days |-> 0]]
    /\ ttl = [u \in Users |-> [d \in Days |-> 0]]
    /\ phase = [c \in Conns |-> "out"]
    /\ keyDay = [c \in Conns |-> 0]

----------------------------------------------------------------------------
(* is_within_budget *)

Limited == TokenBudgetDaily > 0

Key(c) == <<UserOf[c], keyDay[c]>>

Used(c) == spent[UserOf[c]][keyDay[c]]

Move(c, from, to) ==
    /\ phase[c] = from
    /\ phase' = [phase EXCEPT ![c] = to]

\* Mutated form of WithinBudget: the bound itself still passes.
WithinBudgetInclusive(c) == Used(c) <= TokenBudgetDaily

\* used >= limit refuses.
WithinBudget(c) == Used(c) < TokenBudgetDaily

\* No limit configured: the check returns True without touching Redis.  Otherwise
\* the key is computed and GET is issued.
Check(c) ==
    /\ Move(c, "out", IF Limited THEN "checking" ELSE "in")
    /\ keyDay' = IF Limited THEN [keyDay EXCEPT ![c] = today] ELSE keyDay
    /\ UNCHANGED <<today, hour, spent, ttl>>

Pass(c) ==
    /\ WithinBudget(c)
    /\ Move(c, "checking", "in")
    /\ UNCHANGED <<today, hour, spent, ttl, keyDay>>

Refuse(c) ==
    /\ ~WithinBudget(c)
    /\ Move(c, "checking", "out")
    /\ UNCHANGED <<today, hour, spent, ttl, keyDay>>

CheckFails(c) ==
    /\ RedisMayFail
    /\ Move(c, "checking", "out")
    /\ UNCHANGED <<today, hour, spent, ttl, keyDay>>

----------------------------------------------------------------------------
(* record_token_spend *)

\* Nothing is recorded: the LLM call failed or reported no tokens, no limit is
\* configured, or the handler ended before it got there.
Finish(c) ==
    /\ Move(c, "in", "out")
    /\ UNCHANGED <<today, hour, spent, ttl, keyDay>>

\* The key of the day is computed anew and INCRBY is issued.
Record(c) ==
    /\ Limited
    /\ Move(c, "in", "charging")
    /\ keyDay' = [keyDay EXCEPT ![c] = today]
    /\ UNCHANGED <<today, hour, spent, ttl>>

IncrBy(c, tokens) ==
    spent' = [spent EXCEPT ![UserOf[c]][keyDay[c]] = @ + tokens]

\* new_total == tokens: the key was created by this very increment.
IsFirst(c, tokens) == Used(c) + tokens = tokens

\* INCRBY is applied and its reply arrives.
Charge(c, tokens) ==
    /\ Move(c, "charging", IF IsFirst(c, tokens) THEN "first" ELSE "out")
    /\ IncrBy(c, tokens)
    /\ UNCHANGED <<today, hour, ttl, keyDay>>

\* Mutated form of ChargeFails: the tokens are taken back, as if Redis had always
\* applied the increment that raised.
ChargeTakenBack(c, tokens) ==
    /\ RedisMayFail
    /\ Move(c, "charging", "out")
    /\ \/ UNCHANGED spent
       \/ spent' = [spent EXCEPT ![UserOf[c]][keyDay[c]] = @ - tokens]
    /\ UNCHANGED <<today, hour, ttl, keyDay>>

\* INCRBY raises, before or after Redis applied it.
ChargeFails(c, tokens) ==
    /\ RedisMayFail
    /\ Move(c, "charging", "out")
    /\ IncrBy(c, tokens) \/ UNCHANGED spent
    /\ UNCHANGED <<today, hour, ttl, keyDay>>

\* Mutated form of DayTtl: a TTL of less than a day.
DayTtlShort == DayLength - 1

\* _DAY_TTL: 24 hours.
DayTtl == DayLength

Time == today * DayLength + hour

\* EXPIRE counts the TTL from the moment Redis applies it.
Expire(u, d) == ttl' = [ttl EXCEPT ![u][d] = Time + DayTtl]

\* Mutated form of SetTtl: the key is computed anew after the await.
SetTtlOfToday(c) ==
    /\ Move(c, "first", "out")
    /\ Expire(UserOf[c], today)
    /\ UNCHANGED <<today, hour, spent, keyDay>>

\* EXPIRE key 86400.
SetTtl(c) ==
    /\ Move(c, "first", "out")
    /\ Expire(UserOf[c], keyDay[c])
    /\ UNCHANGED <<today, hour, spent, keyDay>>

SetTtlFails(c) ==
    /\ RedisMayFail
    /\ Move(c, "first", "out")
    /\ Expire(UserOf[c], keyDay[c]) \/ UNCHANGED ttl
    /\ UNCHANGED <<today, hour, spent, keyDay>>

----------------------------------------------------------------------------
(* The clock, and Redis on its own *)

HourPasses ==
    /\ hour + 1 < DayLength
    /\ hour' = hour + 1
    /\ UNCHANGED today

Midnight ==
    /\ hour + 1 = DayLength
    /\ today < LastDay
    /\ hour' = 0
    /\ today' = today + 1

Tick ==
    /\ HourPasses \/ Midnight
    /\ UNCHANGED <<spent, ttl, phase, keyDay>>

\* The TTL of a key has run out.
HasLapsed(u, d) == ttl[u][d] # 0 /\ ttl[u][d] <= Time

\* Redis drops a key whose TTL ran out.
Lapse(u, d) ==
    /\ HasLapsed(u, d)
    /\ spent' = [spent EXCEPT ![u][d] = 0]
    /\ ttl' = [ttl EXCEPT ![u][d] = 0]
    /\ UNCHANGED <<today, hour, phase, keyDay>>

RequestStep(c) ==
    \/ Check(c)
    \/ Pass(c)
    \/ Refuse(c)
    \/ CheckFails(c)
    \/ Finish(c)
    \/ Record(c)
    \/ \E tokens \in TokenCosts : Charge(c, tokens)
    \/ \E tokens \in TokenCosts : ChargeFails(c, tokens)
    \/ SetTtl(c)
    \/ SetTtlFails(c)

Next ==
    \/ \E c \in Conns : RequestStep(c)
    \/ Tick
    \/ \E u \in Users, d \in Days : Lapse(u, d)

Spec == Init /\ [][Next]_budgetVars

----------------------------------------------------------------------------
(* Properties *)

ConnsOf(u) == {c \in Conns : UserOf[c] = u}

\* The requests that may still add to the counter of day d without having been
\* checked against its present value: those in an LLM call, those about to
\* increment that very key, and those checking the key of an earlier day.
AtRisk(u, d) ==
    {c \in ConnsOf(u) :
        \/ phase[c] = "charging" /\ keyDay[c] = d
        \/ today <= d /\ phase[c] = "in"
        \/ today <= d /\ phase[c] = "checking" /\ keyDay[c] < d}

\* Check and record are apart, so concurrent requests overshoot the limit
\* (middleware.py accepts that), but by less than one LLM call per open
\* connection of the user: what is spent never exceeds this.
OvershootBounded ==
    Limited =>
        \A u \in Users, d \in Days :
            spent[u][d] <= (TokenBudgetDaily - 1)
                             + MaxTokens * Cardinality(ConnsOf(u))

\* The room left for the requests at risk once a counter has reached the limit:
\* no new request joins them, and each leaves by spending at most MaxTokens.
OvershootInv ==
    Limited =>
        \A u \in Users, d \in Days :
            spent[u][d] >= TokenBudgetDaily =>
                spent[u][d] + MaxTokens * Cardinality(AtRisk(u, d))
                    <= (TokenBudgetDaily - 1)
                         + MaxTokens * Cardinality(ConnsOf(u))

\* A counter is never lowered or dropped during its own day: at whatever hour its first
\* tokens were recorded, and whether or not midnight came before EXPIRE, the 24 hours
\* Redis keeps the key end after the day it counts.
NoResetWithinDay ==
    [][\A u \in Users : spent'[u][today] >= spent[u][today]]_budgetVars

\* A counter without an expiry, and without a request that still has to send EXPIRE.
NeverExpires(u, d) ==
    /\ spent[u][d] > 0
    /\ ttl[u][d] = 0
    /\ \A c \in Conns : phase[c] = "first" => Key(c) # <<u, d>>

\* INCRBY and EXPIRE are two commands.  Whatever requests, lapses and midnights come
\* between them, only a request whose own command raised leaves a counter without an
\* expiry behind; which of the increments is the first is decided right.
OnlyFailuresLoseExpiry ==
    [][\A u \in Users, d \in Days :
           ~NeverExpires(u, d) /\ NeverExpires(u, d)' =>
               \E c \in ConnsOf(u) :
                   \/ SetTtlFails(c)
                   \/ \E tokens \in TokenCosts : ChargeFails(c, tokens)]_budgetVars
=============================================================================
