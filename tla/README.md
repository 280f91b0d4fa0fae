# Verification of the CS chat agent

TLA+ models of the FastAPI chat agent, checked with TLC on small instances, and theorems about them
checked by TLAPS for every value of the constants. Paths are relative to the repository's root
(`src/` is the root itself where a path starts with it in `PROJECT.json`).

## 1. Inventory

The system is one Python process per worker (FastAPI on one asyncio event loop), PostgreSQL, Redis,
an LLM provider, two browser pages and an evaluation harness.

| Component | Code | State | Operations | What makes it correct |
|---|---|---|---|---|
| WebSocket gateway | `app/api/chat_ws.py` | one handler task per connection: the await it is in, the message and the answer in hand | handshake, receive and validate, cache lookup, budget check, LLM call, store, charge, log, reply, clean up | one reply per message; every message ends; an answer reaches only who it is for, and is logged; cleanup on every path |
| Connection registry | `WebSocketManager` | user -> set of sockets; the gauge | `connect`, `disconnect`, `send_personal`, `active_user_count` | mirrors the running handlers |
| LLM concurrency limit | `_get_llm_semaphore`, `_handle_user_message` | the semaphore's value and waiters | acquire, release | bound never exceeded, no permit or wakeup lost, no starvation |
| Response cache | `app/agent/cache.py` | Redis strings with a TTL | get, set | replays only what was made under the same key; never a failed call's fallback; fails open |
| Token budget | `app/api/middleware.py` | one Redis counter per user and UTC day | check before, record after an LLM call | bounded overshoot, no reset within the day, a counter expires unless Redis fails |
| Agent and RAG | `app/agent/rag.py` | the agent executor, Redis chat history per connection, the vector store | `initialize_rag`, `get_ai_response` | failures become a flagged fallback; history per session, of which a reply is kept only behind its question; the FAQ is indexed once per worker at most |
| Agent tools, orders | `app/agent/tools.py`, `order_repo.py` | the `orders` table | look up, cancel, refund calculation, hand-off | one cancellation succeeds; the refund table |
| Chat logs, admin API | `chat_log_repo.py`, `app/api/logs.py` | the `chat_logs` table | create, list, update feedback | every answer is auditable; feedback is not lost |
| Authentication, rate limit | `auth.py`, `rate_limit.py` | none, Redis windows of slowapi | issue, verify | |
| Health, metrics, prompt, logging | `health.py`, `metrics.py`, `app/prompt`, `app/observability` | counters | read | |
| Lifespan | `app/main.py`, `redis_client.py`, `database.py` | singletons, the vector store | start up, shut down, probe | serves only when ready; the FAQ is stored once per worker at most; traffic returns |
| Chat page | `dashboard/app/chat/page.tsx` | socket, messages, typing flag | connect, send, receive | follows the protocol of the gateway |
| Admin dashboard | `dashboard/app/page.tsx` | polled logs, optimistic feedback | poll, send feedback | shows what is stored |
| Evaluation | `eval/*.py` | result and baseline files | percentile, threshold gate, cost comparison | arithmetic; no pass without an agent while the judge keeps to its range; the baseline survives |

Interactions: a handler calls the registry, cache, budget, semaphore, agent and chat log repository
in a fixed order, and suspends at each await; handlers meet in the semaphore and in what Redis and
PostgreSQL hold. The agent calls the tools, which use the order repository. The dashboard reads what
the handlers log.

Hard behaviours: the interleaving of handlers of one user across awaits (checks that are stale when
used), failures of one of several steps (Redis raises after the LLM call was paid for), a client
that leaves at any point (nothing cancels its handler), midnight between check and charge, and the
wakeups of the semaphore. The full list with its lines is `hazards` in `PROJECT.json`. Outside the
handler: a customer's conversation that runs through a cache, a trimmed history and the order table
at once; workers that start, crash and start again on one vector store; dashboard polls that
overtake each other; and an evaluation that overwrites the very file it has to compare with.

## 2. Modules

| Module | Models | State and actions against the code |
|---|---|---|
| `LlmGate` | the semaphore | `value`, `queue`, `woken`, `holders`. `asyncio.Semaphore` keeps one list of futures; those already completed are `woken`, the others `queue`. `AcquireNow`, `Enqueue`, `Resume` are `acquire`, `Release` is the exit of `async with`; `Resume` passes on what was released while the handler was scheduled, as CPython 3.11 does. |
| `TokenBudget` | `middleware.py` | `spent` is the counters, `phase` and `keyDay` where each request stands and which day's key it computed. GET, INCRBY and EXPIRE are separate steps; each may raise, before or after Redis applied it. `today` and `hour` are the clock, `ttl` the hour at which a key expires: `DayTtl` after EXPIRE is applied. |
| `ConnectionRegistry` | `WebSocketManager`, the gauge | `connections`, `gauge`. The lock is never contended on one event loop because no await runs under it, so a method is one step. |
| `ChatGateway` | `chat_websocket` and all it calls | `pc[c]` is the await of handler `c`. It uses the actions of the three modules above through `INSTANCE`, with `holders`, `phase` and `live` defined from `pc`, and adds the cache, `chat_logs`, frames, close codes and `ai_response_total`. User ids and texts are sequences of characters, which `CacheKey` joins with a colon as `_cache_key` does. |
| `OrderLife` | what a customer may rely on | the committed status of each order and how often a cancellation was confirmed. |
| `OrderDesk` | `search_order_status`, `cancel_order` of `tools.py`, `order_repo.py`, the pool of `database.py` | `pc[v]` is the await of the tool call of conversation `v`. `CheckOut` and `PoolTimeout` are the pool, `LockRow` is `SELECT ... FOR UPDATE`, `Refuse` the `ValueError`s, `Commit` the end of `begin()`, `Confirm` the refresh in a transaction of its own. `Fails` is any other exception at an await, `CommitReplyLost` a connection that breaks after the commit. `Ship` and `Deliver` are the shop, outside the repository's code. |
| `OrderAssistant` | what the cache, `_TrimmedRedisChatMessageHistory` and the tools make of one customer's conversations | `cache` has the reply to each text and the day it is about, `history` the messages in Redis, `order` the table, `today` the date. `CacheHit` answers without the agent; `CacheMiss` reads the window; `SearchOrderStatus`, `ReplyStatus`, `QuoteRefund`, `CancelOrder` follow the tool chain of `prompts/cs_agent_v1.yaml`; `CacheAndSend` ends the call with what `Remember` leaves in the history, which is as many messages of the turn as Redis took (`Pushed`); `Fallback` ends it at any point. For the properties, `topic` is the order last spoken of in a tab and `unrecorded` whether the reply that spoke of it is missing from the history; `Pending` is every reply that can still reach a tab. |
| `Lifespan` | `main.py` `lifespan`, `initialize_redis`, `initialize_rag`, `/health`, in several processes | `stage[w]` is the await of worker `w`; `client` and `agent` are its module globals, `copies` what it put into the vector store, `verdict` the last answer of its readiness probe. A check whose dependency is down aborts the start; `Crash` and `CrashAfterCommit` lose the globals and keep the store. |
| `EvalScores` | the arithmetic of `run_eval.py`, `check_threshold.py`, `cost_eval.py` | operators; where floats decide a comparison of equal values, every outcome. `JudgeScores` gives each criterion a mark of its own, in or out of the range 0 to 1, or the default 0. |
| `Evaluation` | the three commands and the files they write | `file` is the disk, `pc` the file written last, `kept` the baseline in the memory of `cost_eval.py`. Each write is a step, and `Crash` and `CrashWriting` may come before or in the middle of it. `inRange` of a result stands for its `scores`: whether the judge's marks are between 0 and 1. |
| `AdminConsole` | `dashboard/app/page.tsx`, `app/api/logs.py`, `chat_log_repo.py` | `stored` is the feedback column, `screen` the list of each tab, `fetch` and `put` the requests under way with their responses. |
| `MCLlmGate`, `MCTokenBudget`, `MCChatGateway`, `MCOrderDesk`, `MCOrderAssistant`, `MCLifespan`, `MCEvaluation`, `MCAdminConsole` | | values of the constants |
| `LlmGateProofs`, `TokenBudgetProofs`, `ChatGatewayProofs`, `OrderDeskProofs`, `OrderAssistantProofs`, `LifespanProofs`, `EvaluationProofs`, `AdminConsoleProofs` | | theorems; those about the registry are in `ChatGatewayProofs` |

`ChatGateway` composes `LlmGate`, `TokenBudget` and `ConnectionRegistry`: it calls their actions and
is shown to implement the first two, so that their properties hold of it. `OrderDesk` implements
`OrderLife`. `OrderAssistant` is the conversation across both: it has the handler's order of steps
from `ChatGateway` and the outcome of the tools from `OrderDesk`, each as one step, so that several
messages, a history and a week of days stay within TLC's reach.

Abstractions. What a client asks is a few model values and `Normalize` gives the text of each, a
sequence of which only the colons matter; an answer is known by the message it was produced for and
by whether the call succeeded. Log lines, latency and token metrics are left out: no decision reads
them. The digest in the cache key (16 hexadecimal digits of SHA-256) is taken as injective in the
string it is made of; that this string is not injective in user and text is in the model. The number
of tokens of a call is chosen when it is charged, not before, because nothing looks at it in
between. A frame counts as sent when `send_json` returns; a client that left may have it swallowed
by the transport or have it raise. `get_ai_response` is one step there: what the agent does inside
is the business of `OrderAssistant`. The LLM is not in the repository and is taken to follow its
prompt. The library writes the history in a listener after the agent has ended, one message at a
time, and logs what it raises: `Remember`. Within one customer two messages have the same key only
when they have the same text. The model has the cache on: a deployment without it
(`semantic_cache_ttl_seconds` of 0) is one in which every entry lapses at once. Redis and the
workers share one clock. A process that is killed between INCRBY and EXPIRE is not modelled, it
would leave a counter without an expiry as a failing Redis does. A score is an integer of which
`Whole` is 1.0, and sums are exact: floats matter where exact values are equal, and there the
comparison may go either way. The average of a case is rounded down to a sixtieth; in the run every
average is exact. A mark of NaN is left out.

Definitions headed "Mutated form of" are deliberate bugs that are not part of any specification.
Each property is shown to be violated when one of them replaces the definition it names.

## 3. Runs

| Run | Instance | Shows |
|---|---|---|
| `gate` | 4 handlers, 2 permits, unbounded requests | conservation of permits, no idle permit, arrival order, and starvation freedom under weak fairness |
| `budget_midnight` | 3 tabs, limit 2, costs 1 and 2, 2 days of 3 hours, Redis may raise | the overshoot bound; no reset within the day, at whatever hour the TTL began; a counter loses its expiry only when a Redis command raises |
| `gateway_dialogue` | a tab each of `alice` and `alice:b`, 2 messages each, 2 spellings of `hello` and `b:hello`, no limit, Redis may raise | one reply per message, every sent answer logged, no answer lost to Redis, whom a cached answer may go to, fallbacks not replayed |
| `gateway_parts` | 2 tabs, 2 days, 1 permit, one call exhausts the budget, Redis and PostgreSQL may raise | the handler implements `LlmGate` and `TokenBudget`, the registry follows it; every message is concluded, every abandoned handler ends, and every end has a close code, a count or a client that left |
| `orders` | 3 conversations that never stop calling, 2 orders, 2 connections, PostgreSQL may raise | `OrderDesk` implements `OrderLife`, its inductive invariant, and every call returns |
| `assistant` | 2 tabs, a delivered and a prepared order, a window of 2 messages, days 7 to 9 and 14, Redis may take none, half or all of a turn | a reply may be stale but was true; a quote is what the policy grants today or granted yesterday; a cancellation goes to the order that was meant, unless the last reply never reached the history |
| `lifespan` | 3 workers, 2 faults, FAQ file and earlier copies present or not | a worker stores the FAQ at most once; whoever serves is whole; traffic returns |
| `evaluation` | 4 cases (one faster or slower than two others), marks of 0, 0.7 and 2.0, 2 commands, a baseline that is missing, old or measured | the baseline is lost only where it is being replaced; the comparison is honest and its tolerance holds; percentiles; no agent, no pass while the judge keeps to its range |
| `console` | 2 tabs, 2 polls of one of them under way, 1 click, 3 rows of which 2 are listed, 1 failure | feedback that was not stored stays in its tab; every list converges to the table |
| `orders_pool` (violation) | 2 conversations, 1 connection, PostgreSQL never raises | a call that committed reports a failure because its refresh finds the pool full |
| `gateway_lost_answer` (violation) | Redis may raise | an answer is produced and cached but not logged or sent |
| `assistant_cached` (violation) | as `assistant`, a window of 3 messages, room for 2 cached replies, Redis takes every message of the history | "yes, cancel it" cancels another order than the one last shown, because that reply came out of the cache and is not in the history |

Bounds. `MaxMessages` bounds the messages of a connection and `LastDay` the days; both appear only
in guards. Two tabs with one permit already make one wait while the other holds, three make a queue
of two; four handlers for two permits are the least for a permit to be free while a woken handler
has not resumed and another queues behind it. Costs of 1 and 2 against a limit of 2 reach the limit
exactly, cross it and stop below it. A day of three hours lets a key start at the first, a middle or
the last hour of its day, and EXPIRE come on the next day; in the gateway's runs a day is one step.
`hello` of `alice:b` and `b:hello` of `alice` are the shortest pair that share a key. A connection
is used once, as a WebSocket object is; a reload is another connection of the same user. When all
connections are used the bounded system rests in `AllDone`, so that deadlock checking stays on.
Three conversations on two connections make one wait for the pool while two compete for a row, or
one for each order. In `orders_pool` one connection stands for a pool whose other connections are
taken for the whole timeout.

In `OrderAssistant` `MaxTurns` bounds the turns of a conversation: two in one tab, so that with half
turns the window of two messages starts with a question or with a reply; a new tab starts over.
`Pushed` has every outcome of the history's write for that tab and only the full one for the other.
`MaxEntries` bounds the replies in the cache (a call waits until one has lapsed; entries do not
affect each other, so `assistant` has one at a time and `assistant_cached` two), and `Says` what is
said in which tab: one speaks of both orders and leaves the id out, the other cancels. `Days` skips
the days on which the refund does not change; that nothing is due after day 14 is left to the
theorem. Three workers let two store the FAQ together while the third finds it; `MaxFaults` of 2
lets a crash meet an outage. Two commands let `cost_eval.py` follow whatever `run_eval.py`, or an
earlier `cost_eval.py`, left behind; one case per category lets each threshold decide, and one of
them can get a mark beyond the range, with which results made without an agent do pass. Lists of one
or two latencies are left to the theorem. Two overlapping polls of a tab are the fewest that
overtake each other; a second tab shows what another one's click does.

Fairness. Weak fairness of each handler's own steps: the event loop runs what is ready, an LLM call
ends within `llm_timeout_seconds` and `llm_max_retries`, and Redis and PostgreSQL answer or raise.
The last is an assumption about the network: the clients are created without a socket timeout. No
fairness is assumed of clients. In `gateway_parts` the messages are bounded, so starvation in the
queue is the business of `gate`, where handlers ask for ever. In `OrderDesk` each tool call is
weakly fair and `LockRow` strongly fair, because PostgreSQL queues the transactions that wait for a
row and hands it to each in turn; a step of the failures is never counted on. In `Lifespan` a
supervisor starts what has ended, the load balancer of which `health.py:37` speaks keeps probing,
and a dependency that is down comes back: these are assumptions about the deployment, without which
no worker can serve. In `AdminConsole` intervals fire and every request is answered or fails; clicks
and failures are bounded and not fair.

What the violations show of the code: a Redis failure in `record_token_spend` costs an answer that
was produced, cached and counted; `cancel_order` can fail after it has committed, because the
refresh needs the pool again; and a cached reply, which is on the screen but not in the history,
makes a later confirmation cancel another order.

Further disagreements between the code and its texts that were met while modelling, and that no run
is spent on: the docstring of `_cache_key` (`cache.py:45`) says that users share no cache because
the id is in the key, but ids and texts may hold the colon that joins them, so that `alice:b` asking
`hello` gets what `alice` asking `b:hello` was told (`ReplayedAnswersFit` says which pairs these
are); `_judge_with_llm` promises scores of 0.0 to 1.0 (`run_eval.py:244`) and line 283 takes
whatever number the judge writes, so that a mark of 2.0 lets results without an agent pass
(`NoAgentNeverPasses` is about a judge that keeps to the range); a history write that fails is
swallowed, so a reply can be sent and cached with none or half of its turn in the history
(`CancelsWhatWasMeant`); a JSON payload that is not an object ends the handler without the close
code 4002 that `README.md:150` gives for malformed messages (`EveryEndIsAccountedFor` has it as a
counted end); a Redis failure in `record_token_spend` counts one message both as success and as
error (`metrics.py:35`); the cache answers a new tab from an older conversation (`README.md:10`);
INCRBY without EXPIRE leaves a counter that no later record of the day gives a TTL
(`middleware.py:84`); a crash of `cost_eval.py` while it holds the baseline in memory loses it,
although `cost_eval.py:11` calls it restored (`BaselineLostOnlyWhileReplaced` says exactly when);
`cost_eval.py:34` fails a drop of the tolerance or more, while line 114 lets most exact ones pass;
`data/faq.txt` grants refunds for seven days and `refund_calculator` nine tenths up to fourteen; and
the dashboard reads `log.duration`, which `GET /api/logs` does not send.

## 4. Proofs

`LlmGateProofs` rests on `GateInv`: a handler is in at most one place (inside the block, woken, or
pending once), and free, used and handed-over permits add up. It is needed because the sum counts
sets: only if the handler that is woken or admitted is new to the set does the cardinality grow by
one. From it follow `GatePermitsConserved`, `GateTypeCorrect`, `GateNoIdlePermit` and
`GateFirstComeFirstServed`, for every finite set of connections and every positive number of
permits.

`TokenBudgetProofs` rests on `BudgetInv`. The bound on a counter is not inductive, since the counter
does not say how many calls are still to be charged; `OvershootInv` keeps room for the requests at
risk, among them those that checked yesterday's key and will charge today's. It also needs that no
request holds the key of a day to come and that such a day's counter is zero.
`BudgetNoResetWithinDay` needs that a TTL ends after the day of its key (`ExpiresAfterItsDay`):
EXPIRE is applied on that day or later and counts a whole day. From these follow
`BudgetOvershootBounded` for any number of users, tabs, limit and costs, `BudgetRoomKept`, which is
`OvershootInv` itself, `BudgetNoResetWithinDay`, and `BudgetCountersExpire`: a counter is left
without an expiry only by a step in which Redis raises. The constants are assumed to be as
`config.py` and the code bound them (`GateAssumption`, `BudgetAssumption`).

`ChatGatewayProofs` has the gateway's `TypeInv`: `TypeOK` with what the locals of a handler hold at
each stage (a question from lookup on, an answer from the moment there is one), which every later
proof uses. `GatewayImplementsGate` and `GatewayImplementsBudget` go through the handler action by
action, and `GatewayImplementsRegistry` does so for the registry; the theorems about the parts then
give `GatewayCallsAreCapped`, `GatewayOvershootBounded` and `GatewayRegistryMirrorsHandlers`.
`RegistryMirrorsHandlers` (the mapping is the live sockets grouped by user and the gauge their
number) is inductive as it stands; the work is in the two steps that rebuild the mapping. An
instance of a proof module has its own copy of the operators of `FiniteSets`, hence the lemmas
`SameFinite` and `SameCardinality` and the steps that identify the two instances of each module.

The rest of `ChatGatewayProofs` is what a client and an auditor rely on. `GatewayOneReplyPerMessage`
strengthens the property to a count at every stage. `GatewayReplayedAnswersFit` and
`GatewayFallbacksAreNotReplayed` rest on `AnswerInv`: frames already sent say nothing of those to
come, so it states of each cache entry that it is a success stored for its own key, and of the
answer in hand where it may come from. That two pairs with the same key are the same pair or differ
in where the colon falls is a lemma on the concatenation of sequences. `GatewaySentAnswersAreLogged`
rests on `LogInv`, which adds that the row is written when the handler is about to reply.
`GatewayRedisOutageCostsNoAnswer` rests on `RedisInv`: without a budget the stages that can crash
are not reached. `GatewayEveryEndIsAccountedFor` rests on `CountInv`, the same inequality for the
handlers that have ended or are about to: the error is counted when the exception is caught, a step
before the handler is done, and a step joins at most one handler to them.

`OrderDeskProofs` proves `DeskInv` (a decision is made on current data because its row is locked;
between commit and confirmation nobody else is as far with the order) and from it that each step is
one of `OrderLife` or leaves the order alone.

`OrderAssistantProofs` proves `AssistantInv` and from it the four properties of the conversations,
for any tabs, orders, prices, texts, window and days. The invariant says of the replies in calls and
in the cache that they are true of an order which can only move on (`RepliesAreSound`), and of
quotes that they were computed from a delivery that is final, yesterday at the earliest
(`RefundsAreQuoted`); the call keeps the row it read (`CallsKeepTheirOrder`), and unless the last
reply about an order is unrecorded the last order named by the history is the topic of the tab
(`Recalls`). The history is cut anywhere, by the window and by writes that fail; the lemmas on
`Window` and `MostRecent` show that the window loses the oldest orders only, and `MoreRecalls` that
a recorded reply makes the history name its order.

`AdminConsoleProofs` proves `ConsoleInv`: behind every feedback in the table, in a response under
way and on a screen there is a click, and unless the screen is the clicking tab's it was saved.
`UnsavedStaysLocal` alone speaks of screens only and is not inductive, since a response may be older
than what it overwrites.

`LifespanProofs` proves `LifespanInv`, and from it `FaqStoredOncePerWorker` and
`ServingWorkersWhole`, for any number of workers and faults. The bound on the copies is not
inductive: it needs that a worker about to store the FAQ has not done so before and that nobody did
before the deployment, which holds because a store that is not empty never becomes so again.

`EvaluationProofs` proves every property of the evaluation, for any golden set and number of
commands. Its arithmetic comes first. The sum of the scores is a fold over a set; that the fold is
well defined, satisfies its equation and is bounded is shown on the least set of which it fails
(`SmallestMember`, from the library's theorem that strict inclusion on finite sets is well-founded),
which stands in for an induction over the set. From it follow the bounds of averages, of the rounded
quality and of a case's score, and that a `tool_calling` case of a run without an agent gets two
thirds of a score at most while the judge keeps to its range, a missed tool being one of at most
three marks, so that the threshold of its category is missed (`LowForToolsFails`). Marks are any
integers there: the totals, the rounding, the comparison and the files are shown without a bound on
them. A percentile is taken between two ranks of the list (`PercentileIsBetween`), hence the order
of p50, p95 and the maximum. `EvaluationInv` then is `TypeOK`, `IInv` (at each stage of
`cost_eval.py` the baseline is on disk or in its memory) and `RunInv` (the files hold what was
measured). From it follow `BaselineKept`, `EvaluationComparisonIsHonest`,
`EvaluationRegressionTolerance`, `EvaluationPercentilesAreOrdered` and
`EvaluationNoAgentNeverPasses`. `EvaluationAssumption` has one conjunct about the data: each
`tool_calling` case of `eval/golden_qa.json` names an expected tool and is scored for it. Without it
a run without an agent could pass.

The inductive invariants that a proof introduces (`AssistantInv`, `ConsoleInv`, `EvaluationInv`,
`CountInv`) were checked by TLC on the instances of section 3 before they were proved.

Left to TLC: liveness (`EveryWaiterIsServed`, `EveryMessageIsConcluded`, `AbandonedHandlersEnd`,
`EveryCallReturns`, `TrafficReturns`, `ScreensConverge`), which needs `ENABLED` and is out of the
prover's reach, and the violations, which are single behaviours. Every other property of the runs is
a theorem. The theorems on the gateway assume `GatewayAssumption` and nothing of the environment,
except that `SentAnswersAreLogged` is about a PostgreSQL that takes the rows.

## 5. Plan

Done: all modules of section 2 and the proofs of section 4. To come:

1. `ChatService`, an abstract request/reply service that `ChatGateway` implements, with the theorem that each step
   of the handler is one of the service or leaves it alone.
2. The link between `OrderAssistant` and `OrderDesk`: the tool calls of the conversations as calls on the desk, so that
   a confirmation on a screen is one of `OrderLife`.
3. `ChatClient`, the chat page against the frames of the gateway.

## 6. Not modelled

- The counting of the HTTP rate limit: configuration of slowapi, whose windows are the library's; its 429 is an
  outcome of the requests in `AdminConsole`.
- The chat page: it only displays; what it last showed of an order is `topic` in `OrderAssistant`.
- Issuing and decoding of tokens (a pure computation with a clock and a library); the handshake has the outcome.
- The prompt loader, logging, the export of metrics, the liveness text (pure I/O); the columns of tokens, latencies
  and costs in the evaluation's files, except the percentiles.
- The TTL of the session history: an expired history is an empty one, as after `NewTab`.
- TLS, ingress and the database schema beyond the columns the code decides on.

