----------------------------- MODULE ChatGateway -----------------------------
(****************************************************************************)
(* chat_websocket of app/api/chat_ws.py: one handler per WebSocket, with    *)
(* the connection registry, the LLM semaphore, the response cache, the      *)
(* daily token budget, the chat_logs table and the ai_response_total        *)
(* counter it works on.                                                     *)
(*                                                                          *)
(* pc[c] names the await the handler of c is suspended in, or about to      *)
(* enter.  An action is the effect of that await together with everything   *)
(* the handler does before the next one; the event loop runs nothing else   *)
(* in between.  A message is identified by its connection and its number,   *)
(* as message_id does.  User ids and texts are sequences of characters, of  *)
(* which only the colon matters: _cache_key joins the two with one.         *)
(****************************************************************************)
EXTENDS Integers, Sequences, FiniteSets

CONSTANTS
    Conns,              \* WebSocket connections; each is used once
    Chars,              \* characters, the colon among them
    Users,              \* user ids; auth.py lets them hold any character
    UserOf,             \* the user_id in the URL of each connection
    BadToken,           \* what an invalid or expired token verifies to
    Queries,            \* texts a client may ask
    Normalize,          \* _normalize_query: the text of each query
    NoQuery,
    CacheEnabled,       \* semantic_cache_ttl_seconds > 0
    MaxConcurrentLlm,
    TokenBudgetDaily,
    TokenCosts,
    MaxTokens,
    MaxMessages,        \* bound: messages received per connection
    DayLength, LastDay, \* see TokenBudget; LastDay is a bound
    RedisMayFail,       \* whether a Redis command may raise
    DbMayFail           \* whether writing chat_logs may raise

Texts == Seq(Chars)

ASSUME GatewayAssumption ==
    /\ IsFiniteSet(Conns)
    /\ ":" \in Chars
    /\ Users \subseteq Texts
    /\ UserOf \in [Conns -> Users]
    /\ BadToken \notin Users
    /\ NoQuery \notin Queries
    /\ Normalize \in [Queries -> Texts]
    /\ CacheEnabled \in BOOLEAN
    /\ MaxConcurrentLlm \in Nat \ {0}
    /\ TokenBudgetDaily \in Nat
    /\ MaxTokens \in Nat \ {0}
    /\ TokenCosts \subseteq 1..MaxTokens
    /\ MaxMessages \in Nat
    /\ DayLength \in Nat \ {0}
    /\ LastDay \in Nat
    /\ RedisMayFail \in BOOLEAN
    /\ DbMayFail \in BOOLEAN

VARIABLES
    pc,
    query,          \* the user_message in hand
    answer,         \* the answer in hand: cached_output or result["output"]
    received,       \* messages received so far; the last one is in hand
    replies,        \* terminal frames (ai_response or error) written so far
    sent,           \* ai_response frames written
    closeCode,      \* WebSocket close code the handler sent, 0 if none
    gone,           \* connections whose client has left
    cache,          \* cache[k]: the cached answer, NoAnswer if absent
    logs,           \* rows of chat_logs
    aiResponses,    \* ai_response_total by status
    value, queue, woken,                \* see LlmGate
    today, hour, spent, ttl, keyDay,    \* see TokenBudget
    connections, gauge                  \* see ConnectionRegistry

messageVars == <<query, answer, received>>
wireVars == <<replies, sent, closeCode, gone>>
storeVars == <<cache, logs>>
gateVars == <<value, queue, woken>>
budgetVars == <<today, hour, spent, ttl, keyDay>>
registryVars == <<connections, gauge>>

vars == <<pc, messageVars, wireVars, storeVars, aiResponses,
          gateVars, budgetVars, registryVars>>

Stages == {"new", "idle", "refuse", "badformat", "lookup", "hit", "hitlog",
           "budget", "over", "typing", "acquire", "waiting", "llm", "store",
           "spend", "expire", "persist", "reply", "closing", "done"}

\* An answer is known by the message the agent produced it for; ok is FALSE for
\* the fallback text of a failed call.
Answers == [conn : Conns, msg : 1..MaxMessages, query : Queries, ok : BOOLEAN]

NoAnswer == [ok |-> FALSE]

\* Mutated form of CacheKey: the user is left out of the key.
CacheKeyOfText(u, q) == Normalize[q]

\* _cache_key: the hash of the user id, a colon and the normalized text, taken as
\* injective in the string it is given.  The string is not so in the two arguments.
CacheKey(u, q) == u \o <<":">> \o Normalize[q]

Keys == {CacheKey(u, q) : u \in Users, q \in Queries}

Frames == [to : Conns, msg : 1..MaxMessages, query : Queries, answer : Answers]

Rows == [conn : Conns, msg : 1..MaxMessages, user : Users,
         query : Queries, answer : Answers]

----------------------------------------------------------------------------
(* The components this handler drives *)

Holders == {c \in Conns : pc[c] = "llm"}

Gate == INSTANCE LlmGate WITH holders <- Holders

PhaseOf(stage) ==
    CASE stage = "budget" -> "checking"
      [] stage \in {"typing", "acquire", "waiting", "llm", "store"} -> "in"
      [] stage = "spend" -> "charging"
      [] stage = "expire" -> "first"
      [] OTHER -> "out"

BudgetPhase == [c \in Conns |-> PhaseOf(pc[c])]

Budget == INSTANCE TokenBudget WITH phase <- BudgetPhase

Live == {c \in Conns : pc[c] \notin {"new", "done"}}

Registry == INSTANCE ConnectionRegistry WITH live <- Live

TypeOK ==
    /\ pc \in [Conns -> Stages]
    /\ query \in [Conns -> Queries \cup {NoQuery}]
    /\ answer \in [Conns -> Answers \cup {NoAnswer}]
    /\ received \in [Conns -> 0..MaxMessages]
    /\ replies \in [Conns -> Nat]
    /\ sent \subseteq Frames
    /\ closeCode \in [Conns -> {0, 4001, 4002}]
    /\ gone \subseteq Conns
    /\ cache \in [Keys -> Answers \cup {NoAnswer}]
    /\ logs \subseteq Rows
    /\ aiResponses \in [{"success", "error"} -> Nat]

Init ==
    /\ pc = [c \in Conns |-> "new"]
    /\ query = [c \in Conns |-> NoQuery]
    /\ answer = [c \in Conns |-> NoAnswer]
    /\ received = [c \in Conns |-> 0]
    /\ replies = [c \in Conns |-> 0]
    /\ sent = {}
    /\ closeCode = [c \in Conns |-> 0]
    /\ gone = {}
    /\ cache = [k \in Keys |-> NoAnswer]
    /\ logs = {}
    /\ aiResponses = [s \in {"success", "error"} |-> 0]
    /\ value = MaxConcurrentLlm /\ queue = << >> /\ woken = {}
    /\ today = 0 /\ hour = 0
    /\ spent = [u \in Users |-> [d \in 0..LastDay |-> 0]]
    /\ ttl = [u \in Users |-> [d \in 0..LastDay |-> 0]]
    /\ keyDay = [c \in Conns |-> 0]
    /\ connections = << >> /\ gauge = 0

----------------------------------------------------------------------------
(* Steps shared by several stages *)

Goto(c, stage) == pc' = [pc EXCEPT ![c] = stage]

Count(status) == aiResponses' = [aiResponses EXCEPT ![status] = @ + 1]

\* A terminal frame handed to the transport, which may still lose it.
WriteFrame(c) == replies' = [replies EXCEPT ![c] = @ + 1]

\* send_json to a client that left raises WebSocketDisconnect, or is swallowed
\* by the transport as if written.  The handler goes to its finally.
SendRaises(c) ==
    /\ c \in gone
    /\ Goto(c, "closing")
    /\ UNCHANGED <<replies, sent>>

SendError(c, stage) ==
    \/ Goto(c, stage) /\ WriteFrame(c) /\ UNCHANGED sent
    \/ SendRaises(c)

Frame(c) == [to |-> c, msg |-> received[c], query |-> query[c], answer |-> answer[c]]

SendAnswer(c, stage) ==
    \/ Goto(c, stage) /\ WriteFrame(c) /\ sent' = sent \cup {Frame(c)}
    \/ SendRaises(c)

\* Mutated form of Crash: the exception is logged and not counted.
CrashUncounted(c) == Goto(c, "closing") /\ UNCHANGED aiResponses

\* Any other exception in the loop: counted as an error, nothing is sent.
Crash(c) == Goto(c, "closing") /\ Count("error")

\* The locals of a message are dead once the next receive starts.
Forget(c) ==
    /\ query' = [query EXCEPT ![c] = NoQuery]
    /\ answer' = [answer EXCEPT ![c] = NoAnswer]
    /\ UNCHANGED received

Row(c) == [conn |-> c, msg |-> received[c], user |-> UserOf[c],
           query |-> query[c], answer |-> answer[c]]

\* _persist_chat_log: every exception is swallowed, before or after the commit.
PersistLog(c) ==
    \/ logs' = logs \cup {Row(c)}
    \/ DbMayFail /\ UNCHANGED logs

----------------------------------------------------------------------------
(* Connecting *)

\* verify_token and the comparison with the user_id of the URL.
Accept(c) ==
    /\ pc[c] = "new"
    /\ Goto(c, "idle")
    /\ Registry!Connect(c)
    /\ UNCHANGED <<messageVars, wireVars, storeVars, aiResponses,
                   gateVars, budgetVars>>

RejectToken(c) ==
    /\ pc[c] = "new"
    /\ Goto(c, "done")
    /\ closeCode' = [closeCode EXCEPT ![c] = 4001]
    /\ UNCHANGED <<messageVars, replies, sent, gone, storeVars, aiResponses,
                   gateVars, budgetVars, registryVars>>

Handshake(c, tokenUser) ==
    IF tokenUser = UserOf[c] THEN Accept(c) ELSE RejectToken(c)

\* The client closes the socket or vanishes; what it sent before may still be read.
ClientLeaves(c) ==
    /\ c \in Live \ gone
    /\ gone' = gone \cup {c}
    /\ UNCHANGED <<pc, messageVars, replies, sent, closeCode, storeVars,
                   aiResponses, gateVars, budgetVars, registryVars>>

----------------------------------------------------------------------------
(* Receiving: receive_json and the validation of the payload *)

\* The handler gets a message while it is idle and moves to the given stage.
Receive(c, stage) ==
    /\ pc[c] = "idle"
    /\ received[c] < MaxMessages
    /\ received' = [received EXCEPT ![c] = @ + 1]
    /\ Goto(c, stage)
    /\ UNCHANGED <<wireVars, storeVars, gateVars, budgetVars, registryVars>>

ReceiveQuestion(c, q) ==
    /\ Receive(c, "lookup")
    /\ query' = [query EXCEPT ![c] = q]
    /\ UNCHANGED <<answer, aiResponses>>

\* A type other than user_message, or a blank or non-string message.
ReceiveUnusable(c) ==
    /\ Receive(c, "refuse")
    /\ UNCHANGED <<query, answer, aiResponses>>

\* Text that is not JSON.
ReceiveMalformed(c) ==
    /\ Receive(c, "badformat")
    /\ UNCHANGED <<query, answer, aiResponses>>

\* JSON that is not an object: payload.get raises AttributeError.
ReceiveNonObject(c) ==
    /\ Receive(c, "closing")
    /\ Count("error")
    /\ UNCHANGED <<query, answer>>

\* Mutated form of ReceiveDisconnect: the exception is taken for a bad message
\* and the loop goes on.
ReceiveAgain(c) ==
    /\ pc[c] = "idle"
    /\ c \in gone
    /\ UNCHANGED vars

\* receive_json raises WebSocketDisconnect.
ReceiveDisconnect(c) ==
    /\ pc[c] = "idle"
    /\ c \in gone
    /\ Goto(c, "closing")
    /\ UNCHANGED <<messageVars, wireVars, storeVars, aiResponses,
                   gateVars, budgetVars, registryVars>>

RefuseMessage(c) ==
    /\ pc[c] = "refuse"
    /\ SendError(c, "idle")
    /\ UNCHANGED <<messageVars, closeCode, gone, storeVars, aiResponses,
                   gateVars, budgetVars, registryVars>>

\* close(4002) and return; to a client that left it changes nothing.
CloseMalformed(c) ==
    /\ pc[c] = "badformat"
    /\ Goto(c, "closing")
    /\ closeCode' = [closeCode EXCEPT ![c] = 4002]
    /\ UNCHANGED <<messageVars, replies, sent, gone, storeVars, aiResponses,
                   gateVars, budgetVars, registryVars>>

----------------------------------------------------------------------------
(* The response cache: app/agent/cache.py *)

KeyInHand(c) == CacheKey(UserOf[c], query[c])

\* Mutated form of LookupHit: the result is not compared with None.
LookupTaken(c) ==
    /\ pc[c] = "lookup"
    /\ CacheEnabled
    /\ answer' = [answer EXCEPT ![c] = cache[KeyInHand(c)]]
    /\ Goto(c, "hit")
    /\ UNCHANGED <<query, received, wireVars, storeVars, aiResponses,
                   gateVars, budgetVars, registryVars>>

\* A hit returns the stored answer; a miss, a Redis exception and a disabled
\* cache all return None.  None sends the handler to the budget check, which
\* is passed on the spot when no budget is configured.
LookupHit(c) ==
    /\ pc[c] = "lookup"
    /\ CacheEnabled
    /\ cache[KeyInHand(c)] # NoAnswer
    /\ answer' = [answer EXCEPT ![c] = cache[KeyInHand(c)]]
    /\ Goto(c, "hit")
    /\ UNCHANGED <<query, received, wireVars, storeVars, aiResponses,
                   gateVars, budgetVars, registryVars>>

\* Mutated form of LookupMiss: the budget is not checked.
LookupMissUnchecked(c) ==
    /\ pc[c] = "lookup"
    /\ CacheEnabled => cache[KeyInHand(c)] = NoAnswer \/ RedisMayFail
    /\ Goto(c, "typing")
    /\ UNCHANGED <<messageVars, wireVars, storeVars, aiResponses,
                   gateVars, budgetVars, registryVars>>

LookupMiss(c) ==
    /\ pc[c] = "lookup"
    /\ CacheEnabled => cache[KeyInHand(c)] = NoAnswer \/ RedisMayFail
    /\ Goto(c, IF Budget!Limited THEN "budget" ELSE "typing")
    /\ Budget!Check(c)
    /\ UNCHANGED <<messageVars, wireVars, storeVars, aiResponses,
                   gateVars, registryVars>>

\* Mutated form of SendHit: the handler goes on to the LLM after a hit.
SendHitAndAsk(c) ==
    /\ pc[c] = "hit"
    /\ Count("success")
    /\ SendAnswer(c, "typing")
    /\ UNCHANGED <<messageVars, closeCode, gone, storeVars,
                   gateVars, budgetVars, registryVars>>

\* The hit is counted, then sent.
SendHit(c) ==
    /\ pc[c] = "hit"
    /\ Count("success")
    /\ SendAnswer(c, "hitlog")
    /\ UNCHANGED <<messageVars, closeCode, gone, storeVars,
                   gateVars, budgetVars, registryVars>>

\* Mutated form of PersistHit: hits are not written to chat_logs.
SkipHitLog(c) ==
    /\ pc[c] = "hitlog"
    /\ Goto(c, "idle")
    /\ Forget(c)
    /\ UNCHANGED <<wireVars, cache, logs, aiResponses,
                   gateVars, budgetVars, registryVars>>

PersistHit(c) ==
    /\ pc[c] = "hitlog"
    /\ PersistLog(c)
    /\ Goto(c, "idle")
    /\ Forget(c)
    /\ UNCHANGED <<wireVars, cache, aiResponses,
                   gateVars, budgetVars, registryVars>>

\* setex: stored, or the exception is swallowed, before or after Redis stored it.
PutInCache(c) ==
    IF CacheEnabled
    THEN \/ cache' = [cache EXCEPT ![KeyInHand(c)] = answer[c]]
         \/ RedisMayFail /\ UNCHANGED cache
    ELSE UNCHANGED cache

\* Redis drops an entry whose TTL ran out.
CacheLapse(k) ==
    /\ cache[k] # NoAnswer
    /\ cache' = [cache EXCEPT ![k] = NoAnswer]
    /\ UNCHANGED <<pc, messageVars, wireVars, logs, aiResponses,
                   gateVars, budgetVars, registryVars>>

----------------------------------------------------------------------------
(* The budget check and the LLM call *)

CheckBudget(c) ==
    /\ pc[c] = "budget"
    /\ \/ Goto(c, "typing") /\ Budget!Pass(c) /\ UNCHANGED aiResponses
       \/ Goto(c, "over") /\ Budget!Refuse(c) /\ UNCHANGED aiResponses
       \/ Crash(c) /\ Budget!CheckFails(c)
    /\ UNCHANGED <<messageVars, wireVars, storeVars, gateVars, registryVars>>

SendOverBudget(c) ==
    /\ pc[c] = "over"
    /\ SendError(c, "idle")
    /\ IF pc'[c] = "idle" THEN Forget(c) ELSE UNCHANGED messageVars
    /\ UNCHANGED <<closeCode, gone, storeVars, aiResponses,
                   gateVars, budgetVars, registryVars>>

\* The typing frame; it is not a terminal one.
SendTyping(c) ==
    /\ pc[c] = "typing"
    /\ \/ Goto(c, "acquire") /\ UNCHANGED <<replies, sent, budgetVars>>
       \/ SendRaises(c) /\ Budget!Finish(c)
    /\ UNCHANGED <<messageVars, closeCode, gone, storeVars, aiResponses,
                   gateVars, registryVars>>

\* Mutated form of AcquireSemaphore: the LLM is called outside the semaphore.
CallUngated(c) ==
    /\ pc[c] = "acquire"
    /\ Goto(c, "llm")
    /\ UNCHANGED <<gateVars, messageVars, wireVars, storeVars, aiResponses,
                   budgetVars, registryVars>>

\* _handle_user_message enters "async with semaphore".
AcquireSemaphore(c) ==
    /\ pc[c] = "acquire"
    /\ \/ Goto(c, "llm") /\ Gate!AcquireNow(c)
       \/ Goto(c, "waiting") /\ Gate!Enqueue(c)
    /\ UNCHANGED <<messageVars, wireVars, storeVars, aiResponses,
                   budgetVars, registryVars>>

ResumeWithPermit(c) ==
    /\ pc[c] = "waiting"
    /\ Goto(c, "llm")
    /\ Gate!Resume(c)
    /\ UNCHANGED <<messageVars, wireVars, storeVars, aiResponses,
                   budgetVars, registryVars>>

AnswerInHand(c, success) ==
    answer' = [answer EXCEPT ![c] = [conn |-> c, msg |-> received[c],
                                     query |-> query[c], ok |-> success]]

\* get_ai_response returns its result and the semaphore is released; the
\* status is counted before the next await.
LlmSucceeds(c) ==
    /\ pc[c] = "llm"
    /\ Goto(c, "store")
    /\ Gate!Release(c)
    /\ AnswerInHand(c, TRUE)
    /\ Count("success")
    /\ UNCHANGED <<query, received, wireVars, storeVars,
                   budgetVars, registryVars>>

\* Mutated form of LlmFails: the error flag is not looked at before caching.
LlmFailsUnflagged(c) ==
    /\ pc[c] = "llm"
    /\ Goto(c, "store")
    /\ Gate!Release(c)
    /\ AnswerInHand(c, FALSE)
    /\ Count("error")
    /\ UNCHANGED <<query, received, wireVars, storeVars,
                   budgetVars, registryVars>>

\* Mutated form of LlmFails: the failing path leaves without a release.
LlmFailsHolding(c) ==
    /\ pc[c] = "llm"
    /\ Goto(c, "persist")
    /\ Budget!Finish(c)
    /\ AnswerInHand(c, FALSE)
    /\ Count("error")
    /\ UNCHANGED <<query, received, wireVars, storeVars, gateVars, registryVars>>

\* An exception of the agent, or no agent: the fallback text and error = True.
LlmFails(c) ==
    /\ pc[c] = "llm"
    /\ Goto(c, "persist")
    /\ Gate!Release(c)
    /\ Budget!Finish(c)
    /\ AnswerInHand(c, FALSE)
    /\ Count("error")
    /\ UNCHANGED <<query, received, wireVars, storeVars, registryVars>>

----------------------------------------------------------------------------
(* After the LLM call: cache, spend, log, reply *)

\* Mutated form of StoreInCache: an exception of setex is not swallowed.
StoreInCacheRaises(c) ==
    /\ pc[c] = "store"
    /\ \/ /\ PutInCache(c)
          /\ \/ Goto(c, "spend") /\ Budget!Record(c)
             \/ Goto(c, "persist") /\ Budget!Finish(c)
          /\ UNCHANGED aiResponses
       \/ RedisMayFail /\ Crash(c) /\ Budget!Finish(c) /\ UNCHANGED cache
    /\ UNCHANGED <<messageVars, wireVars, logs, gateVars, registryVars>>

\* The spend is recorded when a limit is set and the usage is known.
StoreInCache(c) ==
    /\ pc[c] = "store"
    /\ PutInCache(c)
    /\ \/ Goto(c, "spend") /\ Budget!Record(c)
       \/ Goto(c, "persist") /\ Budget!Finish(c)
    /\ UNCHANGED <<messageVars, wireVars, logs, aiResponses,
                   gateVars, registryVars>>

RecordSpend(c, tokens) ==
    /\ pc[c] = "spend"
    /\ \/ /\ Goto(c, IF Budget!IsFirst(c, tokens) THEN "expire" ELSE "persist")
          /\ Budget!Charge(c, tokens)
          /\ UNCHANGED aiResponses
       \/ Crash(c) /\ Budget!ChargeFails(c, tokens)
    /\ UNCHANGED <<messageVars, wireVars, storeVars, gateVars, registryVars>>

ExpireCounter(c) ==
    /\ pc[c] = "expire"
    /\ \/ Goto(c, "persist") /\ Budget!SetTtl(c) /\ UNCHANGED aiResponses
       \/ Crash(c) /\ Budget!SetTtlFails(c)
    /\ UNCHANGED <<messageVars, wireVars, storeVars, gateVars, registryVars>>

PersistAnswer(c) ==
    /\ pc[c] = "persist"
    /\ PersistLog(c)
    /\ Goto(c, "reply")
    /\ UNCHANGED <<messageVars, wireVars, cache, aiResponses,
                   gateVars, budgetVars, registryVars>>

Reply(c) ==
    /\ pc[c] = "reply"
    /\ SendAnswer(c, "idle")
    /\ IF pc'[c] = "idle" THEN Forget(c) ELSE UNCHANGED messageVars
    /\ UNCHANGED <<closeCode, gone, storeVars, aiResponses,
                   gateVars, budgetVars, registryVars>>

\* The finally block.
Cleanup(c) ==
    /\ pc[c] = "closing"
    /\ Goto(c, "done")
    /\ Registry!Disconnect(c)
    /\ Forget(c)
    /\ UNCHANGED <<wireVars, storeVars, aiResponses, gateVars, budgetVars>>

----------------------------------------------------------------------------
(* The specification *)

\* What the client and the network decide.
ClientStep(c) ==
    \/ \E t \in Users \cup {BadToken} : Handshake(c, t)
    \/ \E q \in Queries : ReceiveQuestion(c, q)
    \/ ReceiveUnusable(c)
    \/ ReceiveMalformed(c)
    \/ ReceiveNonObject(c)
    \/ ClientLeaves(c)

\* What the handler does on its own once it has been given something to do.
HandlerStep(c) ==
    \/ ReceiveDisconnect(c)
    \/ RefuseMessage(c)
    \/ CloseMalformed(c)
    \/ LookupHit(c)
    \/ LookupMiss(c)
    \/ SendHit(c)
    \/ PersistHit(c)
    \/ CheckBudget(c)
    \/ SendOverBudget(c)
    \/ SendTyping(c)
    \/ AcquireSemaphore(c)
    \/ ResumeWithPermit(c)
    \/ LlmSucceeds(c)
    \/ LlmFails(c)
    \/ StoreInCache(c)
    \/ \E tokens \in TokenCosts : RecordSpend(c, tokens)
    \/ ExpireCounter(c)
    \/ PersistAnswer(c)
    \/ Reply(c)
    \/ Cleanup(c)

TimePasses ==
    /\ UNCHANGED <<pc, messageVars, wireVars, storeVars, aiResponses,
                   gateVars, registryVars>>
    /\ Budget!Tick

CounterLapses(u, d) ==
    /\ UNCHANGED <<pc, messageVars, wireVars, storeVars, aiResponses,
                   gateVars, registryVars>>
    /\ Budget!Lapse(u, d)

\* Every connection has been used: the bounded system is at rest.
AllDone ==
    /\ \A c \in Conns : pc[c] = "done"
    /\ UNCHANGED vars

Next ==
    \/ \E c \in Conns : ClientStep(c) \/ HandlerStep(c)
    \/ \E k \in Keys : CacheLapse(k)
    \/ TimePasses
    \/ \E u \in Users, d \in 0..LastDay : CounterLapses(u, d)
    \/ AllDone

Spec == Init /\ [][Next]_vars

\* The event loop runs every handler that is ready; an LLM call ends within its
\* timeout and retries; Redis and PostgreSQL answer or raise.
Fairness == \A c \in Conns : WF_vars(HandlerStep(c))

FairSpec == Spec /\ Fairness

----------------------------------------------------------------------------
(* Properties *)

\* The handler drives the semaphore only as LlmGate allows, so that what is
\* proved of it holds here: an LLM call outside the semaphore or a permit that
\* some path out of the call keeps is a step LlmGate does not have.
GateSpec == Gate!Spec

\* The handler drives the budget only as TokenBudget allows: no LLM call without
\* a check of the day's counter before it, no charge without a call.
BudgetSpec == Budget!Spec

\* Whatever order tabs open, fail and close in, the manager and the gauge
\* reflect the handlers that run.
RegistryMirrorsHandlers == Registry!RegistryMirrorsHandlers

\* User id v is u, a colon and a tail; text t is that tail, a colon and text s: asking
\* t as u and s as v comes to the same string.
Shifted(u, t, v, s) ==
    /\ Len(u) < Len(v)
    /\ u = SubSeq(v, 1, Len(u))
    /\ v[Len(u) + 1] = ":"
    /\ t = SubSeq(v, Len(u) + 2, Len(v)) \o <<":">> \o s

\* An answer that was not produced for the very message it is sent for was produced for
\* the same user and the same normalized text.  The one exception is what the docstring
\* of _cache_key overlooks: an id that continues another one after a colon, asking a text
\* that is shorter by that very tail.
ReplayedAnswersFit ==
    \A f \in sent :
        LET u == UserOf[f.answer.conn]
            t == Normalize[f.answer.query]
            v == UserOf[f.to]
            s == Normalize[f.query]
        IN \/ f.answer.conn = f.to /\ f.answer.msg = f.msg
           \/ u = v /\ t = s
           \/ Shifted(u, t, v, s)
           \/ Shifted(v, s, u, t)

\* The fallback text of a failed call ("try again later") is only ever sent for
\* the message whose call failed: it does not outlive the failure in the cache.
FallbacksAreNotReplayed ==
    \A f \in sent :
        f.answer.ok \/ (f.answer.conn = f.to /\ f.answer.msg = f.msg)

RowOf(f) == [conn |-> f.to, msg |-> f.msg, user |-> UserOf[f.to],
             query |-> f.query, answer |-> f.answer]

\* As long as PostgreSQL takes the rows, every answer a client got is in
\* chat_logs, under its user and text, before the handler does anything else.
SentAnswersAreLogged ==
    ~DbMayFail =>
        \A f \in sent :
            \/ RowOf(f) \in logs
            \/ pc[f.to] = "hitlog" /\ received[f.to] = f.msg

\* One terminal frame per message: the next message is read only when each one
\* before it has had its reply, and no message gets two.
OneReplyPerMessage ==
    \A c \in Conns :
        /\ replies[c] <= received[c]
        /\ pc[c] = "idle" => replies[c] = received[c]

\* The cache fails open and an unlimited budget does not touch Redis: without a
\* budget no outage of Redis costs a present client the answer to a message that
\* was in order.  (With one, is_within_budget and record_token_spend raise.)
RedisOutageCostsNoAnswer ==
    TokenBudgetDaily = 0 =>
        \A c \in Conns : pc[c] = "closing" /\ c \notin gone => query[c] = NoQuery

\* No connection ends without a trace: the client left, the client was told by a close
\* code, or the exception that ended it is in ai_response_total.
EveryEndIsAccountedFor ==
    Cardinality({c \in Conns : pc[c] = "done" /\ c \notin gone /\ closeCode[c] = 0})
        <= aiResponses["error"]

\* The docstring of chat_websocket: each message is persisted in chat_logs.  An
\* answer the agent produced is in the table by the time its handler gives up.
ProducedAnswersAreLogged ==
    ~DbMayFail =>
        \A c \in Conns :
            /\ pc[c] = "closing"
            /\ answer[c] # NoAnswer
            /\ answer[c].conn = c /\ answer[c].msg = received[c]
            => Row(c) \in logs

\* Each message a handler takes in hand ends: it is answered and the handler is
\* back at receive, or the connection is over and cleaned up.
EveryMessageIsConcluded ==
    \A c \in Conns :
        pc[c] \notin {"new", "idle", "done"} ~> pc[c] \in {"idle", "done"}

\* When the client leaves, its handler ends, wherever it was.
AbandonedHandlersEnd == \A c \in Conns : (c \in gone) ~> (pc[c] = "done")
=============================================================================
