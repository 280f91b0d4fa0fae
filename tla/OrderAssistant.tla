--------------------------- MODULE OrderAssistant ---------------------------
(****************************************************************************)
(* One customer who talks about orders in several tabs: what the response   *)
(* cache (agent/cache.py), the trimmed history of each connection           *)
(* (agent/rag.py) and the order tools (agent/tools.py) make of it together. *)
(* The two clocks, the day of the order table and the hour of the cache,    *)
(* are here; the connections and locks below the tools are in OrderDesk,    *)
(* and the rest of the handler is in ChatGateway.                           *)
(*                                                                          *)
(* The LLM is not in the repository: it is taken to follow the decision     *)
(* protocol of prompts/cs_agent_v1.yaml.  Within one customer two messages  *)
(* share a cache key only when their texts do.                              *)
(****************************************************************************)
EXTENDS Integers, Sequences, FiniteSets, SequencesExt

CONSTANTS
    Sessions,       \* connections of the customer
    Orders,
    Price,
    MaxMessages,    \* settings.history_max_messages
    Texts,          \* what the customer may say
    Says,           \* bound: what of it is said in each tab
    FirstStatus,    \* the orders table to begin with; what is delivered was on day 0
    Pushed,         \* of the two messages of a turn, those Redis may take: fewer if it fails
    MaxTurns,       \* bound on the turns in the history of each conversation
    MaxEntries,     \* bound on the replies in the cache at a time
    FirstDays,      \* the days to begin on
    Days,           \* bound: the days there are
    None

ASSUME AssistantAssumption ==
    /\ Price \in [Orders -> Nat]
    /\ MaxMessages \in Nat /\ MaxMessages >= 2
    /\ Texts \subseteq [ask : {"faq", "status", "refund", "cancel"}, order : Orders \cup {None}]
    /\ Says \in [Sessions -> SUBSET Texts]
    /\ FirstStatus \in [Orders -> {"preparing", "shipping", "delivered"}]
    /\ Pushed \in [Sessions -> SUBSET (0..2)]
    /\ MaxTurns \in [Sessions -> Nat]
    /\ MaxEntries \in Nat
    /\ FirstDays \subseteq Days /\ Days \subseteq Nat
    /\ None \notin Orders

\* A text asks about the shop ("faq"), or about an order it names or leaves out: "that
\* order", or a plain yes to the offer to cancel it.

Statuses == {"preparing", "shipping", "delivered", "cancelled"}

Replies == [about : Orders \cup {None},
            says : Statuses \cup {"faq", "which", "refund", "confirmed"},
            amount : Nat]

VARIABLES
    today,
    order,      \* the orders table: status and delivered_at
    cache,      \* the cached reply to each text, and the day it was made
    history,    \* the messages Redis keeps of each session: who, and the order they name
    call,       \* the call to the agent each session has under way
    topic,      \* the order that was last spoken of in each tab
    unrecorded  \* whether the reply that spoke of it is missing from the tab's history

vars == <<today, order, cache, history, call, topic, unrecorded>>

NoReply == [about |-> None, says |-> "faq", amount |-> 0]
NoEntry == [reply |-> NoReply, day |-> -1]
NoCall == [stage |-> "idle", text |-> [ask |-> "faq", order |-> None], about |-> None,
           day |-> -1, row |-> [status |-> "preparing", delivered |-> 0], reply |-> NoReply]

Stages == {"idle", "asked", "read", "replied"}
Messages == [from : {"human", "ai"}, about : Orders \cup {None}]
Rows == [status : Statuses, delivered : Days \cup {0}]
Entries == [reply : Replies, day : Days \cup {-1}]
Calls == [stage : Stages, text : Texts \cup {NoCall.text}, about : Orders \cup {None},
          day : Days \cup {-1}, row : Rows, reply : Replies]

\* A reply is kept only behind the message it answers.
RepliesFollow(messages) ==
    \A i \in DOMAIN messages :
        messages[i].from = "ai" => i > 1 /\ messages[i - 1].from = "human"

\* Redis may lose a reply or a whole turn, and never keeps a reply without its question.
TypeOK ==
    /\ today \in Days
    /\ order \in [Orders -> Rows]
    /\ cache \in [Texts -> Entries]
    /\ history \in [Sessions -> Seq(Messages)]
    /\ \A s \in Sessions : RepliesFollow(history[s])
    /\ call \in [Sessions -> Calls]
    /\ topic \in [Sessions -> Orders \cup {None}]
    /\ unrecorded \in [Sessions -> BOOLEAN]

Init ==
    /\ today \in FirstDays
    /\ order = [o \in Orders |-> [status |-> FirstStatus[o], delivered |-> 0]]
    /\ cache = [t \in Texts |-> NoEntry]
    /\ history = [s \in Sessions |-> << >>]
    /\ call = [s \in Sessions |-> NoCall]
    /\ topic = [s \in Sessions |-> None]
    /\ unrecorded = [s \in Sessions |-> FALSE]

----------------------------------------------------------------------------
(* refund_calculator *)

\* Mutated form of Refund: the first week ends a day late.
RefundLate(price, days) ==
    IF days <= 8 THEN price ELSE IF days <= 14 THEN (price * 9) \div 10 ELSE 0

\* int(price * 0.9) rounds down.
Refund(price, days) ==
    IF days <= 7 THEN price ELSE IF days <= 14 THEN (price * 9) \div 10 ELSE 0

----------------------------------------------------------------------------
(* The conversation as the agent sees it *)

\* Mutated form of Window: the slice ends where it should begin.
WindowBefore(messages) ==
    IF Len(messages) > MaxMessages
    THEN SubSeq(messages, 1, Len(messages) - MaxMessages)
    ELSE messages

\* The newest messages; with an odd bound the first of them is half a turn.
Window(messages) ==
    IF Len(messages) > MaxMessages
    THEN SubSeq(messages, Len(messages) - MaxMessages + 1, Len(messages))
    ELSE messages

\* The most recent order id, None when there is none.
MostRecent(messages) ==
    LET last == SelectLastInSeq(messages, LAMBDA message : message.about # None)
    IN  IF last = 0 THEN None ELSE messages[last].about

\* An order id in the text is used at once, one that is left out is taken from history.
OrderMeant(text, messages) ==
    IF text.order # None \/ text.ask = "faq" THEN text.order ELSE MostRecent(messages)

\* Mutated form of Turn: the reply is pushed before the message it answers.
TurnBackwards(text, reply) ==
    <<[from |-> "ai", about |-> reply.about], [from |-> "human", about |-> text.order]>>

Turn(text, reply) ==
    <<[from |-> "human", about |-> text.order], [from |-> "ai", about |-> reply.about]>>

----------------------------------------------------------------------------
(* A message in the handler *)

\* An empty topic, or a reply that names no order, leaves the topic as it was.
Show(s, reply) ==
    topic' = [topic EXCEPT ![s] = IF reply.about = None THEN @ ELSE reply.about]

\* The agent does not run, and nothing is added to the history.
CacheHit(s, text) ==
    /\ call[s] = NoCall
    /\ cache[text] # NoEntry
    /\ Show(s, cache[text].reply)
    /\ unrecorded' = [unrecorded EXCEPT ![s] = @ \/ cache[text].reply.about # None]
    /\ UNCHANGED <<today, order, cache, history, call>>

\* RunnableWithMessageHistory reads the window before the agent runs.
CacheMiss(s, text) ==
    /\ call[s] = NoCall
    /\ cache[text] = NoEntry
    /\ Len(history[s]) < 2 * MaxTurns[s]
    /\ call' = [call EXCEPT ![s] = [NoCall EXCEPT
                    !.stage = "asked", !.text = text, !.day = today,
                    !.about = OrderMeant(text, Window(history[s]))]]
    /\ UNCHANGED <<today, order, cache, history, topic, unrecorded>>

\* The agent has its reply.
Conclude(s, says, amount) ==
    call' = [call EXCEPT ![s] = [@ EXCEPT
                !.stage = "replied",
                !.reply = [about |-> call[s].about, says |-> says, amount |-> amount]]]

\* search_faq, or the question for the order id: no order is touched.
ReplyWithoutOrder(s) ==
    /\ call[s].stage = "asked"
    /\ call[s].about = None
    /\ Conclude(s, IF call[s].text.ask = "faq" THEN "faq" ELSE "which", 0)
    /\ UNCHANGED <<today, order, cache, history, topic, unrecorded>>

\* The row and the days since delivery, of which refund_calculator is given both.
SearchOrderStatus(s) ==
    /\ call[s].stage = "asked"
    /\ call[s].about # None
    /\ call' = [call EXCEPT ![s].stage = "read", ![s].row = order[call[s].about],
                            ![s].day = today]
    /\ UNCHANGED <<today, order, cache, history, topic, unrecorded>>

ReplyStatus(s) ==
    /\ call[s].stage = "read"
    /\ \/ call[s].text.ask = "status"
       \/ (call[s].text.ask = "refund" /\ call[s].row.status # "delivered")
       \/ (call[s].text.ask = "cancel" /\ call[s].row.status # "preparing")
    /\ Conclude(s, call[s].row.status, 0)
    /\ UNCHANGED <<today, order, cache, history, topic, unrecorded>>

QuoteRefund(s) ==
    /\ call[s].stage = "read"
    /\ call[s].text.ask = "refund" /\ call[s].row.status = "delivered"
    /\ Conclude(s, "refund", Refund(Price[call[s].about], call[s].day - call[s].row.delivered))
    /\ UNCHANGED <<today, order, cache, history, topic, unrecorded>>

Cancel(o) ==
    IF order[o].status = "preparing" THEN [order EXCEPT ![o].status = "cancelled"] ELSE order

\* Mutated form of CancelOutcome: the ValueError of order_repo is not reported.
CancelOutcomeSwallowed(o) == "confirmed"

\* What the tool tells the agent.
CancelOutcome(o) == IF order[o].status = "preparing" THEN "confirmed" ELSE order[o].status

\* cancel_order decides on the row as it is by now.
CancelOrder(s) ==
    /\ call[s].stage = "read"
    /\ call[s].text.ask = "cancel" /\ call[s].row.status = "preparing"
    /\ order' = Cancel(call[s].about)
    /\ Conclude(s, CancelOutcome(call[s].about), 0)
    /\ UNCHANGED <<today, cache, history, topic, unrecorded>>

\* The history is written when the agent has ended, one message at a time. An error of Redis
\* is logged there and goes no further: the reply is sent with none or half of its turn kept.
Remember(s, n) ==
    LET about == call[s].reply.about
        turn == Turn(call[s].text, call[s].reply)
    IN  /\ history' = [history EXCEPT ![s] = @ \o SubSeq(turn, 1, n)]
        /\ unrecorded' = [unrecorded EXCEPT ![s] =
               IF about = None THEN @ ELSE \A i \in 1..n : turn[i].about # about]

\* The agent returns, then set_cached_response and the frame. No other tab reads this
\* history, so what happens in between makes no difference.
CacheAndSend(s) ==
    /\ call[s].stage = "replied"
    /\ \E n \in Pushed[s] : Remember(s, n)
    /\ Cardinality({t \in Texts \ {call[s].text} : cache[t] # NoEntry}) < MaxEntries
    /\ cache' = [cache EXCEPT ![call[s].text] =
                      [reply |-> call[s].reply, day |-> call[s].day]]
    /\ Show(s, call[s].reply)
    /\ call' = [call EXCEPT ![s] = NoCall]
    /\ UNCHANGED <<today, order>>

\* The LLM, a tool or reading the history raises, before or after a cancellation: the
\* fallback goes to the customer, and neither to the history nor to the cache.
Fallback(s) ==
    /\ call[s].stage \in {"asked", "read", "replied"}
    /\ call' = [call EXCEPT ![s] = NoCall]
    /\ UNCHANGED <<today, order, cache, history, topic, unrecorded>>

\* The tab is closed or reloaded: a new connection, and with it a new conversation.
NewTab(s) ==
    /\ call[s] = NoCall
    /\ history[s] # << >> \/ topic[s] # None
    /\ history' = [history EXCEPT ![s] = << >>]
    /\ topic' = [topic EXCEPT ![s] = None]
    /\ unrecorded' = [unrecorded EXCEPT ![s] = FALSE]
    /\ UNCHANGED <<today, order, cache, call>>

----------------------------------------------------------------------------
(* The shop and the clocks *)

Progress(o, row) ==
    /\ order' = [order EXCEPT ![o] = row]
    /\ UNCHANGED <<today, cache, history, call, topic, unrecorded>>

Ship(o) ==
    /\ order[o].status = "preparing"
    /\ Progress(o, [order[o] EXCEPT !.status = "shipping"])

Deliver(o) ==
    /\ order[o].status = "shipping"
    /\ Progress(o, [status |-> "delivered", delivered |-> today])

\* Mutated form of Lapsed: an entry has no expiry.
LapsedNever(entry) == FALSE

\* The TTL of an hour has passed at the end of the day after.
Lapsed(entry) == entry.day < today

CacheLapse(text) ==
    /\ cache[text] # NoEntry
    /\ cache' = [cache EXCEPT ![text] = NoEntry]
    /\ UNCHANGED <<today, order, history, call, topic, unrecorded>>

\* Midnight: no call has been under way since the midnight before.
NewDay ==
    /\ today + 1 \in Days
    /\ \A s \in Sessions : call[s] = NoCall \/ call[s].day = today
    /\ cache' = [t \in Texts |-> IF Lapsed(cache[t]) THEN NoEntry ELSE cache[t]]
    /\ today' = today + 1
    /\ UNCHANGED <<order, history, call, topic, unrecorded>>

----------------------------------------------------------------------------

Next ==
    \/ \E s \in Sessions :
           \/ \E text \in Says[s] : CacheHit(s, text) \/ CacheMiss(s, text)
           \/ ReplyWithoutOrder(s) \/ SearchOrderStatus(s)
           \/ ReplyStatus(s) \/ QuoteRefund(s) \/ CancelOrder(s)
           \/ CacheAndSend(s) \/ Fallback(s) \/ NewTab(s)
    \/ \E o \in Orders : Ship(o) \/ Deliver(o)
    \/ \E text \in Texts : CacheLapse(text)
    \/ NewDay

Spec == Init /\ [][Next]_vars

----------------------------------------------------------------------------
(* Properties *)

\* What an order may have been before it was what it is.
Before(status) ==
    CASE status = "preparing" -> {"preparing"}
      [] status = "shipping" -> {"preparing", "shipping"}
      [] status = "delivered" -> {"preparing", "shipping", "delivered"}
      [] status = "cancelled" -> {"preparing", "cancelled"}

\* A reply that is on its way to a tab, or that any tab may yet get out of the cache.
Pending == {call[s].reply : s \in Sessions} \cup {cache[t].reply : t \in Texts}

\* A reply may be stale, from the cache most of all, but it has been true: nobody is told
\* that an order was cancelled which was not, or shipped which never was.
RepliesWereTrue ==
    \A reply \in Pending :
        /\ reply.says = "confirmed" => order[reply.about].status = "cancelled"
        /\ reply.says \in Statuses => reply.says \in Before(order[reply.about].status)

\* README: all of the price for seven days after delivery, nine tenths of it (less than
\* one won is lost in rounding) for fourteen, nothing later.
Owed(price, days, amount) ==
    /\ days <= 7 => amount = price
    /\ days \in 8..14 => 10 * amount <= 9 * price /\ 10 * amount > 9 * price - 10
    /\ days > 14 => amount = 0

\* A refund that can still be quoted, out of the cache or of a call under way, is what
\* the policy grants today or granted yesterday: an hour's TTL is at most a day's mistake.
QuotesAreCurrent ==
    \A reply \in Pending :
        reply.says = "refund" =>
            LET days == today - order[reply.about].delivered
            IN  \E d \in {days, days - 1} : Owed(Price[reply.about], d, reply.amount)

\* The agent cancels an order that the customer neither named nor, having left the order
\* out, was last told about in that tab.
CancelsAnother(s) ==
    /\ CancelOrder(s)
    /\ order' # order
    /\ call[s].about # IF call[s].text.order # None THEN call[s].text.order ELSE topic[s]

\* The prompt: an order id that is left out is the most recent one discussed. Refuted even
\* while Redis works: a reply out of the cache is shown and not in the history, so
\* that "yes, cancel it" goes to the order before.
RecentOrderIsReused == [][\A s \in Sessions : ~CancelsAnother(s)]_vars

\* The agent cancels another order only in a tab whose last reply about an order never
\* reached the history, out of the cache or with the error of Redis swallowed. The trimmed
\* window, half turns, lost calls and other tabs may make it ask again, no more.
CancelsWhatWasMeant == [][\A s \in Sessions : CancelsAnother(s) => unrecorded[s]]_vars
=============================================================================
