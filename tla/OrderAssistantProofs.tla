------------------------ MODULE OrderAssistantProofs ------------------------
(****************************************************************************)
(* The four properties of OrderAssistant, for any tabs, orders, prices,     *)
(* texts, windows and days.                                                 *)
(*                                                                          *)
(* AssistantInv carries the argument.  Whatever is in a call under way or   *)
(* in the cache, and so may yet be shown, has to be true of the order table *)
(* already (Sound), and a refund there was computed from a delivery that is *)
(* final, on a day that is not over for longer than a day (Quoted).  What   *)
(* the history of a tab names last is what the tab was told last, unless    *)
(* that reply is unrecorded (Recalls).                                      *)
(****************************************************************************)
EXTENDS OrderAssistant, FiniteSetTheorems, SequenceTheorems, TLAPS

----------------------------------------------------------------------------
(* The invariant *)

\* What a reply says of its order is what the order is, or once was.
Sound(reply) ==
    /\ reply.says \in Statuses \cup {"confirmed", "refund"} => reply.about \in Orders
    /\ reply.says = "confirmed" => order[reply.about].status = "cancelled"
    /\ reply.says \in Statuses => reply.says \in Before(order[reply.about].status)
    /\ reply.says = "refund" => order[reply.about].status = "delivered"

Recent(day) == day \in {today, today - 1}

\* A refund quoted on a day: the delivery is final, so the days since then are known.
Quoted(reply, day) ==
    reply.says = "refund" =>
        /\ Recent(day)
        /\ reply.amount = Refund(Price[reply.about], day - order[reply.about].delivered)

RepliesAreSound ==
    /\ \A s \in Sessions : Sound(call[s].reply)
    /\ \A t \in Texts : Sound(cache[t].reply)

RefundsAreQuoted ==
    /\ \A s \in Sessions : Quoted(call[s].reply, call[s].day)
    /\ \A t \in Texts : Quoted(cache[t].reply, cache[t].day)

\* The row an agent has read is one the order has had.
RowWasRead(s) ==
    /\ call[s].about \in Orders
    /\ call[s].row.status \in Before(order[call[s].about].status)
    /\ call[s].row.status = "delivered" =>
           call[s].row.delivered = order[call[s].about].delivered

\* The order of a call is the one its text names, and its reply is about that order.
CallsKeepTheirOrder ==
    \A s \in Sessions :
        /\ call[s].stage = "idle" => call[s] = NoCall
        /\ call[s].stage # "idle" =>
               /\ call[s].text \in Texts
               /\ Recent(call[s].day)
               /\ call[s].text.order # None => call[s].about = call[s].text.order
        /\ call[s].stage \in {"asked", "read"} => call[s].reply = NoReply
        /\ call[s].stage = "read" => RowWasRead(s)
        /\ call[s].stage = "replied" => call[s].reply.about = call[s].about

\* The last message that names an order names this one.
LastNames(messages, o) ==
    \A i \in DOMAIN messages :
        /\ messages[i].about # None
        /\ \A j \in DOMAIN messages : j > i => messages[j].about = None
        => messages[i].about = o

Recalls ==
    \A s \in Sessions : ~unrecorded[s] =>
        /\ LastNames(history[s], topic[s])
        /\ call[s].stage # "idle" /\ call[s].text.order = None =>
               call[s].about \in {None, topic[s]}

AssistantInv ==
    /\ TypeOK
    /\ CallsKeepTheirOrder
    /\ RepliesAreSound
    /\ RefundsAreQuoted
    /\ Recalls

----------------------------------------------------------------------------
(* The operators *)

\* A set of positions has a largest one: of the sets of positions after a member, one has
\* no other below it, and that is the empty one.
LEMMA MaxIsMember ==
    ASSUME NEW n \in Nat, NEW S, S \subseteq 1..n, S # {}
    PROVE  Max(S) \in S /\ \A x \in S : x <= Max(S)
  <1> DEFINE After(x) == {y \in S : y > x}
             Tails == {After(x) : x \in S}
  <1>1. IsFiniteSet(S)
    <2>1. IsFiniteSet(1..n)
      BY FS_Interval
    <2>2. S \in SUBSET (1..n)
      OBVIOUS
    <2> QED
      BY <2>1, <2>2, FS_Subset
  <1>2. Tails \subseteq FiniteSubsetsOf(S) /\ Tails # {}
    <2>1. \A x \in S : After(x) \in SUBSET S
      OBVIOUS
    <2>2. Tails \subseteq SUBSET S /\ Tails # {}
      BY <2>1
    <2> HIDE DEF Tails
    <2> QED
      BY <1>1, <2>2, FS_FiniteSubsetsOfFinite
  <1>3. PICK T \in Tails : \A U \in Tails : <<U, T>> \notin StrictSubsetOrdering(S)
    <2> HIDE DEF Tails
    <2> QED
      BY <1>2, FS_StrictSubsetOrderingWellFounded, WFMin
  <1>4. PICK x \in S : T = After(x)
    OBVIOUS
  <1>n. S \subseteq Int
    OBVIOUS
  <1>5. ASSUME NEW y \in S, y > x PROVE FALSE
    <2>1. \A z \in S : z > y => z > x
      BY <1>5, <1>n
    <2>3. After(y) \subseteq After(x)
      BY <2>1
    <2>4. y \in After(x)
      BY <1>5
    <2>5. ~(y > y)
      BY <1>n
    <2>6. y \notin After(y)
      BY <2>5
    <2>2. After(y) \in Tails /\ After(y) \in SUBSET S /\ After(x) \in SUBSET S
      OBVIOUS
    <2> HIDE DEF Tails, After
    <2> QED
      BY <1>3, <1>4, <2>2, <2>3, <2>4, <2>6 DEF StrictSubsetOrdering
  <1>6. x \in S /\ \A y \in S : x >= y
    BY <1>5, <1>n
  <1> QED
    BY <1>6, <1>n DEF Max

\* refund_calculator grants what the policy of the README owes.
LEMMA RefundIsOwed ==
    ASSUME NEW price \in Nat, NEW days \in Int
    PROVE  Refund(price, days) \in Nat /\ Owed(price, days, Refund(price, days))
  BY DEF Refund, Owed

\* The most recent order is the one the messages name last.
LEMMA MostRecentIsLast ==
    ASSUME NEW messages \in Seq(Messages)
    PROVE  /\ MostRecent(messages) \in Orders \cup {None}
           /\ \A o : LastNames(messages, o) => MostRecent(messages) \in {None, o}
  <1> DEFINE named == {i \in 1..Len(messages) : messages[i].about # None}
             last == IF named # {} THEN Max(named) ELSE 0
  <1>1. MostRecent(messages) = IF last = 0 THEN None ELSE messages[last].about
    BY DEF MostRecent, SelectLastInSeq
  <1>2. CASE named = {}
    BY <1>1, <1>2
  <1>3. CASE named # {}
    <2>1. Max(named) \in named /\ \A i \in named : i <= Max(named)
      <3>1. Len(messages) \in Nat /\ named \subseteq 1..Len(messages)
        OBVIOUS
      <3> HIDE DEF named
      <3> QED
        BY <1>3, <3>1, MaxIsMember
    <2>2. \A j \in DOMAIN messages : j > last => messages[j].about = None
      BY <1>3, <2>1
    <2>3. last \in DOMAIN messages /\ messages[last].about # None /\ last # 0
      BY <1>3, <2>1
    <2>4. \A o : LastNames(messages, o) => messages[last].about = o
      BY <2>2, <2>3 DEF LastNames
    <2> HIDE DEF last
    <2>5. messages[last] \in Messages
      BY <2>3
    <2>6. messages[last].about \in Orders \cup {None}
      BY <2>5 DEF Messages
    <2> QED
      BY <1>1, <2>3, <2>4, <2>6
  <1> QED
    BY <1>2, <1>3

\* The window forgets the oldest messages and so keeps the last order that is named.
LEMMA WindowRecalls ==
    ASSUME NEW messages \in Seq(Messages)
    PROVE  /\ Window(messages) \in Seq(Messages)
           /\ \A o : LastNames(messages, o) => LastNames(Window(messages), o)
  <1>1. CASE Len(messages) <= MaxMessages
    BY <1>1, AssistantAssumption DEF Window, AssistantAssumption
  <1>2. CASE Len(messages) > MaxMessages
    <2> DEFINE first == Len(messages) - MaxMessages + 1
               window == SubSeq(messages, first, Len(messages))
    <2>1. MaxMessages \in Nat /\ MaxMessages >= 2
      BY AssistantAssumption DEF AssistantAssumption
    <2>2. first \in 2..Len(messages)
      BY <1>2, <2>1
    <2>3. /\ window \in Seq(Messages)
          /\ DOMAIN window = 1..MaxMessages
          /\ \A i \in 1..MaxMessages : window[i] = messages[i + first - 1]
      BY <2>1, <2>2
    <2>4. ASSUME NEW o, LastNames(messages, o)
          PROVE  LastNames(window, o)
      <3> SUFFICES ASSUME NEW i \in 1..MaxMessages, window[i].about # None,
                          \A j \in 1..MaxMessages : j > i => window[j].about = None
                   PROVE  window[i].about = o
        BY <2>3 DEF LastNames
      <3>1. i + first - 1 \in DOMAIN messages /\ messages[i + first - 1].about # None
        BY <2>1, <2>2, <2>3
      <3>2. ASSUME NEW k \in DOMAIN messages, k > i + first - 1
            PROVE  messages[k].about = None
        <4>1. k - first + 1 \in 1..MaxMessages /\ k - first + 1 > i
          BY <2>1, <2>2, <3>2
        <4>2. window[k - first + 1] = messages[(k - first + 1) + first - 1]
          BY <2>3, <4>1
        <4>3. (k - first + 1) + first - 1 = k
          BY <2>2
        <4> QED
          BY <4>1, <4>2, <4>3
      <3>3. messages[i + first - 1].about = o
        BY <2>4, <3>1, <3>2 DEF LastNames
      <3> QED
        BY <2>3, <3>3
    <2>5. Window(messages) = window
      BY <1>2 DEF Window
    <2> QED
      BY <2>3, <2>4, <2>5
  <1> QED
    BY <1>1, <1>2, AssistantAssumption DEF AssistantAssumption

\* The places of more messages behind a sequence.
LEMMA MoreMessages ==
    ASSUME NEW messages \in Seq(Messages), NEW more \in Seq(Messages)
    PROVE  /\ messages \o more \in Seq(Messages)
           /\ Len(messages \o more) = Len(messages) + Len(more)
           /\ \A i \in 1..Len(messages) : (messages \o more)[i] = messages[i]
           /\ \A i \in 1..Len(more) : (messages \o more)[Len(messages) + i] = more[i]
  <1>0. PICK n \in Nat, m \in Nat : n = Len(messages) /\ m = Len(more)
    <2>1. Len(messages) \in Nat /\ Len(more) \in Nat
      OBVIOUS
    <2> QED
      BY ONLY <2>1
  <1>1. PICK longer : n = Len(messages) /\ m = Len(more) /\ longer = messages \o more
    BY ONLY <1>0
  <1>2. longer \in Seq(Messages)
    BY <1>1
  <1>3. /\ Len(longer) = n + m
        /\ \A i \in 1..(n + m) : longer[i] = IF i <= n THEN messages[i] ELSE more[i - n]
    BY <1>1, ConcatProperties
  <1>4. ASSUME NEW i \in 1..n PROVE longer[i] = messages[i]
    <2>1. i \in 1..(n + m) /\ i <= n
      BY ONLY i \in 1..n, n \in Nat, m \in Nat
    <2> QED
      BY ONLY <1>3, <2>1
  <1>5. ASSUME NEW i \in 1..m PROVE longer[n + i] = more[i]
    <2>1. n + i \in 1..(n + m) /\ ~(n + i <= n) /\ (n + i) - n = i
      BY ONLY i \in 1..m, n \in Nat, m \in Nat
    <2> QED
      BY ONLY <1>3, <2>1
  <1> QED
    BY ONLY <1>1, <1>2, <1>3, <1>4, <1>5

\* Messages that name no other order than r, and that name r if it is an order, leave r as
\* the last one named, or what was named last before.
LEMMA MoreRecalls ==
    ASSUME NEW messages \in Seq(Messages), NEW more \in Seq(Messages), NEW o, NEW r,
           \A i \in 1..Len(more) : more[i].about \in {None, r},
           r # None => \E i \in 1..Len(more) : more[i].about = r,
           r = None => LastNames(messages, o)
    PROVE  LastNames(messages \o more, IF r = None THEN o ELSE r)
  <1>0. PICK n \in Nat, m \in Nat : n = Len(messages) /\ m = Len(more)
    <2>1. Len(messages) \in Nat /\ Len(more) \in Nat
      OBVIOUS
    <2> QED
      BY ONLY <2>1
  <1>1. PICK longer : n = Len(messages) /\ m = Len(more) /\ longer = messages \o more
    BY ONLY <1>0
  <1>2. /\ DOMAIN longer = 1..(n + m)
        /\ \A i \in 1..n : longer[i] = messages[i]
        /\ \A i \in 1..m : longer[n + i] = more[i]
    BY <1>1, MoreMessages
  <1>3. SUFFICES ASSUME NEW i \in 1..(n + m), longer[i].about # None,
                        \A j \in 1..(n + m) : j > i => longer[j].about = None
                 PROVE  longer[i].about = IF r = None THEN o ELSE r
    BY <1>1, <1>2 DEF LastNames
  <1>4. CASE i > n
    <2>1. PICK k \in 1..m : i = n + k
      <3>1. i - n \in 1..m /\ i = n + (i - n)
        BY ONLY <1>4, i \in 1..(n + m), n \in Nat, m \in Nat
      <3> QED
        BY <3>1
    <2>2. longer[i].about \in {None, r}
      BY <1>1, <1>2, <2>1
    <2> QED
      BY <1>3, <2>2
  <1>5. CASE i <= n
    <2>1. i \in 1..n
      BY ONLY <1>5, i \in 1..(n + m), n \in Nat, m \in Nat
    <2>2. \A k \in 1..m : n + k \in 1..(n + m) /\ n + k > i
      BY ONLY <2>1, n \in Nat, m \in Nat
    <2>3. \A k \in 1..m : more[k].about = None
      BY <1>2, <1>3, <2>2
    <2>4. r = None
      BY <1>1, <2>3
    <2>5. LastNames(messages, o) /\ DOMAIN messages = 1..n
      BY <1>1, <2>4
    <2>6. \A j \in 1..n : j > i => messages[j].about = None
      <3>1. \A j \in 1..n : j \in 1..(n + m)
        BY ONLY n \in Nat, m \in Nat
      <3> QED
        BY <1>2, <1>3, <3>1
    <2>7. messages[i].about = o
      BY <1>2, <1>3, <2>1, <2>5, <2>6 DEF LastNames
    <2> QED
      BY <1>2, <2>1, <2>4, <2>7
  <1> QED
    BY <1>4, <1>5

\* What Redis keeps of a turn: nothing, the message, or the message and its reply.
LEMMA PartsOfTurn ==
    ASSUME NEW text, NEW reply, NEW n \in 0..2,
           text.order \in Orders \cup {None}, reply.about \in Orders \cup {None}
    PROVE  LET turn == Turn(text, reply)
               part == SubSeq(turn, 1, n)
           IN  /\ turn \in Seq(Messages) /\ part \in Seq(Messages) /\ Len(part) = n
               /\ \A i \in 1..n : part[i] = turn[i]
               /\ turn[1] = [from |-> "human", about |-> text.order]
               /\ turn[2] = [from |-> "ai", about |-> reply.about]
  <1>1. PICK question \in Messages, answer \in Messages :
            /\ question = [from |-> "human", about |-> text.order]
            /\ answer = [from |-> "ai", about |-> reply.about]
    BY DEF Messages
  <1>2. PICK turn \in Seq(Messages) :
            turn = <<question, answer>> /\ Len(turn) = 2 /\ turn[1] = question /\ turn[2] = answer
    <2>1. <<question, answer>> \in Seq(Messages)
      BY ONLY question \in Messages, answer \in Messages
    <2> QED
      BY ONLY <2>1
  <1>3. PICK part : part = SubSeq(turn, 1, n)
    OBVIOUS
  <1>4. part \in Seq(Messages) /\ Len(part) = n /\ \A i \in 1..n : part[i] = turn[i]
    <2>1. \A i \in 1..n : i \in 1..2
      BY ONLY n \in 0..2
    <2>2. part \in Seq(Messages)
      BY ONLY <1>2, <1>3, <2>1, n \in 0..2
    <2>3. Len(part) = n
      BY ONLY <1>2, <1>3, n \in 0..2
    <2>4. \A i \in 1..n : part[i] = turn[i]
      BY ONLY <1>2, <1>3, <2>1, n \in 0..2
    <2> QED
      BY <2>2, <2>3, <2>4
  <1>5. turn = Turn(text, reply)
    BY <1>1, <1>2 DEF Turn
  <1> QED
    BY <1>1, <1>2, <1>3, <1>4, <1>5

\* A reply is kept only behind its question, whatever part of the turn Redis takes.
LEMMA RepliesStillFollow ==
    ASSUME NEW messages \in Seq(Messages), RepliesFollow(messages),
           NEW text, NEW reply, NEW n \in 0..2,
           text.order \in Orders \cup {None}, reply.about \in Orders \cup {None}
    PROVE  LET longer == messages \o SubSeq(Turn(text, reply), 1, n)
           IN  longer \in Seq(Messages) /\ RepliesFollow(longer)
  <1>1. PICK turn, part \in Seq(Messages) :
            /\ turn = Turn(text, reply) /\ part = SubSeq(turn, 1, n) /\ Len(part) = n
            /\ \A i \in 1..n : part[i] = turn[i]
            /\ turn[1] = [from |-> "human", about |-> text.order]
            /\ turn[2] = [from |-> "ai", about |-> reply.about]
    <2>1. /\ Turn(text, reply) \in Seq(Messages)
          /\ SubSeq(Turn(text, reply), 1, n) \in Seq(Messages)
          /\ Len(SubSeq(Turn(text, reply), 1, n)) = n
          /\ \A i \in 1..n : SubSeq(Turn(text, reply), 1, n)[i] = Turn(text, reply)[i]
          /\ Turn(text, reply)[1] = [from |-> "human", about |-> text.order]
          /\ Turn(text, reply)[2] = [from |-> "ai", about |-> reply.about]
      BY PartsOfTurn
    <2> QED
      BY ONLY <2>1
  <1>2. PICK k \in Nat, longer \in Seq(Messages) :
            /\ k = Len(messages) /\ longer = messages \o part
            /\ DOMAIN longer = 1..(k + n) /\ DOMAIN messages = 1..k
            /\ \A i \in 1..k : longer[i] = messages[i]
            /\ \A i \in 1..n : longer[k + i] = part[i]
    <2>1. Len(messages) \in Nat /\ DOMAIN messages = 1..Len(messages)
      OBVIOUS
    <2>2. /\ messages \o part \in Seq(Messages)
          /\ Len(messages \o part) = Len(messages) + n
          /\ \A i \in 1..Len(messages) : (messages \o part)[i] = messages[i]
          /\ \A i \in 1..n : (messages \o part)[Len(messages) + i] = part[i]
      BY <1>1, MoreMessages
    <2>3. DOMAIN (messages \o part) = 1..(Len(messages) + n)
      BY <2>2
    <2> QED
      BY ONLY <2>1, <2>2, <2>3
  <1>3. ASSUME NEW i \in 1..(k + n), longer[i].from = "ai"
        PROVE  i > 1 /\ longer[i - 1].from = "human"
    <2>1. CASE i \in 1..k
      <3>1. i > 1 /\ messages[i - 1].from = "human"
        BY <1>2, <1>3, <2>1 DEF RepliesFollow
      <3>2. i - 1 \in 1..k
        BY ONLY <2>1, <3>1, k \in Nat
      <3> QED
        BY <1>2, <3>1, <3>2
    <2>2. CASE i = k + 1
      <3>1. 1 \in 1..n
        BY ONLY <2>2, i \in 1..(k + n), k \in Nat, n \in 0..2
      <3>2. longer[i].from = "human"
        BY <1>1, <1>2, <2>2, <3>1
      <3> QED
        BY <1>3, <3>2
    <2>3. CASE i = k + 2
      <3>1. 1 \in 1..n /\ i - 1 = k + 1 /\ i > 1
        BY ONLY <2>3, i \in 1..(k + n), k \in Nat, n \in 0..2
      <3>2. longer[k + 1].from = "human"
        BY <1>1, <1>2, <3>1
      <3> QED
        BY <3>1, <3>2
    <2>4. i \in 1..k \/ i = k + 1 \/ i = k + 2
      BY ONLY i \in 1..(k + n), k \in Nat, n \in 0..2
    <2> QED
      BY <2>1, <2>2, <2>3, <2>4
  <1> QED
    BY <1>1, <1>2, <1>3 DEF RepliesFollow

\* What Redis has taken of a turn names the order of the reply last, unless it names none.
LEMMA TurnRecalls ==
    ASSUME NEW messages \in Seq(Messages), NEW text, NEW reply, NEW n \in 0..2, NEW o,
           text.order \in Orders \cup {None}, reply.about \in Orders \cup {None},
           text.order # None => reply.about = text.order,
           reply.about # None => \E i \in 1..n : Turn(text, reply)[i].about = reply.about,
           reply.about = None => LastNames(messages, o)
    PROVE  LastNames(messages \o SubSeq(Turn(text, reply), 1, n),
                     IF reply.about = None THEN o ELSE reply.about)
  <1>1. PICK turn, part \in Seq(Messages) :
            /\ turn = Turn(text, reply) /\ part = SubSeq(turn, 1, n) /\ Len(part) = n
            /\ \A i \in 1..n : part[i] = turn[i]
            /\ turn[1] = [from |-> "human", about |-> text.order]
            /\ turn[2] = [from |-> "ai", about |-> reply.about]
    <2>1. /\ Turn(text, reply) \in Seq(Messages)
          /\ SubSeq(Turn(text, reply), 1, n) \in Seq(Messages)
          /\ Len(SubSeq(Turn(text, reply), 1, n)) = n
          /\ \A i \in 1..n : SubSeq(Turn(text, reply), 1, n)[i] = Turn(text, reply)[i]
          /\ Turn(text, reply)[1] = [from |-> "human", about |-> text.order]
          /\ Turn(text, reply)[2] = [from |-> "ai", about |-> reply.about]
      BY PartsOfTurn
    <2> QED
      BY ONLY <2>1
  <1>2. \A i \in 1..n : i = 1 \/ i = 2
    OBVIOUS
  <1>3. \A i \in 1..n : part[i].about \in {None, reply.about}
    BY <1>1, <1>2
  <1>4. reply.about # None => \E i \in 1..n : part[i].about = reply.about
    BY <1>1
  <1> QED
    BY <1>1, <1>3, <1>4, MoreRecalls
----------------------------------------------------------------------------
(* The steps *)

\* The values the handler starts from.
LEMMA NothingYet ==
    NoReply \in Replies /\ NoCall.reply = NoReply /\ NoCall.stage = "idle"
  BY DEF NoReply, Replies, NoCall

\* The days, and the marks for no delivery and for no day, are integers.
LEMMA DaysAreIntegers == Days \cup {0} \subseteq Int /\ Days \cup {-1} \subseteq Int
  BY AssistantAssumption DEF AssistantAssumption

\* Every step keeps the types, the order of the messages included.
LEMMA TypesKept == TypeOK /\ CallsKeepTheirOrder /\ [Next]_vars => TypeOK'
  <1> SUFFICES ASSUME TypeOK, CallsKeepTheirOrder, [Next]_vars PROVE TypeOK'
    OBVIOUS
  <1> USE AssistantAssumption DEF AssistantAssumption
  <1>1. ASSUME NEW s \in Sessions, NEW text \in Says[s], CacheHit(s, text) PROVE TypeOK'
    <2>1. text \in Texts
      OBVIOUS
    <2>2. cache[text].reply \in Replies
      BY <2>1 DEF TypeOK, Entries
    <2>3. cache[text].reply.about \in Orders \cup {None}
      BY <2>2 DEF Replies
    <2> QED
      BY <1>1, <2>2, <2>3 DEF TypeOK, CacheHit, Show
  <1>2. ASSUME NEW s \in Sessions, NEW text \in Says[s], CacheMiss(s, text) PROVE TypeOK'
    <2>1. text \in Texts
      OBVIOUS
    <2>2. OrderMeant(text, Window(history[s])) \in Orders \cup {None}
      <3>1. history[s] \in Seq(Messages)
        BY DEF TypeOK
      <3>2. text.order \in Orders \cup {None}
        BY <2>1
      <3> QED
        BY <3>1, <3>2, WindowRecalls, MostRecentIsLast DEF OrderMeant
    <2> QED
      BY <1>2, <2>1, <2>2 DEF TypeOK, CacheMiss, Calls, Stages, NoCall, NoReply, Replies
  <1>3. ASSUME NEW s \in Sessions, NEW says \in Statuses \cup {"faq", "which", "refund", "confirmed"},
               NEW amount \in Nat, Conclude(s, says, amount)
        PROVE  call' \in [Sessions -> Calls]
    <2> DEFINE reply == [about |-> call[s].about, says |-> says, amount |-> amount]
               concluded == [call[s] EXCEPT !.stage = "replied", !.reply = reply]
    <2>1. call[s] \in Calls
      BY DEF TypeOK
    <2>2. reply \in Replies
      BY <2>1 DEF Calls, Replies
    <2>3. concluded \in Calls
      <3> HIDE DEF reply
      <3> QED
        BY <2>1, <2>2 DEF Calls, Stages
    <2>4. call' = [call EXCEPT ![s] = concluded]
      BY <1>3 DEF Conclude
    <2> HIDE DEF concluded
    <2> QED
      BY <2>3, <2>4 DEF TypeOK
  <1>4. ASSUME NEW s \in Sessions, ReplyWithoutOrder(s) PROVE TypeOK'
    BY <1>3, <1>4 DEF TypeOK, ReplyWithoutOrder
  <1>5. ASSUME NEW s \in Sessions, SearchOrderStatus(s) PROVE TypeOK'
    <2>1. call[s] \in Calls
      BY DEF TypeOK
    <2>2. call[s].about \in Orders
      BY <1>5, <2>1 DEF SearchOrderStatus, Calls
    <2>3. order[call[s].about] \in Rows
      BY <2>2 DEF TypeOK
    <2> QED
      BY <1>5, <2>1, <2>3 DEF TypeOK, SearchOrderStatus, Calls, Stages
  <1>6. ASSUME NEW s \in Sessions, ReplyStatus(s) PROVE TypeOK'
    <2>1. call[s].row.status \in Statuses
      BY DEF TypeOK, Calls, Rows
    <2> QED
      BY <1>3, <1>6, <2>1 DEF TypeOK, ReplyStatus
  <1>7. ASSUME NEW s \in Sessions, QuoteRefund(s) PROVE TypeOK'
    <2>1. call[s] \in Calls
      BY DEF TypeOK
    <2>2. call[s].row.delivered \in Days \cup {0} /\ call[s].day \in Days \cup {-1}
      BY <2>1 DEF Calls, Rows
    <2>5. call[s].row.delivered \in Int /\ call[s].day \in Int
      BY <2>2, DaysAreIntegers
    <2>3. call[s].about \in Orders
      BY <1>7 DEF QuoteRefund, CallsKeepTheirOrder, RowWasRead
    <2>4. Refund(Price[call[s].about], call[s].day - call[s].row.delivered) \in Nat
      <3>1. Price[call[s].about] \in Nat
        BY <2>3
      <3>2. call[s].day - call[s].row.delivered \in Int
        BY <2>5
      <3> QED
        BY <3>1, <3>2, RefundIsOwed
    <2> QED
      BY <1>3, <1>7, <2>4 DEF TypeOK, QuoteRefund
  <1>8. ASSUME NEW s \in Sessions, CancelOrder(s) PROVE TypeOK'
    <2>1. order' \in [Orders -> Rows]
      BY <1>8 DEF TypeOK, CancelOrder, Cancel, Rows, Statuses
    <2>2. CancelOutcome(call[s].about) \in Statuses \cup {"confirmed"}
      <3>1. call[s].about \in Orders
        BY <1>8 DEF CancelOrder, CallsKeepTheirOrder, RowWasRead
      <3> QED
        BY <3>1 DEF CancelOutcome, TypeOK, Rows
    <2> QED
      BY <1>3, <1>8, <2>1, <2>2 DEF TypeOK, CancelOrder
  <1>9. ASSUME NEW s \in Sessions, NEW n \in Pushed[s], call[s].stage = "replied", Remember(s, n)
        PROVE  /\ history' \in [Sessions -> Seq(Messages)]
               /\ \A r \in Sessions : RepliesFollow(history'[r])
               /\ unrecorded' \in [Sessions -> BOOLEAN]
    <2>1. call[s] \in Calls /\ history[s] \in Seq(Messages) /\ RepliesFollow(history[s])
      BY DEF TypeOK
    <2>2. call[s].text.order \in Orders \cup {None} /\ call[s].reply.about \in Orders \cup {None}
      <3>1. call[s].text \in Texts \cup {NoCall.text} /\ call[s].reply \in Replies
        BY <2>1 DEF Calls
      <3> QED
        BY <3>1 DEF NoCall, Replies
    <2>3. n \in 0..2
      OBVIOUS
    <2>4. PICK longer \in Seq(Messages) :
              /\ RepliesFollow(longer)
              /\ longer = history[s] \o SubSeq(Turn(call[s].text, call[s].reply), 1, n)
      BY <2>1, <2>2, <2>3, RepliesStillFollow
    <2>5. history' = [history EXCEPT ![s] = longer]
      BY <1>9, <2>4 DEF Remember
    <2>6. /\ history' \in [Sessions -> Seq(Messages)]
          /\ \A r \in Sessions : history'[r] = IF r = s THEN longer ELSE history[r]
      BY <2>4, <2>5 DEF TypeOK
    <2>7. \A r \in Sessions : RepliesFollow(history'[r])
      BY <2>4, <2>6 DEF TypeOK
    <2>8. unrecorded' \in [Sessions -> BOOLEAN]
      BY <1>9 DEF TypeOK, Remember
    <2> QED
      BY <2>6, <2>7, <2>8
  <1>10. ASSUME NEW s \in Sessions, CacheAndSend(s) PROVE TypeOK'
    <2>1. call[s].reply \in Replies /\ call[s].day \in Days \cup {-1}
      BY DEF TypeOK, Calls
    <2>2. cache' \in [Texts -> Entries]
      BY <1>10, <2>1 DEF TypeOK, CacheAndSend, Entries
    <2>3. topic' \in [Sessions -> Orders \cup {None}]
      BY <1>10, <2>1 DEF TypeOK, CacheAndSend, Show, Replies
    <2>4. call' \in [Sessions -> Calls]
      <3>1. NoCall \in Calls
        BY DEF NoCall, Calls, NoReply, Replies, Rows, Stages, Statuses
      <3> QED
        BY <1>10, <3>1 DEF TypeOK, CacheAndSend
    <2>5. PICK n \in Pushed[s] : Remember(s, n) /\ call[s].stage = "replied"
      BY <1>10 DEF CacheAndSend
    <2>6. /\ history' \in [Sessions -> Seq(Messages)]
          /\ \A r \in Sessions : RepliesFollow(history'[r])
          /\ unrecorded' \in [Sessions -> BOOLEAN]
      BY <1>9, <2>5
    <2>7. today' \in Days /\ order' \in [Orders -> Rows]
      BY <1>10 DEF TypeOK, CacheAndSend
    <2> QED
      BY ONLY <2>2, <2>3, <2>4, <2>6, <2>7 DEF TypeOK
  <1>11. ASSUME NEW s \in Sessions, Fallback(s) \/ NewTab(s) PROVE TypeOK'
    <2>1. NoCall \in Calls
      BY DEF NoCall, Calls, NoReply, Replies, Rows, Stages, Statuses
    <2>2. CASE Fallback(s)
      BY <2>1, <2>2 DEF TypeOK, Fallback
    <2>3. CASE NewTab(s)
      <3>1. << >> \in Seq(Messages) /\ DOMAIN << >> = {}
        OBVIOUS
      <3>2. RepliesFollow(<< >>)
        BY <3>1 DEF RepliesFollow
      <3> QED
        BY <2>3, <3>1, <3>2, NothingYet DEF TypeOK, NewTab
    <2> QED
      BY <1>11, <2>2, <2>3
  <1>12. ASSUME NEW o \in Orders, Ship(o) \/ Deliver(o) PROVE TypeOK'
    <2>1. order' \in [Orders -> Rows]
      <3>1. order[o] \in Rows /\ today \in Days
        BY DEF TypeOK
      <3>2. CASE Ship(o)
        BY <3>1, <3>2 DEF TypeOK, Ship, Progress, Rows, Statuses
      <3>3. CASE Deliver(o)
        BY <3>1, <3>3 DEF TypeOK, Deliver, Progress, Rows, Statuses
      <3> QED
        BY <1>12, <3>2, <3>3
    <2> QED
      BY <1>12, <2>1 DEF TypeOK, Ship, Deliver, Progress
  <1>13. ASSUME NEW text \in Texts, CacheLapse(text) PROVE TypeOK'
    BY <1>13 DEF TypeOK, CacheLapse, Entries, NoEntry, NoReply, Replies
  <1>14. CASE NewDay
    BY <1>14 DEF TypeOK, NewDay, Entries, NoEntry, NoReply, Replies
  <1>15. CASE UNCHANGED vars
    BY <1>15 DEF TypeOK, vars
  <1> QED
    BY <1>1, <1>2, <1>4, <1>5, <1>6, <1>7, <1>8, <1>9, <1>10, <1>11, <1>12, <1>13, <1>14,
       <1>15 DEF Next
\* What was true of an order may still be said of it: no status is skipped or taken back,
\* and neither a delivery nor a cancellation is undone.
LEMMA OrdersMoveOn ==
    ASSUME TypeOK, CallsKeepTheirOrder, [Next]_vars, NEW o \in Orders
    PROVE  /\ order[o].status \in Before(order'[o].status)
           /\ Before(order[o].status) \subseteq Before(order'[o].status)
           /\ order[o].status = "delivered" => order'[o] = order[o]
           /\ order[o].status = "cancelled" => order'[o].status = "cancelled"
  <1>1. order[o].status \in Statuses
    BY DEF TypeOK, Rows
  <1>2. \/ order'[o] = order[o]
        \/ order[o].status = "preparing" /\ order'[o].status \in {"shipping", "cancelled"}
        \/ order[o].status = "shipping" /\ order'[o].status = "delivered"
    <2>1. ASSUME NEW s \in Sessions, CancelOrder(s)
          PROVE  \/ order'[o] = order[o]
                 \/ order[o].status = "preparing" /\ order'[o].status = "cancelled"
      BY <2>1 DEF CancelOrder, Cancel, TypeOK, Rows
    <2>2. ASSUME NEW p \in Orders, Ship(p)
          PROVE  \/ order'[o] = order[o]
                 \/ order[o].status = "preparing" /\ order'[o].status = "shipping"
      BY <2>2 DEF Ship, Progress, TypeOK, Rows
    <2>3. ASSUME NEW p \in Orders, Deliver(p)
          PROVE  \/ order'[o] = order[o]
                 \/ order[o].status = "shipping" /\ order'[o].status = "delivered"
      BY <2>3, SMTT(30) DEF Deliver, Progress, TypeOK
    <2>4. \/ \E s \in Sessions : CancelOrder(s)
          \/ \E p \in Orders : Ship(p) \/ Deliver(p)
          \/ order' = order
      BY ZenonT(60)
      DEF Next, vars, CacheHit, CacheMiss, ReplyWithoutOrder, SearchOrderStatus, ReplyStatus,
             QuoteRefund, CacheAndSend, Fallback, NewTab, CacheLapse, NewDay
    <2> QED
      BY <2>1, <2>2, <2>3, <2>4
  <1> QED
    BY <1>1, <1>2 DEF Before, Statuses

\* A reply that was sound stays sound.
LEMMA SoundnessLasts ==
    ASSUME TypeOK, CallsKeepTheirOrder, [Next]_vars, NEW reply \in Replies, Sound(reply)
    PROVE  Sound(reply)'
  <1>1. CASE reply.about \in Orders
    BY <1>1, OrdersMoveOn DEF Sound
  <1>2. CASE reply.about \notin Orders
    BY <1>2 DEF Sound
  <1> QED
    BY <1>1, <1>2

\* A quote stays what it was, as long as its day is not over for a day.
LEMMA QuoteLasts ==
    ASSUME TypeOK, CallsKeepTheirOrder, [Next]_vars, NEW reply \in Replies, NEW day,
           Sound(reply), Quoted(reply, day), Recent(day)'
    PROVE  Quoted(reply, day)'
  BY OrdersMoveOn DEF Sound, Quoted

\* A call keeps the order it began with, and the row it has read is one the order has had.
LEMMA CallsKept ==
    ASSUME AssistantInv, [Next]_vars
    PROVE  CallsKeepTheirOrder'
  <1> USE DEF AssistantInv
  <1> DEFINE Kept(s) ==
        /\ call[s].stage = "idle" => call[s] = NoCall
        /\ call[s].stage # "idle" =>
               /\ call[s].text \in Texts
               /\ Recent(call[s].day)
               /\ call[s].text.order # None => call[s].about = call[s].text.order
        /\ call[s].stage \in {"asked", "read"} => call[s].reply = NoReply
        /\ call[s].stage = "read" => RowWasRead(s)
        /\ call[s].stage = "replied" => call[s].reply.about = call[s].about
  <1>0. /\ \A s \in Sessions : Kept(s)
        /\ (\A s \in Sessions : Kept(s)') => CallsKeepTheirOrder'
    BY DEF CallsKeepTheirOrder
  <1>1. ASSUME NEW s \in Sessions, call'[s] = call[s], today' = today
        PROVE  Kept(s)'
    <2>1. ASSUME RowWasRead(s) PROVE RowWasRead(s)'
      <3>1. order[call[s].about].status \in Statuses
        BY <2>1 DEF RowWasRead, TypeOK, Rows
      <3>2. call[s].row.status = "delivered" => order[call[s].about].status = "delivered"
        BY <2>1, <3>1 DEF RowWasRead, Before, Statuses
      <3> QED
        BY <1>1, <2>1, <3>2, OrdersMoveOn DEF RowWasRead
    <2> QED
      BY <1>0, <1>1, <2>1 DEF Recent
  <1>2. ASSUME NEW s \in Sessions, call'[s] = NoCall PROVE Kept(s)'
    BY <1>2, NothingYet
  <1>3. ASSUME NEW s \in Sessions, Kept(s)', today' = today,
               \A r \in Sessions \ {s} : call'[r] = call[r]
        PROVE  CallsKeepTheirOrder'
    <2> HIDE DEF Kept
    <2> QED
      BY <1>0, <1>1, <1>3
  <1>4. ASSUME today' = today, call' = call PROVE CallsKeepTheirOrder'
    BY <1>0, <1>1, <1>4
  <1>5. ASSUME NEW s \in Sessions, NEW says, NEW amount, Conclude(s, says, amount),
               call[s].stage \in {"asked", "read"}, today' = today
        PROVE  CallsKeepTheirOrder'
    <2>1. call[s] \in Calls
      BY DEF TypeOK
    <2>2. /\ call'[s].stage = "replied" /\ call'[s].text = call[s].text
          /\ call'[s].day = call[s].day /\ call'[s].about = call[s].about
          /\ call'[s].reply.about = call[s].about
      BY <1>5, <2>1 DEF Conclude, TypeOK, Calls
    <2>3. Kept(s)'
      BY <1>0, <1>5, <2>2 DEF Recent
    <2> HIDE DEF Kept
    <2> QED
      BY <1>3, <1>5, <2>3 DEF Conclude, TypeOK
  <1>6. ASSUME NEW s \in Sessions, NEW text \in Says[s], CacheMiss(s, text)
        PROVE  CallsKeepTheirOrder'
    <2>1. text \in Texts /\ today \in Days
      BY AssistantAssumption DEF AssistantAssumption, TypeOK
    <2>2. /\ call'[s].stage = "asked" /\ call'[s].text = text /\ call'[s].day = today
          /\ call'[s].about = OrderMeant(text, Window(history[s]))
          /\ call'[s].reply = NoReply
      BY <1>6 DEF CacheMiss, TypeOK, NoCall
    <2>3. text.order # None => call'[s].about = text.order
      BY <2>2 DEF OrderMeant
    <2>4. Kept(s)'
      BY <1>6, <2>1, <2>2, <2>3 DEF CacheMiss, Recent
    <2> HIDE DEF Kept
    <2> QED
      BY <1>3, <1>6, <2>4 DEF CacheMiss, TypeOK
  <1>7. ASSUME NEW s \in Sessions, SearchOrderStatus(s) PROVE CallsKeepTheirOrder'
    <2>1. call[s] \in Calls
      BY DEF TypeOK
    <2>2. /\ call'[s].stage = "read" /\ call'[s].text = call[s].text
          /\ call'[s].day = today /\ call'[s].about = call[s].about
          /\ call'[s].row = order[call[s].about] /\ call'[s].reply = call[s].reply
      BY <1>7, <2>1 DEF SearchOrderStatus, TypeOK, Calls
    <2>3. call[s].about \in Orders
      BY <1>7, <2>1 DEF SearchOrderStatus, Calls
    <2>4. RowWasRead(s)'
      <3>1. order[call[s].about].status \in Before(order[call[s].about].status)
        BY <2>3, SMTT(30) DEF TypeOK, Rows, Before, Statuses
      <3> QED
        BY <1>7, <2>2, <2>3, <3>1 DEF RowWasRead, SearchOrderStatus
    <2>5. Kept(s)'
      BY <1>0, <1>7, <2>2, <2>4 DEF SearchOrderStatus, Recent
    <2> HIDE DEF Kept
    <2> QED
      BY <1>3, <1>7, <2>5 DEF SearchOrderStatus, TypeOK
  <1>9. ASSUME NEW s \in Sessions, CacheAndSend(s) \/ Fallback(s) PROVE CallsKeepTheirOrder'
    <2>1. today' = today /\ call' = [call EXCEPT ![s] = NoCall]
      BY <1>9 DEF CacheAndSend, Fallback
    <2> HIDE DEF Kept
    <2> QED
      BY <1>2, <1>3, <2>1 DEF TypeOK
  <1>10. CASE NewDay
    <2>1. ASSUME NEW s \in Sessions PROVE Kept(s)'
      <3>1. CASE call[s] = NoCall
        BY <1>2, <1>10, <3>1 DEF NewDay
      <3>2. CASE call[s].day = today
        <4>1. Recent(call[s].day)'
          BY <1>10, <3>2, DaysAreIntegers DEF NewDay, Recent, TypeOK
        <4>2. call' = call /\ RowWasRead(s)' = RowWasRead(s)
          BY <1>10 DEF NewDay, RowWasRead
        <4> QED
          BY <1>0, <4>1, <4>2
      <3> QED
        BY <1>10, <3>1, <3>2 DEF NewDay
    <2> HIDE DEF Kept
    <2> QED
      BY <1>0, <2>1
  <1>11. ASSUME NEW s \in Sessions,
                ReplyWithoutOrder(s) \/ ReplyStatus(s) \/ QuoteRefund(s) \/ CancelOrder(s)
         PROVE  CallsKeepTheirOrder'
    <2> HIDE DEF Kept
    <2> QED
      BY <1>5, <1>11 DEF ReplyWithoutOrder, ReplyStatus, QuoteRefund, CancelOrder
  <1>12. ASSUME \/ \E s \in Sessions : (\E text \in Says[s] : CacheHit(s, text)) \/ NewTab(s)
                \/ \E o \in Orders : Ship(o) \/ Deliver(o)
                \/ \E text \in Texts : CacheLapse(text)
                \/ UNCHANGED vars
         PROVE  CallsKeepTheirOrder'
    BY <1>4, <1>12 DEF CacheHit, NewTab, Ship, Deliver, Progress, CacheLapse, vars
  <1> QED
    BY <1>6, <1>7, <1>9, <1>10, <1>11, <1>12 DEF Next
\* Whatever the agent concludes is true as it concludes it.
LEMMA ConclusionsAreSound ==
    ASSUME AssistantInv, NEW s \in Sessions,
           ReplyWithoutOrder(s) \/ ReplyStatus(s) \/ QuoteRefund(s) \/ CancelOrder(s)
    PROVE  /\ Sound(call[s].reply)'
           /\ Quoted(call[s].reply, call[s].day)'
           /\ \A r \in Sessions : r # s => call'[r] = call[r]
           /\ today' = today /\ cache' = cache
  <1> USE DEF AssistantInv
  <1>1. call[s] \in Calls
    BY DEF TypeOK
  <1>2. ASSUME NEW says, NEW amount, Conclude(s, says, amount)
        PROVE  /\ call'[s].reply.says = says /\ call'[s].reply.amount = amount
               /\ call'[s].reply.about = call[s].about
               /\ call'[s].day = call[s].day
               /\ \A r \in Sessions : r # s => call'[r] = call[r]
    BY <1>1, <1>2 DEF Conclude, TypeOK, Calls
  <1>3. CASE ReplyWithoutOrder(s)
    <2>1. PICK says \in {"faq", "which"} : Conclude(s, says, 0)
      BY <1>3 DEF ReplyWithoutOrder
    <2>2. call'[s].reply.says \in {"faq", "which"}
      BY <1>2, <2>1
    <2>3. Sound(call[s].reply)' /\ Quoted(call[s].reply, call[s].day)'
      BY <2>2 DEF Sound, Quoted, Statuses
    <2> QED
      BY <1>2, <1>3, <2>1, <2>3 DEF ReplyWithoutOrder
  <1>4. ASSUME call[s].stage = "read"
        PROVE  /\ RowWasRead(s) /\ Recent(call[s].day)
               /\ call[s].row \in Rows /\ order[call[s].about] \in Rows
    BY <1>1, <1>4 DEF CallsKeepTheirOrder, RowWasRead, TypeOK, Calls
  <1>5. CASE ReplyStatus(s)
    <2>1. /\ Conclude(s, call[s].row.status, 0) /\ call[s].stage = "read"
          /\ UNCHANGED <<today, order, cache>>
      BY <1>5 DEF ReplyStatus
    <2>2. call[s].row.status \in Statuses
      BY <1>4, <2>1 DEF Rows
    <2>3. call'[s].reply.says = call[s].row.status /\ call'[s].reply.about = call[s].about
      BY <1>2, <2>1
    <2>4. Sound(call[s].reply)' /\ Quoted(call[s].reply, call[s].day)'
      BY <1>4, <2>1, <2>2, <2>3 DEF RowWasRead, Sound, Quoted, Statuses
    <2> QED
      BY <1>2, <2>1, <2>4
  <1>6. CASE QuoteRefund(s)
    <2> DEFINE amount == Refund(Price[call[s].about], call[s].day - call[s].row.delivered)
    <2>1. /\ Conclude(s, "refund", amount) /\ call[s].stage = "read"
          /\ call[s].row.status = "delivered"
          /\ UNCHANGED <<today, order, cache>>
      BY <1>6 DEF QuoteRefund
    <2>2. /\ order[call[s].about].status = "delivered"
          /\ call[s].row.delivered = order[call[s].about].delivered
      BY <1>4, <2>1 DEF RowWasRead, Before, Rows, Statuses
    <2>3. amount = Refund(Price[call[s].about], call[s].day - order[call[s].about].delivered)
      BY <2>2
    <2> HIDE DEF amount
    <2>4. /\ call'[s].reply.says = "refund" /\ call'[s].reply.amount = amount
          /\ call'[s].reply.about = call[s].about /\ call'[s].day = call[s].day
      BY <1>2, <2>1
    <2>5. Sound(call[s].reply)'
      BY <1>4, <2>1, <2>2, <2>4 DEF RowWasRead, Sound, Statuses
    <2>6. Quoted(call[s].reply, call[s].day)'
      BY <1>4, <2>1, <2>3, <2>4 DEF Quoted, Recent
    <2> QED
      BY <1>2, <2>1, <2>5, <2>6
  <1>7. CASE CancelOrder(s)
    <2>1. /\ Conclude(s, CancelOutcome(call[s].about), 0) /\ call[s].stage = "read"
          /\ order' = Cancel(call[s].about)
          /\ UNCHANGED <<today, cache>>
      BY <1>7 DEF CancelOrder
    <2>2. call[s].about \in Orders /\ order[call[s].about].status \in Statuses
      BY <1>4, <2>1 DEF RowWasRead, Rows
    <2>3. /\ call'[s].reply.says = CancelOutcome(call[s].about)
          /\ call'[s].reply.about = call[s].about
      BY <1>2, <2>1
    <2>4. ASSUME order[call[s].about].status = "preparing"
          PROVE  Sound(call[s].reply)' /\ Quoted(call[s].reply, call[s].day)'
      <3>1. order'[call[s].about].status = "cancelled"
        BY <2>1, <2>2, <2>4 DEF Cancel, TypeOK, Rows
      <3> QED
        BY <2>2, <2>3, <2>4, <3>1 DEF Sound, Quoted, Statuses, CancelOutcome
    <2>5. ASSUME order[call[s].about].status # "preparing"
          PROVE  Sound(call[s].reply)' /\ Quoted(call[s].reply, call[s].day)'
      <3>1. order' = order
        BY <2>1, <2>5 DEF Cancel
      <3>2. order[call[s].about].status \in Before(order[call[s].about].status)
        BY <2>2 DEF Before, Statuses
      <3> QED
        BY <2>2, <2>3, <2>5, <3>1, <3>2 DEF Sound, Quoted, Statuses, CancelOutcome
    <2>6. Sound(call[s].reply)' /\ Quoted(call[s].reply, call[s].day)'
      BY <2>4, <2>5
    <2> QED
      BY <1>2, <2>1, <2>6
  <1> QED
    BY <1>3, <1>5, <1>6, <1>7

\* Every reply anywhere was already somewhere, or is the conclusion of this step; and NewDay
\* lets no entry of the cache grow older than a day.
LEMMA RepliesKept ==
    ASSUME AssistantInv, [Next]_vars
    PROVE  RepliesAreSound' /\ RefundsAreQuoted'
  <1> USE DEF AssistantInv
  <1>1. TypeOK' /\ CallsKeepTheirOrder'
    BY TypesKept, CallsKept
  <1>2. /\ \A s \in Sessions : call[s] \in Calls /\ call[s].reply \in Replies
        /\ \A t \in Texts : cache[t] \in Entries /\ cache[t].reply \in Replies
    BY DEF TypeOK, Calls, Entries
  <1>3. ASSUME NEW s \in Sessions,
               \/ call'[s].reply = NoReply
               \/ call'[s].reply = call[s].reply /\ call'[s].day = call[s].day
        PROVE  Sound(call[s].reply)' /\ Quoted(call[s].reply, call[s].day)'
    <2>1. CASE call'[s].reply = NoReply
      BY <2>1 DEF NoReply, Sound, Quoted, Statuses
    <2>2. CASE call'[s].reply = call[s].reply /\ call'[s].day = call[s].day
      <3>1. PICK r \in Replies : r = call[s].reply
        BY <1>2
      <3>2. PICK day : day = call[s].day
        OBVIOUS
      <3>3. Sound(r) /\ Quoted(r, day)
        BY <3>1, <3>2 DEF RepliesAreSound, RefundsAreQuoted
      <3>4. Sound(r)'
        BY <3>3, SoundnessLasts
      <3>5. CASE call'[s] = NoCall
        BY <3>5 DEF NoCall, NoReply, Sound, Quoted, Statuses
      <3>6. CASE call'[s] # NoCall
        <4>1. Recent(call[s].day)'
          BY <1>1, <3>6 DEF CallsKeepTheirOrder
        <4>2. Recent(day)'
          BY <2>2, <3>2, <4>1 DEF Recent
        <4>3. Quoted(r, day)'
          BY <3>3, <4>2, QuoteLasts
        <4> QED
          BY <2>2, <3>1, <3>2, <3>4, <4>3 DEF Sound, Quoted, Recent
      <3> QED
        BY <3>5, <3>6
    <2> QED
      BY <1>3, <2>1, <2>2
  <1>4. ASSUME NEW t \in Texts,
               \/ cache'[t].reply = NoReply
               \/ cache'[t] = cache[t] /\ (today' = today \/ (~Lapsed(cache[t]) /\ NewDay))
               \/ \E s \in Sessions : /\ cache'[t].reply = call[s].reply
                                      /\ cache'[t].day = call[s].day
                                      /\ today' = today
        PROVE  Sound(cache[t].reply)' /\ Quoted(cache[t].reply, cache[t].day)'
    <2>1. CASE cache'[t].reply = NoReply
      BY <2>1 DEF NoReply, Sound, Quoted, Statuses
    <2>2. ASSUME NEW r \in Replies, NEW day \in Days \cup {-1},
                 cache'[t].reply = r, cache'[t].day = day, Sound(r), Quoted(r, day),
                 today' = today \/ (~(day < today) /\ NewDay)
          PROVE  Sound(cache[t].reply)' /\ Quoted(cache[t].reply, cache[t].day)'
      <3>1. Sound(r)'
        BY <2>2, SoundnessLasts
      <3>2. r.says = "refund" => Recent(day)'
        <4>1. Recent(day) => Recent(day)'
          BY <2>2, DaysAreIntegers DEF Recent, NewDay, TypeOK
        <4> QED
          BY <2>2, <4>1 DEF Quoted
      <3>3. Quoted(r, day)'
        <4>1. CASE r.says = "refund"
          BY <2>2, <3>2, <4>1, QuoteLasts
        <4>2. CASE r.says # "refund"
          BY <4>2 DEF Quoted
        <4> QED
          BY <4>1, <4>2
      <3> QED
        BY <2>2, <3>1, <3>3 DEF Sound, Quoted, Recent
    <2>3. CASE cache'[t] = cache[t] /\ (today' = today \/ (~Lapsed(cache[t]) /\ NewDay))
      <3>1. PICK r \in Replies, day \in Days \cup {-1} : r = cache[t].reply /\ day = cache[t].day
        BY <1>2 DEF Entries
      <3>2. Sound(r) /\ Quoted(r, day)
        BY <3>1 DEF RepliesAreSound, RefundsAreQuoted
      <3> QED
        BY <2>2, <2>3, <3>1, <3>2 DEF Lapsed
    <2>4. ASSUME NEW s \in Sessions,
                 cache'[t].reply = call[s].reply, cache'[t].day = call[s].day, today' = today
          PROVE  Sound(cache[t].reply)' /\ Quoted(cache[t].reply, cache[t].day)'
      <3>1. call[s].reply \in Replies /\ call[s].day \in Days \cup {-1}
        BY <1>2 DEF Calls
      <3>2. Sound(call[s].reply) /\ Quoted(call[s].reply, call[s].day)
        BY DEF RepliesAreSound, RefundsAreQuoted
      <3>4. PICK r \in Replies, day \in Days \cup {-1} : r = call[s].reply /\ day = call[s].day
        BY <3>1
      <3>5. Sound(r) /\ Quoted(r, day)
        BY <3>2, <3>4
      <3> QED
        BY <2>2, <2>4, <3>4, <3>5
    <2> QED
      BY <1>4, <2>1, <2>3, <2>4
  <1>7. ASSUME NEW s \in Sessions
        PROVE  Sound(call[s].reply)' /\ Quoted(call[s].reply, call[s].day)'
    <2>1. ASSUME NEW r \in Sessions,
                 \/ ReplyWithoutOrder(r) \/ ReplyStatus(r) \/ QuoteRefund(r) \/ CancelOrder(r)
          PROVE  Sound(call[s].reply)' /\ Quoted(call[s].reply, call[s].day)'
      <3>1. CASE r = s
        BY <2>1, <3>1, ConclusionsAreSound
      <3>2. CASE r # s
        BY <1>3, <2>1, <3>2, ConclusionsAreSound
      <3> QED
        BY <3>1, <3>2
    <2>2. ASSUME NEW r \in Sessions,
                 \/ \E text \in Says[r] : CacheMiss(r, text)
                 \/ CacheAndSend(r) \/ Fallback(r)
          PROVE  \/ call'[s].reply = NoReply
                 \/ call'[s].reply = call[s].reply /\ call'[s].day = call[s].day
      <3>1. ASSUME NEW text \in Says[r], CacheMiss(r, text)
            PROVE  call'[s].reply = NoReply \/ call'[s] = call[s]
        <4>1. CASE r = s
          BY <3>1, <4>1, NothingYet DEF CacheMiss, TypeOK, Calls
        <4>2. CASE r # s
          BY <3>1, <4>2 DEF CacheMiss, TypeOK
        <4> QED
          BY <4>1, <4>2
      <3>2. CASE CacheAndSend(r) \/ Fallback(r)
        BY <3>2, NothingYet DEF CacheAndSend, Fallback, TypeOK
      <3> QED
        BY <2>2, <3>1, <3>2
    <2>3. ASSUME NEW r \in Sessions, SearchOrderStatus(r)
          PROVE  \/ call'[s].reply = NoReply
                 \/ call'[s].reply = call[s].reply /\ call'[s].day = call[s].day
      <3>1. CASE r = s
        <4>1. call[s].reply = NoReply
          BY <2>3, <3>1 DEF SearchOrderStatus, CallsKeepTheirOrder
        <4>2. call'[s].reply = call[s].reply
          BY <1>2, <2>3, <3>1 DEF SearchOrderStatus, Calls, TypeOK
        <4> QED
          BY <4>1, <4>2
      <3>2. CASE r # s
        BY <2>3, <3>2 DEF SearchOrderStatus, TypeOK
      <3> QED
        BY <3>1, <3>2
    <2>4. \/ \E r \in Sessions :
                 \/ ReplyWithoutOrder(r) \/ ReplyStatus(r) \/ QuoteRefund(r) \/ CancelOrder(r)
                 \/ \E text \in Says[r] : CacheMiss(r, text)
                 \/ CacheAndSend(r) \/ Fallback(r) \/ SearchOrderStatus(r)
          \/ call' = call
      BY DEF Next, vars, CacheHit, NewTab, Ship, Deliver, Progress, CacheLapse, NewDay
    <2> QED
      BY <1>3, <2>1, <2>2, <2>3, <2>4
  <1>8. ASSUME NEW t \in Texts
        PROVE  Sound(cache[t].reply)' /\ Quoted(cache[t].reply, cache[t].day)'
    <2>1. ASSUME NEW s \in Sessions, CacheAndSend(s)
          PROVE  \/ cache'[t] = cache[t]
                 \/ cache'[t].reply = call[s].reply /\ cache'[t].day = call[s].day
      BY <2>1 DEF CacheAndSend, TypeOK
    <2>2. ASSUME NEW text \in Texts, CacheLapse(text)
          PROVE  cache'[t] = cache[t] \/ cache'[t].reply = NoReply
      BY <2>2 DEF CacheLapse, NoEntry, TypeOK
    <2>3. CASE NewDay
      <3>1. cache'[t] = IF Lapsed(cache[t]) THEN NoEntry ELSE cache[t]
        BY <2>3 DEF NewDay
      <3>2. cache'[t].reply = NoReply \/ (cache'[t] = cache[t] /\ ~Lapsed(cache[t]))
        BY <3>1, SMTT(30) DEF NoEntry
      <3> QED
        BY <1>4, <2>3, <3>2
    <2>4. \/ \E s \in Sessions : CacheAndSend(s) /\ today' = today
          \/ \E text \in Texts : CacheLapse(text) /\ today' = today
          \/ cache' = cache /\ today' = today
          \/ NewDay
      BY ZenonT(60)
      DEF Next, vars, CacheHit, CacheMiss, ReplyWithoutOrder, SearchOrderStatus, ReplyStatus,
             QuoteRefund, CancelOrder, CacheAndSend, Fallback, NewTab, Ship, Deliver,
             Progress, CacheLapse
    <2>5. CASE \E s \in Sessions : CacheAndSend(s) /\ today' = today
      BY <1>4, <2>1, <2>5
    <2>6. CASE (\E text \in Texts : CacheLapse(text)) /\ today' = today
      BY <1>4, <2>2, <2>6
    <2>7. CASE cache' = cache /\ today' = today
      BY <1>4, <2>7
    <2> QED
      BY <2>3, <2>4, <2>5, <2>6, <2>7
  <1> QED
    BY <1>7, <1>8 DEF RepliesAreSound, RefundsAreQuoted

\* The history and the tab stay on the same order, or the tab is marked.
LEMMA RecallsKept ==
    ASSUME AssistantInv, [Next]_vars
    PROVE  Recalls'
  <1> USE DEF AssistantInv
  <1> DEFINE Recall(s) ==
        ~unrecorded[s] =>
            /\ LastNames(history[s], topic[s])
            /\ call[s].stage # "idle" /\ call[s].text.order = None =>
                   call[s].about \in {None, topic[s]}
  <1> SUFFICES ASSUME NEW s \in Sessions PROVE Recall(s)'
    BY DEF Recalls
  <1>2. Recall(s) /\ call[s] \in Calls /\ history[s] \in Seq(Messages)
    BY DEF Recalls, TypeOK
  <1>3. ASSUME history'[s] = history[s], topic'[s] = topic[s], unrecorded'[s] = unrecorded[s],
               \/ call'[s].stage = "idle"
               \/ call'[s] = call[s]
               \/ /\ call[s].stage # "idle"
                  /\ call'[s].text = call[s].text /\ call'[s].about = call[s].about
        PROVE  Recall(s)'
    BY <1>2, <1>3
  <1>5. ASSUME NEW text \in Says[s], CacheMiss(s, text) PROVE Recall(s)'
    <2>1. /\ history' = history /\ topic' = topic /\ unrecorded' = unrecorded
          /\ call'[s].text = text
          /\ call'[s].about = OrderMeant(text, Window(history[s]))
      BY <1>5 DEF CacheMiss, TypeOK, NoCall
    <2>2. SUFFICES ASSUME ~unrecorded[s]
                   PROVE  /\ LastNames(history[s], topic[s])
                          /\ text.order = None => call'[s].about \in {None, topic[s]}
      BY <2>1
    <2>3. LastNames(history[s], topic[s])
      BY <1>2, <2>2
    <2>4. MostRecent(Window(history[s])) \in {None, topic[s]}
      <3>1. Window(history[s]) \in Seq(Messages) /\ LastNames(Window(history[s]), topic[s])
        BY <1>2, <2>3, WindowRecalls
      <3> QED
        BY <3>1, MostRecentIsLast
    <2> QED
      BY <2>1, <2>3, <2>4 DEF OrderMeant
  <1>6. ASSUME ReplyWithoutOrder(s) \/ ReplyStatus(s) \/ QuoteRefund(s) \/ CancelOrder(s)
        PROVE  Recall(s)'
    <2>1. /\ call[s].stage \in {"asked", "read"} /\ history' = history /\ topic' = topic
          /\ unrecorded' = unrecorded
          /\ \E says, amount : Conclude(s, says, amount)
      BY <1>6 DEF ReplyWithoutOrder, ReplyStatus, QuoteRefund, CancelOrder
    <2>2. call'[s].text = call[s].text /\ call'[s].about = call[s].about
      BY <1>2, <2>1 DEF Conclude, TypeOK, Calls
    <2> QED
      BY <1>3, <2>1, <2>2
  <1>7. CASE SearchOrderStatus(s)
    <2>1. /\ call[s].stage = "asked" /\ history' = history /\ topic' = topic
          /\ unrecorded' = unrecorded
          /\ call'[s].text = call[s].text /\ call'[s].about = call[s].about
      BY <1>2, <1>7 DEF SearchOrderStatus, TypeOK, Calls
    <2> QED
      BY <1>3, <2>1
  <1>8. ASSUME NEW text \in Says[s], CacheHit(s, text) PROVE Recall(s)'
    <2>1. /\ history' = history /\ call' = call
          /\ unrecorded'[s] = (unrecorded[s] \/ cache[text].reply.about # None)
          /\ topic'[s] = IF cache[text].reply.about = None THEN topic[s]
                         ELSE cache[text].reply.about
      BY <1>8 DEF CacheHit, Show, TypeOK
    <2> QED
      BY <1>2, <2>1
  <1>9. CASE CacheAndSend(s)
    <2>1. PICK n \in Pushed[s] : Remember(s, n)
      BY <1>9 DEF CacheAndSend
    <2>2. PICK text, reply : text = call[s].text /\ reply = call[s].reply
      OBVIOUS
    <2>3. /\ call[s].stage = "replied" /\ call'[s].stage = "idle"
          /\ topic'[s] = IF reply.about = None THEN topic[s] ELSE reply.about
          /\ history'[s] = history[s] \o SubSeq(Turn(text, reply), 1, n)
          /\ unrecorded'[s] = IF reply.about = None THEN unrecorded[s]
                              ELSE \A i \in 1..n : Turn(text, reply)[i].about # reply.about
      BY <1>9, <2>1, <2>2, NothingYet DEF CacheAndSend, Remember, Show, TypeOK
    <2>4. text.order # None => reply.about = text.order
      BY <2>2, <2>3 DEF CallsKeepTheirOrder
    <2>5. text.order \in Orders \cup {None} /\ reply.about \in Orders \cup {None}
      <3>1. text \in Texts /\ reply \in Replies
        BY <1>2, <2>2, <2>3 DEF Calls, CallsKeepTheirOrder
      <3> QED
        BY <3>1, AssistantAssumption DEF AssistantAssumption, Replies
    <2>6. n \in 0..2
      BY AssistantAssumption DEF AssistantAssumption
    <2>7. ASSUME ~unrecorded'[s]
          PROVE  LastNames(history'[s], IF reply.about = None THEN topic[s] ELSE reply.about)
      <3>1. reply.about # None => \E i \in 1..n : Turn(text, reply)[i].about = reply.about
        BY <2>3, <2>7
      <3>2. reply.about = None => LastNames(history[s], topic[s])
        BY <1>2, <2>3, <2>7
      <3> QED
        BY <1>2, <2>3, <2>4, <2>5, <2>6, <3>1, <3>2, TurnRecalls
    <2> QED
      BY <2>3, <2>7
  <1>10. CASE Fallback(s)
    <2>1. /\ history' = history /\ topic' = topic /\ unrecorded' = unrecorded
          /\ call'[s].stage = "idle"
      BY <1>10, NothingYet DEF Fallback, TypeOK
    <2> QED
      BY <1>3, <2>1
  <1>11. CASE NewTab(s)
    <2>1. history'[s] = << >> /\ call'[s].stage = "idle"
      BY <1>11, NothingYet DEF NewTab, TypeOK
    <2>2. LastNames(history[s], topic[s])'
      BY <2>1 DEF LastNames
    <2> QED
      BY <2>1, <2>2
  <1>12. ASSUME NEW r \in Sessions, r # s,
                \/ \E text \in Says[r] : CacheHit(r, text) \/ CacheMiss(r, text)
                \/ ReplyWithoutOrder(r) \/ ReplyStatus(r) \/ QuoteRefund(r) \/ CancelOrder(r)
                \/ SearchOrderStatus(r) \/ CacheAndSend(r) \/ Fallback(r)
                \/ NewTab(r)
         PROVE  Recall(s)'
    <2>1. /\ history'[s] = history[s] /\ topic'[s] = topic[s] /\ call'[s] = call[s]
          /\ unrecorded'[s] = unrecorded[s]
      BY <1>12 DEF CacheHit, CacheMiss, ReplyWithoutOrder, SearchOrderStatus, ReplyStatus,
                   QuoteRefund, CancelOrder, Conclude, Remember, CacheAndSend, Show, Fallback,
                   NewTab, TypeOK
    <2> QED
      BY <1>3, <2>1
  <1>13. ASSUME \/ \E o \in Orders : Ship(o) \/ Deliver(o)
                \/ \E text \in Texts : CacheLapse(text)
                \/ NewDay
                \/ UNCHANGED vars
         PROVE  Recall(s)'
    BY <1>3, <1>13 DEF Ship, Deliver, Progress, CacheLapse, NewDay, vars
  <1> HIDE DEF Recall
  <1> QED
    BY <1>5, <1>6, <1>7, <1>8, <1>9, <1>10, <1>11, <1>12, <1>13 DEF Next

----------------------------------------------------------------------------
(* The theorems *)

\* The inductive invariant.
THEOREM AssistantInvariant == Spec => []AssistantInv
  <1>1. Init => AssistantInv
    <2> SUFFICES ASSUME Init PROVE AssistantInv
      OBVIOUS
    <2> USE AssistantAssumption DEF AssistantAssumption
    <2>1. NoReply \in Replies /\ NoCall \in Calls /\ NoEntry \in Entries
      BY DEF NoReply, NoCall, NoEntry, Replies, Calls, Entries, Rows, Stages, Statuses
    <2>2. \A o \in Orders : order[o] \in Rows
      BY DEF Init, Rows, Statuses
    <2>3. << >> \in Seq(Messages) /\ RepliesFollow(<< >>)
      BY DEF RepliesFollow
    <2>4. TypeOK
      BY <2>1, <2>2, <2>3 DEF Init, TypeOK
    <2>5. \A s \in Sessions : call[s] = NoCall /\ history[s] = << >>
      BY DEF Init
    <2>6. \A t \in Texts : cache[t].reply = NoReply
      BY DEF Init, NoEntry
    <2>7. CallsKeepTheirOrder
      BY <2>5, NothingYet DEF CallsKeepTheirOrder
    <2>8. Sound(NoReply) /\ \A day : Quoted(NoReply, day)
      BY DEF Sound, Quoted, NoReply, Statuses
    <2>9. RepliesAreSound /\ RefundsAreQuoted
      BY <2>5, <2>6, <2>8, NothingYet DEF RepliesAreSound, RefundsAreQuoted
    <2>10. Recalls
      BY <2>5, NothingYet DEF Recalls, LastNames
    <2> QED
      BY <2>4, <2>7, <2>9, <2>10 DEF AssistantInv
  <1>2. AssistantInv /\ [Next]_vars => AssistantInv'
    BY TypesKept, CallsKept, RepliesKept, RecallsKept DEF AssistantInv
  <1> QED
    BY <1>1, <1>2, PTL DEF Spec

\* A reply is kept only behind its question, and every value has its type.
THEOREM AssistantTypeCorrect == Spec => []TypeOK
  <1>1. AssistantInv => TypeOK
    BY DEF AssistantInv
  <1> QED
    BY <1>1, AssistantInvariant, PTL

\* Whatever a tab may be shown has been true of the order it is about.
THEOREM AssistantRepliesWereTrue == Spec => []RepliesWereTrue
  <1>1. AssistantInv => RepliesWereTrue
    BY DEF AssistantInv, RepliesAreSound, RepliesWereTrue, Pending, Sound
  <1> QED
    BY <1>1, AssistantInvariant, PTL

\* A refund that can still be quoted is what the policy owes today or owed yesterday.
THEOREM AssistantQuotesAreCurrent == Spec => []QuotesAreCurrent
  <1>1. ASSUME AssistantInv, NEW reply \in Replies, NEW day, Sound(reply), Quoted(reply, day),
               reply.says = "refund"
        PROVE  LET days == today - order[reply.about].delivered
               IN  \E d \in {days, days - 1} : Owed(Price[reply.about], d, reply.amount)
    <2> DEFINE delivered == order[reply.about].delivered
    <2>1. reply.about \in Orders
      BY <1>1 DEF Sound
    <2>2. Price[reply.about] \in Nat
      BY <2>1, AssistantAssumption DEF AssistantAssumption
    <2>3. today \in Int /\ delivered \in Int
      <3>1. today \in Days /\ delivered \in Days \cup {0}
        BY <1>1, <2>1 DEF AssistantInv, TypeOK, Rows
      <3> QED
        BY <3>1, DaysAreIntegers
    <2>4. day \in {today, today - 1} /\ reply.amount = Refund(Price[reply.about], day - delivered)
      BY <1>1 DEF Quoted, Recent
    <2> HIDE DEF delivered
    <2>5. Owed(Price[reply.about], day - delivered, reply.amount)
      <3>1. day - delivered \in Int
        BY <2>3, <2>4
      <3> QED
        BY <2>2, <2>4, <3>1, RefundIsOwed
    <2>6. day - delivered \in {today - delivered, (today - delivered) - 1}
      BY <2>3, <2>4
    <2> QED
      BY <2>5, <2>6 DEF delivered
  <1>2. AssistantInv => QuotesAreCurrent
    <2> SUFFICES ASSUME AssistantInv,
                        NEW reply \in Pending,
                        reply.says = "refund"
                 PROVE  LET days == today - order[reply.about].delivered
                        IN  \E d \in {days, days - 1} :
                                Owed(Price[reply.about], d, reply.amount)
      BY DEF QuotesAreCurrent
    <2>1. reply \in Replies /\ Sound(reply) /\ \E day : Quoted(reply, day)
      BY DEF AssistantInv, TypeOK, RepliesAreSound, RefundsAreQuoted, Calls, Entries, Pending
    <2> QED
      BY <1>1, <2>1
  <1> QED
    BY <1>2, AssistantInvariant, PTL

\* The agent cancels no order but the one that was meant, unless the tab's last reply about
\* an order never reached the history.
THEOREM AssistantCancelsWhatWasMeant == Spec => CancelsWhatWasMeant
  <1>1. AssistantInv /\ [Next]_vars
            => [\A s \in Sessions : CancelsAnother(s) => unrecorded[s]]_vars
    <2> SUFFICES ASSUME AssistantInv, NEW s \in Sessions, CancelOrder(s), ~unrecorded[s]
                 PROVE  call[s].about = IF call[s].text.order # None
                                        THEN call[s].text.order ELSE topic[s]
      BY DEF CancelsAnother
    <2>1. call[s].stage = "read"
      BY DEF CancelOrder
    <2>2. call[s].about # None
      BY <2>1, AssistantAssumption
         DEF AssistantInv, CallsKeepTheirOrder, RowWasRead, AssistantAssumption
    <2>3. CASE call[s].text.order # None
      BY <2>1, <2>3 DEF AssistantInv, CallsKeepTheirOrder
    <2>4. CASE call[s].text.order = None
      BY <2>1, <2>2, <2>4 DEF AssistantInv, Recalls
    <2> QED
      BY <2>3, <2>4
  <1> QED
    BY <1>1, AssistantInvariant, PTL DEF Spec, CancelsWhatWasMeant
=============================================================================
