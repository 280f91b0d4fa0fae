------------------------- MODULE AdminConsoleProofs -------------------------
(****************************************************************************)
(* What the lists of AdminConsole may show, for any tabs, polls, clicks and *)
(* rows.                                                                    *)
(*                                                                          *)
(* A feedback reaches a list by one of two ways: from the table, through a  *)
(* response of GET, or from a click in the tab itself.  ConsoleInv says of  *)
(* every place on these ways, the table and the responses under way         *)
(* included, which click a feedback there comes from.                       *)
(****************************************************************************)
EXTENDS AdminConsole, SequenceTheorems, TLAPS

\* A click whose feedback reached the table is behind the feedback of this row.
Saved(id, feedback) ==
    feedback # "none" =>
        \E c \in Clicks : put[c].id = id /\ put[c].feedback = feedback /\ put[c].saved

\* One that was saved, or was made in this tab.
Seen(t, id, feedback) ==
    feedback # "none" =>
        \E c \in Clicks : /\ put[c].id = id /\ put[c].feedback = feedback
                          /\ put[c].tab = t \/ put[c].saved

FeedbackIsBacked ==
    /\ \A i \in DOMAIN stored : Saved(i, stored[i])
    /\ \A t \in Tabs : \A f \in Fetches[t] : \A i \in DOMAIN fetch[t][f].logs :
           Saved(fetch[t][f].logs[i].id, fetch[t][f].logs[i].feedback)
    /\ \A t \in Tabs : \A i \in DOMAIN screen[t] :
           Seen(t, screen[t][i].id, screen[t][i].feedback)

\* Types, and a click behind every feedback.
ConsoleInv == TypeOK /\ FeedbackIsBacked

----------------------------------------------------------------------------
(* The operators *)

\* A listing is a list, and its rows are those of the table.
LEMMA ListingShowsTheTable ==
    ASSUME TypeOK
    PROVE  /\ Listing \in Lists
           /\ \A k \in DOMAIN Listing :
                  /\ Listing[k].id \in DOMAIN stored
                  /\ Listing[k].feedback = stored[Listing[k].id]
  <1> DEFINE n == Len(stored)
             rows == [i \in DOMAIN stored |-> [id |-> i, feedback |-> stored[i]]]
             newest == Reverse(rows)
             m == IF n < Limit THEN n ELSE Limit
             Row == [id : 1..MaxRows, feedback : Feedback]
  <1>1. /\ n \in Nat /\ n <= MaxRows /\ DOMAIN stored = 1..n
        /\ \A i \in 1..n : stored[i] \in Feedback
    BY DEF TypeOK
  <1>2. MaxRows \in Nat /\ Limit \in Nat
    BY ConsoleAssumption DEF ConsoleAssumption
  <1>3. m \in Nat /\ m <= n /\ m <= Limit
    BY <1>1, <1>2
  <1>4. \A i \in 1..n : rows[i] = [id |-> i, feedback |-> stored[i]] /\ rows[i] \in Row
    BY <1>1, <1>2
  <1>5. rows \in Seq(Row) /\ Len(rows) = n
    <2>1. DOMAIN rows = 1..n
      BY <1>1
    <2> HIDE DEF rows, Row
    <2>2. rows = [i \in 1..n |-> rows[i]]
      BY <2>1 DEF rows
    <2> QED
      BY <1>1, <1>4, <2>1, <2>2
  <1> HIDE DEF rows, Row, n, m
  <1>6. newest = [i \in 1..n |-> rows[(n - i) + 1]]
    BY <1>5 DEF Reverse
  <1>7. newest \in Seq(Row) /\ Len(newest) = n
    <2>1. \A i \in 1..n : (n - i) + 1 \in 1..n
      BY <1>1
    <2>2. \A i \in 1..n : rows[(n - i) + 1] \in Row
      BY <1>4, <2>1
    <2> HIDE DEF newest
    <2> QED
      BY <1>1, <1>6, <2>2
  <1>8. Listing = SubSeq(newest, 1, m)
    BY <1>7 DEF Listing, rows, m, n
  <1> HIDE DEF newest
  <1>9. /\ Listing \in Seq(Row) /\ Len(Listing) = m /\ DOMAIN Listing = 1..m
        /\ \A k \in 1..m : Listing[k] = newest[k]
    BY <1>1, <1>3, <1>7, <1>8
  <1>10. \A k \in 1..m : /\ (n - k) + 1 \in 1..n
                         /\ Listing[k].id = (n - k) + 1
                         /\ Listing[k].feedback = stored[(n - k) + 1]
    <2> SUFFICES ASSUME NEW k \in 1..m
                 PROVE  /\ (n - k) + 1 \in 1..n /\ Listing[k].id = (n - k) + 1
                        /\ Listing[k].feedback = stored[(n - k) + 1]
      OBVIOUS
    <2>1. k \in 1..n /\ (n - k) + 1 \in 1..n
      BY <1>1, <1>3
    <2>2. Listing[k] = [id |-> (n - k) + 1, feedback |-> stored[(n - k) + 1]]
      BY <1>4, <1>6, <1>9, <2>1
    <2> QED
      BY <2>1, <2>2
  <1>11. \A i, j \in 1..m : i < j => Listing[i].id > Listing[j].id
    BY <1>1, <1>3, <1>10
  <1>12. Listing \in Lists
    <2>1. Len(Listing) <= Limit
      BY <1>3, <1>9
    <2>2. \A i, j \in DOMAIN Listing : i < j => Listing[i].id > Listing[j].id
      BY <1>9, <1>11
    <2> QED
      BY <1>9, <2>1, <2>2 DEF Lists, Row
  <1>13. \A k \in DOMAIN Listing : /\ Listing[k].id \in DOMAIN stored
                                   /\ Listing[k].feedback = stored[Listing[k].id]
    BY <1>1, <1>9, <1>10
  <1> QED
    BY <1>12, <1>13

\* A click changes the feedback of its own row only and leaves the list a list.
LEMMA ShownKeepsTheList ==
    ASSUME NEW logs \in Lists, NEW id, NEW type \in Feedback
    PROVE  /\ Shown(logs, id, type) \in Lists
           /\ DOMAIN Shown(logs, id, type) = DOMAIN logs
           /\ \A i \in DOMAIN logs :
                  /\ Shown(logs, id, type)[i].id = logs[i].id
                  /\ Shown(logs, id, type)[i].feedback =
                         IF logs[i].id = id THEN type ELSE logs[i].feedback
  <1> DEFINE shown == Shown(logs, id, type)
             Row == [id : 1..MaxRows, feedback : Feedback]
  <1>1. logs \in Seq(Row) /\ Len(logs) <= Limit
        /\ \A i, j \in DOMAIN logs : i < j => logs[i].id > logs[j].id
    BY DEF Lists
  <1>2. DOMAIN logs = 1..Len(logs) /\ Len(logs) \in Nat /\ \A i \in DOMAIN logs : logs[i] \in Row
    <2> HIDE DEF Row
    <2> QED
      BY <1>1
  <1>3. DOMAIN shown = DOMAIN logs
        /\ \A i \in DOMAIN logs :
               shown[i] = IF logs[i].id = id THEN [logs[i] EXCEPT !.feedback = type] ELSE logs[i]
    BY DEF Shown
  <1>4. \A i \in DOMAIN logs : /\ shown[i] \in Row /\ shown[i].id = logs[i].id
                               /\ shown[i].feedback =
                                      IF logs[i].id = id THEN type ELSE logs[i].feedback
    <2> SUFFICES ASSUME NEW i \in DOMAIN logs
                 PROVE  /\ shown[i] \in Row /\ shown[i].id = logs[i].id
                        /\ shown[i].feedback =
                               IF logs[i].id = id THEN type ELSE logs[i].feedback
      OBVIOUS
    <2> HIDE DEF shown
    <2>1. logs[i] \in Row
      BY <1>2
    <2> QED
      BY <1>3, <2>1
  <1> HIDE DEF Row
  <1>5. shown \in Seq(Row) /\ Len(shown) = Len(logs)
    <2>1. shown = [i \in 1..Len(logs) |-> shown[i]]
      BY <1>2 DEF Shown
    <2> HIDE DEF shown
    <2> QED
      BY <1>2, <1>3, <1>4, <2>1
  <1> HIDE DEF shown
  <1>6. \A i, j \in DOMAIN shown : i < j => shown[i].id > shown[j].id
    BY <1>1, <1>3, <1>4
  <1>7. shown \in Lists
    BY <1>1, <1>5, <1>6 DEF Lists, Row
  <1> QED
    BY <1>3, <1>4, <1>7 DEF shown

----------------------------------------------------------------------------
(* The steps *)

\* No poll and no click ever leaves the columns and lists of the right form.
LEMMA ConsoleTypesKept == TypeOK /\ [Next]_vars => TypeOK'
  <1> SUFFICES ASSUME TypeOK, [Next]_vars PROVE TypeOK'
    OBVIOUS
  <1> DEFINE Responses == [status : {"none", "asked", "ok", "limited", "failed"}, logs : Lists]
  <1>0. MaxRows \in Nat /\ MaxFaults \in Nat /\ Limit \in Nat
    BY ConsoleAssumption DEF ConsoleAssumption
  <1>1. << >> \in Lists
    BY <1>0 DEF Lists
  <1>2. ASSUME NEW t \in Tabs, NEW f \in Fetches[t], NEW response \in Responses,
               SetFetch(t, f, response)
        PROVE  /\ fetch' = [u \in Tabs |-> [g \in Fetches[u] |-> fetch'[u][g]]]
               /\ \A u \in Tabs : \A g \in Fetches[u] : fetch'[u][g] \in Responses
    <2> HIDE DEF Responses
    <2>1. /\ fetch = [u \in Tabs |-> [g \in Fetches[u] |-> fetch[u][g]]]
          /\ \A u \in Tabs : \A g \in Fetches[u] : fetch[u][g] \in Responses
      BY DEF TypeOK, Responses
    <2>2. fetch' = [u \in Tabs |->
                        [g \in Fetches[u] |->
                            IF u = t /\ g = f THEN response ELSE fetch[u][g]]]
      BY <1>2, <2>1 DEF SetFetch
    <2>3. \A u \in Tabs : \A g \in Fetches[u] :
              fetch'[u][g] = IF u = t /\ g = f THEN response ELSE fetch[u][g]
      BY <2>2
    <2>4. fetch' = [u \in Tabs |-> [g \in Fetches[u] |-> fetch'[u][g]]]
      BY <2>2, <2>3
    <2> QED
      BY <2>1, <2>3, <2>4
  <1>3. CASE Insert
    <2>1. stored' \in Seq(Feedback) /\ Len(stored') = Len(stored) + 1 /\ Len(stored) < MaxRows
      BY <1>3 DEF TypeOK, Insert, Feedback
    <2>2. Len(stored') <= MaxRows
      <3>1. Len(stored) \in Nat
        BY DEF TypeOK
      <3> QED
        BY <1>0, <2>1, <3>1
    <2> QED
      BY <1>3, <2>1, <2>2 DEF TypeOK, Insert
  <1>4. ASSUME NEW t \in Tabs, NEW f \in Fetches[t], Poll(t, f) PROVE TypeOK'
    <2>1. Asked \in Responses
      BY <1>1 DEF Asked, Response
    <2> QED
      BY <1>2, <1>4, <2>1 DEF TypeOK, Poll
  <1>5. ASSUME NEW t \in Tabs, NEW f \in Fetches[t], GetChatLogs(t, f) PROVE TypeOK'
    <2>1. Response("ok", Listing) \in Responses
      BY ListingShowsTheTable DEF Response
    <2> QED
      BY <1>2, <1>5, <2>1 DEF TypeOK, GetChatLogs
  <1>6. ASSUME Fault PROVE faults' \in 0..MaxFaults
    BY <1>0, <1>6 DEF TypeOK, Fault
  <1>7. ASSUME NEW t \in Tabs, NEW f \in Fetches[t], GetFails(t, f) PROVE TypeOK'
    <2>1. \A status \in {"failed", "limited"} : Response(status, << >>) \in Responses
      BY <1>1 DEF Response
    <2> QED
      BY <1>2, <1>6, <1>7, <2>1 DEF TypeOK, GetFails
  <1>8. ASSUME NEW t \in Tabs, NEW f \in Fetches[t], FetchLogs(t, f) PROVE TypeOK'
    <2>1. NoFetch \in Responses
      BY <1>1 DEF NoFetch, Response
    <2>2. screen' \in [Tabs -> Lists]
      BY <1>8 DEF TypeOK, FetchLogs, SetLogs
    <2> QED
      BY <1>2, <1>8, <2>1, <2>2 DEF TypeOK, FetchLogs
  <1>9. ASSUME NEW t \in Tabs, NEW id \in 1..MaxRows, NEW type \in {"up", "down"},
               Click(t, id, type)
        PROVE  TypeOK'
    <2>1. [tab |-> t, id |-> id, feedback |-> type, stage |-> "sent", saved |-> FALSE] \in Puts
      BY <1>0 DEF Puts, Feedback, Stages
    <2> QED
      BY <1>9, <2>1 DEF TypeOK, Click
  <1>10. ASSUME NEW c \in Clicks, NEW stage \in Stages, SetStage(c, stage)
         PROVE  put' \in [Clicks -> Puts]
    <2>1. put[c] \in Puts
      BY DEF TypeOK
    <2>2. [put[c] EXCEPT !.stage = stage] \in Puts
      BY <2>1 DEF Puts
    <2> QED
      BY <1>10, <2>2 DEF TypeOK, SetStage
  <1>11. ASSUME NEW c \in Clicks, Save(c)
         PROVE  /\ put' \in [Clicks -> Puts]
                /\ stored' \in Seq(Feedback) /\ Len(stored') <= MaxRows
    <2>1. put[c].feedback \in Feedback
      BY DEF TypeOK, Puts
    <2>2. stored' \in Seq(Feedback) /\ Len(stored') = Len(stored)
      <3> DEFINE n == Len(stored)
      <3>1. n \in Nat /\ stored \in [1..n -> Feedback]
        BY DEF TypeOK
      <3>2. stored' \in [1..n -> Feedback]
        BY <1>11, <2>1, <3>1 DEF Save
      <3> HIDE DEF n
      <3>3. stored' = [i \in 1..n |-> stored'[i]] /\ \A i \in 1..n : stored'[i] \in Feedback
        BY <3>2
      <3>4. stored' \in Seq(Feedback) /\ Len(stored') = n
        BY <3>1, <3>3
      <3> QED
        BY <3>4 DEF n
    <2>3. put[c] \in Puts
      BY DEF TypeOK
    <2>4. [put[c] EXCEPT !.stage = "answered", !.saved = TRUE] \in Puts
      BY <2>3 DEF Puts, Stages
    <2>5. put' = [put EXCEPT ![c] = [put[c] EXCEPT !.stage = "answered", !.saved = TRUE]]
      BY <1>11 DEF Save, TypeOK
    <2> QED
      BY <2>2, <2>4, <2>5 DEF TypeOK
  <1>12. ASSUME NEW c \in Clicks, UpdateFeedback(c) PROVE TypeOK'
    BY <1>11, <1>12 DEF TypeOK, UpdateFeedback
  <1>13. ASSUME NEW c \in Clicks, UpdateRefused(c) PROVE TypeOK'
    BY <1>6, <1>10, <1>11, <1>13 DEF TypeOK, UpdateRefused, Stages
  <1>14. ASSUME NEW c \in Clicks, ShowFeedback(c) PROVE TypeOK'
    <2>1. put[c].feedback \in Feedback
      BY DEF TypeOK, Puts
    <2>2. screen' \in [Tabs -> Lists]
      BY <1>14, <2>1, ShownKeepsTheList DEF TypeOK, ShowFeedback
    <2> QED
      BY <1>10, <1>14, <2>2 DEF TypeOK, ShowFeedback, Stages
  <1>15. ASSUME NEW c \in Clicks, PutFails(c) PROVE TypeOK'
    BY <1>6, <1>10, <1>15 DEF TypeOK, PutFails, Stages
  <1>16. CASE UNCHANGED vars
    BY <1>16 DEF TypeOK, vars
  <1> QED
    BY <1>3, <1>4, <1>5, <1>7, <1>8, <1>9, <1>12, <1>13, <1>14, <1>15, <1>16
       DEF Next, FetchStep, PutStep

\* The clicks that are behind a feedback stay behind it.
LEMMA FeedbackStaysBacked ==
    ASSUME TypeOK, [Next]_vars, NEW id, NEW feedback
    PROVE  /\ Saved(id, feedback) => Saved(id, feedback)'
           /\ \A t \in Tabs : Seen(t, id, feedback) => Seen(t, id, feedback)'
  <1>1. ASSUME NEW c \in Clicks, put[c].feedback # "none"
        PROVE  /\ put'[c].id = put[c].id /\ put'[c].feedback = put[c].feedback
               /\ put'[c].tab = put[c].tab /\ (put[c].saved => put'[c].saved)
    <2>1. ASSUME NEW d \in Clicks, NEW stage, SetStage(d, stage)
          PROVE  /\ put'[c].id = put[c].id /\ put'[c].feedback = put[c].feedback
                 /\ put'[c].tab = put[c].tab /\ put'[c].saved = put[c].saved
      BY <2>1 DEF SetStage, TypeOK, Puts
    <2>2. ASSUME NEW d \in Clicks, Save(d)
          PROVE  /\ put'[c].id = put[c].id /\ put'[c].feedback = put[c].feedback
                 /\ put'[c].tab = put[c].tab /\ (put[c].saved => put'[c].saved)
      BY <2>2 DEF Save, TypeOK, Puts
    <2>3. ASSUME NEW t \in Tabs, NEW i \in 1..MaxRows, NEW type \in {"up", "down"},
                 Click(t, i, type)
          PROVE  put'[c] = put[c]
      <3>1. (CHOOSE d \in Unused : TRUE) \in Unused
        BY <2>3 DEF Click
      <3>2. c \notin Unused
        BY <1>1 DEF Unused, NoPut
      <3> QED
        BY <2>3, <3>1, <3>2 DEF Click, TypeOK
    <2>4. \/ \E d \in Clicks : Save(d) \/ \E stage \in Stages : SetStage(d, stage)
          \/ \E t \in Tabs, i \in 1..MaxRows, type \in {"up", "down"} : Click(t, i, type)
          \/ put' = put
      BY DEF Next, FetchStep, PutStep, UpdateFeedback, UpdateRefused, ShowFeedback, PutFails,
             Insert, Poll, GetChatLogs, GetFails, FetchLogs, vars, Stages
    <2> QED
      BY <2>1, <2>2, <2>3, <2>4
  <1> QED
    BY <1>1 DEF Saved, Seen

\* A step puts no feedback anywhere that no click is behind.
LEMMA FeedbackKeptBacked == ConsoleInv /\ [Next]_vars => FeedbackIsBacked'
  <1> SUFFICES ASSUME ConsoleInv, [Next]_vars PROVE FeedbackIsBacked'
    OBVIOUS
  <1> USE DEF ConsoleInv
  <1>0. \A id, feedback : Saved(id, feedback) => \A t : Seen(t, id, feedback)
    BY DEF Saved, Seen
  <1>1. ASSUME NEW i \in DOMAIN stored' PROVE Saved(i, stored[i])'
    <2>1. ASSUME i \in DOMAIN stored, stored'[i] = stored[i] PROVE Saved(i, stored[i])'
      <3>1. PICK feedback : feedback = stored[i] /\ Saved(i, feedback)
        BY <2>1 DEF FeedbackIsBacked
      <3>2. Saved(i, feedback)'
        BY <3>1, FeedbackStaysBacked
      <3> QED
        BY <2>1, <3>1, <3>2 DEF Saved
    <2>2. CASE Insert
      <3>1. \/ i \in DOMAIN stored /\ stored'[i] = stored[i]
            \/ stored'[i] = "none"
        BY <2>2 DEF Insert, TypeOK
      <3> QED
        BY <2>1, <3>1 DEF Saved
    <2>3. ASSUME NEW c \in Clicks, Save(c) PROVE Saved(i, stored[i])'
      <3>1. i \in DOMAIN stored
        BY <2>3 DEF Save, TypeOK
      <3>2. CASE i = put[c].id
        <4>1. stored'[i] = put[c].feedback
          BY <2>3, <3>1, <3>2 DEF Save, TypeOK
        <4>2. put'[c].id = i /\ put'[c].feedback = put[c].feedback /\ put'[c].saved
          BY <2>3, <3>2 DEF Save, TypeOK, Puts
        <4> QED
          BY <4>1, <4>2 DEF Saved
      <3>3. CASE i # put[c].id
        BY <2>1, <2>3, <3>1, <3>3 DEF Save, TypeOK
      <3> QED
        BY <3>2, <3>3
    <2>4. Insert \/ (\E c \in Clicks : Save(c)) \/ stored' = stored
      BY DEF Next, FetchStep, PutStep, UpdateFeedback, UpdateRefused, ShowFeedback, PutFails,
             Poll, GetChatLogs, GetFails, FetchLogs, Click, vars
    <2> QED
      BY <2>1, <2>2, <2>3, <2>4
  <1>2. ASSUME NEW t \in Tabs, NEW f \in Fetches[t], NEW i \in DOMAIN fetch'[t][f].logs
        PROVE  Saved(fetch[t][f].logs[i].id, fetch[t][f].logs[i].feedback)'
    <2>1. ASSUME NEW row, fetch'[t][f].logs[i] = row, Saved(row.id, row.feedback)
          PROVE  Saved(fetch[t][f].logs[i].id, fetch[t][f].logs[i].feedback)'
      <3>1. PICK id, feedback : id = row.id /\ feedback = row.feedback
        OBVIOUS
      <3>2. Saved(id, feedback)'
        BY <2>1, <3>1, FeedbackStaysBacked
      <3> QED
        BY <2>1, <3>1, <3>2 DEF Saved
    <2>2. ASSUME fetch'[t][f] = fetch[t][f]
          PROVE  Saved(fetch[t][f].logs[i].id, fetch[t][f].logs[i].feedback)'
      <3>1. Saved(fetch[t][f].logs[i].id, fetch[t][f].logs[i].feedback)
        BY <1>2, <2>2 DEF FeedbackIsBacked
      <3> QED
        BY <2>1, <2>2, <3>1
    <2>3. ASSUME NEW u \in Tabs, NEW g \in Fetches[u], NEW response, SetFetch(u, g, response)
          PROVE  fetch'[t][f] \in {response, fetch[t][f]}
      BY <2>3 DEF SetFetch, TypeOK
    <2>4. Asked.logs = << >> /\ NoFetch.logs = << >>
          /\ \A status : Response(status, << >>).logs = << >>
          /\ Response("ok", Listing).logs = Listing
      BY DEF Asked, NoFetch, Response
    <2>5. CASE fetch'[t][f] = Response("ok", Listing)
      <3>1. /\ Listing[i].id \in DOMAIN stored /\ Listing[i].feedback = stored[Listing[i].id]
            /\ fetch'[t][f].logs[i] = Listing[i]
        BY <1>2, <2>4, <2>5, ListingShowsTheTable
      <3>2. Saved(Listing[i].id, Listing[i].feedback)
        BY <3>1 DEF FeedbackIsBacked
      <3> QED
        BY <2>1, <3>1, <3>2
    <2>6. fetch'[t][f].logs # << >>
      BY <1>2
    <2>7. \/ \E u \in Tabs : \E g \in Fetches[u] :
                 \/ SetFetch(u, g, Asked) \/ SetFetch(u, g, NoFetch)
                 \/ SetFetch(u, g, Response("ok", Listing))
                 \/ \E status \in {"failed", "limited"} : SetFetch(u, g, Response(status, << >>))
          \/ fetch' = fetch
      BY DEF Next, FetchStep, PutStep, UpdateFeedback, UpdateRefused, ShowFeedback, PutFails,
             Insert, Poll, GetChatLogs, GetFails, FetchLogs, Click, vars
    <2> QED
      BY <2>2, <2>3, <2>4, <2>5, <2>6, <2>7
  <1>3. ASSUME NEW t \in Tabs, NEW i \in DOMAIN screen'[t]
        PROVE  Seen(t, screen[t][i].id, screen[t][i].feedback)'
    <2>1. ASSUME NEW row, screen'[t][i].id = row.id, screen'[t][i].feedback = row.feedback,
                 Seen(t, row.id, row.feedback)
          PROVE  Seen(t, screen[t][i].id, screen[t][i].feedback)'
      <3>1. PICK id, feedback : id = row.id /\ feedback = row.feedback
        OBVIOUS
      <3>2. Seen(t, id, feedback)'
        BY <2>1, <3>1, FeedbackStaysBacked
      <3> QED
        BY <2>1, <3>1, <3>2 DEF Seen
    <2>2. ASSUME screen'[t] = screen[t]
          PROVE  Seen(t, screen[t][i].id, screen[t][i].feedback)'
      <3>1. Seen(t, screen[t][i].id, screen[t][i].feedback)
        BY <1>3, <2>2 DEF FeedbackIsBacked
      <3> QED
        BY <2>1, <2>2, <3>1
    <2>3. ASSUME NEW u \in Tabs, NEW f \in Fetches[u], FetchLogs(u, f)
          PROVE  Seen(t, screen[t][i].id, screen[t][i].feedback)'
      <3>1. screen'[t] = screen[t] \/ (u = t /\ screen'[t] = fetch[t][f].logs)
        BY <2>3 DEF FetchLogs, SetLogs, TypeOK
      <3>2. CASE u = t /\ screen'[t] = fetch[t][f].logs
        <4>1. Saved(fetch[t][f].logs[i].id, fetch[t][f].logs[i].feedback)
          BY <1>3, <3>2 DEF FeedbackIsBacked
        <4> QED
          BY <1>0, <2>1, <3>2, <4>1
      <3> QED
        BY <2>2, <3>1, <3>2
    <2>4. ASSUME NEW c \in Clicks, ShowFeedback(c)
          PROVE  Seen(t, screen[t][i].id, screen[t][i].feedback)'
      <3> DEFINE shown == Shown(screen[t], put[c].id, put[c].feedback)
      <3>1. screen'[t] = screen[t] \/ (put[c].tab = t /\ screen'[t] = shown)
        BY <2>4 DEF ShowFeedback, TypeOK
      <3>2. CASE put[c].tab = t /\ screen'[t] = shown
        <4>1. /\ put[c].feedback \in Feedback
              /\ put'[c].tab = put[c].tab /\ put'[c].id = put[c].id
              /\ put'[c].feedback = put[c].feedback
          BY <2>4 DEF ShowFeedback, SetStage, TypeOK, Puts
        <4>2. /\ i \in DOMAIN screen[t] /\ shown[i].id = screen[t][i].id
              /\ shown[i].feedback = IF screen[t][i].id = put[c].id
                                     THEN put[c].feedback ELSE screen[t][i].feedback
          BY <1>3, <3>2, <4>1, ShownKeepsTheList DEF TypeOK
        <4> HIDE DEF shown
        <4>3. CASE screen[t][i].id = put[c].id
          BY <3>2, <4>1, <4>2, <4>3 DEF Seen
        <4>4. CASE screen[t][i].id # put[c].id
          <5>1. Seen(t, screen[t][i].id, screen[t][i].feedback)
            BY <4>2 DEF FeedbackIsBacked
          <5> QED
            BY <2>1, <3>2, <4>2, <4>4, <5>1
        <4> QED
          BY <4>3, <4>4
      <3> QED
        BY <2>2, <3>1, <3>2
    <2>5. \/ \E u \in Tabs : \E f \in Fetches[u] : FetchLogs(u, f)
          \/ \E c \in Clicks : ShowFeedback(c)
          \/ screen' = screen
      BY DEF Next, FetchStep, PutStep, UpdateFeedback, UpdateRefused, PutFails,
             Insert, Poll, GetChatLogs, GetFails, Click, vars
    <2> QED
      BY <2>2, <2>3, <2>4, <2>5
  <1> QED
    BY <1>1, <1>2, <1>3 DEF FeedbackIsBacked

----------------------------------------------------------------------------
(* The theorems *)

\* Every feedback on its way to a list is one that was stored, or clicked in that tab.
THEOREM ConsoleInvariant == Spec => []ConsoleInv
  <1>1. Init => ConsoleInv
    <2> SUFFICES ASSUME Init PROVE ConsoleInv
      OBVIOUS
    <2>1. << >> \in Lists /\ NoPut \in Puts /\ 0 \in 0..MaxFaults /\ 0 <= MaxRows
      BY ConsoleAssumption DEF ConsoleAssumption, Lists, NoPut, Puts, Feedback, Stages
    <2>2. TypeOK
      BY <2>1 DEF Init, TypeOK, NoFetch, Response
    <2>3. FeedbackIsBacked
      BY DEF Init, FeedbackIsBacked, NoFetch, Response
    <2> QED
      BY <2>2, <2>3 DEF ConsoleInv
  <1>2. ConsoleInv /\ [Next]_vars => ConsoleInv'
    BY ConsoleTypesKept, FeedbackKeptBacked DEF ConsoleInv
  <1> QED
    BY <1>1, <1>2, PTL DEF Spec

\* Every list is one the API can answer, newest first and no row twice, whichever
\* responses overtake each other.
THEOREM ConsoleTypeCorrect == Spec => []TypeOK
  <1>1. ConsoleInv => TypeOK
    BY DEF ConsoleInv
  <1> QED
    BY <1>1, ConsoleInvariant, PTL

\* What a tab shows was clicked there or has been stored.
THEOREM ConsoleUnsavedStaysLocal == Spec => []UnsavedStaysLocal
  <1>1. ConsoleInv => UnsavedStaysLocal
    BY DEF ConsoleInv, FeedbackIsBacked, Seen, UnsavedStaysLocal
  <1> QED
    BY <1>1, ConsoleInvariant, PTL
=============================================================================
