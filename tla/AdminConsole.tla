---------------------------- MODULE AdminConsole ----------------------------
(****************************************************************************)
(* The admin dashboard: dashboard/app/page.tsx in several browsers, each    *)
(* polling GET /api/logs every two seconds and sending PUT feedback, the    *)
(* two endpoints of app/api/logs.py behind the rate limit, and chat_logs.   *)
(*                                                                          *)
(* setInterval does not wait for the fetch before: polls overlap, and their *)
(* responses arrive in any order among themselves and among those of PUTs.  *)
(****************************************************************************)
EXTENDS Naturals, Sequences, SequencesExt

CONSTANTS
    Tabs,               \* browsers with the page open
    Fetches,            \* bound: the polls of each tab under way at a time
    Clicks,             \* bound: the clicks on a feedback button, each used once
    Limit,              \* rows list_chat_logs returns, 100 in the code
    MaxRows,            \* bound on the rows of chat_logs
    MaxFaults           \* bound on the requests that fail

ASSUME ConsoleAssumption ==
    /\ {Limit, MaxRows, MaxFaults} \subseteq Nat
    /\ Limit > 0

VARIABLES
    stored,     \* the feedback column of chat_logs, in the order of created_at
    screen,     \* logs, what each tab shows
    broken,     \* tabs whose rendering raised
    fetch,      \* the polls under way
    put,        \* the PUT each click sent, and whether it reached the table
    faults

vars == <<stored, screen, broken, fetch, put, faults>>

Feedback == {"none", "up", "down"}

\* Mutated form of Listing: the rows come in the order they were written.
ListingOldestFirst ==
    LET rows == [i \in DOMAIN stored |-> [id |-> i, feedback |-> stored[i]]]
    IN  SubSeq(rows, 1, IF Len(rows) < Limit THEN Len(rows) ELSE Limit)

\* The newest rows first, at most Limit of them.
Listing ==
    LET newest == Reverse([i \in DOMAIN stored |-> [id |-> i, feedback |-> stored[i]]])
    IN  SubSeq(newest, 1, IF Len(newest) < Limit THEN Len(newest) ELSE Limit)

Response(status, logs) == [status |-> status, logs |-> logs]
NoFetch == Response("none", << >>)
Asked == Response("asked", << >>)

NoPut == [tab |-> "none", id |-> 0, feedback |-> "none", stage |-> "none", saved |-> FALSE]

Stages == {"none", "sent", "answered", "over"}

Puts == [tab : Tabs \cup {"none"}, id : 0..MaxRows, feedback : Feedback, stage : Stages,
         saved : BOOLEAN]

\* What a list may be: no row twice, and the newest first.
Lists == {logs \in Seq([id : 1..MaxRows, feedback : Feedback]) :
              /\ Len(logs) <= Limit
              /\ \A i, j \in DOMAIN logs : i < j => logs[i].id > logs[j].id}

TypeOK ==
    /\ stored \in Seq(Feedback) /\ Len(stored) <= MaxRows
    /\ screen \in [Tabs -> Lists]
    /\ broken \subseteq Tabs
    /\ fetch = [t \in Tabs |-> [f \in Fetches[t] |-> fetch[t][f]]]
    /\ \A t \in Tabs : \A f \in Fetches[t] :
           fetch[t][f] \in [status : {"none", "asked", "ok", "limited", "failed"}, logs : Lists]
    /\ put \in [Clicks -> Puts]
    /\ faults \in 0..MaxFaults

Init ==
    /\ stored = << >>
    /\ screen = [t \in Tabs |-> << >>]
    /\ broken = {}
    /\ fetch = [t \in Tabs |-> [f \in Fetches[t] |-> NoFetch]]
    /\ put = [c \in Clicks |-> NoPut]
    /\ faults = 0

Fault == faults < MaxFaults /\ faults' = faults + 1

----------------------------------------------------------------------------
\* create_chat_log.
Insert ==
    /\ Len(stored) < MaxRows
    /\ stored' = Append(stored, "none")
    /\ UNCHANGED <<screen, broken, fetch, put, faults>>

----------------------------------------------------------------------------
(* GET /api/logs *)

SetFetch(t, f, response) == fetch' = [fetch EXCEPT ![t][f] = response]

\* The page is mounted or the interval fires.
Poll(t, f) ==
    /\ t \notin broken
    /\ fetch[t][f] = NoFetch
    /\ SetFetch(t, f, Asked)
    /\ UNCHANGED <<stored, screen, broken, put, faults>>

\* One SELECT reads the rows.
GetChatLogs(t, f) ==
    /\ fetch[t][f] = Asked
    /\ SetFetch(t, f, Response("ok", Listing))
    /\ UNCHANGED <<stored, screen, broken, put, faults>>

\* The fetch rejects or the response is no JSON; or the rate limit answers 429.
GetFails(t, f) ==
    /\ Fault
    /\ fetch[t][f] = Asked
    /\ \E status \in {"failed", "limited"} : SetFetch(t, f, Response(status, << >>))
    /\ UNCHANGED <<stored, screen, broken, put>>

\* Mutated form of SetLogs: a feedback that is on the screen stays there.
SetLogsKeeping(old, new) ==
    [i \in DOMAIN new |->
        IF \E j \in DOMAIN old : old[j].id = new[i].id /\ old[j].feedback # "none"
        THEN CHOOSE row \in Range(old) : row.id = new[i].id
        ELSE new[i]]

\* The list is replaced as a whole.
SetLogs(old, new) == new

\* A 429 is JSON without logs: setLogs(undefined), and the next rendering raises.
FetchLogs(t, f) ==
    /\ fetch[t][f] \notin {NoFetch, Asked}
    /\ SetFetch(t, f, NoFetch)
    /\ screen' = IF fetch[t][f].status = "ok" /\ t \notin broken
                 THEN [screen EXCEPT ![t] = SetLogs(@, fetch[t][f].logs)]
                 ELSE screen
    /\ broken' = IF fetch[t][f].status = "limited" THEN broken \cup {t} ELSE broken
    /\ UNCHANGED <<stored, put, faults>>

----------------------------------------------------------------------------
(* PUT /api/logs/{id}/feedback *)

\* One click after another: those not used yet are interchangeable.
Unused == {c \in Clicks : put[c] = NoPut}

Click(t, id, type) ==
    /\ t \notin broken
    /\ \E i \in DOMAIN screen[t] : screen[t][i].id = id
    /\ Unused # {}
    /\ put' = [put EXCEPT ![CHOOSE c \in Unused : TRUE] =
                   [tab |-> t, id |-> id, feedback |-> type, stage |-> "sent", saved |-> FALSE]]
    /\ UNCHANGED <<stored, screen, broken, fetch, faults>>

SetStage(c, stage) == put' = [put EXCEPT ![c].stage = stage]

Save(c) ==
    /\ stored' = [stored EXCEPT ![put[c].id] = put[c].feedback]
    /\ put' = [put EXCEPT ![c].stage = "answered", ![c].saved = TRUE]

\* UPDATE and COMMIT; the SELECT after them finds the row.
UpdateFeedback(c) ==
    /\ put[c].stage = "sent"
    /\ Save(c)
    /\ UNCHANGED <<screen, broken, fetch, faults>>

\* Too many clicks in a minute are answered with 429, an exception before or after the
\* COMMIT with 500.
UpdateRefused(c) ==
    /\ Fault
    /\ put[c].stage = "sent"
    /\ \/ Save(c)
       \/ SetStage(c, "answered") /\ UNCHANGED stored
    /\ UNCHANGED <<screen, broken, fetch>>

\* Mutated form of Shown: the comparison with the id is left out.
ShownEverywhere(logs, id, type) ==
    [i \in DOMAIN logs |-> [logs[i] EXCEPT !.feedback = type]]

Shown(logs, id, type) ==
    [i \in DOMAIN logs |->
        IF logs[i].id = id THEN [logs[i] EXCEPT !.feedback = type] ELSE logs[i]]

\* Whatever the status of the response, the screen shows the feedback.
ShowFeedback(c) ==
    /\ put[c].stage = "answered"
    /\ SetStage(c, "over")
    /\ screen' = IF put[c].tab \in broken THEN screen
                 ELSE [screen EXCEPT ![put[c].tab] = Shown(@, put[c].id, put[c].feedback)]
    /\ UNCHANGED <<stored, broken, fetch, faults>>

\* The fetch rejects: the catch leaves the screen alone.
PutFails(c) ==
    /\ Fault
    /\ put[c].stage \in {"sent", "answered"}
    /\ SetStage(c, "over")
    /\ UNCHANGED <<stored, screen, broken, fetch>>

----------------------------------------------------------------------------

FetchStep(t, f) == Poll(t, f) \/ GetChatLogs(t, f) \/ FetchLogs(t, f)

PutStep(c) == UpdateFeedback(c) \/ ShowFeedback(c)

Next ==
    \/ Insert
    \/ \E t \in Tabs : \E f \in Fetches[t] : FetchStep(t, f) \/ GetFails(t, f)
    \/ \E t \in Tabs, id \in 1..MaxRows, type \in {"up", "down"} : Click(t, id, type)
    \/ \E c \in Clicks : PutStep(c) \/ UpdateRefused(c) \/ PutFails(c)

Spec == Init /\ [][Next]_vars

\* Intervals fire, and every request is answered.
Fairness ==
    /\ \A t \in Tabs : \A f \in Fetches[t] : WF_vars(FetchStep(t, f))
    /\ \A c \in Clicks : WF_vars(PutStep(c))

FairSpec == Spec /\ Fairness

----------------------------------------------------------------------------
(* Properties *)

\* A feedback that was refused, failed or is still under way shows nowhere but in the
\* tab where it was clicked: what another tab shows has been stored.
UnsavedStaysLocal ==
    \A t \in Tabs : \A i \in DOMAIN screen[t] :
        LET row == screen[t][i]
        IN  row.feedback # "none" =>
                \E c \in Clicks :
                    /\ put[c].id = row.id /\ put[c].feedback = row.feedback
                    /\ (put[c].tab = t \/ put[c].saved)

\* A poll that was answered late undoes a click on the screen, and a refused click is
\* shown as if it had been taken; but once the clicks and the failures end, every tab
\* that can still be rendered shows what is stored, for good.
ScreensConverge == <>[](\A t \in Tabs \ broken : screen[t] = Listing)
=============================================================================
