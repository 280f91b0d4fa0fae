------------------------------ MODULE Lifespan ------------------------------
(****************************************************************************)
(* The life of the worker processes: the lifespan of app/main.py with       *)
(* initialize_redis and initialize_rag, the readiness probe of app/api/     *)
(* health.py, and one vector store in PostgreSQL that all workers share.    *)
(*                                                                          *)
(* stage[w] is the await that worker w is suspended in while it starts or   *)
(* stops.  Processes crash and are started again; what PostgreSQL holds     *)
(* survives them, their module globals do not.                              *)
(****************************************************************************)
EXTENDS Naturals

CONSTANTS
    Workers,        \* worker processes
    Earlier,        \* whoever filled the vector store before this deployment
    MaxFaults       \* bound on outages, crashes and shutdowns

ASSUME LifespanAssumption ==
    /\ Earlier \notin Workers
    /\ MaxFaults \in Nat

VARIABLES
    up,             \* the dependencies that answer
    faqFile,        \* whether data/faq.txt was deployed
    copies,         \* copies[w]: how often w stored the chunks of the FAQ
    stage,          \* where each worker stands
    client,         \* redis_client._redis is set
    agent,          \* agent_executor_base and agent_executor are set
    probing,        \* the postgres_status of a probe that awaits Redis
    verdict,        \* what the load balancer heard last from /health
    faults          \* outages, crashes and shutdowns so far

vars == <<up, faqFile, copies, stage, client, agent, probing, verdict, faults>>

Deps == {"postgres", "redis", "openai"}

\* What the await of each stage of a start-up calls.
Needs == [postgres |-> {"postgres"}, redis |-> {"redis"},
          search |-> {"openai", "postgres"}, index |-> {"openai", "postgres"}]

Starting == DOMAIN Needs

Stages == Starting \cup {"down", "serving", "closing"}

StoreEmpty == \A w \in DOMAIN copies : copies[w] = 0

TypeOK ==
    /\ up \subseteq Deps
    /\ faqFile \in BOOLEAN
    /\ copies \in [Workers \cup {Earlier} -> Nat]
    /\ stage \in [Workers -> Stages]
    /\ client \in [Workers -> BOOLEAN]
    /\ agent \in [Workers -> BOOLEAN]
    /\ probing \in [Workers -> {"idle", "ok", "unavailable"}]
    /\ verdict \in [Workers -> {"none", "ok", "degraded"}]
    /\ faults \in 0..MaxFaults

Init ==
    /\ up = Deps
    /\ faqFile \in BOOLEAN
    /\ \E n \in {0, 1} : copies = [w \in Workers \cup {Earlier} |-> IF w = Earlier THEN n ELSE 0]
    /\ stage = [w \in Workers |-> "down"]
    /\ client = [w \in Workers |-> FALSE]
    /\ agent = [w \in Workers |-> FALSE]
    /\ probing = [w \in Workers |-> "idle"]
    /\ verdict = [w \in Workers |-> "none"]
    /\ faults = 0

Move(w, from, to) == stage[w] = from /\ stage' = [stage EXCEPT ![w] = to]

Answered(w) == Needs[stage[w]] \subseteq up

Health == <<probing, verdict>>
World == <<up, faqFile, faults>>

----------------------------------------------------------------------------
(* Start-up *)

Start(w) ==
    /\ Move(w, "down", "postgres")
    /\ UNCHANGED <<copies, client, agent, Health, World>>

\* SELECT 1 came back; from_url sets the singleton before its ping is awaited.
CheckPostgres(w) ==
    /\ Move(w, "postgres", "redis")
    /\ Answered(w)
    /\ client' = [client EXCEPT ![w] = TRUE]
    /\ UNCHANGED <<copies, agent, Health, World>>

PingRedis(w) ==
    /\ Move(w, "redis", "search")
    /\ Answered(w)
    /\ UNCHANGED <<copies, client, agent, Health, World>>

\* The rest of initialize_rag awaits nothing: it sets both executors, the lifespan
\* yields and the worker serves.
BuildAgent(w) ==
    /\ stage' = [stage EXCEPT ![w] = "serving"]
    /\ agent' = [agent EXCEPT ![w] = TRUE]

\* Mutated form of FindIndexed: the agent is built only by whoever fills the
\* store.
FindIndexedAndReturn(w) ==
    /\ Move(w, "search", "serving")
    /\ Answered(w)
    /\ ~StoreEmpty
    /\ UNCHANGED <<copies, client, agent, Health, World>>

FindIndexed(w) ==
    /\ stage[w] = "search"
    /\ Answered(w)
    /\ ~StoreEmpty
    /\ BuildAgent(w)
    /\ UNCHANGED <<copies, client, Health, World>>

\* Mutated form of FindEmpty: every start fills the store.
FindAnything(w) ==
    /\ Move(w, "search", "index")
    /\ Answered(w)
    /\ faqFile
    /\ UNCHANGED <<copies, client, agent, Health, World>>

FindEmpty(w) ==
    /\ Move(w, "search", "index")
    /\ Answered(w)
    /\ StoreEmpty
    /\ faqFile
    /\ UNCHANGED <<copies, client, agent, Health, World>>

\* Without the file initialize_rag returns early, and the worker serves all the same.
FindNoFile(w) ==
    /\ Move(w, "search", "serving")
    /\ Answered(w)
    /\ StoreEmpty
    /\ ~faqFile
    /\ UNCHANGED <<copies, client, agent, Health, World>>

\* aadd_documents inserts all chunks in one transaction.
AddDocuments(w) ==
    /\ stage[w] = "index"
    /\ Answered(w)
    /\ copies' = [copies EXCEPT ![w] = @ + 1]
    /\ BuildAgent(w)
    /\ UNCHANGED <<client, Health, World>>

----------------------------------------------------------------------------
(* The end of a process *)

Die(w) ==
    /\ stage' = [stage EXCEPT ![w] = "down"]
    /\ client' = [client EXCEPT ![w] = FALSE]
    /\ agent' = [agent EXCEPT ![w] = FALSE]
    /\ probing' = [probing EXCEPT ![w] = "idle"]
    /\ verdict' = [verdict EXCEPT ![w] = "none"]

\* Mutated form of Abort: the exception is logged and not raised again: the worker
\* serves without an agent.
AbortSwallowed(w) ==
    /\ stage[w] \in Starting
    /\ ~Answered(w)
    /\ stage' = [stage EXCEPT ![w] = "serving"]
    /\ UNCHANGED <<copies, client, agent, Health, World>>

\* The lifespan lets every exception of a check through: the worker does not start.
Abort(w) ==
    /\ stage[w] \in Starting
    /\ ~Answered(w)
    /\ Die(w)
    /\ UNCHANGED <<copies, World>>

Fault == faults < MaxFaults /\ faults' = faults + 1

Crash(w) ==
    /\ Fault
    /\ stage[w] # "down"
    /\ Die(w)
    /\ UNCHANGED <<up, faqFile, copies>>

\* The chunks are committed and the worker does not live to hear of it.
CrashAfterCommit(w) ==
    /\ Fault
    /\ stage[w] = "index"
    /\ Answered(w)
    /\ copies' = [copies EXCEPT ![w] = @ + 1]
    /\ Die(w)
    /\ UNCHANGED <<up, faqFile>>

Shutdown(w) ==
    /\ Fault
    /\ Move(w, "serving", "closing")
    /\ UNCHANGED <<up, faqFile, copies, client, agent, Health>>

\* close_redis resets the singleton, the engine is disposed of and the process ends.
CloseRedis(w) ==
    /\ stage[w] = "closing"
    /\ Die(w)
    /\ UNCHANGED <<copies, World>>

Outage(d) ==
    /\ Fault
    /\ d \in up
    /\ up' = up \ {d}
    /\ UNCHANGED <<faqFile, copies, stage, client, agent, Health>>

Recover(d) ==
    /\ d \notin up
    /\ up' = up \cup {d}
    /\ UNCHANGED <<faqFile, copies, stage, client, agent, Health, faults>>

----------------------------------------------------------------------------
(* GET /health, two checks one after the other *)

HealthPostgres(w) ==
    /\ stage[w] = "serving"
    /\ probing[w] = "idle"
    /\ probing' = [probing EXCEPT ![w] = IF "postgres" \in up THEN "ok" ELSE "unavailable"]
    /\ UNCHANGED <<copies, stage, client, agent, verdict, World>>

\* ping() is False when the singleton is not set or Redis does not answer.
RedisPing(w) == client[w] /\ "redis" \in up

\* Mutated form of HealthRedis: a probe that failed once sticks.
HealthRedisSticky(w) ==
    /\ stage[w] = "serving"
    /\ probing[w] # "idle"
    /\ verdict' = [verdict EXCEPT ![w] =
           IF verdict[w] # "degraded" /\ probing[w] = "ok" /\ RedisPing(w)
           THEN "ok" ELSE "degraded"]
    /\ probing' = [probing EXCEPT ![w] = "idle"]
    /\ UNCHANGED <<copies, stage, client, agent, World>>

HealthRedis(w) ==
    /\ stage[w] = "serving"
    /\ probing[w] # "idle"
    /\ verdict' = [verdict EXCEPT ![w] =
           IF probing[w] = "ok" /\ RedisPing(w) THEN "ok" ELSE "degraded"]
    /\ probing' = [probing EXCEPT ![w] = "idle"]
    /\ UNCHANGED <<copies, stage, client, agent, World>>

----------------------------------------------------------------------------

StartupStep(w) ==
    \/ Start(w)
    \/ CheckPostgres(w)
    \/ PingRedis(w)
    \/ FindIndexed(w)
    \/ FindEmpty(w)
    \/ FindNoFile(w)
    \/ AddDocuments(w)
    \/ Abort(w)

ProbeStep(w) == HealthPostgres(w) \/ HealthRedis(w)

Next ==
    \/ \E w \in Workers :
           \/ StartupStep(w)
           \/ ProbeStep(w)
           \/ CloseRedis(w)
           \/ Crash(w)
           \/ CrashAfterCommit(w)
           \/ Shutdown(w)
    \/ \E d \in Deps : Outage(d) \/ Recover(d)

Spec == Init /\ [][Next]_vars

\* The event loop goes on with a start or a stop, a supervisor starts what ended,
\* the load balancer keeps probing, and a dependency that is down comes back.
Fairness ==
    /\ \A w \in Workers : /\ WF_vars(StartupStep(w))
                          /\ WF_vars(ProbeStep(w))
                          /\ WF_vars(CloseRedis(w))
    /\ \A d \in Deps : WF_vars(Recover(d))

FairSpec == Spec /\ Fairness

----------------------------------------------------------------------------
(* Properties *)

\* Workers that start together may each store the FAQ, but none does so twice,
\* whatever crashes in between, and none where it was stored before.
FaqCopiesBounded ==
    /\ \A w \in Workers : copies[w] <= 1
    /\ copies[Earlier] > 0 => \A w \in Workers : copies[w] = 0

\* A worker that serves has its Redis client, and it has an agent unless there was
\* neither a FAQ file nor anything in the store: otherwise every message would get
\* the fallback while /health says ok.
ServingWorkersAreWhole ==
    \A w \in Workers :
        stage[w] = "serving" =>
            /\ client[w]
            /\ agent[w] \/ (StoreEmpty /\ ~faqFile)

\* Once the faults end, every worker gets up, is found ready and gets traffic for
\* good, wherever the outages and crashes caught it.
TrafficReturns == <>[](\A w \in Workers : verdict[w] = "ok")

\* What makes FaqCopiesBounded inductive: a worker about to store the FAQ has not
\* done so yet, and nobody did before this deployment.
LifespanInv ==
    /\ TypeOK
    /\ FaqCopiesBounded
    /\ ServingWorkersAreWhole
    /\ \A w \in Workers :
           /\ stage[w] = "index" =>
                  faqFile /\ copies[w] = 0 /\ copies[Earlier] = 0
           /\ stage[w] \in {"redis", "search", "index", "serving"} => client[w]
           /\ copies[w] > 0 => faqFile
=============================================================================
