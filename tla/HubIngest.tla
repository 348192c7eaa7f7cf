------------------------------ MODULE HubIngest ------------------------------
(***************************************************************************)
(* The hub from an ingest request to the list of agents: the registry in   *)
(* memory, the samples and the agent catalog in SQLite, the diagnosis of a *)
(* CPU spike, the stale checker, and the end and start of the process.     *)
(*                                                                         *)
(* Requests of one agent may be handled at the same time, in any order and *)
(* more than once, which is what a client with a spool and retries sends.  *)
(* The writes to SQLite are made by a goroutine of each request.           *)
(*                                                                         *)
(* A snapshot is the time it was collected.                                *)
(***************************************************************************)
EXTENDS Naturals, Sequences, FiniteSets

CONSTANTS
    Agents,
    Handlers,      \* goroutines of the HTTP server
    RingCap,       \* snapshots kept per agent
    Load,          \* the CPU load in the snapshot collected at a time
    SpikeMin,      \* cpuSpikeMinPercent
    Interval,      \* of the stale checker
    StaleAfter, OfflineAfter,
    Retention,     \* how long samples are kept
    MaxTime,       \* bound: the clock
    MaxIngest,     \* bound: requests
    MaxFaults      \* bound: statements that fail, ends of the process

Times == 1 .. MaxTime

ASSUME ConstantsAssumption ==
    /\ RingCap \in Nat \ {0}
    /\ Load \in [Times -> Nat] /\ SpikeMin \in Nat
    /\ Interval \in Nat \ {0} /\ StaleAfter \in Nat /\ OfflineAfter \in Nat
    /\ StaleAfter <= OfflineAfter
    /\ Retention \in Nat /\ MaxTime \in Nat \ {0} /\ MaxIngest \in Nat /\ MaxFaults \in Nat

VARIABLES
    now,       \* the clock
    up,        \* whether the hub runs
    ring,      \* registry: the snapshots held of an agent, latest last
    lastSeen,  \* registry: lastSeen of an agent's summary, 0 if it has no entry
    raw,       \* table raw_samples
    catalog,   \* table hub_agents: first_seen and last_seen, 0 if there is no row
    insight,   \* table diagnostic_insights: the snapshot of the spike, 0 if none
    handler,   \* requests being handled
    writers,   \* goroutines that write a request to SQLite
    due,       \* when the stale checker's ticker fires
    scan,      \* agents the stale checker has found and not raised yet
    requests,  \* requests so far
    heard,     \* record: when an agent last pushed
    acked,     \* record: samples the hub answered for
    gone,      \* record: samples lost with the process or a statement, or expired
    alarms,    \* record: the AGENT_STALE events
    faults     \* failures so far

registryVars == <<ring, lastSeen>>
tableVars    == <<raw, catalog, insight>>
staleVars    == <<due, scan, alarms>>
recordVars   == <<heard, acked, gone>>
vars == <<now, up, registryVars, tableVars, handler, writers, staleVars, requests, recordVars, faults>>

Sample == [agent : Agents, at : Times]
Unknown == [first |-> 0, last |-> 0]

\* A request: its snapshot and the one before it, 0 if there is none.
Request == [pc : {"ingest", "evaluate"}, agent : Agents, at : Times, prev : 0 .. MaxTime]
Idle == [pc |-> "idle"]

Fault == faults < MaxFaults /\ faults' = faults + 1

Latest(a) == IF ring[a] = <<>> THEN 0 ELSE ring[a][Len(ring[a])]

Spike(p, s) == Load[p] > 0 /\ Load[s] >= 2 * Load[p] /\ Load[s] >= SpikeMin

-----------------------------------------------------------------------------
(* Starting: Open, with the catalog filled up from the samples, and Hydrate*)

MinOf(S) == CHOOSE x \in S : \A y \in S : x <= y
MaxOf(S) == CHOOSE x \in S : \A y \in S : x >= y

Stored(a) == {s.at : s \in {s \in raw : s.agent = a}}

Backfill ==
    [a \in Agents |-> IF catalog[a] # Unknown \/ Stored(a) = {} THEN catalog[a]
                      ELSE [first |-> MinOf(Stored(a)), last |-> MaxOf(Stored(a))]]

\* Mutated form of Hydrate: agents are taken to be seen at the start.
HydrateNow(rows) == [a \in Agents |-> IF rows[a] = Unknown THEN 0 ELSE now]

Hydrate(rows) == [a \in Agents |-> rows[a].last]

Init ==
    /\ now = 1 /\ up = TRUE
    /\ ring = [a \in Agents |-> <<>>] /\ lastSeen = [a \in Agents |-> 0]
    /\ raw = {} /\ catalog = [a \in Agents |-> Unknown] /\ insight = [a \in Agents |-> 0]
    /\ handler = [h \in Handlers |-> Idle] /\ writers = {}
    /\ due = now + Interval /\ scan = {}
    /\ requests = 0
    /\ heard = [a \in Agents |-> 0] /\ acked = {} /\ gone = {} /\ alarms = {} /\ faults = 0

NoEntries == [a \in Agents |-> 0]

Start(rows, entries) ==
    /\ ~up /\ up' = TRUE
    /\ catalog' = rows /\ lastSeen' = entries
    /\ due' = now + Interval
    /\ UNCHANGED <<now, ring, raw, insight, handler, writers, scan, alarms, requests,
                   heard, acked, gone>>

Boot == Start(Backfill, Hydrate(Backfill)) /\ UNCHANGED faults

\* The backfill or the reading of the catalog fails: the hub starts all the same.
BootFails ==
    /\ Fault
    /\ \E rows \in {catalog, Backfill} : \E entries \in {NoEntries, Hydrate(rows)} : Start(rows, entries)

\* The process ends: what is in memory goes with it.
Halt ==
    /\ up /\ Fault /\ up' = FALSE
    /\ ring' = [a \in Agents |-> <<>>] /\ lastSeen' = [a \in Agents |-> 0]
    /\ handler' = [h \in Handlers |-> Idle]
    /\ writers' = {} /\ scan' = {}
    /\ gone' = gone \cup {w.sample : w \in {w \in writers : w.todo = "sample"}}
    /\ UNCHANGED <<now, tableVars, due, alarms, requests, heard, acked>>

-----------------------------------------------------------------------------
(* handleIngest.                                                           *)

\* The snapshot before this one is read.
Begin(h, a, t) ==
    /\ up /\ handler[h].pc = "idle" /\ requests < MaxIngest /\ t <= now
    /\ handler' = [handler EXCEPT ![h] = [pc |-> "ingest", agent |-> a, at |-> t, prev |-> Latest(a)]]
    /\ requests' = requests + 1
    /\ UNCHANGED <<now, up, registryVars, tableVars, writers, staleVars, recordVars, faults>>

\* Mutated form of Pushed: one snapshot too many is kept.
PushedOneMore(s, t) ==
    LET longer == Append(s, t)
    IN  IF Len(longer) > RingCap + 1 THEN SubSeq(longer, Len(longer) - RingCap, Len(longer)) ELSE longer

\* Push: the ring is cut to its capacity.
Pushed(s, t) ==
    LET longer == Append(s, t)
    IN  IF Len(longer) > RingCap THEN SubSeq(longer, Len(longer) - RingCap + 1, Len(longer)) ELSE longer

\* Mutated form of Seen: the agent's own time is taken.
SeenCollected(h) == handler[h].at

\* lastSeen is the hub's time, whatever the age of the snapshot.
Seen(h) == now

\* Tells apart goroutines that write the same snapshot.
FreeId == CHOOSE n \in 0 .. MaxIngest : \A w \in writers : w.id # n

\* The registry has the snapshot, and a goroutine is started to write it.
Ingest(h) ==
    LET a == handler[h].agent
        t == handler[h].at
    IN  /\ up /\ handler[h].pc = "ingest"
        /\ ring' = [ring EXCEPT ![a] = Pushed(@, t)]
        /\ lastSeen' = [lastSeen EXCEPT ![a] = Seen(h)]
        /\ heard' = [heard EXCEPT ![a] = now]
        /\ handler' = [handler EXCEPT ![h].pc = "evaluate"]
        /\ writers' = writers \cup {[id |-> FreeId, todo |-> "sample",
                                     sample |-> [agent |-> a, at |-> t]]}
        /\ UNCHANGED <<now, up, tableVars, staleVars, requests, acked, gone, faults>>

Answered(h) ==
    /\ handler' = [handler EXCEPT ![h] = Idle]
    /\ acked' = acked \cup {[agent |-> handler[h].agent, at |-> handler[h].at]}
    /\ UNCHANGED <<now, up, registryVars, raw, catalog, writers, staleVars, requests, heard, gone>>

Spiked(h) == handler[h].prev # 0 /\ Spike(handler[h].prev, handler[h].at)

\* The diagnosis, and the answer.
Evaluate(h) ==
    /\ up /\ handler[h].pc = "evaluate"
    /\ insight' = IF Spiked(h) THEN [insight EXCEPT ![handler[h].agent] = handler[h].at] ELSE insight
    /\ Answered(h)
    /\ UNCHANGED faults

\* The insight cannot be saved: the hub answers all the same.
EvaluateUnsaved(h) ==
    /\ up /\ handler[h].pc = "evaluate" /\ Spiked(h) /\ Fault
    /\ Answered(h)
    /\ UNCHANGED insight

-----------------------------------------------------------------------------
(* The goroutine of a request.                                             *)

\* Mutated form of WithSample: the rows are keyed by the agent alone.
WithSampleOnly(s) == {r \in raw : r.agent # s.agent} \cup {s}

WithSample(s) == raw \cup {s}

WriterDone(w, more) ==
    /\ writers' = (writers \ {w}) \cup more
    /\ UNCHANGED <<now, up, registryVars, insight, handler, staleVars, requests, heard, acked>>

WriteSample(w) ==
    /\ w.todo = "sample"
    /\ raw' = WithSample(w.sample)
    /\ WriterDone(w, {[id |-> w.id, todo |-> "agent", sample |-> w.sample]})
    /\ UNCHANGED <<catalog, gone, faults>>

\* The catalog is updated though the sample could not be written.
WriteSampleFails(w) ==
    /\ w.todo = "sample" /\ Fault
    /\ gone' = gone \cup {w.sample}
    /\ WriterDone(w, {[id |-> w.id, todo |-> "agent", sample |-> w.sample]})
    /\ UNCHANGED <<raw, catalog>>

\* On a conflict first_seen is kept.
Upserted(row, t) == [first |-> IF row = Unknown THEN t ELSE row.first, last |-> t]

UpsertAgent(w) ==
    /\ w.todo = "agent"
    /\ catalog' = [catalog EXCEPT ![w.sample.agent] = Upserted(@, w.sample.at)]
    /\ WriterDone(w, {})
    /\ UNCHANGED <<raw, gone, faults>>

UpsertAgentFails(w) ==
    /\ w.todo = "agent" /\ Fault
    /\ WriterDone(w, {})
    /\ UNCHANGED <<raw, catalog, gone>>

-----------------------------------------------------------------------------
(* The stale checker, retention and time.                                  *)

\* The checker asks the registry for all agents; heard and live are records.
StaleScan ==
    /\ up /\ scan = {} /\ due <= now
    /\ scan' = {[agent |-> a, at |-> now, heard |-> heard[a], live |-> ring[a] # <<>>] :
                   a \in {a \in Agents : lastSeen[a] # 0 /\ lastSeen[a] + StaleAfter < now}}
    /\ due' = now + Interval
    /\ UNCHANGED <<now, up, registryVars, tableVars, handler, writers, alarms, requests, recordVars, faults>>

StaleRaise(r) ==
    /\ scan' = scan \ {r}
    /\ alarms' = alarms \cup {r}
    /\ UNCHANGED <<now, up, registryVars, tableVars, handler, writers, due, requests, recordVars, faults>>

Expired == {s \in raw : s.at + Retention < now}

DeleteExpired ==
    /\ up /\ Expired # {}
    /\ raw' = raw \ Expired
    /\ gone' = gone \cup Expired
    /\ UNCHANGED <<now, up, registryVars, catalog, insight, handler, writers, staleVars, requests, heard, acked, faults>>

Tick ==
    /\ now < MaxTime /\ now' = now + 1
    /\ UNCHANGED <<up, registryVars, tableVars, handler, writers, staleVars, requests, recordVars, faults>>

Next ==
    \/ Boot \/ BootFails \/ Halt
    \/ \E h \in Handlers, a \in Agents, t \in Times : Begin(h, a, t)
    \/ \E h \in Handlers : Ingest(h) \/ Evaluate(h) \/ EvaluateUnsaved(h)
    \/ \E w \in writers : WriteSample(w) \/ WriteSampleFails(w) \/ UpsertAgent(w) \/ UpsertAgentFails(w)
    \/ StaleScan
    \/ \E r \in scan : StaleRaise(r)
    \/ DeleteExpired
    \/ Tick

Spec == Init /\ [][Next]_vars

-----------------------------------------------------------------------------
(* GET /api/v1/agents and /api/v1/agents/{id}/current.                     *)

\* The registry is laid over the catalog; first_seen is the catalog's.
Listed == {a \in Agents : lastSeen[a] # 0 \/ catalog[a] # Unknown}
ListedLast(a) == IF lastSeen[a] # 0 THEN lastSeen[a] ELSE catalog[a].last

\* live, stale and offline, in this order.
Status(last) ==
    IF last = 0 THEN 2
    ELSE IF now < last + StaleAfter THEN 0 ELSE IF now < last + OfflineAfter THEN 1 ELSE 2

-----------------------------------------------------------------------------
TypeOK ==
    /\ now \in Times /\ up \in BOOLEAN
    /\ ring \in [Agents -> Seq(Times)] /\ lastSeen \in [Agents -> 0 .. MaxTime]
    /\ \A a \in Agents : Len(ring[a]) <= RingCap
    /\ raw \subseteq Sample
    /\ catalog \in [Agents -> [first : 0 .. MaxTime, last : 0 .. MaxTime]]
    /\ insight \in [Agents -> 0 .. MaxTime]
    /\ handler \in [Handlers -> Request \cup {Idle}]
    /\ \A w \in writers : w.todo \in {"sample", "agent"} /\ w.sample \in Sample
    /\ due \in Nat
    /\ scan \subseteq [agent : Agents, at : Times, heard : 0 .. MaxTime, live : BOOLEAN]
    /\ requests \in Nat /\ faults \in Nat
    /\ heard \in [Agents -> 0 .. MaxTime] /\ acked \subseteq Sample /\ gone \subseteq Sample
    /\ alarms \subseteq [agent : Agents, at : Times, heard : 0 .. MaxTime, live : BOOLEAN]

(* server_agents.go: the status shown of an agent is never better than the *)
(* time it last pushed allows, whatever restarts, backfills and late       *)
(* writes the summary went through.                                        *)
NeverShownFresher ==
    up => \A a \in Listed : Status(ListedLast(a)) >= Status(heard[a])

(* engine.go:99: AGENT_STALE is for agents that stopped pushing: not for   *)
(* one that pushed within StaleAfter of the checker's look at it, since    *)
(* the hub started, however old the snapshots it pushed.                   *)
StaleJustified ==
    \A r \in alarms : r.live => r.heard + StaleAfter < r.at

(* A sample the hub answered for is stored or being written, unless its    *)
(* statement failed, the process ended or retention deleted it.            *)
AckedStored ==
    acked \subseteq raw \cup gone \cup {w.sample : w \in {w \in writers : w.todo = "sample"}}

=============================================================================
