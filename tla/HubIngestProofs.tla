-------------------------- MODULE HubIngestProofs --------------------------
(***************************************************************************)
(* Safety theorems of HubIngest, for every number of agents and handlers,  *)
(* every capacity, interval and bound.                                     *)
(*                                                                         *)
(* None of the three properties is inductive.  What the list shows comes   *)
(* from the registry, the catalog, the samples and the goroutines, so      *)
(* HeardOK bounds each of them by the time the agent was last heard; the   *)
(* stale checker is right because an agent with a snapshot in memory has   *)
(* the time of its last push beside it (RingOK); and an answered sample is *)
(* kept because it was already when its request was diagnosed (AckOK).     *)
(***************************************************************************)
EXTENDS HubIngest, WellFoundedInduction, TLAPS

Pending == {w.sample : w \in {w \in writers : w.todo = "sample"}}
Kept    == raw \cup gone \cup Pending

\* Nothing the hub holds of an agent is newer than its last push.
HeardOK ==
    /\ \A a \in Agents : heard[a] <= now /\ lastSeen[a] <= heard[a] /\ catalog[a].last <= heard[a]
    /\ \A s \in raw : s.at <= heard[s.agent]
    /\ \A w \in writers : w.sample.at <= heard[w.sample.agent]
    /\ \A h \in Handlers : handler[h].pc # "idle" => handler[h].at <= now

\* An agent with a snapshot in memory has pushed to this process.
RingOK == \A a \in Agents : ring[a] # <<>> => up /\ lastSeen[a] = heard[a]

StaleOK == \A r \in scan \cup alarms : r.live => r.heard + StaleAfter < r.at

\* A request that is diagnosed is kept already.
AckOK ==
    /\ AckedStored
    /\ \A h \in Handlers : handler[h].pc = "evaluate" =>
          [agent |-> handler[h].agent, at |-> handler[h].at] \in Kept

IInv == TypeOK /\ HeardOK /\ RingOK /\ StaleOK /\ AckOK

Rows == [first : 0 .. MaxTime, last : 0 .. MaxTime]
Alarms == [agent : Agents, at : Times, heard : 0 .. MaxTime, live : BOOLEAN]

-----------------------------------------------------------------------------
(* The operators of the hub.                                               *)

\* A set of times has an oldest and a newest one.
LEMMA Extremes ==
  ASSUME ConstantsAssumption, NEW S \in SUBSET Times, S # {}
  PROVE  MinOf(S) \in S /\ MaxOf(S) \in S
<1>1. \A T \in SUBSET Nat : T # {} => \E x \in T : \A y \in T : x <= y
  <2> DEFINE Less == {ss \in Nat \X Nat : ss[1] < ss[2]}
  <2>1. IsWellFoundedOn(Less, Nat)
    BY NatLessThanWellFounded DEF OpToRel
  <2>2. \A x, y \in Nat : <<y, x>> \notin Less => x <= y
    OBVIOUS
  <2> HIDE DEF Less
  <2>3. ASSUME NEW T \in SUBSET Nat, T # {}
        PROVE  \E x \in T : \A y \in T : x <= y
    <3>1. \E x \in T : \A y \in T : ~(<<y, x>> \in Less)
      BY <2>1, <2>3, WFMin
    <3> QED
      BY <2>2, <2>3, <3>1
  <2> QED
    BY <2>3
<1>2. MinOf(S) \in S
  <2>1. \E x \in S : \A y \in S : x <= y
    BY <1>1 DEF Times
  <2> QED
    BY <2>1 DEF MinOf
<1>3. MaxOf(S) \in S
  <2> DEFINE T == {MaxTime - x : x \in S}
  <2>1. T \in SUBSET Nat /\ T # {}
    <3>1. \A x \in S : MaxTime - x \in Nat
      BY DEF Times, ConstantsAssumption
    <3> QED
      BY <3>1
  <2>2. PICK x \in T : \A y \in T : x <= y
    BY <1>1, <2>1
  <2>3. PICK m \in S : x = MaxTime - m
    OBVIOUS
  <2>4. \A y \in S : m >= y
    <3> SUFFICES ASSUME NEW y \in S PROVE m >= y
      OBVIOUS
    <3>1. MaxTime - m <= MaxTime - y
      BY <2>2, <2>3
    <3>2. m \in Nat /\ y \in Nat /\ MaxTime \in Nat
      BY DEF Times, ConstantsAssumption
    <3> QED
      BY <3>1, <3>2
  <2> QED
    BY <2>4 DEF MaxOf
<1> QED
  BY <1>2, <1>3

\* What Backfill makes of the catalog is typed and no newer than the pushes.
LEMMA BackfillFacts ==
  ASSUME ConstantsAssumption, TypeOK, HeardOK
  PROVE  /\ Backfill \in [Agents -> Rows]
         /\ \A a \in Agents : Backfill[a].last <= heard[a]
<1> SUFFICES ASSUME NEW a \in Agents
             PROVE  Backfill[a] \in Rows /\ Backfill[a].last <= heard[a]
  BY DEF Backfill
<1>1. CASE catalog[a] # Unknown \/ Stored(a) = {}
  BY <1>1 DEF Backfill, TypeOK, HeardOK, Rows
<1>2. CASE ~(catalog[a] # Unknown \/ Stored(a) = {})
  <2>1. Stored(a) \in SUBSET Times
    <3>1. \A s \in raw : s.at \in Times
      BY DEF TypeOK, Sample
    <3> QED
      BY <3>1 DEF Stored
  <2>2. MinOf(Stored(a)) \in Stored(a) /\ MaxOf(Stored(a)) \in Stored(a)
    BY <1>2, <2>1, Extremes
  <2>3. \A t \in Stored(a) : t <= heard[a]
    BY DEF Stored, HeardOK
  <2>4. Backfill[a] = [first |-> MinOf(Stored(a)), last |-> MaxOf(Stored(a))]
    BY <1>2 DEF Backfill
  <2>5. \A t \in Times : t \in 0 .. MaxTime
    BY DEF Times, ConstantsAssumption
  <2> QED
    BY <2>1, <2>2, <2>3, <2>4, <2>5 DEF Rows
<1> QED
  BY <1>1, <1>2

LEMMA PushedFacts ==
  ASSUME ConstantsAssumption, NEW s \in Seq(Times), NEW t \in Times
  PROVE  Pushed(s, t) \in Seq(Times) /\ Len(Pushed(s, t)) <= RingCap
<1> DEFINE longer == Append(s, t)
<1>1. longer \in Seq(Times) /\ Len(longer) \in Nat
  OBVIOUS
<1>2. CASE Len(longer) > RingCap
  <2> DEFINE m == Len(longer) - RingCap + 1
  <2>1. m \in 1 .. Len(longer) /\ Len(longer) - m + 1 = RingCap
    BY <1>1, <1>2 DEF ConstantsAssumption
  <2>2. SubSeq(longer, m, Len(longer)) \in Seq(Times) /\ Len(SubSeq(longer, m, Len(longer))) = RingCap
    BY <1>1, <2>1 DEF ConstantsAssumption
  <2> QED
    BY <1>2, <2>2 DEF Pushed, ConstantsAssumption
<1>3. CASE ~(Len(longer) > RingCap)
  BY <1>1, <1>3 DEF Pushed, ConstantsAssumption
<1> QED
  BY <1>2, <1>3

LEMMA LatestType ==
  ASSUME ConstantsAssumption, TypeOK, NEW a \in Agents
  PROVE  Latest(a) \in 0 .. MaxTime
BY DEF TypeOK, Latest, Times, ConstantsAssumption

\* A request that is under way.
LEMMA RequestFacts ==
  ASSUME TypeOK, NEW h \in Handlers, handler[h].pc # "idle"
  PROVE  handler[h] \in Request
BY DEF TypeOK, Idle

-----------------------------------------------------------------------------
(* Types.                                                                  *)

LEMMA InitIInv ==
  ASSUME ConstantsAssumption, Init
  PROVE  IInv
<1>1. TypeOK
  BY DEF ConstantsAssumption, Init, TypeOK, Times, Unknown, Idle
<1> QED
  BY <1>1 DEF ConstantsAssumption, Init, IInv, HeardOK, RingOK, StaleOK, AckOK, AckedStored, Idle,
              Unknown, Times

LEMMA StartType ==
  ASSUME ConstantsAssumption, TypeOK, HeardOK, Boot \/ BootFails
  PROVE  TypeOK'
<1>1. PICK rows \in [Agents -> Rows], entries \in [Agents -> 0 .. MaxTime] : Start(rows, entries)
  <2>1. Backfill \in [Agents -> Rows] /\ catalog \in [Agents -> Rows]
    BY BackfillFacts DEF TypeOK, Rows
  <2>2. \A rows \in [Agents -> Rows] : Hydrate(rows) \in [Agents -> 0 .. MaxTime]
    BY DEF Hydrate, Rows
  <2>3. NoEntries \in [Agents -> 0 .. MaxTime]
    BY DEF NoEntries, ConstantsAssumption
  <2> QED
    BY <2>1, <2>2, <2>3 DEF Boot, BootFails
<1>2. faults' \in Nat
  BY DEF Boot, BootFails, Fault, TypeOK
<1>3. due' \in Nat
  BY <1>1 DEF Start, TypeOK, Times, ConstantsAssumption
<1> QED
  BY <1>1, <1>2, <1>3 DEF Start, TypeOK, Rows

LEMMA HaltType ==
  ASSUME ConstantsAssumption, TypeOK, Halt
  PROVE  TypeOK'
<1>1. Pending \subseteq Sample
  BY DEF TypeOK, Pending
<1>2. Len(<<>>) = 0 /\ <<>> \in Seq(Times) /\ 0 \in 0 .. MaxTime
  BY DEF ConstantsAssumption
<1>3. gone' \subseteq Sample
  BY <1>1 DEF Halt, Pending, TypeOK
<1>4. /\ ring' \in [Agents -> Seq(Times)]
      /\ \A a \in Agents : Len(ring'[a]) <= RingCap
      /\ lastSeen' \in [Agents -> 0 .. MaxTime]
  BY <1>2 DEF Halt, TypeOK, ConstantsAssumption
<1>5. handler' \in [Handlers -> Request \cup {Idle}] /\ writers' = {} /\ scan' = {} /\ faults' \in Nat
  BY DEF Halt, Fault, TypeOK
<1> QED
  BY <1>3, <1>4, <1>5 DEF Halt, TypeOK, tableVars

LEMMA BeginType ==
  ASSUME ConstantsAssumption, TypeOK, NEW h \in Handlers, NEW a \in Agents, NEW t \in Times, Begin(h, a, t)
  PROVE  TypeOK'
<1>1. [pc |-> "ingest", agent |-> a, at |-> t, prev |-> Latest(a)] \in Request
  BY LatestType DEF Request
<1>2. handler' \in [Handlers -> Request \cup {Idle}] /\ requests' \in Nat
  BY <1>1 DEF Begin, TypeOK
<1> QED
  BY <1>2 DEF Begin, TypeOK, registryVars, tableVars, staleVars, recordVars

LEMMA IngestType ==
  ASSUME ConstantsAssumption, TypeOK, NEW h \in Handlers, Ingest(h)
  PROVE  TypeOK'
<1> DEFINE a == handler[h].agent
           t == handler[h].at
           w == [id |-> FreeId, todo |-> "sample", sample |-> [agent |-> a, at |-> t]]
<1>1. handler[h] \in Request /\ a \in Agents /\ t \in Times
  BY RequestFacts DEF Ingest, Request
<1>2. ring' \in [Agents -> Seq(Times)] /\ \A b \in Agents : Len(ring'[b]) <= RingCap
  BY <1>1, PushedFacts DEF Ingest, TypeOK
<1>3. now \in 0 .. MaxTime
  BY DEF TypeOK, Times, ConstantsAssumption
<1>4. lastSeen' \in [Agents -> 0 .. MaxTime] /\ heard' \in [Agents -> 0 .. MaxTime]
  BY <1>3 DEF Ingest, Seen, TypeOK
<1>5. handler' \in [Handlers -> Request \cup {Idle}]
  <2>1. [handler[h] EXCEPT !.pc = "evaluate"] \in Request
    BY <1>1 DEF Request
  <2> QED
    BY <2>1 DEF Ingest, TypeOK
<1>6. \A v \in writers' : v.todo \in {"sample", "agent"} /\ v.sample \in Sample
  <2>1. w.todo = "sample" /\ w.sample \in Sample
    BY <1>1 DEF Sample
  <2>2. writers' = writers \cup {w}
    BY DEF Ingest
  <2> QED
    BY <2>1, <2>2 DEF TypeOK
<1> QED
  BY <1>2, <1>4, <1>5, <1>6 DEF Ingest, TypeOK, tableVars, staleVars

LEMMA EvaluateType ==
  ASSUME TypeOK, NEW h \in Handlers, Evaluate(h) \/ EvaluateUnsaved(h)
  PROVE  TypeOK'
<1>1. handler[h] \in Request /\ handler[h].agent \in Agents /\ handler[h].at \in Times
  BY RequestFacts DEF Evaluate, EvaluateUnsaved, Request
<1>2. Answered(h) /\ faults' \in Nat
  BY DEF Evaluate, EvaluateUnsaved, Fault, TypeOK
<1>3. acked' \subseteq Sample
  BY <1>1, <1>2 DEF Answered, TypeOK, Sample
<1>4. insight' \in [Agents -> 0 .. MaxTime]
  <2>1. handler[h].at \in 0 .. MaxTime
    BY <1>1 DEF Times
  <2> QED
    BY <2>1 DEF Evaluate, EvaluateUnsaved, TypeOK
<1>5. up' \in BOOLEAN /\ handler' \in [Handlers -> Request \cup {Idle}]
  BY <1>2 DEF Answered, TypeOK
<1> QED
  BY <1>2, <1>3, <1>4, <1>5 DEF Answered, TypeOK, registryVars, staleVars

LEMMA WriterType ==
  ASSUME TypeOK, NEW w \in writers,
         WriteSample(w) \/ WriteSampleFails(w) \/ UpsertAgent(w) \/ UpsertAgentFails(w)
  PROVE  TypeOK'
<1>1. w.sample \in Sample /\ w.sample.agent \in Agents /\ w.sample.at \in Times
  BY DEF TypeOK, Sample
<1>2. PICK more \in SUBSET {[id |-> w.id, todo |-> "agent", sample |-> w.sample]} : WriterDone(w, more)
  BY DEF WriteSample, WriteSampleFails, UpsertAgent, UpsertAgentFails
<1>3. \A v \in writers' : v.todo \in {"sample", "agent"} /\ v.sample \in Sample
  BY <1>1, <1>2 DEF WriterDone, TypeOK
<1>4. raw' \subseteq Sample /\ gone' \subseteq Sample /\ faults' \in Nat
  BY <1>1 DEF WriteSample, WriteSampleFails, UpsertAgent, UpsertAgentFails, WithSample, Fault, TypeOK
<1>5. catalog' \in [Agents -> Rows]
  <2>1. \A row \in Rows : Upserted(row, w.sample.at) \in Rows
    BY <1>1 DEF Upserted, Rows, Times
  <2>2. catalog \in [Agents -> Rows]
    BY DEF TypeOK, Rows
  <2> QED
    BY <1>1, <2>1, <2>2 DEF WriteSample, WriteSampleFails, UpsertAgent, UpsertAgentFails
<1> QED
  BY <1>2, <1>3, <1>4, <1>5 DEF WriterDone, TypeOK, Rows, registryVars, staleVars

LEMMA StaleType ==
  ASSUME ConstantsAssumption, TypeOK, StaleScan \/ \E r \in scan : StaleRaise(r)
  PROVE  TypeOK'
<1>1. CASE StaleScan
  <2>1. scan' \subseteq Alarms
    <3>1. \A a \in Agents :
            [agent |-> a, at |-> now, heard |-> heard[a], live |-> ring[a] # <<>>] \in Alarms
      BY DEF TypeOK, Alarms
    <3> QED
      BY <1>1, <3>1 DEF StaleScan
  <2>2. due' \in Nat
    BY <1>1 DEF StaleScan, TypeOK, Times, ConstantsAssumption
  <2> QED
    BY <1>1, <2>1, <2>2 DEF StaleScan, TypeOK, Alarms, registryVars, tableVars, recordVars
<1>2. ASSUME NEW r \in scan, StaleRaise(r)
      PROVE  TypeOK'
  BY <1>2 DEF StaleRaise, TypeOK, registryVars, tableVars, recordVars
<1> QED
  BY <1>1, <1>2

LEMMA TypeStep ==
  ASSUME ConstantsAssumption, TypeOK, HeardOK, [Next]_vars
  PROVE  TypeOK'
<1>1. CASE Boot \/ BootFails
  BY <1>1, StartType
<1>2. CASE Halt
  BY <1>2, HaltType
<1>3. ASSUME NEW h \in Handlers, NEW a \in Agents, NEW t \in Times, Begin(h, a, t)
      PROVE  TypeOK'
  BY <1>3, BeginType
<1>4. ASSUME NEW h \in Handlers, Ingest(h) PROVE TypeOK'
  BY <1>4, IngestType
<1>5. ASSUME NEW h \in Handlers, Evaluate(h) \/ EvaluateUnsaved(h) PROVE TypeOK'
  BY <1>5, EvaluateType
<1>6. ASSUME NEW w \in writers,
             WriteSample(w) \/ WriteSampleFails(w) \/ UpsertAgent(w) \/ UpsertAgentFails(w)
      PROVE  TypeOK'
  BY <1>6, WriterType
<1>7. CASE StaleScan \/ \E r \in scan : StaleRaise(r)
  BY <1>7, StaleType
<1>8. CASE DeleteExpired
  BY <1>8 DEF DeleteExpired, Expired, TypeOK, registryVars, staleVars
<1>9. CASE Tick
  <2>1. now' \in Times
    BY <1>9 DEF Tick, TypeOK, Times, ConstantsAssumption
  <2> QED
    BY <1>9, <2>1 DEF Tick, TypeOK, registryVars, tableVars, staleVars, recordVars
<1>10. CASE UNCHANGED vars
  BY <1>10 DEF vars, TypeOK, registryVars, tableVars, staleVars, recordVars
<1> QED
  BY <1>1, <1>2, <1>3, <1>4, <1>5, <1>6, <1>7, <1>8, <1>9, <1>10 DEF Next

-----------------------------------------------------------------------------
(* What the hub holds is no newer than the last push.                      *)

\* Steps that move what is held from one place to another.
LEMMA HeardMoves ==
  ASSUME TypeOK, HeardOK, UNCHANGED <<now, heard>>,
         \A a \in Agents : lastSeen'[a] <= heard[a] /\ catalog'[a].last <= heard[a],
         \A s \in raw' : s.at <= heard[s.agent],
         \A w \in writers' : w.sample.at <= heard[w.sample.agent],
         \A h \in Handlers : handler'[h].pc # "idle" => handler'[h].at <= now
  PROVE  HeardOK'
BY DEF HeardOK

LEMMA StartHeard ==
  ASSUME ConstantsAssumption, TypeOK, HeardOK, Boot \/ BootFails
  PROVE  HeardOK'
<1>1. \A a \in Agents : heard[a] \in 0 .. MaxTime /\ catalog[a].last <= heard[a] /\ Backfill[a].last <= heard[a]
  BY BackfillFacts DEF TypeOK, HeardOK
<1>2. /\ lastSeen' \in {NoEntries, Hydrate(catalog), Hydrate(Backfill)}
      /\ catalog' \in {catalog, Backfill}
      /\ UNCHANGED <<now, heard, raw, writers, handler>>
  BY DEF Boot, BootFails, Start
<1>3. \A a \in Agents : lastSeen'[a] <= heard[a]
  BY <1>1, <1>2 DEF NoEntries, Hydrate
<1>4. \A a \in Agents : catalog'[a].last <= heard[a]
  BY <1>1, <1>2
<1> QED
  BY <1>2, <1>3, <1>4, HeardMoves DEF HeardOK

LEMMA HaltHeard ==
  ASSUME TypeOK, HeardOK, Halt
  PROVE  HeardOK'
<1>1. \A a \in Agents : lastSeen'[a] <= heard[a] /\ catalog'[a].last <= heard[a]
  BY DEF Halt, TypeOK, HeardOK, tableVars
<1>2. \A h \in Handlers : handler'[h].pc = "idle"
  BY DEF Halt, Idle
<1> QED
  BY <1>1, <1>2, HeardMoves DEF Halt, HeardOK, tableVars

LEMMA BeginHeard ==
  ASSUME TypeOK, HeardOK, NEW g \in Handlers, NEW a \in Agents, NEW t \in Times, Begin(g, a, t)
  PROVE  HeardOK'
<1>1. \A h \in Handlers : handler'[h].pc # "idle" => handler'[h].at <= now
  BY DEF Begin, TypeOK, HeardOK
<1> QED
  BY <1>1, HeardMoves DEF Begin, HeardOK, registryVars, tableVars, recordVars

LEMMA IngestHeard ==
  ASSUME TypeOK, HeardOK, NEW h \in Handlers, Ingest(h)
  PROVE  HeardOK'
<1> DEFINE a == handler[h].agent
           t == handler[h].at
<1>1. handler[h] \in Request /\ a \in Agents /\ t \in Times /\ t <= now
  BY RequestFacts DEF Ingest, Request, HeardOK
<1>2. heard' = [heard EXCEPT ![a] = now] /\ lastSeen' = [lastSeen EXCEPT ![a] = now]
  BY DEF Ingest, Seen
<1>3. now \in Nat /\ \A b \in Agents : heard[b] \in Nat /\ lastSeen[b] \in Nat /\ catalog[b].last \in Nat
  BY DEF TypeOK, Times
<1>4. \A b \in Agents : heard[b] <= heard'[b] /\ heard'[b] <= now /\ heard'[b] \in Nat
  BY <1>1, <1>2, <1>3 DEF TypeOK, HeardOK
<1>5. \A b \in Agents : lastSeen'[b] <= heard'[b] /\ catalog[b].last <= heard'[b]
  BY <1>1, <1>2, <1>3, <1>4 DEF TypeOK, HeardOK
<1>6. \A s \in Sample : s.at <= heard[s.agent] => s.at <= heard'[s.agent]
  BY <1>3, <1>4 DEF Sample, Times
<1>7. \A s \in raw : s.at <= heard'[s.agent]
  BY <1>6 DEF TypeOK, HeardOK
<1>8. \A w \in writers' : w.sample.at <= heard'[w.sample.agent]
  <2>1. \A w \in writers : w.sample.at <= heard'[w.sample.agent]
    BY <1>6 DEF TypeOK, HeardOK
  <2>2. t <= heard'[a]
    BY <1>1, <1>2 DEF TypeOK
  <2>3. \A w \in writers' : w \in writers \/ w.sample = [agent |-> a, at |-> t]
    BY DEF Ingest
  <2> QED
    BY <2>1, <2>2, <2>3
<1>9. \A g \in Handlers : handler'[g].pc # "idle" => handler'[g].at <= now
  <2>1. handler' = [handler EXCEPT ![h] = [handler[h] EXCEPT !.pc = "evaluate"]]
    BY DEF Ingest
  <2>2. [handler[h] EXCEPT !.pc = "evaluate"].at = t
    BY <1>1 DEF Request
  <2> QED
    BY <1>1, <2>1, <2>2 DEF TypeOK, HeardOK
<1>10. UNCHANGED <<now, raw, catalog>>
  BY DEF Ingest, tableVars
<1> QED
  BY <1>4, <1>5, <1>7, <1>8, <1>9, <1>10 DEF HeardOK

LEMMA EvaluateHeard ==
  ASSUME TypeOK, HeardOK, NEW h \in Handlers, Evaluate(h) \/ EvaluateUnsaved(h)
  PROVE  HeardOK'
<1>1. Answered(h)
  BY DEF Evaluate, EvaluateUnsaved
<1>2. \A g \in Handlers : handler'[g].pc # "idle" => handler'[g].at <= now
  BY <1>1 DEF Answered, TypeOK, HeardOK, Idle
<1> QED
  BY <1>1, <1>2, HeardMoves DEF Answered, HeardOK, registryVars

LEMMA WriterHeard ==
  ASSUME TypeOK, HeardOK, NEW w \in writers,
         WriteSample(w) \/ WriteSampleFails(w) \/ UpsertAgent(w) \/ UpsertAgentFails(w)
  PROVE  HeardOK'
<1>1. w.sample \in Sample /\ w.sample.agent \in Agents /\ w.sample.at <= heard[w.sample.agent]
  BY DEF TypeOK, Sample, HeardOK
<1>2. PICK more \in SUBSET {[id |-> w.id, todo |-> "agent", sample |-> w.sample]} : WriterDone(w, more)
  BY DEF WriteSample, WriteSampleFails, UpsertAgent, UpsertAgentFails
<1>3. \A v \in writers' : v.sample.at <= heard[v.sample.agent]
  BY <1>1, <1>2 DEF WriterDone, HeardOK
<1>4. \A s \in raw' : s.at <= heard[s.agent]
  BY <1>1 DEF WriteSample, WriteSampleFails, UpsertAgent, UpsertAgentFails, WithSample, HeardOK
<1>5. \A a \in Agents : catalog'[a].last <= heard[a]
  <2>1. CASE UNCHANGED catalog
    BY <2>1 DEF HeardOK
  <2>2. CASE UpsertAgent(w)
    <3>1. catalog' = [catalog EXCEPT ![w.sample.agent] = Upserted(@, w.sample.at)]
      BY <2>2 DEF UpsertAgent
    <3>2. \A row : Upserted(row, w.sample.at).last = w.sample.at
      BY DEF Upserted
    <3> QED
      BY <1>1, <3>1, <3>2 DEF TypeOK, HeardOK
  <2> QED
    BY <2>1, <2>2 DEF WriteSample, WriteSampleFails, UpsertAgentFails
<1> QED
  BY <1>2, <1>3, <1>4, <1>5, HeardMoves DEF WriterDone, HeardOK, registryVars

LEMMA HeardStep ==
  ASSUME ConstantsAssumption, TypeOK, HeardOK, [Next]_vars
  PROVE  HeardOK'
<1>1. CASE Boot \/ BootFails
  BY <1>1, StartHeard
<1>2. CASE Halt
  BY <1>2, HaltHeard
<1>3. ASSUME NEW h \in Handlers, NEW a \in Agents, NEW t \in Times, Begin(h, a, t)
      PROVE  HeardOK'
  BY <1>3, BeginHeard
<1>4. ASSUME NEW h \in Handlers, Ingest(h) PROVE HeardOK'
  BY <1>4, IngestHeard
<1>5. ASSUME NEW h \in Handlers, Evaluate(h) \/ EvaluateUnsaved(h) PROVE HeardOK'
  BY <1>5, EvaluateHeard
<1>6. ASSUME NEW w \in writers,
             WriteSample(w) \/ WriteSampleFails(w) \/ UpsertAgent(w) \/ UpsertAgentFails(w)
      PROVE  HeardOK'
  BY <1>6, WriterHeard
<1>7. CASE StaleScan \/ (\E r \in scan : StaleRaise(r)) \/ DeleteExpired \/ UNCHANGED vars
  BY <1>7 DEF StaleScan, StaleRaise, DeleteExpired, vars, HeardOK, registryVars, tableVars, recordVars
<1>8. CASE Tick
  <2>1. now \in Nat /\ now' = now + 1 /\ \A a \in Agents : heard[a] \in Nat
    BY <1>8 DEF Tick, TypeOK, Times
  <2>2. \A h \in Handlers : handler[h].pc # "idle" => handler[h].at \in Nat
    BY RequestFacts DEF Request, Times
  <2> QED
    BY <1>8, <2>1, <2>2 DEF Tick, HeardOK, registryVars, tableVars, recordVars
<1> QED
  BY <1>1, <1>2, <1>3, <1>4, <1>5, <1>6, <1>7, <1>8 DEF Next

-----------------------------------------------------------------------------
(* An agent with a snapshot in memory has the time of its last push.       *)

LEMMA RingStep ==
  ASSUME TypeOK, RingOK, [Next]_vars
  PROVE  RingOK'
<1>1. CASE Boot \/ BootFails
  <2>1. ~up /\ ring' = ring
    BY <1>1 DEF Boot, BootFails, Start
  <2> QED
    BY <2>1 DEF RingOK
<1>2. CASE Halt
  BY <1>2 DEF Halt, RingOK
<1>3. ASSUME NEW h \in Handlers, Ingest(h)
      PROVE  RingOK'
  <2> DEFINE a == handler[h].agent
  <2>1. up' /\ a \in Agents
    BY <1>3, RequestFacts DEF Ingest, Request
  <2>2. lastSeen' = [lastSeen EXCEPT ![a] = now] /\ heard' = [heard EXCEPT ![a] = now]
    BY <1>3 DEF Ingest, Seen
  <2>3. \A b \in Agents : b # a => ring'[b] = ring[b]
    BY <1>3 DEF Ingest, TypeOK
  <2> QED
    BY <2>1, <2>2, <2>3 DEF TypeOK, RingOK
<1>4. CASE UNCHANGED <<up, ring, lastSeen, heard>>
  BY <1>4 DEF RingOK
<1>5. CASE \/ \E h \in Handlers, a \in Agents, t \in Times : Begin(h, a, t)
           \/ \E h \in Handlers : Evaluate(h) \/ EvaluateUnsaved(h)
           \/ \E w \in writers : WriteSample(w) \/ WriteSampleFails(w) \/ UpsertAgent(w) \/ UpsertAgentFails(w)
           \/ StaleScan \/ (\E r \in scan : StaleRaise(r)) \/ DeleteExpired \/ Tick \/ UNCHANGED vars
  <2>1. UNCHANGED <<up, ring, lastSeen, heard>>
    BY <1>5 DEF Begin, Evaluate, EvaluateUnsaved, Answered, WriteSample, WriteSampleFails, UpsertAgent,
                UpsertAgentFails, WriterDone, StaleScan, StaleRaise, DeleteExpired, Tick, vars,
                registryVars, recordVars
  <2> QED
    BY <1>4, <2>1
<1> QED
  BY <1>1, <1>2, <1>3, <1>5 DEF Next

LEMMA StaleStep ==
  ASSUME TypeOK, RingOK, StaleOK, [Next]_vars
  PROVE  StaleOK'
<1>1. CASE StaleScan
  <2>1. \A r \in scan' : r.live => r.heard + StaleAfter < r.at
    <3> SUFFICES ASSUME NEW r \in scan', r.live
                 PROVE  r.heard + StaleAfter < r.at
      OBVIOUS
    <3>1. PICK a \in Agents : /\ lastSeen[a] + StaleAfter < now
                              /\ r = [agent |-> a, at |-> now, heard |-> heard[a], live |-> ring[a] # <<>>]
      BY <1>1 DEF StaleScan
    <3>2. ring[a] # <<>> /\ r.heard = heard[a] /\ r.at = now
      BY <3>1
    <3> QED
      BY <3>1, <3>2 DEF RingOK
  <2> QED
    BY <1>1, <2>1 DEF StaleScan, StaleOK
<1>2. ASSUME NEW r \in scan, StaleRaise(r)
      PROVE  StaleOK'
  BY <1>2 DEF StaleRaise, StaleOK
<1>3. CASE Halt
  BY <1>3 DEF Halt, StaleOK
<1>4. CASE \/ Boot \/ BootFails
           \/ \E h \in Handlers, a \in Agents, t \in Times : Begin(h, a, t)
           \/ \E h \in Handlers : Ingest(h) \/ Evaluate(h) \/ EvaluateUnsaved(h)
           \/ \E w \in writers : WriteSample(w) \/ WriteSampleFails(w) \/ UpsertAgent(w) \/ UpsertAgentFails(w)
           \/ DeleteExpired \/ Tick \/ UNCHANGED vars
  <2>1. UNCHANGED <<scan, alarms>>
    BY <1>4 DEF Boot, BootFails, Start, Begin, Ingest, Evaluate, EvaluateUnsaved, Answered, WriteSample,
                WriteSampleFails, UpsertAgent, UpsertAgentFails, WriterDone, DeleteExpired, Tick, vars,
                staleVars
  <2> QED
    BY <2>1 DEF StaleOK
<1> QED
  BY <1>1, <1>2, <1>3, <1>4 DEF Next

-----------------------------------------------------------------------------
(* What was answered for is kept.                                          *)

\* What is kept stays so: it moves from the goroutine to the table or to the
\* record of what was lost.
LEMMA KeptGrows ==
  ASSUME TypeOK, [Next]_vars
  PROVE  Kept \subseteq Kept'
<1>1. CASE Halt
  BY <1>1 DEF Halt, Kept, Pending, tableVars
<1>2. ASSUME NEW h \in Handlers, Ingest(h)
      PROVE  Kept \subseteq Kept'
  BY <1>2 DEF Ingest, Kept, Pending, tableVars
<1>3. ASSUME NEW w \in writers, WriteSample(w) \/ WriteSampleFails(w)
      PROVE  Kept \subseteq Kept'
  <2>1. raw \subseteq raw' /\ gone \subseteq gone' /\ w.sample \in raw' \cup gone'
    BY <1>3 DEF WriteSample, WriteSampleFails, WithSample
  <2>2. writers \ {w} \subseteq writers'
    BY <1>3 DEF WriteSample, WriteSampleFails, WriterDone
  <2> QED
    BY <2>1, <2>2 DEF Kept, Pending
<1>4. ASSUME NEW w \in writers, UpsertAgent(w) \/ UpsertAgentFails(w)
      PROVE  Kept \subseteq Kept'
  <2>1. w.todo # "sample" /\ UNCHANGED <<raw, gone>> /\ writers' = writers \ {w}
    BY <1>4 DEF UpsertAgent, UpsertAgentFails, WriterDone
  <2> QED
    BY <2>1 DEF Kept, Pending
<1>5. CASE DeleteExpired
  BY <1>5 DEF DeleteExpired, Kept, Pending
<1>6. CASE \/ Boot \/ BootFails
           \/ \E h \in Handlers, a \in Agents, t \in Times : Begin(h, a, t)
           \/ \E h \in Handlers : Evaluate(h) \/ EvaluateUnsaved(h)
           \/ StaleScan \/ (\E r \in scan : StaleRaise(r)) \/ Tick \/ UNCHANGED vars
  <2>1. UNCHANGED <<raw, gone, writers>>
    BY <1>6 DEF Boot, BootFails, Start, Begin, Evaluate, EvaluateUnsaved, Answered, StaleScan, StaleRaise,
                Tick, vars, tableVars, recordVars
  <2> QED
    BY <2>1 DEF Kept, Pending
<1> QED
  BY <1>1, <1>2, <1>3, <1>4, <1>5, <1>6 DEF Next

LEMMA AckStep ==
  ASSUME TypeOK, AckOK, [Next]_vars
  PROVE  AckOK'
<1> DEFINE Evaluated == \A h \in Handlers : handler[h].pc = "evaluate" =>
                           [agent |-> handler[h].agent, at |-> handler[h].at] \in Kept
<1>1. Kept \subseteq Kept' /\ acked \subseteq Kept /\ Evaluated
  BY KeptGrows DEF AckOK, AckedStored, Kept, Pending
<1>2. SUFFICES acked' \subseteq Kept' /\ Evaluated'
  BY DEF AckOK, AckedStored, Kept, Pending
<1>3. CASE UNCHANGED <<acked, handler>>
  BY <1>1, <1>3
<1>4. CASE Halt
  <2>1. acked' = acked /\ \A h \in Handlers : handler'[h].pc # "evaluate"
    BY <1>4 DEF Halt, Idle
  <2> QED
    BY <1>1, <2>1
<1>5. ASSUME NEW g \in Handlers, NEW a \in Agents, NEW t \in Times, Begin(g, a, t)
      PROVE  acked' \subseteq Kept' /\ Evaluated'
  <2>1. acked' = acked /\ \A h \in Handlers : handler'[h] = handler[h] \/ handler'[h].pc = "ingest"
    BY <1>5 DEF Begin, TypeOK, recordVars
  <2> QED
    BY <1>1, <2>1
<1>6. ASSUME NEW g \in Handlers, Ingest(g)
      PROVE  acked' \subseteq Kept' /\ Evaluated'
  <2> DEFINE s == [agent |-> handler[g].agent, at |-> handler[g].at]
  <2>1. s \in Kept'
    <3>1. [id |-> FreeId, todo |-> "sample", sample |-> s] \in writers'
      BY <1>6 DEF Ingest
    <3>2. \A x : x \in writers' /\ x.todo = "sample" => x.sample \in Kept'
      BY DEF Kept, Pending
    <3> QED
      BY <3>1, <3>2
  <2>2. [agent |-> handler'[g].agent, at |-> handler'[g].at] = s
    BY <1>6, RequestFacts DEF Ingest, TypeOK, Request
  <2>3. acked' = acked /\ \A h \in Handlers : h # g => handler'[h] = handler[h]
    BY <1>6 DEF Ingest, TypeOK
  <2> QED
    BY <1>1, <2>1, <2>2, <2>3
<1>7. ASSUME NEW g \in Handlers, Evaluate(g) \/ EvaluateUnsaved(g)
      PROVE  acked' \subseteq Kept' /\ Evaluated'
  <2>1. handler[g].pc = "evaluate" /\ Answered(g)
    BY <1>7 DEF Evaluate, EvaluateUnsaved
  <2>2. \A h \in Handlers : handler'[h] = handler[h] \/ handler'[h].pc = "idle"
    BY <2>1 DEF Answered, TypeOK, Idle
  <2>3. acked' = acked \cup {[agent |-> handler[g].agent, at |-> handler[g].at]}
    BY <2>1 DEF Answered
  <2> QED
    BY <1>1, <2>1, <2>2, <2>3
<1>8. CASE \/ Boot \/ BootFails
           \/ \E w \in writers : WriteSample(w) \/ WriteSampleFails(w) \/ UpsertAgent(w) \/ UpsertAgentFails(w)
           \/ StaleScan \/ (\E r \in scan : StaleRaise(r)) \/ DeleteExpired \/ Tick \/ UNCHANGED vars
  <2>1. UNCHANGED <<acked, handler>>
    BY <1>8 DEF Boot, BootFails, Start, WriteSample, WriteSampleFails, UpsertAgent, UpsertAgentFails,
                WriterDone, StaleScan, StaleRaise, DeleteExpired, Tick, vars, recordVars
  <2> QED
    BY <1>3, <2>1
<1> QED
  BY <1>4, <1>5, <1>6, <1>7, <1>8 DEF Next

-----------------------------------------------------------------------------
(* The theorems.                                                           *)

\* The strengthening is an invariant of the hub, for all its constants:
\* handleIngest and its goroutine, the stale checker, retention, restarts.
THEOREM Invariance == Spec => []IInv
<1>1. ConstantsAssumption /\ Init => IInv
  BY InitIInv
<1>2. ConstantsAssumption /\ IInv /\ [Next]_vars => IInv'
  BY TypeStep, HeardStep, RingStep, StaleStep, AckStep DEF IInv
<1> QED
  BY <1>1, <1>2, ConstantsAssumption, PTL DEF Spec

\* Every variable of the hub keeps its type, the rings their capacity.
THEOREM TypeCorrect == Spec => []TypeOK
<1>1. IInv => TypeOK
  BY DEF IInv
<1> QED
  BY <1>1, Invariance, PTL

\* server_agents.go: the status shown of an agent is never better than the
\* time it last pushed allows.
THEOREM ShownNoFresher == Spec => []NeverShownFresher
<1>1. ConstantsAssumption /\ IInv => NeverShownFresher
  <2> SUFFICES ASSUME ConstantsAssumption, IInv, NEW a \in Listed
               PROVE  Status(ListedLast(a)) >= Status(heard[a])
    BY DEF NeverShownFresher
  <2>1. a \in Agents /\ now \in Nat /\ heard[a] \in Nat /\ StaleAfter \in Nat /\ OfflineAfter \in Nat
        /\ StaleAfter <= OfflineAfter
    BY DEF Listed, IInv, TypeOK, Times, ConstantsAssumption
  <2>2. ListedLast(a) \in Nat /\ ListedLast(a) <= heard[a]
    BY <2>1 DEF ListedLast, IInv, TypeOK, HeardOK
  <2> HIDE DEF IInv
  <2> QED
    BY <2>1, <2>2 DEF Status
<1> QED
  BY <1>1, Invariance, ConstantsAssumption, PTL

\* engine.go: AGENT_STALE is never raised for an agent that pushed to this
\* process within StaleAfter of the checker's look at it.
THEOREM AlarmsJustified == Spec => []StaleJustified
<1>1. IInv => StaleJustified
  BY DEF IInv, StaleOK, StaleJustified
<1> QED
  BY <1>1, Invariance, PTL

\* handleIngest: a sample that was answered for is stored, being written, or
\* on record as lost or expired.
THEOREM AnsweredIsKept == Spec => []AckedStored
<1>1. IInv => AckedStored
  BY DEF IInv, AckOK
<1> QED
  BY <1>1, Invariance, PTL
=============================================================================
