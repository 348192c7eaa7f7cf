----------------------------- MODULE HistoryPane -----------------------------
(***************************************************************************)
(* History mode in the browser: the samples of the agent and time range    *)
(* that are selected, the sample under the scrubber, and the trend charts. *)
(*                                                                         *)
(* The effect of useHistorySamples loads at once and every 30 seconds; its *)
(* clean-up marks the loads under way as cancelled.  Whether the page is   *)
(* one of a hub's agent is known only when /api/meta has answered: every   *)
(* mounted page asks again, and until then it loads the local history.     *)
(*                                                                         *)
(* A sample need not have every list: an empty slice that Go never made    *)
(* is null in JSON, and a page that walks it throws.                       *)
(***************************************************************************)
EXTENDS Naturals, FiniteSets

CONSTANTS
    Agents,        \* agents of a hub
    Local,         \* the server itself: its own ring buffer
    Ranges,        \* HistoryTimeRange
    Width,         \* how many of the latest samples fall in a range
    Limit,         \* limit=120, limit=500
    Reading,       \* the readings in the sample collected at a time
    MaxSamples,    \* bound: samples of an agent
    MaxUnderWay,   \* bound: loads under way
    MaxMoves,      \* bound: clicks of the user
    MaxFaults      \* bound: requests that fail

Times == 1 .. MaxSamples
Views == {"dashboard", "processes", "services", "containers"}

\* The lists of a payload that may be null, and of its containers: "ports"
\* when each of them has its own.
Lists == {"diskUsage", "networkUsage", "processInfos", "serviceInfos", "containers", "ports"}

ASSUME ConstantsAssumption ==
    /\ Local \notin Agents /\ Agents # {}
    /\ "24h" \in Ranges
    /\ Width \in [Ranges -> Nat \ {0}] /\ Limit \in 1 .. 500
    /\ Reading \in [Times -> [cpu : Nat, used : Nat, total : Nat, disk : Nat, containers : Nat,
                             lists : SUBSET Lists]]
    /\ MaxSamples \in Nat /\ MaxUnderWay \in Nat \ {0} /\ MaxMoves \in Nat /\ MaxFaults \in Nat

Loads   == 1 .. MaxUnderWay
Keys    == [of : Agents \cup {Local}, range : Ranges]

Samples == [of : Agents \cup {Local}, at : Times, lists : SUBSET Lists]
Nothing == [key |-> [of |-> Local, range |-> "24h"], set |-> {}]

VARIABLES
    mode,      \* what the server is, "hub" or "agent"
    kept,      \* server: the samples it holds of an agent, 1 .. kept[a]
    agent,     \* agentId of the address, Local if there is none
    view,      \* the page: all but the dashboard are in a HistoryWorkbench
    meta,      \* the page's useMeta: "unknown", "known" or "failed"
    viewMode, range,                  \* HistoryViewContext
    samples, loading, error, loads,   \* useHistorySamples
    sampleIndex,                      \* useSelectedHistorySnapshot
    crashed,   \* a render threw: no component is left
    moves, faults

serverVars == <<mode, kept>>
routeVars  == <<agent, view>>
vars == <<serverVars, routeVars, meta, viewMode, range, samples, loading, error, loads, sampleIndex,
          crashed, moves, faults>>

------------------------------------------------------------------------------
(* What the server answers. *)

\* resolutionForRange
Resolution(r) == IF r = "7d" THEN "hourly" ELSE "raw"

\* The hub answers from its hourly rows: the CPU load and the memory.
Rollup(k) == k.of # Local /\ Resolution(k.range) = "hourly"

Row(k, t) == [of |-> k.of, at |-> t, lists |-> IF Rollup(k) THEN {} ELSE Reading[t].lists]

\* Mutated form of Held: no limit.
HeldAll(k) ==
    {Row(k, t) : t \in {u \in 1 .. kept[k.of] : kept[k.of] < u + Width[k.range]}}

\* The agent's own ring, filtered by filterSamplesByRange, or the rows the
\* hub selects between from and to; of both, the latest.
Held(k) ==
    {Row(k, t) : t \in {u \in 1 .. kept[k.of] :
                           kept[k.of] < u + Width[k.range] /\ kept[k.of] < u + Limit}}

------------------------------------------------------------------------------
(* The hook. *)

\* isHubAgent && agentId
Key(m, a, r) == [of |-> IF m = "known" /\ mode = "hub" THEN a ELSE Local, range |-> r]
Current == Key(meta, agent, range)

Idle     == [phase |-> "idle"]

\* Mutated form of Cancelled: the clean-up cancels nothing.
NotCancelled(f) == f

Cancelled(f) == [l \in Loads |-> IF f[l] = Idle THEN Idle ELSE [f[l] EXCEPT !.cancelled = TRUE]]
Send(f, k)   == {[f EXCEPT ![l] = [phase |-> "sent", key |-> k, cancelled |-> FALSE]] :
                    l \in {i \in Loads : f[i] = Idle /\ \A j \in 1 .. i - 1 : f[j] # Idle}}

\* What the effect does when its dependencies have become m, a, r, v: the
\* clean-up of the old one, then reset or load.
Effect(m, a, r, v, f) ==
    IF v = "history"
    THEN /\ loads' \in Send(Cancelled(f), Key(m, a, r))
         /\ loading' = TRUE /\ error' = FALSE
         /\ UNCHANGED samples
    ELSE /\ loads' = Cancelled(f)
         /\ samples' = Nothing /\ loading' = FALSE /\ error' = FALSE

\* The effect of useSelectedHistorySnapshot on [timeRange, sorted.length].
ResetIndex ==
    sampleIndex' = IF range' # range \/ Cardinality(samples'.set) # Cardinality(samples.set)
                   THEN 0 ELSE sampleIndex

\* safeIndex, and the snapshot that stands for the live one.
SafeIndex(i, S) ==
    LET n == Cardinality(S)
    IN  IF n = 0 THEN 0 ELSE IF i < n THEN i ELSE n - 1
Rank(s, S)  == Cardinality({t \in S : t.at < s.at})
Shown(i, S) == {s \in S : Rank(s, S) = SafeIndex(i, S)}
Selected    == Shown(sampleIndex, samples.set)

\* The lists that a page walks, live or in history; with the panel of a row
\* open, a page of processes or services looks for the other's as well.
Walked(v, m, open) ==
    CASE v = "dashboard"  -> {"diskUsage", "containers"} \cup IF m = "live" THEN {"networkUsage"} ELSE {}
      [] v = "processes"  -> {"processInfos"} \cup IF open THEN {"serviceInfos"} ELSE {}
      [] v = "services"   -> {"serviceInfos"} \cup IF open THEN {"processInfos"} ELSE {}
      [] v = "containers" -> {}

\* Mutated form of Draws: the containers page does not mind null.
DrawsListed(v, m, open, lists) ==
    Walked(v, m, open) \subseteq lists /\ (v = "containers" => {"containers", "ports"} \subseteq lists)

\* The containers page minds null for the containers, not for their ports.
Draws(v, m, open, lists) ==
    /\ Walked(v, m, open) \subseteq lists
    /\ v = "containers" /\ "containers" \in lists => "ports" \in lists

\* What a render in History mode draws: the dashboard every sample, another
\* page one.  After a change it renders twice, first with the old index.
Drawn == IF view' = "dashboard" THEN samples'.set
         ELSE Shown(sampleIndex, samples'.set) \cup Shown(sampleIndex', samples'.set)

\* Nothing catches what a render throws.
Renders ==
    \E open \in BOOLEAN :
        crashed' = (viewMode' = "history" /\ \E s \in Drawn : ~Draws(view', "history", open, s.lists))

------------------------------------------------------------------------------

Init ==
    /\ mode \in {"hub", "agent"}
    /\ kept = [a \in Agents \cup {Local} |-> 0]
    /\ agent \in (IF mode = "hub" THEN Agents ELSE {Local}) /\ view = "dashboard" /\ meta = "unknown"
    /\ viewMode = "live" /\ range = "24h"
    /\ samples = Nothing /\ loading = FALSE /\ error = FALSE /\ loads = [l \in Loads |-> Idle]
    /\ sampleIndex = 0 /\ crashed = FALSE
    /\ moves = 0 /\ faults = 0

\* A snapshot is collected, or reaches the hub: a hub keeps none of its own.
Collect(a) ==
    /\ a \in (IF mode = "hub" THEN Agents ELSE {Local})
    /\ kept[a] < MaxSamples /\ kept' = [kept EXCEPT ![a] = @ + 1]
    /\ UNCHANGED <<mode, routeVars, meta, viewMode, range, samples, loading, error, loads,
                   sampleIndex, crashed, moves, faults>>

\* DashboardPage mounts the component with the hook in History mode only.
HookMounted(v, m) == v # "dashboard" \/ m = "history"
Asking == ~crashed /\ meta = "unknown" /\ HookMounted(view, viewMode)

MetaArrives ==
    /\ Asking /\ meta' = "known"
    /\ IF mode = "hub" THEN Effect("known", agent, range, viewMode, loads)
                       ELSE UNCHANGED <<samples, loading, error, loads>>
    /\ UNCHANGED <<serverVars, routeVars, viewMode, range, moves, faults>>
    /\ ResetIndex /\ Renders

MetaFails ==
    /\ Asking /\ meta' = "failed"
    /\ faults < MaxFaults /\ faults' = faults + 1
    /\ UNCHANGED <<serverVars, routeVars, viewMode, range, samples, loading, error, loads,
                   sampleIndex, crashed, moves>>

Click == ~crashed /\ moves < MaxMoves /\ moves' = moves + 1

\* LiveHistoryToggle
Toggle ==
    /\ Click
    /\ viewMode' = IF viewMode = "live" THEN "history" ELSE "live"
    /\ meta' = IF view = "dashboard" THEN "unknown" ELSE meta
    /\ Effect(meta', agent, range, viewMode', loads)
    /\ UNCHANGED <<serverVars, routeVars, range, faults>>
    /\ ResetIndex /\ Renders

\* TimeRangePicker
PickRange(r) ==
    /\ Click /\ viewMode = "history"
    /\ range # r /\ range' = r
    /\ Effect(meta, agent, r, viewMode, loads)
    /\ UNCHANGED <<serverVars, routeVars, meta, viewMode, faults>>
    /\ ResetIndex /\ Renders

\* The same page of another agent: the components stay.
SwitchAgent(b) ==
    /\ Click /\ mode = "hub" /\ b # agent /\ agent' = b
    /\ Effect(meta, b, range, viewMode, loads)
    /\ UNCHANGED <<serverVars, view, meta, viewMode, range, faults>>
    /\ ResetIndex /\ Renders

\* Another page: its components are new, and ask for meta again.
OpenPage(v) ==
    /\ Click /\ v # view /\ view' = v
    /\ meta' = "unknown"
    /\ IF viewMode = "history"
       THEN loads' \in Send(Cancelled(loads), Key("unknown", agent, range)) /\ loading' = TRUE
       ELSE loads' = Cancelled(loads) /\ loading' = FALSE
    /\ samples' = Nothing /\ error' = FALSE /\ sampleIndex' = 0
    /\ UNCHANGED <<serverVars, agent, viewMode, range, crashed, faults>>

\* The scrubber of HistoryTimeBar.
Scrub(i) ==
    /\ Click /\ viewMode = "history" /\ view # "dashboard"
    /\ i < Cardinality(samples.set) /\ i # SafeIndex(sampleIndex, samples.set) /\ sampleIndex' = i
    /\ UNCHANGED <<serverVars, routeVars, meta, viewMode, range, samples, loading, error, loads, faults>>
    /\ Renders

\* A click on a row of the sample that is shown opens its panel.
SelectRow ==
    /\ ~crashed /\ viewMode = "history" /\ view \in {"processes", "services"}
    /\ UNCHANGED <<serverVars, routeVars, meta, viewMode, range, samples, loading, error, loads,
                   sampleIndex, moves, faults>>
    /\ Renders

\* Live mode draws a snapshot of the agent, the latest or one on its way.
LiveShows(t) ==
    /\ ~crashed /\ viewMode = "live" /\ t \in 1 .. kept[agent]
    /\ \E open \in BOOLEAN : crashed' = ~Draws(view, "live", open, Reading[t].lists)
    /\ UNCHANGED <<serverVars, routeVars, meta, viewMode, range, samples, loading, error, loads,
                   sampleIndex, moves, faults>>

\* Mutated form of Poll: no interval.
PollNever == FALSE /\ UNCHANGED vars

\* The interval.
Poll ==
    /\ ~crashed /\ viewMode = "history"
    /\ loads' \in Send(loads, Current)
    /\ loading' = TRUE /\ error' = FALSE
    /\ UNCHANGED <<serverVars, routeVars, meta, viewMode, range, samples, sampleIndex, crashed, moves, faults>>

Serve(l) ==
    /\ loads[l].phase = "sent"
    /\ loads' = [loads EXCEPT ![l] = [phase |-> "answered", key |-> @.key, cancelled |-> @.cancelled,
                                      got |-> Held(@.key)]]
    /\ UNCHANGED <<serverVars, routeVars, meta, viewMode, range, samples, loading, error, sampleIndex,
                   crashed, moves, faults>>

\* The rest of load, when its request is done: a cancelled one sets nothing.
Then(l) ==
    /\ loads[l].phase = "answered" /\ ~crashed
    /\ IF loads[l].cancelled THEN UNCHANGED <<samples, loading>>
       ELSE samples' = [key |-> loads[l].key, set |-> loads[l].got] /\ loading' = FALSE
    /\ UNCHANGED <<error, faults>>

Catch(l) ==
    /\ loads[l].phase = "sent" /\ ~crashed
    /\ faults < MaxFaults /\ faults' = faults + 1
    /\ IF loads[l].cancelled THEN UNCHANGED <<samples, loading, error>>
       ELSE samples' = Nothing /\ loading' = FALSE /\ error' = TRUE

Finish(l) ==
    /\ Then(l) \/ Catch(l)
    /\ loads' = [loads EXCEPT ![l] = Idle]
    /\ UNCHANGED <<serverVars, routeVars, meta, viewMode, range, moves>>
    /\ ResetIndex /\ Renders

\* The user loads the page again.
Reload ==
    /\ crashed /\ crashed' = FALSE
    /\ moves < MaxMoves /\ moves' = moves + 1
    /\ meta' = "unknown" /\ viewMode' = "live" /\ range' = "24h"
    /\ samples' = Nothing /\ loading' = FALSE /\ error' = FALSE /\ loads' = [l \in Loads |-> Idle]
    /\ sampleIndex' = 0
    /\ UNCHANGED <<serverVars, routeVars, faults>>

User ==
    \/ Toggle \/ Reload \/ SelectRow
    \/ \E r \in Ranges : PickRange(r)
    \/ \E b \in Agents : SwitchAgent(b)
    \/ \E v \in Views : OpenPage(v)
    \/ \E i \in 0 .. MaxSamples : Scrub(i)

Next ==
    \/ \E a \in Agents \cup {Local} : Collect(a)
    \/ MetaArrives \/ MetaFails
    \/ User
    \/ \E t \in Times : LiveShows(t)
    \/ Poll
    \/ \E l \in Loads : Serve(l) \/ Finish(l)

Spec == Init /\ [][Next]_vars

\* The server answers, the interval goes on, callbacks run.
Fairness ==
    /\ WF_vars(MetaArrives) /\ WF_vars(Poll)
    /\ \A l \in Loads : WF_vars(Serve(l)) /\ WF_vars(Finish(l))

FairSpec == Spec /\ Fairness

------------------------------------------------------------------------------
(* The trend charts. *)

WIDTH == 640
HEIGHT == 140
PAD == [top |-> 12, right |-> 12, bottom |-> 28, left |-> 44]

\* A series: its points, each a time and a value.
cpuSeries(S)    == {[at |-> s.at, value |-> Reading[s.at].cpu] : s \in S}
memorySeries(S) == {[at |-> s.at, value |-> LET r == Reading[s.at]
                        IN  IF r.total > 0 THEN (r.used * 100) \div r.total ELSE 0] : s \in S}
diskSeries(S)   == {p \in {[at |-> s.at, value |-> Reading[s.at].disk] : s \in S} : p.value > 0}
containerSeries(S) == {[at |-> s.at, value |-> Reading[s.at].containers] : s \in S}

Largest(S) == CHOOSE x \in S : \A y \in S : y <= x

\* Mutated form of Chart: values above the maximum are not minded.
ChartFixed(P, max) ==
    LET innerW == WIDTH - PAD.left - PAD.right
        innerH == HEIGHT - PAD.top - PAD.bottom
        gaps   == Largest({Cardinality(P) - 1, 1})
    IN  {[at |-> p.at,
          x  |-> 10 * PAD.left + (10 * Rank(p, P) * innerW) \div gaps,
          y  |-> 10 * (PAD.top + innerH) - (10 * p.value * innerH) \div max] : p \in P}

\* The line of a series: x and y of every point, in tenths of a pixel.
Chart(P, max) ==
    LET innerW == WIDTH - PAD.left - PAD.right
        innerH == HEIGHT - PAD.top - PAD.bottom
        yMax   == Largest({max, 1} \cup {p.value : p \in P})
        gaps   == Largest({Cardinality(P) - 1, 1})
    IN  {[at |-> p.at,
          x  |-> 10 * PAD.left + (10 * Rank(p, P) * innerW) \div gaps,
          y  |-> 10 * (PAD.top + innerH) - (10 * p.value * innerH) \div yMax] : p \in P}

\* The charts of DashboardHistoryView.
Charts(S) == {Chart(P, 100) : P \in {cpuSeries(S), memorySeries(S), diskSeries(S)}}
                \cup {Chart(containerSeries(S), 1)}

------------------------------------------------------------------------------
(* Properties. *)

\* Types of the state of the server, the hook and the view; no more samples
\* are shown than the limit of the request.
TypeOK ==
    /\ mode \in {"hub", "agent"} /\ kept \in [Agents \cup {Local} -> 0 .. MaxSamples]
    /\ agent \in Agents \cup {Local} /\ view \in Views
    /\ meta \in {"unknown", "known", "failed"}
    /\ viewMode \in {"live", "history"} /\ range \in Ranges
    /\ samples.key \in Keys /\ samples.set \subseteq Samples /\ Cardinality(samples.set) <= Limit
    /\ loading \in BOOLEAN /\ error \in BOOLEAN /\ crashed \in BOOLEAN
    /\ \A l \in Loads : loads[l] # Idle =>
          /\ loads[l].phase \in {"sent", "answered"}
          /\ loads[l].key \in Keys /\ loads[l].cancelled \in BOOLEAN
          /\ loads[l].phase = "answered" => loads[l].got \subseteq Samples
    /\ sampleIndex \in 0 .. MaxSamples
    /\ moves \in 0 .. MaxMoves /\ faults \in 0 .. MaxFaults

\* Samples of another agent or range than the selected one are on the page
\* only while a load is under way for the selected one, so that they are
\* replaced: a late answer to an earlier selection never comes to stay.
LoadsOwn   == \A l \in Loads : loads[l] # Idle /\ ~loads[l].cancelled => loads[l].key = Current
SamplesOwn == ~crashed /\ samples.set # {} => samples.key = Current \/ loading

\* The scrubber is on one sample, and every line runs from left to right
\* inside the frame of its chart.
InFrame ==
    /\ samples.set # {} => Cardinality(Selected) = 1
    /\ \A C \in Charts(samples.set) : \A p, q \in C :
          /\ p.x \in 10 * PAD.left .. 10 * (WIDTH - PAD.right)
          /\ p.y \in 10 * PAD.top .. 10 * (HEIGHT - PAD.bottom)
          /\ p.at < q.at => p.x < q.x

\* When the user stays and requests succeed, History mode shows what the
\* server holds of the selected agent and range.
Settled == samples = [key |-> [of |-> agent, range |-> range], set |-> Held([of |-> agent, range |-> range])]
EventuallyCurrent == <>[](viewMode = "history" /\ meta = "known" /\ ~crashed => Settled)

\* A page is lost only to a list it walks, the panel of a row included: the
\* reading it draws lacks that list, or it is a page of a hub's agent that walks the hourly rows of a hub,
\* which the containers page does not.  historySeries.ts, HistoryWorkbench.
CrashExplained ==
    crashed =>
        \/ viewMode = "live" /\ \E t \in 1 .. kept[agent] : ~Draws(view, "live", TRUE, Reading[t].lists)
        \/ viewMode = "history" /\ \E s \in samples.set : ~Draws(view, "history", TRUE, Reading[s.at].lists)
        \/ viewMode = "history" /\ view # "containers" /\ mode = "hub" /\ meta = "known"
           /\ Resolution(range) = "hourly"

\* ADR-012: the charts of seven days are drawn from the hourly rollups.
RangesRender == ~crashed
==============================================================================
