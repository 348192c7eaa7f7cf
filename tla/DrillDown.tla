------------------------------ MODULE DrillDown ------------------------------
(***************************************************************************)
(* The pages of the hub in the browser: the grid of agents at /hub and the *)
(* drill-down of one agent, with the three polled resources they show (the *)
(* agents, the agent's snapshot, its diagnoses) and the view mode.         *)
(*                                                                         *)
(* A hook polls on an interval and does not cancel: its answers are        *)
(* applied in the order in which they arrive, whichever agent they were    *)
(* asked for.  The layout of the drill-down stays mounted when another     *)
(* agent is opened from the sidebar, and with it all it holds.             *)
(***************************************************************************)
EXTENDS Naturals

CONSTANTS
    Agents, NoAgent,   \* NoAgent: the page is /hub
    AgentPages,        \* pages of an agent
    MaxUnderWay,       \* bound: the requests of a hook that are under way
    None,              \* no snapshot, no diagnoses
    MaxPush,           \* bound: snapshots of an agent
    MaxClicks,         \* bound: clicks of the user
    MaxChanges,        \* bound: changes of status that no snapshot makes
    MaxFaults          \* bound: requests that fail

ASSUME ConstantsAssumption ==
    /\ NoAgent \notin Agents
    /\ "overview" \in AgentPages
    /\ MaxUnderWay \in [{"agents", "metrics", "diagnostics"} -> Nat \ {0}]
    /\ MaxPush \in Nat /\ MaxClicks \in Nat /\ MaxChanges \in Nat /\ MaxFaults \in Nat

Hooks    == {"agents", "metrics", "diagnostics"}
Slots(h) == 1 .. MaxUnderWay[h]
Statuses == {"live", "stale", "offline"}
Unknown  == "unknown"     \* agent?.status of an agent that is not in the list
Filters  == {"all", "live", "offline"}

Offline(st) == st \in {"offline", "stale"}
Matches(st, f) == st # Unknown /\ CASE f = "all" -> TRUE
                                    [] f = "live" -> st = "live"
                                    [] f = "offline" -> Offline(st)

Snapshots == {None} \cup [of : Agents, at : 1 .. MaxPush]
AgentLists     == [Agents -> Statuses \cup {Unknown}]
EmptyList    == [a \in Agents |-> Unknown]

\* A request of a hook, for an agent; got: the answer that is under way.
Idle       == [phase |-> "idle"]
Subject(h) == IF h = "agents" THEN {NoAgent} ELSE Agents
Sent(h, a) == [phase |-> "sent", of |-> IF h = "agents" THEN NoAgent ELSE a]
Request(h) == {Idle} \cup [phase : {"sent"}, of : Subject(h)]
                     \cup [phase : {"answered"}, got : IF h = "agents" THEN AgentLists ELSE Snapshots]

VARIABLES
    newest,        \* hub: the latest snapshot it holds of an agent, 0 if none
    status,        \* hub: the status of an agent
    agent,         \* the agent of the address bar
    agentPage,     \* the page of that agent
    viewMode,      \* HistoryViewContext, outlives every page
    filter,        \* HubPage
    agents,        \* useHubAgents: the status of every listed agent
    agentSnapshot, \* useHubAgentMetrics
    live,          \* useHubAgentMetrics
    agentItems,    \* useDiagnostics
    fetch,         \* the requests of a hook
    chosen,        \* record: Live was chosen since the status shown last changed
    clicks, changes, faults

hubVars  == <<newest, status>>
viewVars == <<agent, agentPage, filter>>
drillVars == <<hubVars, viewVars, viewMode, agents, agentSnapshot, live, agentItems, fetch, chosen, clicks, changes, faults>>

HubInit ==
    /\ newest = [a \in Agents |-> 0]
    /\ status = [a \in Agents |-> "offline"]   \* a hub started from its catalog
    /\ agent = NoAgent /\ agentPage = "overview" /\ filter = "all"
    /\ viewMode = "live" /\ chosen = FALSE
    /\ agents = EmptyList /\ agentSnapshot = None /\ live = FALSE /\ agentItems = None
    /\ fetch = [h \in Hooks |-> [s \in Slots(h) |-> Idle]]
    /\ clicks = 0 /\ changes = 0 /\ faults = 0

------------------------------------------------------------------------------
(* The hub. *)

Push(a) ==
    /\ newest[a] < MaxPush
    /\ newest' = [newest EXCEPT ![a] = @ + 1]
    /\ status' = [status EXCEPT ![a] = "live"]
    /\ UNCHANGED <<viewVars, viewMode, agents, agentSnapshot, live, agentItems, fetch, chosen, clicks, changes, faults>>

Age(a) ==
    /\ changes < MaxChanges /\ changes' = changes + 1
    /\ \/ status[a] = "live"  /\ status' = [status EXCEPT ![a] = "stale"]
       \/ status[a] = "stale" /\ status' = [status EXCEPT ![a] = "offline"]
    /\ UNCHANGED <<newest, viewVars, viewMode, agents, agentSnapshot, live, agentItems, fetch, chosen, clicks, faults>>

------------------------------------------------------------------------------
(* The effects of a render. *)

Seen(a, l) == IF a = NoAgent THEN Unknown ELSE l[a]

\* Mutated form of ShowStatus: an agent that is stale is not taken for offline.
ShowStatusOffline(a, l) ==
    IF Seen(a, l) = Seen(agent, agents)
    THEN UNCHANGED <<viewMode, chosen>>
    ELSE /\ viewMode' = IF Seen(a, l) = "offline" THEN "history" ELSE viewMode
         /\ chosen' = FALSE

\* The effect of HubAgentLayout runs when agent?.status is another than at
\* the render before.
ShowStatus(a, l) ==
    IF Seen(a, l) = Seen(agent, agents)
    THEN UNCHANGED <<viewMode, chosen>>
    ELSE /\ viewMode' = IF Offline(Seen(a, l)) THEN "history" ELSE viewMode
         /\ chosen' = FALSE

Banner == agent # NoAgent /\ Offline(agents[agent])

HistoryCapable(p) == p \notin {"diagnostics", "alerts"}

\* Mutated form of HookMounted: the hooks ask without an agent.
MountedAlways(h, a, p) == h # "diagnostics" \/ p = "diagnostics"

\* The hooks that a page mounts, and the agent they ask for.
HookMounted(h, a, p) == h = "agents" \/ (a # NoAgent /\ (h = "metrics" \/ p = "diagnostics"))

Free(f) == {s \in DOMAIN f : f[s] = Idle /\ \A t \in 1 .. s - 1 : f[t] # Idle}

\* What becomes of the requests of hook h when it moves from agent a, page p
\* to agent b, page q: an effect that depends on the agent loads at once.
Moved(h, b, q) ==
    LET kept == HookMounted(h, agent, agentPage) /\ HookMounted(h, b, q)
                   /\ (h = "agents" => (agent = NoAgent) = (b = NoAgent))
        left == IF kept THEN fetch[h] ELSE [s \in Slots(h) |-> Idle]
        asks == HookMounted(h, b, q) /\ (kept => h # "agents" /\ agent # b)
    IN  IF asks
        THEN {[left EXCEPT ![s] = Sent(h, b)] : s \in Free(left)}
        ELSE {left}

NavigateTo(b, q) ==
    /\ clicks < MaxClicks /\ clicks' = clicks + 1
    /\ <<b, q>> # <<agent, agentPage>>
    /\ agent' = b /\ agentPage' = q
    /\ \E m \in Moved("metrics", b, q), l \in Moved("agents", b, q), d \in Moved("diagnostics", b, q) :
           fetch' = [h \in Hooks |-> CASE h = "metrics" -> m [] h = "agents" -> l [] h = "diagnostics" -> d]
    /\ UNCHANGED <<hubVars, changes, faults>>

\* A link of the grid or of the sidebar to an agent from /hub mounts the
\* layout and all its hooks anew.
OpenAgent(b) ==
    /\ agent = NoAgent /\ b # NoAgent
    /\ NavigateTo(b, "overview")
    /\ agents' = EmptyList
    /\ ShowStatus(b, EmptyList)
    /\ filter' = "all"
    /\ UNCHANGED <<agentSnapshot, live, agentItems>>

\* A link of the sidebar to another agent, or to a page of the same one.
SwitchTo(b, q) ==
    /\ agent # NoAgent /\ b # NoAgent
    /\ b # agent => q = "overview"
    /\ NavigateTo(b, q)
    /\ ShowStatus(b, agents)
    /\ agentItems' = IF q = "diagnostics" THEN agentItems ELSE None
    /\ UNCHANGED <<filter, agents, agentSnapshot, live>>

BackToHub ==
    /\ agent # NoAgent
    /\ NavigateTo(NoAgent, "overview")
    /\ agents' = EmptyList /\ agentSnapshot' = None /\ live' = FALSE /\ agentItems' = None
    /\ chosen' = FALSE
    /\ UNCHANGED <<filter, viewMode>>

\* LiveHistoryToggle in the header.
Toggle(m) ==
    /\ agent # NoAgent /\ HistoryCapable(agentPage)
    /\ clicks < MaxClicks /\ clicks' = clicks + 1
    /\ viewMode # m /\ viewMode' = m
    /\ chosen' = (m = "live")
    /\ UNCHANGED <<hubVars, viewVars, agents, agentSnapshot, live, agentItems, fetch, changes, faults>>

Pick(f) ==
    /\ agent = NoAgent
    /\ clicks < MaxClicks /\ clicks' = clicks + 1
    /\ filter # f /\ filter' = f
    /\ UNCHANGED <<hubVars, agent, agentPage, viewMode, agents, agentSnapshot, live, agentItems, fetch, chosen, changes, faults>>

\* The cards of HubPage.
Cards == {a \in Agents : Matches(agents[a], filter)}

------------------------------------------------------------------------------
(* The requests. *)

Set(h, s, r) == fetch' = [fetch EXCEPT ![h][s] = r]

\* Mutated form of Poll: only the list of agents has an interval.
PollAgents(h) ==
    /\ h = "agents"
    /\ \E s \in Free(fetch[h]) : Set(h, s, Sent(h, agent))
    /\ UNCHANGED <<hubVars, viewVars, viewMode, agents, agentSnapshot, live, agentItems, chosen, clicks, changes, faults>>

\* The interval of a hook.
Poll(h) ==
    /\ HookMounted(h, agent, agentPage)
    /\ \E s \in Free(fetch[h]) : Set(h, s, Sent(h, agent))
    /\ UNCHANGED <<hubVars, viewVars, viewMode, agents, agentSnapshot, live, agentItems, chosen, clicks, changes, faults>>

\* What the hub answers: 204 and an empty list are None.
ServerAnswer(h, of) == IF h = "agents" THEN status
                 ELSE IF newest[of] = 0 THEN None ELSE [of |-> of, at |-> newest[of]]

Serve(h, s) ==
    /\ fetch[h][s].phase = "sent"
    /\ Set(h, s, [phase |-> "answered", got |-> ServerAnswer(h, fetch[h][s].of)])
    /\ UNCHANGED <<hubVars, viewVars, viewMode, agents, agentSnapshot, live, agentItems, chosen, clicks, changes, faults>>

\* The promise of request s of hook h is fulfilled, or rejected.
Then(h, s)  == fetch[h][s].phase = "answered" /\ Set(h, s, Idle) /\ UNCHANGED faults
Catch(h, s) == /\ fetch[h][s].phase = "sent" /\ Set(h, s, Idle)
               /\ faults < MaxFaults /\ faults' = faults + 1

LoadAgents(s) ==
    /\ \/ Then("agents", s)  /\ agents' = fetch["agents"][s].got
       \/ Catch("agents", s) /\ agents' = EmptyList
    /\ ShowStatus(agent, agents')
    /\ UNCHANGED <<hubVars, viewVars, agentSnapshot, live, agentItems, clicks, changes>>

\* An empty answer changes nothing.
LoadMetrics(s) ==
    /\ \/ /\ Then("metrics", s)
          /\ LET got == fetch["metrics"][s].got
             IN  IF got = None THEN UNCHANGED <<agentSnapshot, live>> ELSE agentSnapshot' = got /\ live' = TRUE
       \/ Catch("metrics", s) /\ live' = FALSE /\ UNCHANGED agentSnapshot
    /\ UNCHANGED <<hubVars, viewVars, viewMode, agents, agentItems, chosen, clicks, changes>>

\* A failure empties the panel.
LoadDiagnostics(s) ==
    /\ \/ Then("diagnostics", s)  /\ agentItems' = fetch["diagnostics"][s].got
       \/ Catch("diagnostics", s) /\ agentItems' = None
    /\ UNCHANGED <<hubVars, viewVars, viewMode, agents, agentSnapshot, live, chosen, clicks, changes>>

------------------------------------------------------------------------------

User ==
    \/ \E b \in Agents : OpenAgent(b)
    \/ \E b \in Agents, q \in AgentPages : SwitchTo(b, q)
    \/ BackToHub
    \/ \E m \in {"live", "history"} : Toggle(m)
    \/ \E f \in Filters : Pick(f)

Deliver ==
    \/ \E s \in Slots("agents") : LoadAgents(s)
    \/ \E s \in Slots("metrics") : LoadMetrics(s)
    \/ \E s \in Slots("diagnostics") : LoadDiagnostics(s)

HubNext ==
    \/ \E a \in Agents : Push(a) \/ Age(a)
    \/ User
    \/ \E h \in Hooks : Poll(h)
    \/ \E h \in Hooks : \E s \in Slots(h) : Serve(h, s)
    \/ Deliver

HubSpec == HubInit /\ [][HubNext]_drillVars

\* The intervals go on, the hub answers and the browser runs the callbacks.
Fairness ==
    /\ \A h \in Hooks : WF_drillVars(Poll(h)) /\ \A s \in Slots(h) : WF_drillVars(Serve(h, s))
    /\ \A s \in Slots("agents") : WF_drillVars(LoadAgents(s))
    /\ \A s \in Slots("metrics") : WF_drillVars(LoadMetrics(s))
    /\ \A s \in Slots("diagnostics") : WF_drillVars(LoadDiagnostics(s))

FairSpec == HubSpec /\ Fairness

------------------------------------------------------------------------------
(* Properties. *)

\* Types of the state of the hub, the hooks and the views.
HubTypeOK ==
    /\ newest \in [Agents -> 0 .. MaxPush] /\ status \in [Agents -> Statuses]
    /\ agent \in Agents \cup {NoAgent} /\ agentPage \in AgentPages /\ filter \in Filters
    /\ viewMode \in {"live", "history"} /\ chosen \in BOOLEAN
    /\ agents \in AgentLists /\ agentSnapshot \in Snapshots /\ live \in BOOLEAN /\ agentItems \in Snapshots
    /\ DOMAIN fetch = Hooks /\ \A h \in Hooks : fetch[h] \in [Slots(h) -> Request(h)]
    /\ clicks \in 0 .. MaxClicks /\ changes \in 0 .. MaxChanges /\ faults \in 0 .. MaxFaults

\* An agent that is shown with the "last data" banner is shown in History
\* mode, however the list, the agent and the page changed before, unless
\* Live was chosen since its status was last seen to change.
OfflineShownInHistory == Banner => viewMode = "history" \/ chosen

\* When the user stays and requests succeed, the cards become those the
\* hub's statuses call for, and the drill-down shows the newest snapshot and
\* diagnoses of the agent of the address bar, whatever was shown or under
\* way when that agent was opened.  Of an agent the hub has no snapshot of,
\* nothing is claimed: the hook keeps what it showed.
Own(r) == newest[agent] > 0 => r = [of |-> agent, at |-> newest[agent]]
EventuallyOwn ==
    /\ <>[](agent = NoAgent => Cards = {a \in Agents : Matches(status[a], filter)})
    /\ <>[](agent # NoAgent => Own(agentSnapshot) /\ (newest[agent] > 0 => live))
    /\ <>[](agent # NoAgent /\ agentPage = "diagnostics" => Own(agentItems))
==============================================================================
