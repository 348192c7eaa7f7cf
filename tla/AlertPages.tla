------------------------------ MODULE AlertPages ------------------------------
(***************************************************************************)
(* The alerts of a hub in the browser: the alerts of an agent with their   *)
(* acknowledge and silence buttons (the overview and the alerts page of    *)
(* the drill-down), and the form of the alert configuration on /hub.       *)
(*                                                                         *)
(* Requests are not cancelled.  When the page they were sent from is gone  *)
(* their answers set nothing, but what they ask of the hub happens.        *)
(***************************************************************************)
EXTENDS Naturals, FiniteSets

CONSTANTS
    Agents, NoAgent,   \* NoAgent: the page is /hub
    Alerts,            \* ids of alerts
    Of,                \* the agent of an alert
    Rule,              \* the rule of an alert
    Fields,            \* fields of the configuration
    None,
    MaxReloads, MaxPosts, MaxPuts,   \* bounds: requests under way
    MaxPolls,          \* bound: reloads under way when the interval sends one
    MaxMoves,          \* bound: clicks of the user
    MaxOthers,         \* bound: requests of other users
    MaxFaults          \* bound: failures and restarts of the hub

ASSUME ConstantsAssumption ==
    /\ NoAgent \notin Agents /\ None \notin Alerts \cup {"load", "save"}
    /\ Of \in [Alerts -> Agents] /\ DOMAIN Rule = Alerts
    /\ {MaxReloads, MaxPosts, MaxPuts, MaxPolls} \subseteq Nat \ {0}
    /\ {MaxMoves, MaxOthers, MaxFaults} \subseteq Nat

Pages     == {"overview", "alerts"}
Statuses  == {"absent", "OPEN", "ACK"}
Rows      == [Alerts -> Statuses]
NoRows    == [id \in Alerts |-> "absent"]
SilenceKey(id) == <<Of[id], Rule[id]>>
SilenceKeys    == {SilenceKey(id) : id \in Alerts}

\* A field is its default, another valid number, or one that is out of range.
Configs  == [Fields -> {"default", "set", "bad"}]
Normal   == [Fields -> {"default", "set"}]
defaults == [f \in Fields |-> "default"]
\* Mutated form of Normalize: what was typed is taken as it is.
NormalizeNot(c) == c

Normalize(c) == [f \in Fields |-> IF c[f] = "bad" THEN "default" ELSE c[f]]

Idle == [phase |-> "idle"]

VARIABLES
    status,      \* hub: the alerts and their status
    silenced,    \* hub: the keys that are silenced
    mem, disk,   \* hub: the configuration, in memory and in the settings table
    agent, page,                        \* the address
    rows, ackingId, silencingKey,       \* useAlerts
    reloads,                            \* useAlerts: GET /alerts
    posts,                              \* POST ack, POST silence
    config, loading, saving, error, saved,  \* useHubAlertConfig
    load,                               \* useHubAlertConfig: GET /hub/alert-config
    puts,                               \* PUT /hub/alert-config
    open, draft,                        \* HubAlertSettings
    drift,       \* record: mem was changed by no request of this form since the last that was
    raced,       \* record: mem changed while a handler was to save what it read before
    unsaved,     \* record: the last save of the settings failed
    moves, others, faults

hubVars   == <<status, silenced, mem, disk>>
deskVars  == <<rows, ackingId, silencingKey, reloads>>
formVars  == <<config, loading, saving, error, saved, load, open, draft>>
notes     == <<drift, raced, unsaved>>
counters  == <<moves, others, faults>>
vars == <<hubVars, agent, page, deskVars, posts, formVars, puts, notes, counters>>

Init ==
    /\ status = NoRows /\ silenced = {} /\ mem = defaults /\ disk = defaults
    /\ agent \in Agents \cup {NoAgent} /\ page = "overview"
    /\ rows = NoRows /\ ackingId = None /\ silencingKey = None
    /\ reloads = [s \in 1 .. MaxReloads |-> IF s = 1 /\ agent # NoAgent THEN [phase |-> "sent", of |-> agent] ELSE Idle]
    /\ posts = [s \in 1 .. MaxPosts |-> Idle]
    /\ config = defaults /\ loading = (agent = NoAgent) /\ saving = FALSE /\ error = None /\ saved = FALSE
    /\ load = (IF agent = NoAgent THEN [phase |-> "sent"] ELSE Idle) /\ puts = [s \in 1 .. MaxPuts |-> Idle]
    /\ open = FALSE /\ draft = defaults
    /\ drift = FALSE /\ raced = FALSE /\ unsaved = FALSE
    /\ moves = 0 /\ others = 0 /\ faults = 0

Free(f)  == {s \in DOMAIN f : f[s] = Idle /\ \A t \in 1 .. s - 1 : f[t] # Idle}
Click    == moves < MaxMoves /\ moves' = moves + 1 /\ UNCHANGED <<others, faults>>
Fault    == faults < MaxFaults /\ faults' = faults + 1 /\ UNCHANGED <<moves, others>>

\* The requests of components that are gone: their answers set nothing.
Orphaned(f) == [s \in DOMAIN f |-> IF f[s] = Idle THEN Idle ELSE [f[s] EXCEPT !.mounted = FALSE]]

------------------------------------------------------------------------------
(* The address. *)

\* A page with alerts of agent b mounts, on it the first load of useAlerts.
MountDesk(b) ==
    /\ rows' = NoRows /\ ackingId' = None /\ silencingKey' = None
    /\ reloads' = [s \in 1 .. MaxReloads |-> IF s = 1 THEN [phase |-> "sent", of |-> b] ELSE Idle]
    /\ posts' = Orphaned(posts)

UnmountDesk ==
    /\ rows' = NoRows /\ ackingId' = None /\ silencingKey' = None
    /\ reloads' = [s \in 1 .. MaxReloads |-> Idle]
    /\ posts' = Orphaned(posts)

\* HubPage mounts the form, and on it the load of useHubAlertConfig.
MountForm ==
    /\ config' = defaults /\ loading' = TRUE /\ saving' = FALSE /\ error' = None /\ saved' = FALSE
    /\ load' = [phase |-> "sent"] /\ open' = FALSE /\ draft' = defaults

UnmountForm ==
    /\ config' = defaults /\ loading' = FALSE /\ saving' = FALSE /\ error' = None /\ saved' = FALSE
    /\ load' = Idle /\ open' = FALSE /\ draft' = defaults

OpenAgent(b) ==
    /\ agent = NoAgent /\ Click
    /\ agent' = b /\ page' = "overview"
    /\ MountDesk(b) /\ UnmountForm /\ puts' = Orphaned(puts)
    /\ UNCHANGED <<hubVars, notes>>

BackToHub ==
    /\ agent # NoAgent /\ Click
    /\ agent' = NoAgent /\ page' = "overview"
    /\ UnmountDesk /\ MountForm
    /\ UNCHANGED <<hubVars, puts, notes>>

\* The overview and the alerts page are different components.
OpenPage(q) ==
    /\ agent # NoAgent /\ q # page /\ Click
    /\ page' = q /\ MountDesk(agent)
    /\ UNCHANGED <<hubVars, agent, formVars, puts, notes>>

\* The overview of another agent: the component stays, the effect loads.
SwitchAgent(b) ==
    /\ agent # NoAgent /\ b \notin {NoAgent, agent} /\ Click
    /\ agent' = b /\ page' = "overview"
    /\ IF page = "overview"
       THEN /\ \E s \in Free(reloads) : reloads' = [reloads EXCEPT ![s] = [phase |-> "sent", of |-> b]]
            /\ UNCHANGED <<rows, ackingId, silencingKey, posts>>
       ELSE MountDesk(b)
    /\ UNCHANGED <<hubVars, formVars, puts, notes>>

------------------------------------------------------------------------------
(* useAlerts. *)

\* An alert is raised and written to alert_events.
Fire(id) ==
    /\ status[id] = "absent" /\ status' = [status EXCEPT ![id] = "OPEN"]
    /\ UNCHANGED <<silenced, mem, disk, agent, page, deskVars, posts, formVars, puts, notes, counters>>

\* Mutated form of Poll: there is no interval.
PollNever == FALSE /\ UNCHANGED vars

\* The interval.
Poll ==
    /\ agent # NoAgent
    /\ Cardinality({s \in DOMAIN reloads : reloads[s] # Idle}) < MaxPolls
    /\ \E s \in Free(reloads) : reloads' = [reloads EXCEPT ![s] = [phase |-> "sent", of |-> agent]]
    /\ UNCHANGED <<hubVars, agent, page, rows, ackingId, silencingKey, posts, formVars, puts, notes, counters>>

ListAlerts(a) == [id \in Alerts |-> IF Of[id] = a THEN status[id] ELSE "absent"]

ServeReload(s) ==
    /\ reloads[s].phase = "sent"
    /\ reloads' = [reloads EXCEPT ![s] = [phase |-> "answered", got |-> ListAlerts(reloads[s].of)]]
    /\ UNCHANGED <<hubVars, agent, page, rows, ackingId, silencingKey, posts, formVars, puts, notes, counters>>

\* Then and catch of reload.
Reload(s) ==
    /\ \/ reloads[s].phase = "answered" /\ rows' = reloads[s].got
       \/ reloads[s].phase = "rejected" /\ rows' = NoRows
    /\ reloads' = [reloads EXCEPT ![s] = Idle]
    /\ UNCHANGED <<hubVars, agent, page, ackingId, silencingKey, posts, formVars, puts, notes, counters>>

Post(kind, id) ==
    \E s \in Free(posts) :
        posts' = [posts EXCEPT ![s] = [phase |-> "sent", kind |-> kind, id |-> id, mounted |-> TRUE]]

\* The button of a row; it is there while the row is open.
Acknowledge(id) ==
    /\ rows[id] = "OPEN" /\ ackingId # id /\ Click
    /\ ackingId' = id /\ Post("ack", id)
    /\ UNCHANGED <<hubVars, agent, page, rows, silencingKey, reloads, formVars, puts, notes>>

\* For one hour or for 24; the overview has no such button.
Silence(id) ==
    /\ page = "alerts" /\ rows[id] = "OPEN" /\ silencingKey # SilenceKey(id) /\ Click
    /\ silencingKey' = SilenceKey(id) /\ Post("silence", id)
    /\ UNCHANGED <<hubVars, agent, page, rows, ackingId, reloads, formVars, puts, notes>>

To(f, s, p) == [f EXCEPT ![s].phase = p]

\* AcknowledgeAlert: the SELECT, and its 409 for an alert that is not open.
SelectAlert(s) ==
    /\ posts[s].phase = "sent" /\ posts[s].kind = "ack"
    /\ posts' = To(posts, s, IF status[posts[s].id] = "OPEN" THEN "selected" ELSE "rejected")
    /\ UNCHANGED <<hubVars, agent, page, deskVars, formVars, puts, notes, counters>>

\* Mutated form of UpdateAlert: its error is ignored.
UpdateAlertAnyway(s) ==
    /\ posts[s].phase = "selected"
    /\ \/ status' = [status EXCEPT ![posts[s].id] = "ACK"] /\ UNCHANGED counters
       \/ Fault /\ UNCHANGED status
    /\ posts' = To(posts, s, "answered")
    /\ UNCHANGED <<silenced, mem, disk, agent, page, deskVars, formVars, puts, notes>>

\* The UPDATE, which may fail.
UpdateAlert(s) ==
    /\ posts[s].phase = "selected"
    /\ \/ /\ status' = [status EXCEPT ![posts[s].id] = "ACK"]
          /\ posts' = To(posts, s, "answered") /\ UNCHANGED counters
       \/ Fault /\ posts' = To(posts, s, "rejected") /\ UNCHANGED status
    /\ UNCHANGED <<silenced, mem, disk, agent, page, deskVars, formVars, puts, notes>>

AddSilence(s) ==
    /\ posts[s].phase = "sent" /\ posts[s].kind = "silence"
    /\ silenced' = silenced \cup {SilenceKey(posts[s].id)}
    /\ posts' = To(posts, s, "answered")
    /\ UNCHANGED <<status, mem, disk, agent, page, deskVars, formVars, puts, notes, counters>>

\* Another user acknowledges an alert.
OtherAcks(id) ==
    /\ status[id] = "OPEN" /\ status' = [status EXCEPT ![id] = "ACK"]
    /\ others < MaxOthers /\ others' = others + 1
    /\ UNCHANGED <<silenced, mem, disk, agent, page, deskVars, posts, formVars, puts, notes, moves, faults>>

\* The rest of acknowledge and of silence.
Posted(s) ==
    /\ posts[s].phase \in {"answered", "rejected"}
    /\ LET p == posts[s]
       IN  IF ~p.mounted THEN UNCHANGED <<rows, ackingId, silencingKey>>
           ELSE IF p.kind = "silence"
           THEN silencingKey' = None /\ UNCHANGED <<rows, ackingId>>
           ELSE /\ rows' = IF p.phase = "answered" /\ rows[p.id] # "absent"
                           THEN [rows EXCEPT ![p.id] = "ACK"] ELSE rows
                /\ ackingId' = None /\ UNCHANGED silencingKey
    /\ posts' = [posts EXCEPT ![s] = Idle]
    /\ UNCHANGED <<hubVars, agent, page, reloads, formVars, puts, notes, counters>>

------------------------------------------------------------------------------
(* useHubAlertConfig and the form. *)

ServeLoad ==
    /\ load.phase = "sent" /\ load' = [phase |-> "answered", got |-> mem]
    /\ drift' = FALSE
    /\ UNCHANGED <<hubVars, agent, page, deskVars, posts, config, loading, saving, error, saved, open, draft,
                   puts, raced, unsaved, counters>>

Loaded ==
    /\ \/ load.phase = "answered" /\ config' = load.got /\ UNCHANGED error
       \/ load.phase = "rejected" /\ error' = "load" /\ UNCHANGED config
    /\ loading' = FALSE /\ load' = Idle
    /\ UNCHANGED <<hubVars, agent, page, deskVars, posts, saving, saved, open, draft, puts, notes, counters>>

Shown == agent = NoAgent /\ ~loading

HandleOpen ==
    /\ Shown /\ ~open /\ Click
    /\ open' = TRUE /\ draft' = config
    /\ UNCHANGED <<hubVars, agent, page, deskVars, posts, config, loading, saving, error, saved, load, puts, notes>>

Cancel ==
    /\ Shown /\ open /\ Click /\ open' = FALSE
    /\ UNCHANGED <<hubVars, agent, page, deskVars, posts, config, loading, saving, error, saved, load, draft,
                   puts, notes>>

Patch(f, v) ==
    /\ Shown /\ open /\ draft[f] # v /\ draft' = [draft EXCEPT ![f] = v]
    /\ UNCHANGED <<hubVars, agent, page, deskVars, posts, config, loading, saving, error, saved, load, open,
                   puts, notes, counters>>

Put(body, mounted) ==
    \E s \in Free(puts) :
        puts' = [puts EXCEPT ![s] = [phase |-> "sent", body |-> body, read |-> None, mounted |-> mounted]]

HandleSave ==
    /\ Shown /\ open /\ ~saving /\ Click
    /\ saving' = TRUE /\ error' = None /\ saved' = FALSE
    /\ Put(draft, TRUE)
    /\ UNCHANGED <<hubVars, agent, page, deskVars, posts, config, loading, load, open, draft, notes>>

\* Another user saves a form (bound: while this one is shown; a form that
\* mounts later starts from what the hub then has).
OtherSaves(c) ==
    /\ agent = NoAgent /\ others < MaxOthers /\ others' = others + 1
    /\ Put(c, FALSE)
    /\ UNCHANGED <<hubVars, agent, page, deskVars, posts, formVars, notes, moves, faults>>

\* ConfigStore.Update.
Update(s) ==
    /\ puts[s].phase = "sent"
    /\ mem' = Normalize(puts[s].body)
    /\ puts' = [puts EXCEPT ![s].phase = "updated", ![s].body = mem']
    /\ drift' = ~puts[s].mounted
    /\ raced' = (raced \/ \E t \in DOMAIN puts : puts[t].phase = "read")
    /\ UNCHANGED <<status, silenced, disk, agent, page, deskVars, posts, formVars, unsaved, counters>>

\* ConfigStore.Persist: Get, then SaveSetting, whose error is only logged.
PersistGets(s) ==
    /\ puts[s].phase = "updated"
    /\ puts' = [puts EXCEPT ![s].phase = "read", ![s].read = mem]
    /\ UNCHANGED <<hubVars, agent, page, deskVars, posts, formVars, notes, counters>>

\* Mutated form of PersistSaves: INSERT OR IGNORE, only the first save stays.
PersistSavesFirst(s) ==
    /\ puts[s].phase = "read"
    /\ \/ disk' = (IF disk = defaults THEN puts[s].read ELSE disk) /\ unsaved' = FALSE /\ UNCHANGED counters
       \/ Fault /\ unsaved' = TRUE /\ UNCHANGED disk
    /\ puts' = [puts EXCEPT ![s].phase = "answered", ![s].read = None]
    /\ UNCHANGED <<status, silenced, mem, agent, page, deskVars, posts, formVars, drift, raced>>

PersistSaves(s) ==
    /\ puts[s].phase = "read"
    /\ \/ disk' = puts[s].read /\ unsaved' = FALSE /\ UNCHANGED counters
       \/ Fault /\ unsaved' = TRUE /\ UNCHANGED disk
    /\ puts' = [puts EXCEPT ![s].phase = "answered", ![s].read = None]
    /\ UNCHANGED <<status, silenced, mem, agent, page, deskVars, posts, formVars, drift, raced>>

\* Mutated form of Saved: a failure is not shown (no catch).
SavedSilently(s) ==
    /\ puts[s].phase \in {"answered", "rejected"}
    /\ IF ~puts[s].mounted THEN UNCHANGED formVars
       ELSE /\ IF puts[s].phase = "answered"
               THEN config' = puts[s].body /\ saved' = TRUE
               ELSE UNCHANGED <<config, saved>>
            /\ saving' = FALSE /\ open' = FALSE
            /\ UNCHANGED <<error, loading, load, draft>>
    /\ puts' = [puts EXCEPT ![s] = Idle]
    /\ UNCHANGED <<hubVars, agent, page, deskVars, posts, notes, counters>>

\* The rest of save and of handleSave.
Saved(s) ==
    /\ puts[s].phase \in {"answered", "rejected"}
    /\ IF ~puts[s].mounted THEN UNCHANGED formVars
       ELSE /\ IF puts[s].phase = "answered"
               THEN config' = puts[s].body /\ saved' = TRUE /\ UNCHANGED error
               ELSE error' = "save" /\ UNCHANGED <<config, saved>>
            /\ saving' = FALSE /\ open' = FALSE
            /\ UNCHANGED <<loading, load, draft>>
    /\ puts' = [puts EXCEPT ![s] = Idle]
    /\ UNCHANGED <<hubVars, agent, page, deskVars, posts, notes, counters>>

------------------------------------------------------------------------------
(* Failures. *)

Failed(f) == [s \in DOMAIN f |-> IF f[s].phase \in {"idle", "answered"} THEN f[s]
                                 ELSE [f[s] EXCEPT !.phase = "rejected"]]

\* A request does not reach the hub, or its answer is lost.
Lose ==
    /\ \/ \E s \in DOMAIN reloads : /\ reloads[s].phase = "sent" /\ reloads' = To(reloads, s, "rejected")
                                    /\ UNCHANGED <<load, posts, puts>>
       \/ \E s \in DOMAIN posts : /\ posts[s].phase \in {"sent", "answered"} /\ posts' = To(posts, s, "rejected")
                                  /\ UNCHANGED <<load, reloads, puts>>
       \/ \E s \in DOMAIN puts : /\ puts[s].phase \in {"sent", "answered"} /\ puts' = To(puts, s, "rejected")
                                 /\ UNCHANGED <<load, reloads, posts>>
       \/ load.phase = "sent" /\ load' = [phase |-> "rejected"] /\ UNCHANGED <<reloads, posts, puts>>
    /\ Fault
    /\ UNCHANGED <<hubVars, agent, page, rows, ackingId, silencingKey, config, loading, saving, error, saved,
                   open, draft, notes>>

\* LoadConfigStore takes the configuration from the settings.
RestartHub ==
    /\ Fault
    /\ mem' = disk /\ drift' = TRUE /\ raced' = FALSE /\ unsaved' = FALSE
    /\ reloads' = Failed(reloads) /\ posts' = Failed(posts) /\ puts' = Failed(puts)
    /\ load' = IF load.phase = "sent" THEN [phase |-> "rejected"] ELSE load
    /\ UNCHANGED <<status, silenced, disk, agent, page, rows, ackingId, silencingKey, config, loading, saving,
                   error, saved, open, draft>>

------------------------------------------------------------------------------

User ==
    \/ \E b \in Agents : OpenAgent(b) \/ SwitchAgent(b)
    \/ BackToHub
    \/ \E q \in Pages : OpenPage(q)
    \/ \E id \in Alerts : Acknowledge(id) \/ Silence(id)
    \/ HandleOpen \/ Cancel \/ HandleSave
    \/ \E f \in Fields, v \in {"default", "set", "bad"} : Patch(f, v)

Others ==
    \/ \E id \in Alerts : Fire(id) \/ OtherAcks(id)
    \/ \E c \in Normal : OtherSaves(c)

Hub ==
    \/ \E s \in 1 .. MaxReloads : ServeReload(s)
    \/ \E s \in 1 .. MaxPosts : SelectAlert(s) \/ UpdateAlert(s) \/ AddSilence(s)
    \/ ServeLoad
    \/ \E s \in 1 .. MaxPuts : Update(s) \/ PersistGets(s) \/ PersistSaves(s)

Callbacks ==
    \/ \E s \in 1 .. MaxReloads : Reload(s)
    \/ \E s \in 1 .. MaxPosts : Posted(s)
    \/ Loaded
    \/ \E s \in 1 .. MaxPuts : Saved(s)

Next == User \/ Others \/ Poll \/ Hub \/ Callbacks \/ Lose \/ RestartHub

Spec == Init /\ [][Next]_vars

\* The interval goes on, the hub's handlers and the browser's callbacks run.
Fairness ==
    /\ WF_vars(Poll) /\ WF_vars(ServeLoad) /\ WF_vars(Loaded)
    /\ \A s \in 1 .. MaxReloads : WF_vars(ServeReload(s)) /\ WF_vars(Reload(s))
    /\ \A s \in 1 .. MaxPosts : WF_vars(SelectAlert(s) \/ UpdateAlert(s) \/ AddSilence(s)) /\ WF_vars(Posted(s))
    /\ \A s \in 1 .. MaxPuts : WF_vars(Update(s) \/ PersistGets(s) \/ PersistSaves(s)) /\ WF_vars(Saved(s))

FairSpec == Spec /\ Fairness

------------------------------------------------------------------------------
(* Properties. *)

\* Types of the state; the hub holds, and the closed form shows, no number
\* that is out of range, whatever was typed.
TypeOK ==
    /\ status \in Rows /\ silenced \subseteq SilenceKeys /\ mem \in Normal /\ disk \in Normal
    /\ agent \in Agents \cup {NoAgent} /\ page \in Pages
    /\ rows \in Rows /\ ackingId \in Alerts \cup {None} /\ silencingKey \in SilenceKeys \cup {None}
    /\ config \in Normal /\ draft \in Configs
    /\ {loading, saving, saved, open, drift, raced, unsaved} \subseteq BOOLEAN
    /\ error \in {None, "load", "save"}
    /\ load.phase \in {"idle", "sent", "answered", "rejected"}
    /\ \A s \in DOMAIN reloads : reloads[s].phase \in {"idle", "sent", "answered", "rejected"}
    /\ \A s \in DOMAIN posts : posts[s].phase \in {"idle", "sent", "selected", "answered", "rejected"}
    /\ \A s \in DOMAIN puts : puts[s].phase \in {"idle", "sent", "updated", "read", "answered", "rejected"}
    /\ moves \in 0 .. MaxMoves /\ others \in 0 .. MaxOthers /\ faults \in 0 .. MaxFaults

\* A row that shows an acknowledgement is acknowledged in the history.
AckShownStored == \A id \in Alerts : rows[id] = "ACK" => status[id] = "ACK"

\* What the form shows without an error is the configuration of the hub,
\* unless something else has changed that since.
FormCurrent == Shown /\ ~saving /\ error = None => config = mem \/ drift

\* When no save is under way, a restart would keep the configuration, unless
\* the database refused it or two saves overtook each other.
DiskFollows ==
    (\A s \in DOMAIN puts : puts[s].phase \notin {"updated", "read"}) => disk = mem \/ raced \/ unsaved

\* When the user stays and requests succeed, the page of an agent shows the
\* agent's alerts with the status they have, and no form keeps saving.
EventuallyShown ==
    /\ <>[](agent # NoAgent => rows = ListAlerts(agent))
    /\ <>[](~loading /\ ~saving /\ ackingId = None /\ silencingKey = None)
===============================================================================
