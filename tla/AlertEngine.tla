----------------------------- MODULE AlertEngine -----------------------------
(***************************************************************************)
(* The hub's alert path: the goroutines that enqueue events (ingest        *)
(* handlers and the stale checker), the dispatch worker Engine.Run with    *)
(* its silence check, cooldown, retries and notification channels, the     *)
(* SilenceStore that HTTP handlers extend, and a restart of the hub.       *)
(*                                                                         *)
(* An event is a number and the key it is deduplicated by.  Which rule     *)
(* fired, and on which values, is left out: any key may fire.              *)
(***************************************************************************)
EXTENDS Naturals, Sequences, FiniteSets

CONSTANTS
    Agents, Types,
    AnyRule,         \* the empty RuleID: mutes every type of an agent
    Producers,       \* goroutines that may be inside enqueue at once
    Channels,        \* notification channels, 1 .. n in the order of the fan-out
    Hung,            \* channels whose server accepts and never answers
    QueueSize,       \* capacity of Engine.queue
    PendingCap,      \* capacity of Engine.pending
    MaxRetry,        \* Engine.maxRetry
    Cooldowns,       \* values ConfigStore.Cooldown may return
    Durations,       \* silence windows that may be asked for
    HistoryEnabled,  \* there is a history store to persist silences in
    MaxTime,         \* bound: the clock
    MaxEvents,       \* bound: events raised
    MaxFaults,       \* bound: failed notifications and settings statements
    MaxRestarts      \* bound: restarts of the hub

Keys      == Agents \X Types
MuteKeys  == Agents \X (Types \cup {AnyRule})

ASSUME ConstantsAssumption ==
    /\ AnyRule \notin Types
    /\ Channels \subseteq Nat /\ Hung \subseteq Channels
    /\ QueueSize \in Nat \ {0} /\ PendingCap \in Nat \ {0} /\ MaxRetry \in Nat \ {0}
    /\ Cooldowns \subseteq Nat \ {0} /\ Cooldowns # {}
    /\ Durations \subseteq Nat \ {0}
    /\ HistoryEnabled \in BOOLEAN
    /\ MaxTime \in Nat /\ MaxEvents \in Nat /\ MaxFaults \in Nat /\ MaxRestarts \in Nat

VARIABLES
    now,        \* the clock
    cooldown,   \* what ConfigStore.Cooldown returns
    raised,     \* events raised so far
    ppc, pev,   \* producer -> where it is in enqueue, and its event
    queue,      \* the channel Engine.queue
    wpc,        \* where the worker is in deliver
    cur,        \* the event it delivers
    attempt,    \* number of the current attempt
    admitted,   \* when cur passed the cooldown check, and under which cooldown
    lastSent,   \* Engine.lastSent, 0 if there is no entry
    pending,    \* Engine.pending, the ring of failed events
    opened,     \* table alert_events: events recorded as OPEN
    silences,   \* SilenceStore.entries: key -> until, 0 if there is no entry
    saved,      \* the same in hub_settings
    sent,       \* record: the successful notifications
    outcome,    \* record: what became of each event
    acked,      \* record: key -> until of the last silence answered with 200
    unread,     \* record: a start of the hub failed to read the silences
    life,       \* the number of the hub's current process
    faults      \* failures so far

producerVars == <<raised, ppc, pev>>
workerVars   == <<wpc, cur, attempt, admitted>>
silenceVars  == <<silences, saved, acked, unread>>
vars == <<now, cooldown, producerVars, queue, workerVars, lastSent, pending, opened, silenceVars,
          sent, outcome, life, faults>>

Event    == [n : Nat \ {0}, key : Keys]
NoEvent  == [n |-> 0, key |-> <<>>]
NotAdmitted == [at |-> 0, cooldown |-> 0]
Outcomes == {"sent", "silenced", "cooled", "failed", "dropped", "lost"}

Fault == faults < MaxFaults /\ faults' = faults + 1

\* The end of an event's life.
Becomes(e, o) == outcome' = [outcome EXCEPT ![o] = @ \cup {e}]

Init ==
    /\ now = 1
    /\ cooldown \in Cooldowns
    /\ raised = 0
    /\ ppc = [p \in Producers |-> "idle"] /\ pev = [p \in Producers |-> NoEvent]
    /\ queue = <<>>
    /\ wpc = "idle" /\ cur = NoEvent /\ attempt = 0 /\ admitted = NotAdmitted
    /\ lastSent = [k \in Keys |-> 0]
    /\ pending = <<>>
    /\ opened = {}
    /\ silences = [k \in MuteKeys |-> 0]
    /\ saved = [k \in MuteKeys |-> 0]
    /\ acked = [k \in MuteKeys |-> 0]
    /\ unread = FALSE
    /\ sent = {}
    /\ outcome = [o \in Outcomes |-> {}]
    /\ life = 0 /\ faults = 0

-----------------------------------------------------------------------------
(* enqueue: three selects, none of them atomic with the next.              *)

At(p, pc) == ppc[p] = pc
Goto(p, pc) == ppc' = [ppc EXCEPT ![p] = pc]
Leave(p) == Goto(p, "idle") /\ pev' = [pev EXCEPT ![p] = NoEvent]

Raise(p, k) ==
    /\ At(p, "idle") /\ raised < MaxEvents
    /\ raised' = raised + 1
    /\ pev' = [pev EXCEPT ![p] = [n |-> raised + 1, key |-> k]]
    /\ Goto(p, "offer")
    /\ UNCHANGED <<now, cooldown, queue, workerVars, lastSent, pending, opened, silenceVars, sent, outcome, life, faults>>

Offer(p) ==
    /\ At(p, "offer") /\ Len(queue) < QueueSize
    /\ queue' = Append(queue, pev[p])
    /\ Leave(p)
    /\ UNCHANGED <<now, cooldown, raised, workerVars, lastSent, pending, opened, silenceVars, sent, outcome, life, faults>>

OfferFull(p) ==
    /\ At(p, "offer") /\ Len(queue) >= QueueSize
    /\ Goto(p, "evict")
    /\ UNCHANGED <<now, cooldown, raised, pev, queue, workerVars, lastSent, pending, opened, silenceVars, sent, outcome, life, faults>>

Evict(p) ==
    /\ At(p, "evict") /\ queue # <<>>
    /\ Becomes(Head(queue), "dropped")
    /\ queue' = Tail(queue)
    /\ Goto(p, "reoffer")
    /\ UNCHANGED <<now, cooldown, raised, pev, workerVars, lastSent, pending, opened, silenceVars, sent, life, faults>>

EvictNothing(p) ==
    /\ At(p, "evict") /\ queue = <<>>
    /\ Goto(p, "reoffer")
    /\ UNCHANGED <<now, cooldown, raised, pev, queue, workerVars, lastSent, pending, opened, silenceVars, sent, outcome, life, faults>>

Reoffer(p) ==
    /\ At(p, "reoffer") /\ Len(queue) < QueueSize
    /\ queue' = Append(queue, pev[p])
    /\ Leave(p)
    /\ UNCHANGED <<now, cooldown, raised, workerVars, lastSent, pending, opened, silenceVars, sent, outcome, life, faults>>

\* Another producer has taken the room: the new event is dropped, unlogged.
ReofferFull(p) ==
    /\ At(p, "reoffer") /\ Len(queue) >= QueueSize
    /\ Becomes(pev[p], "dropped")
    /\ Leave(p)
    /\ UNCHANGED <<now, cooldown, raised, queue, workerVars, lastSent, pending, opened, silenceVars, sent, life, faults>>

Enqueue(p) ==
    \/ Offer(p) \/ OfferFull(p)
    \/ Evict(p) \/ EvictNothing(p)
    \/ Reoffer(p) \/ ReofferFull(p)

-----------------------------------------------------------------------------
(* The worker: Run and deliver.                                            *)

\* deliver returns.
Done == wpc' = "idle" /\ cur' = NoEvent /\ attempt' = 0 /\ admitted' = NotAdmitted

Take ==
    /\ wpc = "idle" /\ queue # <<>>
    /\ cur' = Head(queue)
    /\ queue' = Tail(queue)
    /\ wpc' = "silence"
    /\ UNCHANGED <<now, cooldown, producerVars, attempt, admitted, lastSent, pending, opened, silenceVars, sent, outcome, life, faults>>

\* pruneLocked: entries leave the memory at their end, not the database.
Pruned == [k \in MuteKeys |-> IF silences[k] > now THEN silences[k] ELSE 0]
IsSilenced(k) == \E rule \in {k[2], AnyRule} : silences[<<k[1], rule>>] > now

CheckSilence ==
    /\ wpc = "silence"
    /\ silences' = Pruned
    /\ IF IsSilenced(cur.key)
       THEN Becomes(cur, "silenced") /\ Done
       ELSE wpc' = "cooldown" /\ UNCHANGED <<outcome, cur, attempt, admitted>>
    /\ UNCHANGED <<now, cooldown, producerVars, queue, lastSent, pending, opened, saved, acked, unread, sent, life, faults>>

\* The cooldown of a key in lastSent is not over.
Cooling(k) == lastSent[k] # 0 /\ now - lastSent[k] < cooldown

\* Mutated form of CheckCooldown: check and set, before anything is sent.
CheckAndSetCooldown ==
    /\ wpc = "cooldown"
    /\ IF Cooling(cur.key)
       THEN Becomes(cur, "cooled") /\ Done /\ UNCHANGED lastSent
       ELSE /\ wpc' = "notify"
            /\ attempt' = 1
            /\ admitted' = [at |-> now, cooldown |-> cooldown]
            /\ lastSent' = [lastSent EXCEPT ![cur.key] = now]
            /\ UNCHANGED <<outcome, cur>>
    /\ UNCHANGED <<now, cooldown, producerVars, queue, pending, opened, silenceVars, sent, life, faults>>

CheckCooldown ==
    /\ wpc = "cooldown"
    /\ IF Cooling(cur.key)
       THEN Becomes(cur, "cooled") /\ Done
       ELSE /\ wpc' = "notify"
            /\ attempt' = 1
            /\ admitted' = [at |-> now, cooldown |-> cooldown]
            /\ UNCHANGED <<outcome, cur>>
    /\ UNCHANGED <<now, cooldown, producerVars, queue, lastSent, pending, opened, silenceVars, sent, life, faults>>

\* The channels share one 5 s context: what comes after a hung one fails.
Reachable == {c \in Channels : \A h \in Hung : c < h}

\* Mutated form of MarkSent: the time at which deliver began.
MarkAdmitted == lastSent' = [lastSent EXCEPT ![cur.key] = admitted.at]

MarkSent == lastSent' = [lastSent EXCEPT ![cur.key] = now]

\* PersistingNotifier ignores the error of SaveAlertEvent.
SaveAlertEvent ==
    \/ opened' = (IF HistoryEnabled THEN opened \cup {cur} ELSE opened) /\ UNCHANGED faults
    \/ HistoryEnabled /\ Fault /\ UNCHANGED opened

\* A channel took the event; the fan-out forgets those that did not.
NotifyOk ==
    /\ wpc = "notify" /\ Reachable # {}
    /\ SaveAlertEvent
    /\ MarkSent
    /\ sent' = sent \cup {[event |-> cur, at |-> now, admitted |-> admitted, life |-> life]}
    /\ Becomes(cur, "sent")
    /\ Done
    /\ UNCHANGED <<now, cooldown, producerVars, queue, pending, silenceVars, life>>

RecordPending(e) ==
    pending' = Append(IF Len(pending) >= PendingCap THEN Tail(pending) ELSE pending, e)

\* Mutated form of MayRetry: one attempt too many.
MayRetryOnceMore == attempt <= MaxRetry

MayRetry == attempt < MaxRetry

\* Mutated form of NotifyFails: a failed event is put back in the queue.
NotifyFailsRequeues ==
    /\ wpc = "notify"
    /\ IF Reachable = {} THEN UNCHANGED faults ELSE Fault
    /\ IF MayRetry
       THEN wpc' = "backoff" /\ UNCHANGED <<queue, cur, attempt, admitted, pending, outcome>>
       ELSE RecordPending(cur) /\ queue' = Append(queue, cur) /\ Becomes(cur, "failed") /\ Done
    /\ UNCHANGED <<now, cooldown, producerVars, lastSent, opened, silenceVars, sent, life>>

\* Every channel failed.
NotifyFails ==
    /\ wpc = "notify"
    /\ IF Reachable = {} THEN UNCHANGED faults ELSE Fault
    /\ IF MayRetry
       THEN wpc' = "backoff" /\ UNCHANGED <<cur, attempt, admitted, pending, outcome>>
       ELSE RecordPending(cur) /\ Becomes(cur, "failed") /\ Done
    /\ UNCHANGED <<now, cooldown, producerVars, queue, lastSent, opened, silenceVars, sent, life>>

\* Mutated form of Backoff: the attempt is not counted.
BackoffUncounted ==
    /\ wpc = "backoff"
    /\ wpc' = "notify"
    /\ UNCHANGED <<now, cooldown, producerVars, queue, cur, attempt, admitted, lastSent, pending, opened, silenceVars, sent, outcome, life, faults>>

Backoff ==
    /\ wpc = "backoff"
    /\ attempt' = attempt + 1
    /\ wpc' = "notify"
    /\ UNCHANGED <<now, cooldown, producerVars, queue, cur, admitted, lastSent, pending, opened, silenceVars, sent, outcome, life, faults>>

Run == Take \/ CheckSilence \/ CheckCooldown \/ NotifyOk \/ NotifyFails \/ Backoff

-----------------------------------------------------------------------------
(* The silence handlers.  SilenceStore.mu is held throughout each.         *)

Later(a, b) == IF a > b THEN a ELSE b

AddInMemory(k, d) == silences' = [Pruned EXCEPT ![k] = Later(@, now + d)]

\* Mutated form of Silence: persisted before the entry is in the list.
SilenceSavedFirst(k, d) ==
    /\ AddInMemory(k, d)
    /\ saved' = IF HistoryEnabled THEN Pruned ELSE saved
    /\ acked' = [acked EXCEPT ![k] = silences'[k]]
    /\ UNCHANGED <<now, cooldown, producerVars, queue, workerVars, lastSent, pending, opened, unread, sent, outcome, life, faults>>

Silence(k, d) ==
    /\ AddInMemory(k, d)
    /\ saved' = IF HistoryEnabled THEN silences' ELSE saved
    /\ acked' = [acked EXCEPT ![k] = silences'[k]]
    /\ UNCHANGED <<now, cooldown, producerVars, queue, workerVars, lastSent, pending, opened, unread, sent, outcome, life, faults>>

\* SaveSetting fails: the request is answered 500, the memory keeps the entry.
SilenceUnsaved(k, d) ==
    /\ HistoryEnabled /\ Fault
    /\ AddInMemory(k, d)
    /\ UNCHANGED <<now, cooldown, producerVars, queue, workerVars, lastSent, pending, opened, saved, acked, unread, sent, outcome, life>>

ListSilences ==
    /\ silences' = Pruned
    /\ UNCHANGED <<now, cooldown, producerVars, queue, workerVars, lastSent, pending, opened, saved, acked, unread, sent, outcome, life, faults>>

-----------------------------------------------------------------------------
(* Time, the configuration and the process.                                *)

Tick ==
    /\ now < MaxTime
    /\ now' = now + 1
    /\ UNCHANGED <<cooldown, producerVars, queue, workerVars, lastSent, pending, opened, silenceVars, sent, outcome, life, faults>>

UpdateConfig(c) ==
    /\ cooldown' = c
    /\ UNCHANGED <<now, producerVars, queue, workerVars, lastSent, pending, opened, silenceVars, sent, outcome, life, faults>>

\* Events held by a producer, the queue or the worker.
InFlight ==
    ({pev[p] : p \in Producers} \cup {queue[i] : i \in DOMAIN queue} \cup {cur}) \ {NoEvent}

\* LoadSilenceStore.
LoadSilences ==
    \/ /\ silences' = [k \in MuteKeys |-> IF saved[k] > now THEN saved[k] ELSE 0]
       /\ UNCHANGED <<unread, faults>>
    \/ /\ HistoryEnabled /\ Fault
       /\ silences' = [k \in MuteKeys |-> 0]
       /\ unread' = TRUE

\* The hub ends, by a signal or a crash, and starts again.
Restart(c) ==
    /\ life < MaxRestarts
    /\ life' = life + 1
    /\ cooldown' = c
    /\ outcome' = [outcome EXCEPT !["lost"] = @ \cup InFlight]
    /\ ppc' = [p \in Producers |-> "idle"] /\ pev' = [p \in Producers |-> NoEvent]
    /\ queue' = <<>>
    /\ Done
    /\ lastSent' = [k \in Keys |-> 0]
    /\ pending' = <<>>
    /\ LoadSilences
    /\ UNCHANGED <<now, raised, opened, saved, acked, sent>>

-----------------------------------------------------------------------------
Next ==
    \/ \E p \in Producers : Enqueue(p) \/ \E k \in Keys : Raise(p, k)
    \/ Run
    \/ \E k \in MuteKeys, d \in Durations : Silence(k, d) \/ SilenceUnsaved(k, d)
    \/ ListSilences
    \/ Tick
    \/ \E c \in Cooldowns : UpdateConfig(c) \/ Restart(c)

Spec == Init /\ [][Next]_vars

\* The goroutines are scheduled; a notification ends, one way or the other,
\* when its 5 s context does.
Fairness == WF_vars(Run) /\ \A p \in Producers : WF_vars(Enqueue(p))
FairSpec == Spec /\ Fairness

-----------------------------------------------------------------------------
TypeOK ==
    /\ now \in Nat \ {0} /\ cooldown \in Cooldowns /\ raised \in Nat
    /\ ppc \in [Producers -> {"idle", "offer", "evict", "reoffer"}]
    /\ pev \in [Producers -> Event \cup {NoEvent}]
    /\ queue \in Seq(Event)
    /\ wpc \in {"idle", "silence", "cooldown", "notify", "backoff"}
    /\ cur \in Event \cup {NoEvent}
    /\ attempt \in 0 .. MaxRetry
    /\ admitted \in [at : Nat, cooldown : Nat]
    /\ lastSent \in [Keys -> Nat]
    /\ pending \in Seq(Event) /\ Len(pending) <= PendingCap
    /\ opened \subseteq Event
    /\ silences \in [MuteKeys -> Nat] /\ saved \in [MuteKeys -> Nat] /\ acked \in [MuteKeys -> Nat]
    /\ unread \in BOOLEAN
    /\ sent \subseteq [event : Event, at : Nat, admitted : [at : Nat, cooldown : Nat], life : Nat]
    /\ outcome \in [Outcomes -> SUBSET Event]
    /\ life \in Nat /\ faults \in Nat

(* HUB.md, Cooldown: two notifications of the same agent and type that one *)
(* process of the hub sends are the cooldown apart, the cooldown being the *)
(* one configured when the later of them was let through.                  *)
CooldownRespected ==
    \A s, t \in sent :
        (s # t /\ s.life = t.life /\ s.event.key = t.event.key /\ s.at <= t.at)
            => t.admitted.at >= s.at + t.admitted.cooldown

(* What CooldownRespected rests on: lastSent is the time of the last        *)
(* notification of this process, and what the worker was let through with  *)
(* is still good when it notifies, however many attempts later.            *)
LastSentOK ==
    /\ \A k \in Keys : lastSent[k] <= now
    /\ \A k \in Keys : lastSent[k] # 0 =>
          \E s \in sent : s.event.key = k /\ s.life = life /\ s.at = lastSent[k]
    /\ \A s \in sent :
          /\ s.life <= life /\ s.at # 0
          /\ s.life = life => s.at <= lastSent[s.event.key]
AdmissionOK ==
    /\ wpc # "idle" => cur \in Event
    /\ wpc \in {"notify", "backoff"} =>
          /\ attempt # 0
          /\ admitted.cooldown \in Cooldowns /\ admitted.at <= now
          /\ lastSent[cur.key] # 0 => lastSent[cur.key] + admitted.cooldown <= admitted.at
    /\ wpc = "backoff" => attempt < MaxRetry

(* Every event that was raised is in one place: with one producer, in the  *)
(* queue once, with the worker, or settled in one way.                     *)
Settled == UNION {outcome[o] : o \in Outcomes}
EachEventOnce ==
    /\ {e.n : e \in InFlight \cup Settled} = 1 .. raised
    /\ \A d, e \in InFlight \cup Settled : d.n = e.n => d = e
    /\ InFlight \cap Settled = {}
    /\ \A o1, o2 \in Outcomes : o1 # o2 => outcome[o1] \cap outcome[o2] = {}
    /\ \A i, j \in DOMAIN queue : i # j => queue[i] # queue[j]
    /\ cur \notin {queue[i] : i \in DOMAIN queue}
    /\ \A p \in Producers : pev[p] # NoEvent =>
          /\ pev[p] # cur
          /\ pev[p] \notin {queue[i] : i \in DOMAIN queue}
          /\ \A q \in Producers : q # p => pev[q] # pev[p]

(* A silence that was answered with 200 mutes its agent and rule until the *)
(* end it was given, across failed saves of other silences, prunings and   *)
(* restarts, unless a start of the hub failed to read the settings.        *)
SilencesSurvive ==
    HistoryEnabled /\ ~unread =>
        \A k \in MuteKeys : acked[k] > now => silences[k] >= acked[k]

(* What SilencesSurvive rests on: the database has the window as well, so  *)
(* the next start of the hub will read it.                                 *)
SavedOK ==
    HistoryEnabled /\ ~unread =>
        \A k \in MuteKeys : acked[k] > now => saved[k] >= acked[k]

(* A goroutine inside enqueue has an event.                                *)
ProducersOK == \A p \in Producers : ppc[p] # "idle" => pev[p] \in Event

(* Who is idle has none: it moved on with the step that gave it away.      *)
IdleOK ==
    /\ \A p \in Producers : ppc[p] = "idle" => pev[p] = NoEvent
    /\ wpc = "idle" => cur = NoEvent

(* The inductive invariant.                                                *)
IInv ==
    /\ TypeOK /\ ProducersOK /\ IdleOK /\ LastSentOK /\ AdmissionOK /\ CooldownRespected
    /\ SavedOK /\ SilencesSurvive /\ EachEventOnce

(* No request, failed or not, shortens a silence in force.                 *)
SilencesNotShortened ==
    [][life' = life => \A k \in MuteKeys : silences[k] > now => silences'[k] >= silences[k]]_vars

(* An event is suppressed by the cooldown only if this process did notify  *)
(* the same agent and type, and less than a cooldown ago.                  *)
SuppressionJustified ==
    [][\A e \in outcome'["cooled"] \ outcome["cooled"] :
          \E s \in sent : /\ s.event.key = e.key /\ s.life = life
                          /\ now < s.at + cooldown]_vars

(* Each event raised is eventually settled, even if no channel answers:    *)
(* enqueue never blocks the ingest handler and the worker gives up.        *)
EventuallySettled ==
    \A n \in 1 .. MaxEvents : (n <= raised) ~> (\E e \in Settled : e.n = n)
=============================================================================
