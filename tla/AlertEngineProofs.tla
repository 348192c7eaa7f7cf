------------------------- MODULE AlertEngineProofs -------------------------
(***************************************************************************)
(* Safety theorems of AlertEngine, for every value of its constants: any   *)
(* number of producers, keys and channels, any capacity, cooldown, silence *)
(* window and bound.                                                       *)
(*                                                                         *)
(* IInv is inductive.  Its parts depend on different variables, so each    *)
(* has a step lemma of its own, and the actions that leave its variables   *)
(* alone are treated together.                                             *)
(***************************************************************************)
EXTENDS AlertEngine, TLAPS

-----------------------------------------------------------------------------
(* Types.                                                                  *)

LEMMA BecomesType ==
  ASSUME NEW o \in Outcomes, NEW e \in Event,
         outcome \in [Outcomes -> SUBSET Event], Becomes(e, o)
  PROVE  outcome' \in [Outcomes -> SUBSET Event]
BY DEF Becomes

LEMMA QueueFacts ==
  ASSUME NEW q \in Seq(Event)
  PROVE  /\ \A e \in Event : Append(q, e) \in Seq(Event) /\ Len(Append(q, e)) = Len(q) + 1
         /\ q # <<>> => /\ Head(q) \in Event /\ Tail(q) \in Seq(Event)
                        /\ Len(Tail(q)) = Len(q) - 1
         /\ \A i \in DOMAIN q : q[i] \in Event
         /\ Len(q) \in Nat /\ (q = <<>> <=> Len(q) = 0)
OBVIOUS

LEMMA LeaveType ==
  ASSUME NEW p \in Producers, TypeOK, Leave(p)
  PROVE  /\ ppc' \in [Producers -> {"idle", "offer", "evict", "reoffer"}]
         /\ pev' \in [Producers -> Event \cup {NoEvent}]
BY DEF TypeOK, Leave, Goto

WorkerTypeOK ==
    /\ wpc \in {"idle", "silence", "cooldown", "notify", "backoff"}
    /\ cur \in Event \cup {NoEvent}
    /\ attempt \in 0 .. MaxRetry
    /\ admitted \in [at : Nat, cooldown : Nat]

LEMMA DoneType ==
  ASSUME ConstantsAssumption, Done
  PROVE  WorkerTypeOK'
BY DEF ConstantsAssumption, Done, WorkerTypeOK, NotAdmitted

LEMMA PrunedType ==
  ASSUME TypeOK
  PROVE  Pruned \in [MuteKeys -> Nat]
BY DEF TypeOK, Pruned

LEMMA AddType ==
  ASSUME ConstantsAssumption, TypeOK, NEW k \in MuteKeys, NEW d \in Durations, AddInMemory(k, d)
  PROVE  /\ silences' \in [MuteKeys -> Nat]
         /\ silences' = [Pruned EXCEPT ![k] = Later(Pruned[k], now + d)]
<1>1. Pruned \in [MuteKeys -> Nat]
  BY PrunedType
<1>2. silences' = [Pruned EXCEPT ![k] = Later(Pruned[k], now + d)]
  BY DEF AddInMemory
<1>3. Later(Pruned[k], now + d) \in Nat
  BY <1>1 DEF ConstantsAssumption, TypeOK, Later
<1> QED
  BY <1>1, <1>2, <1>3

LEMMA TypeInit == ConstantsAssumption /\ Init => TypeOK
<1> SUFFICES ASSUME ConstantsAssumption, Init
             PROVE  TypeOK
  OBVIOUS
<1>1. <<>> \in Seq(Event) /\ Len(<<>>) = 0
  OBVIOUS
<1>2. queue \in Seq(Event) /\ pending \in Seq(Event) /\ Len(pending) <= PendingCap
  BY <1>1 DEF ConstantsAssumption, Init
<1>3. /\ lastSent \in [Keys -> Nat] /\ silences \in [MuteKeys -> Nat]
      /\ saved \in [MuteKeys -> Nat] /\ acked \in [MuteKeys -> Nat]
      /\ outcome \in [Outcomes -> SUBSET Event]
  BY DEF Init
<1>4. admitted \in [at : Nat, cooldown : Nat]
  BY DEF Init, NotAdmitted
<1>5. /\ ppc \in [Producers -> {"idle", "offer", "evict", "reoffer"}]
      /\ pev \in [Producers -> Event \cup {NoEvent}]
  BY DEF Init
<1>6. unread \in BOOLEAN
  BY Zenon DEF Init
<1>7. /\ now \in Nat \ {0} /\ cooldown \in Cooldowns /\ raised \in Nat
      /\ attempt \in 0 .. MaxRetry /\ life \in Nat /\ faults \in Nat
  BY DEF ConstantsAssumption, Init
<1>8. /\ cur \in Event \cup {NoEvent}
      /\ wpc \in {"idle", "silence", "cooldown", "notify", "backoff"}
  BY DEF Init
<1> QED
  BY <1>2, <1>3, <1>4, <1>5, <1>6, <1>7, <1>8 DEF Init, TypeOK

LEMMA TypeStep ==
  ASSUME ConstantsAssumption, TypeOK, ProducersOK, AdmissionOK, Next
  PROVE  TypeOK'
<1> USE DEF ConstantsAssumption, TypeOK, producerVars, workerVars, silenceVars
<1>1. ASSUME NEW p \in Producers, NEW k \in Keys, Raise(p, k)
      PROVE  TypeOK'
  <2>1. [n |-> raised + 1, key |-> k] \in Event
    BY DEF Event
  <2> QED
    BY <1>1, <2>1 DEF Raise, Goto
<1>2. ASSUME NEW p \in Producers, Offer(p) \/ Reoffer(p)
      PROVE  TypeOK'
  <2>1. pev[p] \in Event
    BY <1>2 DEF ProducersOK, Offer, Reoffer, At
  <2>2. queue' \in Seq(Event)
    <3>1. queue' = Append(queue, pev[p])
      BY <1>2 DEF Offer, Reoffer
    <3> QED
      BY <2>1, <3>1, QueueFacts
  <2>3. /\ ppc' \in [Producers -> {"idle", "offer", "evict", "reoffer"}]
        /\ pev' \in [Producers -> Event \cup {NoEvent}]
    BY <1>2, LeaveType DEF Offer, Reoffer
  <2> QED
    BY <1>2, <2>2, <2>3 DEF Offer, Reoffer
<1>3. ASSUME NEW p \in Producers, OfferFull(p) \/ EvictNothing(p)
      PROVE  TypeOK'
  BY <1>3 DEF OfferFull, EvictNothing, Goto
<1>4. ASSUME NEW p \in Producers, Evict(p)
      PROVE  TypeOK'
  <2>1. Head(queue) \in Event /\ Tail(queue) \in Seq(Event)
    BY <1>4, QueueFacts DEF Evict
  <2>2. outcome' \in [Outcomes -> SUBSET Event]
    BY <1>4, <2>1, BecomesType DEF Evict, Outcomes
  <2> QED
    BY <1>4, <2>1, <2>2 DEF Evict, Goto
<1>5. ASSUME NEW p \in Producers, ReofferFull(p)
      PROVE  TypeOK'
  <2>1. pev[p] \in Event
    BY <1>5 DEF ProducersOK, ReofferFull, At
  <2>2. outcome' \in [Outcomes -> SUBSET Event]
    BY <1>5, <2>1, BecomesType DEF ReofferFull, Outcomes
  <2>3. /\ ppc' \in [Producers -> {"idle", "offer", "evict", "reoffer"}]
        /\ pev' \in [Producers -> Event \cup {NoEvent}]
    BY <1>5, LeaveType DEF ReofferFull
  <2> QED
    BY <1>5, <2>2, <2>3 DEF ReofferFull
<1>6. CASE Take
  <2>1. Head(queue) \in Event /\ Tail(queue) \in Seq(Event)
    BY <1>6, QueueFacts DEF Take
  <2> QED
    BY <1>6, <2>1 DEF Take
<1>7. CASE CheckSilence
  <2>1. silences' \in [MuteKeys -> Nat]
    BY <1>7, PrunedType DEF CheckSilence
  <2>2. CASE Becomes(cur, "silenced") /\ Done
    <3>1. outcome' \in [Outcomes -> SUBSET Event]
      BY <1>7, <2>2, BecomesType DEF CheckSilence, AdmissionOK, Outcomes
    <3>2. WorkerTypeOK'
      BY <2>2, DoneType
    <3> QED
      BY <1>7, <2>1, <3>1, <3>2 DEF CheckSilence, WorkerTypeOK
  <2>3. CASE wpc' = "cooldown" /\ UNCHANGED <<outcome, cur, attempt, admitted>>
    BY <1>7, <2>1, <2>3 DEF CheckSilence
  <2> QED
    BY <1>7, <2>2, <2>3 DEF CheckSilence
<1>8. CASE CheckCooldown
  <2>1. CASE Becomes(cur, "cooled") /\ Done
    <3>1. outcome' \in [Outcomes -> SUBSET Event]
      BY <1>8, <2>1, BecomesType DEF CheckCooldown, AdmissionOK, Outcomes
    <3>2. WorkerTypeOK'
      BY <2>1, DoneType
    <3> QED
      BY <1>8, <3>1, <3>2 DEF CheckCooldown, WorkerTypeOK
  <2>2. CASE /\ wpc' = "notify" /\ attempt' = 1
             /\ admitted' = [at |-> now, cooldown |-> cooldown]
             /\ UNCHANGED <<outcome, cur>>
    BY <1>8, <2>2 DEF CheckCooldown
  <2> QED
    BY <1>8, <2>1, <2>2 DEF CheckCooldown
<1>9. CASE NotifyOk
  <2>1. cur \in Event
    BY <1>9 DEF NotifyOk, AdmissionOK
  <2>2. outcome' \in [Outcomes -> SUBSET Event]
    BY <1>9, <2>1, BecomesType DEF NotifyOk, Outcomes
  <2>3. WorkerTypeOK'
    BY <1>9, DoneType DEF NotifyOk
  <2>4. opened' \subseteq Event /\ faults' \in Nat
    BY <1>9, <2>1 DEF NotifyOk, SaveAlertEvent, Fault
  <2>5. sent' \subseteq [event : Event, at : Nat, admitted : [at : Nat, cooldown : Nat], life : Nat]
    BY <1>9, <2>1 DEF NotifyOk
  <2>6. lastSent' \in [Keys -> Nat]
    BY <1>9 DEF NotifyOk, MarkSent
  <2> QED
    BY <1>9, <2>2, <2>3, <2>4, <2>5, <2>6 DEF NotifyOk, WorkerTypeOK
<1>10. CASE NotifyFails
  <2>1. cur \in Event
    BY <1>10 DEF NotifyFails, AdmissionOK
  <2>2. faults' \in Nat
    BY <1>10 DEF NotifyFails, Fault
  <2>3. CASE wpc' = "backoff" /\ UNCHANGED <<cur, attempt, admitted, pending, outcome>>
    BY <1>10, <2>2, <2>3 DEF NotifyFails
  <2>4. CASE RecordPending(cur) /\ Becomes(cur, "failed") /\ Done
    <3>1. outcome' \in [Outcomes -> SUBSET Event]
      BY <2>1, <2>4, BecomesType DEF Outcomes
    <3>2. WorkerTypeOK'
      BY <2>4, DoneType
    <3>3. pending' \in Seq(Event) /\ Len(pending') <= PendingCap
      <4> DEFINE kept == IF Len(pending) >= PendingCap THEN Tail(pending) ELSE pending
      <4>1. kept \in Seq(Event) /\ Len(kept) < PendingCap
        BY QueueFacts
      <4>2. pending' = Append(kept, cur)
        BY <2>4 DEF RecordPending
      <4> QED
        BY <2>1, <4>1, <4>2, QueueFacts
    <3> QED
      BY <1>10, <2>2, <3>1, <3>2, <3>3 DEF NotifyFails, WorkerTypeOK
  <2> QED
    BY <1>10, <2>3, <2>4 DEF NotifyFails
<1>11. CASE Backoff
  <2>1. attempt + 1 \in 0 .. MaxRetry
    BY <1>11 DEF Backoff, AdmissionOK
  <2> QED
    BY <1>11, <2>1 DEF Backoff
<1>12. ASSUME NEW k \in MuteKeys, NEW d \in Durations, Silence(k, d)
       PROVE  TypeOK'
  <2>1. silences' \in [MuteKeys -> Nat]
    BY <1>12, AddType DEF Silence
  <2>2. saved' \in [MuteKeys -> Nat] /\ acked' \in [MuteKeys -> Nat]
    BY <1>12, <2>1 DEF Silence
  <2> QED
    BY <1>12, <2>1, <2>2 DEF Silence
<1>13. ASSUME NEW k \in MuteKeys, NEW d \in Durations, SilenceUnsaved(k, d)
       PROVE  TypeOK'
  <2>1. silences' \in [MuteKeys -> Nat]
    BY <1>13, AddType DEF SilenceUnsaved
  <2> QED
    BY SMTT(20), <1>13, <2>1 DEF SilenceUnsaved, Fault
<1>14. CASE ListSilences
  <2>1. silences' \in [MuteKeys -> Nat]
    BY <1>14, PrunedType DEF ListSilences
  <2> QED
    BY <1>14, <2>1 DEF ListSilences
<1>15. CASE Tick
  BY <1>15 DEF Tick
<1>16. ASSUME NEW c \in Cooldowns, UpdateConfig(c)
       PROVE  TypeOK'
  BY <1>16 DEF UpdateConfig
<1>17. ASSUME NEW c \in Cooldowns, Restart(c)
       PROVE  TypeOK'
  <2>1. WorkerTypeOK'
    BY <1>17, DoneType DEF Restart
  <2>2. InFlight \in SUBSET Event
    <3>1. \A i \in DOMAIN queue : queue[i] \in Event
      BY QueueFacts
    <3> QED
      BY SMTT(20), <3>1 DEF InFlight
  <2>3. outcome' \in [Outcomes -> SUBSET Event]
    BY <1>17, <2>2 DEF Restart, Outcomes
  <2>4. silences' \in [MuteKeys -> Nat] /\ unread' \in BOOLEAN /\ faults' \in Nat
    <3>1. LoadSilences
      BY <1>17 DEF Restart
    <3>2. CASE /\ silences' = [k \in MuteKeys |-> IF saved[k] > now THEN saved[k] ELSE 0]
               /\ UNCHANGED <<unread, faults>>
      <4>1. silences' \in [MuteKeys -> Nat]
        BY <3>2
      <4> QED
        BY <3>2, <4>1
    <3>3. CASE /\ Fault /\ silences' = [k \in MuteKeys |-> 0] /\ unread' = TRUE
      <4>1. silences' \in [MuteKeys -> Nat]
        BY <3>3
      <4>2. unread' \in BOOLEAN
        BY Zenon, <3>3
      <4> QED
        BY <3>3, <4>1, <4>2 DEF Fault
    <3> QED
      BY <3>1, <3>2, <3>3 DEF LoadSilences
  <2> QED
    BY <1>17, <2>1, <2>3, <2>4 DEF Restart, WorkerTypeOK
<1> QED
  BY <1>1, <1>2, <1>3, <1>4, <1>5, <1>6, <1>7, <1>8, <1>9, <1>10, <1>11, <1>12,
     <1>13, <1>14, <1>15, <1>16, <1>17 DEF Next, Enqueue, Run

-----------------------------------------------------------------------------
(* Producers and admission.                                                *)

ProducerStep ==
    \E p \in Producers : Enqueue(p) \/ \E k \in Keys : Raise(p, k)

\* The actions outside the worker that leave all of its state alone.
SilenceStep ==
    \/ \E k \in MuteKeys, d \in Durations : Silence(k, d) \/ SilenceUnsaved(k, d)
    \/ ListSilences

LEMMA StepKinds ==
  ASSUME Next
  PROVE  \/ ProducerStep \/ SilenceStep \/ Tick
         \/ Run
         \/ \E c \in Cooldowns : UpdateConfig(c) \/ Restart(c)
BY DEF Next, ProducerStep, SilenceStep

LEMMA ProducerFrame ==
  ASSUME ProducerStep
  PROVE  UNCHANGED <<now, cooldown, workerVars, lastSent, silenceVars, sent, life>>
BY DEF ProducerStep, Enqueue, Raise, Offer, OfferFull, Evict, EvictNothing, Reoffer, ReofferFull

LEMMA SilenceFrame ==
  ASSUME SilenceStep
  PROVE  UNCHANGED <<now, cooldown, producerVars, workerVars, lastSent, sent, life, outcome>>
BY DEF SilenceStep, Silence, SilenceUnsaved, ListSilences

LEMMA RunFrame ==
  ASSUME Run
  PROVE  /\ UNCHANGED <<now, cooldown, producerVars, saved, acked, unread, life>>
         /\ UNCHANGED silences \/ silences' = Pruned
BY DEF Run, Take, CheckSilence, CheckCooldown, NotifyOk, NotifyFails, Backoff, silenceVars

LEMMA ProducersStep ==
  ASSUME TypeOK, ProducersOK, Next
  PROVE  ProducersOK'
<1> USE DEF TypeOK, ProducersOK, producerVars
<1>1. ASSUME NEW p \in Producers, NEW k \in Keys, Raise(p, k)
      PROVE  ProducersOK'
  <2>1. [n |-> raised + 1, key |-> k] \in Event
    BY DEF Event
  <2> QED
    BY <1>1, <2>1 DEF Raise, Goto
<1>2. ASSUME NEW p \in Producers, Offer(p) \/ Reoffer(p) \/ ReofferFull(p)
      PROVE  ProducersOK'
  BY <1>2 DEF Offer, Reoffer, ReofferFull, Leave, Goto
<1>3. ASSUME NEW p \in Producers, OfferFull(p) \/ Evict(p) \/ EvictNothing(p)
      PROVE  ProducersOK'
  BY <1>3 DEF OfferFull, Evict, EvictNothing, Goto, At
<1>4. CASE SilenceStep
  BY <1>4, SilenceFrame
<1>5. CASE Run
  BY <1>5, RunFrame
<1>6. CASE Tick \/ \E c \in Cooldowns : UpdateConfig(c)
  BY <1>6 DEF Tick, UpdateConfig
<1>7. ASSUME NEW c \in Cooldowns, Restart(c)
      PROVE  ProducersOK'
  BY <1>7 DEF Restart
<1> QED
  BY <1>1, <1>2, <1>3, <1>4, <1>5, <1>6, <1>7, StepKinds DEF ProducerStep, Enqueue

(* An attempt keeps what the cooldown check granted: lastSent changes only *)
(* when the worker has finished.                                           *)
LEMMA AdmissionStep ==
  ASSUME ConstantsAssumption, TypeOK, LastSentOK, AdmissionOK, Next
  PROVE  AdmissionOK'
<1> USE DEF TypeOK, AdmissionOK, workerVars
<1>1. CASE ProducerStep
  BY <1>1, ProducerFrame
<1>2. CASE SilenceStep
  BY <1>2, SilenceFrame
<1>3. CASE Tick \/ \E c \in Cooldowns : UpdateConfig(c)
  BY <1>3 DEF Tick, UpdateConfig
<1>4. ASSUME NEW c \in Cooldowns, Restart(c)
      PROVE  AdmissionOK'
  BY <1>4 DEF Restart, Done
<1>5. CASE Take
  <2>1. Head(queue) \in Event
    BY <1>5, QueueFacts DEF Take
  <2> QED
    BY <1>5, <2>1 DEF Take
<1>6. CASE CheckSilence
  BY <1>6 DEF CheckSilence, Done
<1>7. CASE CheckCooldown
  <2>1. CASE Done
    BY <2>1 DEF Done
  <2>2. CASE /\ ~Cooling(cur.key) /\ wpc' = "notify" /\ attempt' = 1
             /\ admitted' = [at |-> now, cooldown |-> cooldown] /\ cur' = cur
    <3>1. cur.key \in Keys /\ cur \in Event
      BY <1>7 DEF CheckCooldown, Event
    <3>2. /\ lastSent[cur.key] \in Nat /\ lastSent[cur.key] <= now
          /\ lastSent[cur.key] # 0 => ~(now - lastSent[cur.key] < cooldown)
      BY <2>2, <3>1 DEF LastSentOK, Cooling
    <3>3. lastSent[cur.key] # 0 => lastSent[cur.key] + cooldown <= now
      BY <3>2 DEF ConstantsAssumption
    <3> QED
      BY <1>7, <2>2, <3>1, <3>3 DEF CheckCooldown
  <2> QED
    BY <1>7, <2>1, <2>2 DEF CheckCooldown
<1>8. CASE NotifyOk
  BY <1>8 DEF NotifyOk, Done
<1>9. CASE NotifyFails
  BY <1>9 DEF NotifyFails, MayRetry, Done
<1>10. CASE Backoff
  BY <1>10 DEF Backoff
<1> QED
  BY <1>1, <1>2, <1>3, <1>4, <1>5, <1>6, <1>7, <1>8, <1>9, <1>10, StepKinds DEF Run

-----------------------------------------------------------------------------
(* The cooldown.                                                           *)

\* All steps but a notification and a restart.
NoNotification ==
    /\ UNCHANGED <<lastSent, sent, life>>
    /\ now' \in Nat /\ now <= now'

LEMMA NotificationKinds ==
  ASSUME ConstantsAssumption, TypeOK, Next
  PROVE  NoNotification \/ NotifyOk \/ \E c \in Cooldowns : Restart(c)
<1> USE DEF NoNotification, TypeOK
<1>1. CASE ProducerStep
  BY <1>1, ProducerFrame
<1>2. CASE SilenceStep
  BY <1>2, SilenceFrame
<1>3. CASE Tick \/ \E c \in Cooldowns : UpdateConfig(c)
  BY <1>3 DEF Tick, UpdateConfig
<1>4. CASE Run /\ ~NotifyOk
  BY <1>4 DEF Run, Take, CheckSilence, CheckCooldown, NotifyFails, Backoff
<1> QED
  BY <1>1, <1>2, <1>3, <1>4, StepKinds

\* What NotifyOk adds to the record.
Notification == [event |-> cur, at |-> now, admitted |-> admitted, life |-> life]

LEMMA NotifyFacts ==
  ASSUME TypeOK, AdmissionOK, NotifyOk
  PROVE  /\ cur \in Event /\ cur.key \in Keys
         /\ sent' = sent \cup {Notification}
         /\ lastSent' = [lastSent EXCEPT ![cur.key] = now]
         /\ now' = now /\ life' = life
         /\ admitted.cooldown \in Cooldowns /\ admitted.at \in Nat /\ admitted.at <= now
         /\ lastSent[cur.key] # 0 => lastSent[cur.key] + admitted.cooldown <= admitted.at
BY DEF TypeOK, AdmissionOK, NotifyOk, MarkSent, Notification, Event

LEMMA LastSentStep ==
  ASSUME ConstantsAssumption, TypeOK, AdmissionOK, LastSentOK, Next
  PROVE  LastSentOK'
<1>1. CASE NoNotification
  <2>1. \A k \in Keys : lastSent[k] \in Nat /\ now \in Nat
    BY DEF TypeOK
  <2> QED
    BY <1>1, <2>1 DEF NoNotification, LastSentOK
<1>2. CASE NotifyOk
  <2>1. /\ cur.key \in Keys /\ sent' = sent \cup {Notification}
        /\ lastSent' = [lastSent EXCEPT ![cur.key] = now]
        /\ now' = now /\ life' = life
    BY <1>2, NotifyFacts
  <2>2. lastSent \in [Keys -> Nat] /\ now \in Nat \ {0} /\ life \in Nat
    BY DEF TypeOK
  <2>3. \A k \in Keys : lastSent'[k] = IF k = cur.key THEN now ELSE lastSent[k]
    BY <2>1, <2>2
  <2>4. \A k \in Keys : lastSent'[k] <= now'
    BY <2>1, <2>2, <2>3 DEF LastSentOK
  <2>5. ASSUME NEW k \in Keys, lastSent'[k] # 0
        PROVE  \E s \in sent' : s.event.key = k /\ s.life = life' /\ s.at = lastSent'[k]
    <3>1. CASE k = cur.key
      <4>1. Notification \in sent'
        BY <2>1
      <4>2. /\ Notification.event.key = k /\ Notification.life = life'
            /\ Notification.at = lastSent'[k]
        BY <2>1, <2>3, <3>1 DEF Notification
      <4> QED
        BY <4>1, <4>2
    <3>2. CASE k # cur.key
      BY <2>1, <2>3, <2>5, <3>2 DEF LastSentOK
    <3> QED
      BY <3>1, <3>2
  <2>6. ASSUME NEW s \in sent'
        PROVE  /\ s.life <= life' /\ s.at # 0
               /\ s.life = life' => s.at <= lastSent'[s.event.key]
    <3>1. CASE s = Notification
      BY <2>1, <2>2, <2>3, <3>1 DEF Notification
    <3>2. CASE s \in sent
      <4>1. s.event.key \in Keys /\ s.at \in Nat
        BY <3>2 DEF TypeOK, Event
      <4>2. lastSent[s.event.key] <= lastSent'[s.event.key]
        BY <2>2, <2>3, <4>1 DEF LastSentOK
      <4>3. lastSent'[s.event.key] \in Nat
        BY <2>2, <2>3, <4>1
      <4> QED
        BY <2>1, <2>2, <3>2, <4>1, <4>2, <4>3 DEF LastSentOK
    <3> QED
      BY <2>1, <2>6, <3>1, <3>2
  <2> QED
    BY <2>4, <2>5, <2>6 DEF LastSentOK
<1>3. ASSUME NEW c \in Cooldowns, Restart(c)
      PROVE  LastSentOK'
  <2>1. /\ lastSent' = [k \in Keys |-> 0]
        /\ sent' = sent /\ life' = life + 1 /\ now' = now
    BY <1>3 DEF Restart
  <2>2. life \in Nat /\ now \in Nat /\ \A s \in sent : s.life \in Nat
    BY DEF TypeOK
  <2> QED
    BY <2>1, <2>2 DEF LastSentOK
<1> QED
  BY <1>1, <1>2, <1>3, NotificationKinds

LEMMA CooldownStep ==
  ASSUME ConstantsAssumption, TypeOK, AdmissionOK, LastSentOK, CooldownRespected, Next
  PROVE  CooldownRespected'
<1>1. CASE sent' = sent
  BY <1>1 DEF CooldownRespected
<1>2. CASE NotifyOk
  <2>1. /\ cur.key \in Keys /\ sent' = sent \cup {Notification}
        /\ admitted.cooldown \in Nat \ {0} /\ admitted.at \in Nat /\ admitted.at <= now
        /\ lastSent[cur.key] # 0 => lastSent[cur.key] + admitted.cooldown <= admitted.at
    BY <1>2, NotifyFacts DEF ConstantsAssumption
  <2>2. \A s \in sent : /\ s.at \in Nat \ {0} /\ s.life \in Nat /\ s.event.key \in Keys
                        /\ s.admitted.at \in Nat /\ s.admitted.cooldown \in Nat
    BY DEF TypeOK, LastSentOK, Event
  <2>3. lastSent \in [Keys -> Nat] /\ now \in Nat
    BY DEF TypeOK
  \* A notification of this key is followed by a cooldown before this one.
  <2>4. ASSUME NEW s \in sent, s.life = life, s.event.key = cur.key
        PROVE  s.at + admitted.cooldown <= admitted.at
    <3>1. s.at <= lastSent[cur.key] /\ lastSent[cur.key] \in Nat /\ s.at \in Nat \ {0}
      BY <2>1, <2>2, <2>3, <2>4 DEF LastSentOK
    <3> QED
      BY <2>1, <3>1
  <2>5. ASSUME NEW s \in sent', NEW t \in sent', s # t, s.life = t.life,
               s.event.key = t.event.key, s.at <= t.at
        PROVE  t.admitted.at >= s.at + t.admitted.cooldown
    <3>1. CASE s \in sent /\ t \in sent
      BY <2>5, <3>1 DEF CooldownRespected
    <3>2. CASE s \in sent /\ t = Notification
      <4>1. s.at + admitted.cooldown <= admitted.at
        BY <2>4, <2>5, <3>2 DEF Notification
      <4> QED
        BY <2>1, <2>2, <3>2, <4>1 DEF Notification
    <3>3. CASE s = Notification /\ t \in sent
      <4>1. t.at + admitted.cooldown <= admitted.at /\ now <= t.at
        BY <2>4, <2>5, <3>3 DEF Notification
      <4> QED
        BY <2>1, <2>2, <2>3, <3>3, <4>1
    <3> QED
      BY <2>1, <2>5, <3>1, <3>2, <3>3
  <2> QED
    BY <2>5 DEF CooldownRespected
<1> QED
  BY <1>1, <1>2, NotificationKinds DEF NoNotification, Restart

-----------------------------------------------------------------------------
(* The silences.                                                           *)

LEMMA PrunedFacts ==
  ASSUME TypeOK
  PROVE  \A k \in MuteKeys : silences[k] > now => Pruned[k] = silences[k]
BY DEF TypeOK, Pruned

(* What an accepted or refused request leaves in memory.                   *)
LEMMA AddFacts ==
  ASSUME ConstantsAssumption, TypeOK, NEW k \in MuteKeys, NEW d \in Durations, AddInMemory(k, d)
  PROVE  \A j \in MuteKeys : silences[j] > now => silences'[j] >= silences[j]
<1>1. silences' = [Pruned EXCEPT ![k] = Later(Pruned[k], now + d)] /\ Pruned \in [MuteKeys -> Nat]
  BY AddType, PrunedType
<1>2. now + d \in Nat /\ now \in Nat /\ silences \in [MuteKeys -> Nat]
  BY DEF ConstantsAssumption, TypeOK
<1>3. Later(Pruned[k], now + d) \in Nat /\ Later(Pruned[k], now + d) >= Pruned[k]
  BY <1>1, <1>2 DEF Later
<1>4. ASSUME NEW j \in MuteKeys, silences[j] > now
      PROVE  silences'[j] >= silences[j]
  <2>1. Pruned[j] = silences[j] /\ silences[j] \in Nat
    BY <1>2, <1>4, PrunedFacts
  <2> QED
    BY <1>1, <1>3, <2>1
<1> QED
  BY <1>4

SilencesOK == SavedOK /\ SilencesSurvive

LEMMA SilencesStep ==
  ASSUME ConstantsAssumption, TypeOK, SilencesOK, Next
  PROVE  SilencesOK'
<1> SUFFICES ASSUME HistoryEnabled, ~unread', NEW j \in MuteKeys, acked'[j] > now'
             PROVE  saved'[j] >= acked'[j] /\ silences'[j] >= acked'[j]
  BY DEF SilencesOK, SavedOK, SilencesSurvive
<1> USE DEF silenceVars
<1>t. /\ now \in Nat /\ silences \in [MuteKeys -> Nat]
      /\ saved \in [MuteKeys -> Nat] /\ acked \in [MuteKeys -> Nat]
  BY DEF TypeOK
<1>0. ~unread /\ acked[j] > now => /\ saved[j] >= acked[j] /\ silences[j] >= acked[j]
                                   /\ silences[j] > now /\ saved[j] > now
  BY <1>t DEF SilencesOK, SavedOK, SilencesSurvive
<1>1. CASE ProducerStep
  BY <1>0, <1>1, ProducerFrame
<1>2. CASE Run
  BY <1>0, <1>2, RunFrame, PrunedFacts
<1>3. CASE ListSilences
  BY <1>0, <1>3, PrunedFacts DEF ListSilences
<1>4. ASSUME NEW k \in MuteKeys, NEW d \in Durations, Silence(k, d)
      PROVE  saved'[j] >= acked'[j] /\ silences'[j] >= acked'[j]
  <2>1. /\ saved' = silences' /\ acked' = [acked EXCEPT ![k] = silences'[k]]
        /\ unread' = unread /\ now' = now /\ AddInMemory(k, d)
    BY <1>4 DEF Silence
  <2>2. silences' \in [MuteKeys -> Nat] /\ (silences[j] > now => silences'[j] >= silences[j])
    BY <2>1, AddType, AddFacts
  <2>3. saved'[j] = silences'[j] /\ silences'[j] \in Nat
    BY <2>1, <2>2
  <2>4. acked'[j] = IF j = k THEN silences'[j] ELSE acked[j]
    BY <1>t, <2>1
  <2>5. CASE j = k
    BY <2>3, <2>4, <2>5
  <2>6. CASE j # k
    <3>1. ~unread /\ acked[j] > now
      BY <2>1, <2>4, <2>6
    <3> QED
      BY <1>t, <1>0, <2>1, <2>2, <2>3, <2>4, <2>6, <3>1
  <2> QED
    BY <2>5, <2>6
<1>5. ASSUME NEW k \in MuteKeys, NEW d \in Durations, SilenceUnsaved(k, d)
      PROVE  saved'[j] >= acked'[j] /\ silences'[j] >= acked'[j]
  <2>1. UNCHANGED <<saved, acked, unread, now>> /\ AddInMemory(k, d)
    BY <1>5 DEF SilenceUnsaved
  <2>2. silences' \in [MuteKeys -> Nat] /\ (silences[j] > now => silences'[j] >= silences[j])
    BY <2>1, AddType, AddFacts
  <2> QED
    BY <1>t, <1>0, <2>1, <2>2
<1>6. CASE Tick
  <2>1. UNCHANGED silenceVars /\ now' = now + 1
    BY <1>6 DEF Tick
  <2> QED
    BY <1>t, <1>0, <2>1
<1>7. ASSUME NEW c \in Cooldowns, UpdateConfig(c)
      PROVE  saved'[j] >= acked'[j] /\ silences'[j] >= acked'[j]
  BY <1>0, <1>7 DEF UpdateConfig
<1>8. ASSUME NEW c \in Cooldowns, Restart(c)
      PROVE  saved'[j] >= acked'[j] /\ silences'[j] >= acked'[j]
  <2>1. /\ silences' = [k \in MuteKeys |-> IF saved[k] > now THEN saved[k] ELSE 0]
        /\ UNCHANGED <<unread, saved, acked, now>>
    BY <1>8 DEF Restart, LoadSilences
  <2> QED
    BY <1>0, <2>1
<1> QED
  BY <1>1, <1>2, <1>3, <1>4, <1>5, <1>6, <1>7, <1>8, StepKinds DEF SilenceStep

LEMMA NotShortenedStep ==
  ASSUME ConstantsAssumption, TypeOK, Next, life' = life,
         NEW k \in MuteKeys, silences[k] > now
  PROVE  silences'[k] >= silences[k]
<1>t. silences \in [MuteKeys -> Nat] /\ now \in Nat /\ life \in Nat
  BY DEF TypeOK
<1>p. Pruned[k] >= silences[k]
  BY <1>t, PrunedFacts
<1>1. CASE ProducerStep
  BY <1>t, <1>1, ProducerFrame DEF silenceVars
<1>2. CASE Run
  BY <1>t, <1>p, <1>2, RunFrame
<1>3. CASE ListSilences
  BY <1>p, <1>3 DEF ListSilences
<1>4. ASSUME NEW j \in MuteKeys, NEW d \in Durations, Silence(j, d) \/ SilenceUnsaved(j, d)
      PROVE  silences'[k] >= silences[k]
  <2>1. AddInMemory(j, d)
    BY <1>4 DEF Silence, SilenceUnsaved
  <2> QED
    BY <2>1, AddFacts
<1>5. CASE Tick \/ \E c \in Cooldowns : UpdateConfig(c)
  BY <1>t, <1>5 DEF Tick, UpdateConfig, silenceVars
<1>6. ASSUME NEW c \in Cooldowns, Restart(c)
      PROVE  FALSE
  BY <1>t, <1>6 DEF Restart
<1> QED
  BY <1>1, <1>2, <1>3, <1>4, <1>5, <1>6, StepKinds DEF SilenceStep

-----------------------------------------------------------------------------
(* What becomes of an event.                                               *)

LEMMA BecomesOther ==
  ASSUME TypeOK, NEW o \in Outcomes \ {"cooled"}, NEW e, Becomes(e, o)
  PROVE  outcome'["cooled"] = outcome["cooled"]
BY DEF TypeOK, Becomes, Outcomes

LEMMA CooledStep ==
  ASSUME ConstantsAssumption, TypeOK, LastSentOK, AdmissionOK, Next,
         NEW e \in outcome'["cooled"] \ outcome["cooled"]
  PROVE  \E s \in sent : s.event.key = e.key /\ s.life = life /\ now < s.at + cooldown
<1>1. CASE ProducerStep
  <2>1. outcome' = outcome \/ \E p \in Producers : Evict(p) \/ ReofferFull(p)
    BY <1>1 DEF ProducerStep, Enqueue, Raise, Offer, OfferFull, EvictNothing, Reoffer
  <2>2. \A p \in Producers : Evict(p) \/ ReofferFull(p) => outcome'["cooled"] = outcome["cooled"]
    BY BecomesOther DEF Evict, ReofferFull, Outcomes
  <2> QED
    BY <2>1, <2>2
<1>2. CASE SilenceStep
  BY <1>2, SilenceFrame
<1>3. CASE Tick \/ \E c \in Cooldowns : UpdateConfig(c)
  BY <1>3 DEF Tick, UpdateConfig
<1>4. ASSUME NEW c \in Cooldowns, Restart(c)
      PROVE  FALSE
  BY <1>4 DEF Restart, TypeOK, Outcomes
<1>5. CASE Take \/ Backoff
  BY <1>5 DEF Take, Backoff
<1>6. CASE CheckSilence
  BY <1>6, BecomesOther DEF CheckSilence, Outcomes
<1>7. CASE NotifyOk
  BY <1>7, BecomesOther DEF NotifyOk, Outcomes
<1>8. CASE NotifyFails
  BY <1>8, BecomesOther DEF NotifyFails, Outcomes
<1>9. CASE CheckCooldown
  <2>1. cur \in Event /\ cur.key \in Keys
    BY <1>9 DEF CheckCooldown, AdmissionOK, Event
  <2>2. Cooling(cur.key) /\ Becomes(cur, "cooled")
    BY <1>9 DEF CheckCooldown
  <2>3. e = cur
    BY <2>2 DEF Becomes, TypeOK, Outcomes
  <2>4. PICK s \in sent : /\ s.event.key = cur.key /\ s.life = life
                          /\ s.at = lastSent[cur.key]
    BY <2>1, <2>2 DEF Cooling, LastSentOK
  <2>5. now < s.at + cooldown
    BY <2>1, <2>2, <2>4 DEF Cooling, LastSentOK, TypeOK, ConstantsAssumption
  <2> QED
    BY <2>3, <2>4, <2>5
<1> QED
  BY <1>1, <1>2, <1>3, <1>4, <1>5, <1>6, <1>7, <1>8, <1>9, StepKinds DEF Run

-----------------------------------------------------------------------------
(* Every event in one place.                                               *)

Elements(q)  == {q[i] : i \in DOMAIN q}
Injective(q) == \A i, j \in DOMAIN q : i # j => q[i] # q[j]
Queued == Elements(queue)

\* No two places hold the same event.
PlacesApart ==
    /\ Injective(queue)
    /\ cur \notin Queued
    /\ \A p \in Producers : pev[p] # NoEvent =>
          /\ pev[p] # cur
          /\ pev[p] \notin Queued
          /\ \A q \in Producers : q # p => pev[q] # pev[p]
SettledApart == \A o1, o2 \in Outcomes : o1 # o2 => outcome[o1] \cap outcome[o2] = {}
Known == InFlight \cup Settled
Numbered ==
    /\ {e.n : e \in Known} = 1 .. raised
    /\ \A d, e \in Known : d.n = e.n => d = e

LEMMA OnceParts ==
  EachEventOnce <=> PlacesApart /\ SettledApart /\ Numbered /\ InFlight \cap Settled = {}
BY DEF EachEventOnce, PlacesApart, SettledApart, Numbered, Known, Queued, Elements, Injective

LEMMA NoEventIsNone == NoEvent \notin Event
BY DEF NoEvent, Event

LEMMA InFlightIs ==
  ASSUME NEW e
  PROVE  e \in InFlight <=> e # NoEvent /\ (e \in Queued \/ e = cur \/ \E p \in Producers : pev[p] = e)
BY DEF InFlight, Queued, Elements

LEMMA AppendElements ==
  ASSUME NEW q \in Seq(Event), NEW e \in Event
  PROVE  /\ Elements(Append(q, e)) = Elements(q) \cup {e}
         /\ Injective(q) /\ e \notin Elements(q) => Injective(Append(q, e))
<1> DEFINE r == Append(q, e)
<1>1. /\ Len(q) \in Nat /\ DOMAIN q = 1 .. Len(q) /\ DOMAIN r = 1 .. Len(q) + 1
      /\ \A i \in 1 .. Len(q) : r[i] = q[i]
      /\ r[Len(q) + 1] = e
  OBVIOUS
<1> HIDE DEF r
<1>2. \A i \in DOMAIN r : i \in DOMAIN q \/ i = Len(q) + 1
  BY <1>1
<1>3. (DOMAIN q) \subseteq DOMAIN r /\ Len(q) + 1 \in DOMAIN r /\ Len(q) + 1 \notin DOMAIN q
  BY <1>1
<1>4. \A i \in DOMAIN q : r[i] = q[i]
  BY <1>1
<1>5. Elements(r) = Elements(q) \cup {e}
  BY <1>1, <1>2, <1>3, <1>4 DEF Elements
<1>6. ASSUME Injective(q), e \notin Elements(q) PROVE Injective(r)
  BY <1>1, <1>2, <1>3, <1>4, <1>6 DEF Elements, Injective
<1> QED
  BY <1>5, <1>6 DEF r

LEMMA TailElements ==
  ASSUME NEW q \in Seq(Event), q # <<>>, Injective(q)
  PROVE  /\ Head(q) \in Elements(q)
         /\ Elements(Tail(q)) = Elements(q) \ {Head(q)}
         /\ Injective(Tail(q))
<1> DEFINE r == Tail(q)
<1>1. /\ Len(q) \in Nat /\ Len(q) >= 1 /\ DOMAIN q = 1 .. Len(q) /\ DOMAIN r = 1 .. Len(q) - 1
      /\ \A i \in 1 .. Len(q) - 1 : r[i] = q[i + 1]
      /\ Head(q) = q[1]
  OBVIOUS
<1> HIDE DEF r
<1>2. \A i \in DOMAIN r : i + 1 \in DOMAIN q /\ i + 1 # 1 /\ r[i] = q[i + 1]
  BY <1>1
<1>3. \A i \in DOMAIN q : i = 1 \/ (i - 1 \in DOMAIN r /\ r[i - 1] = q[i])
  BY <1>1
<1>4. 1 \in DOMAIN q
  BY <1>1
<1>5. Elements(r) = Elements(q) \ {Head(q)}
  <2>1. ASSUME NEW x \in Elements(r) PROVE x \in Elements(q) \ {Head(q)}
    BY <1>1, <1>2, <1>4 DEF Elements, Injective
  <2>2. ASSUME NEW x \in Elements(q) \ {Head(q)} PROVE x \in Elements(r)
    BY <1>1, <1>3 DEF Elements
  <2> QED
    BY <2>1, <2>2
<1>6. Injective(r)
  <2> SUFFICES ASSUME NEW i \in DOMAIN r, NEW j \in DOMAIN r, i # j PROVE r[i] # r[j]
    BY DEF Injective
  <2>1. i + 1 # j + 1
    BY <1>1
  <2> QED
    BY <1>2, <2>1 DEF Injective
<1> QED
  BY <1>1, <1>4, <1>5, <1>6 DEF r, Elements

\* One event is settled; the others stay where they are.
LEMMA SettleOnce ==
  ASSUME TypeOK, EachEventOnce, NEW e \in InFlight, NEW o \in Outcomes, Becomes(e, o),
         PlacesApart', InFlight' = InFlight \ {e}, raised' = raised
  PROVE  EachEventOnce'
<1>1. \A p \in Outcomes : outcome'[p] = IF p = o THEN outcome[p] \cup {e} ELSE outcome[p]
  BY DEF Becomes, TypeOK
<1>2. Settled' = Settled \cup {e}
  <2>1. ASSUME NEW x PROVE x \in Settled' <=> x \in Settled \/ x = e
    BY <1>1 DEF Settled
  <2> QED
    BY <2>1
<1>3. Known' = Known
  BY <1>2 DEF Known
<1>4. Numbered'
  BY <1>3, OnceParts DEF Numbered
<1>5. e \notin Settled
  BY OnceParts
<1>6. SettledApart'
  <2>1. \A p \in Outcomes : e \notin outcome[p]
    BY <1>5 DEF Settled
  <2> QED
    BY <1>1, <2>1, OnceParts DEF SettledApart
<1>7. (InFlight \cap Settled = {})'
  BY <1>2, OnceParts
<1> QED
  BY <1>4, <1>6, <1>7, OnceParts, PTL

\* An event changes its place.
LEMMA MoveOnce ==
  ASSUME EachEventOnce, PlacesApart', InFlight' = InFlight, UNCHANGED <<raised, outcome>>
  PROVE  EachEventOnce'
<1>1. Settled' = Settled
  BY DEF Settled
<1>2. Numbered' /\ SettledApart' /\ (InFlight \cap Settled = {})'
  BY <1>1, OnceParts DEF Known, Numbered, SettledApart
<1> QED
  BY <1>2, OnceParts, PTL

\* The event at the head of the queue leaves it.
LEMMA HeadFacts ==
  ASSUME TypeOK, EachEventOnce, queue # <<>>
  PROVE  /\ Head(queue) \in Event /\ Head(queue) \in Queued /\ Head(queue) \in InFlight
         /\ Head(queue) # cur /\ \A p \in Producers : pev[p] # Head(queue)
         /\ Elements(Tail(queue)) = Queued \ {Head(queue)} /\ Injective(Tail(queue))
<1>1. queue \in Seq(Event) /\ Head(queue) \in Event
  BY QueueFacts DEF TypeOK
<1>2. PlacesApart
  BY OnceParts
<1>3. /\ Head(queue) \in Queued
      /\ Elements(Tail(queue)) = Queued \ {Head(queue)} /\ Injective(Tail(queue))
  BY <1>1, <1>2, TailElements DEF PlacesApart, Queued
<1>4. Head(queue) # NoEvent
  BY <1>1, NoEventIsNone
<1> QED
  BY <1>1, <1>2, <1>3, <1>4, InFlightIs DEF PlacesApart

\* A goroutine in enqueue has an event that is nowhere else.
LEMMA OfferedFacts ==
  ASSUME TypeOK, ProducersOK, EachEventOnce, NEW p \in Producers, ppc[p] # "idle"
  PROVE  /\ pev[p] \in Event /\ pev[p] # NoEvent /\ pev[p] \in InFlight
         /\ pev[p] \notin Queued /\ pev[p] # cur
         /\ \A q \in Producers : q # p => pev[q] # pev[p]
<1>1. pev[p] \in Event /\ pev[p] # NoEvent
  BY NoEventIsNone DEF ProducersOK
<1> QED
  BY <1>1, OnceParts, InFlightIs DEF PlacesApart

LEMMA CurFacts ==
  ASSUME TypeOK, AdmissionOK, EachEventOnce, wpc # "idle"
  PROVE  /\ cur \in Event /\ cur # NoEvent /\ cur \in InFlight
         /\ cur \notin Queued /\ \A p \in Producers : pev[p] # cur
<1>1. cur \in Event /\ cur # NoEvent
  BY NoEventIsNone DEF AdmissionOK
<1> QED
  BY <1>1, OnceParts, InFlightIs DEF PlacesApart

\* A fresh number.
LEMMA RaiseOnce ==
  ASSUME TypeOK, EachEventOnce, IdleOK, NEW p \in Producers, NEW k \in Keys, Raise(p, k)
  PROVE  EachEventOnce'
<1> DEFINE e == [n |-> raised + 1, key |-> k]
<1>1. /\ pev[p] = NoEvent /\ raised' = raised + 1 /\ pev' = [pev EXCEPT ![p] = e]
      /\ UNCHANGED <<queue, cur, outcome>> /\ raised \in Nat /\ p \in DOMAIN pev
  BY DEF Raise, At, IdleOK, TypeOK, workerVars
<1>2. e.n = raised + 1 /\ e # NoEvent
  BY <1>1 DEF NoEvent
<1> HIDE DEF e
<1>3. e \notin Known
  <2>1. raised + 1 \notin 1 .. raised
    BY <1>1
  <2> QED
    BY <1>2, <2>1, OnceParts DEF Numbered
<1>4. e \notin InFlight /\ e \notin Settled /\ Settled' = Settled
  BY <1>1, <1>3 DEF Known, Settled
<1>5. e \notin Queued /\ e # cur /\ \A q \in Producers : pev[q] # e
  BY <1>2, <1>4, InFlightIs
<1>6. \A q \in Producers : pev'[q] = IF q = p THEN e ELSE pev[q]
  BY <1>1
<1>7. Queued' = Queued /\ Injective(queue)' = Injective(queue)
  BY <1>1 DEF Queued, Elements, Injective
<1>8. InFlight' = InFlight \cup {e}
  <2>1. ASSUME NEW x
        PROVE  x \in InFlight' <=> x # NoEvent /\ (x \in Queued \/ x = cur \/ \E q \in Producers : pev'[q] = x)
    BY <1>1 DEF InFlight, Queued, Elements
  <2>2. ASSUME NEW x PROVE x \in InFlight' <=> x \in InFlight \/ x = e
    BY <1>1, <1>2, <1>6, <2>1, InFlightIs
  <2> QED
    BY <2>2
<1>9. Known' = Known \cup {e}
  BY <1>4, <1>8 DEF Known
<1>10. Numbered'
  <2>1. \A i : i \in 1 .. raised + 1 <=> i \in 1 .. raised \/ i = raised + 1
    BY <1>1
  <2>2. {d.n : d \in Known} = 1 .. raised /\ \A c, d \in Known : c.n = d.n => c = d
    BY OnceParts DEF Numbered
  <2>3. \A d \in Known : d.n # raised + 1
    BY <1>1, <2>2
  <2>4. {d.n : d \in Known'} = 1 .. raised'
    BY <1>1, <1>2, <1>9, <2>1, <2>2
  <2>5. \A c, d \in Known' : c.n = d.n => c = d
    BY <1>2, <1>9, <2>2, <2>3
  <2> QED
    BY <2>4, <2>5 DEF Numbered
<1>11. PlacesApart'
  BY <1>1, <1>5, <1>6, <1>7, OnceParts DEF PlacesApart
<1>12. SettledApart' /\ (InFlight \cap Settled = {})'
  BY <1>1, <1>4, <1>8, OnceParts DEF SettledApart
<1> QED
  BY <1>10, <1>11, <1>12, OnceParts, PTL

\* From a producer into the queue.
LEMMA OfferOnce ==
  ASSUME TypeOK, ProducersOK, EachEventOnce, NEW p \in Producers, ppc[p] # "idle",
         queue' = Append(queue, pev[p]), Leave(p), UNCHANGED <<raised, cur, outcome>>
  PROVE  EachEventOnce'
<1> DEFINE e == pev[p]
<1>1. /\ e \in Event /\ e # NoEvent /\ e \in InFlight /\ e \notin Queued /\ e # cur
      /\ \A q \in Producers : q # p => pev[q] # e
  BY OfferedFacts
<1>2. Queued' = Queued \cup {e} /\ Injective(queue)'
  <2>1. queue \in Seq(Event) /\ Injective(queue)
    BY OnceParts DEF TypeOK, PlacesApart
  <2>2. Elements(Append(queue, e)) = Queued \cup {e} /\ Injective(Append(queue, e))
    BY <1>1, <2>1, AppendElements DEF Queued
  <2> QED
    BY <2>2 DEF Queued, Elements, Injective
<1>3. \A q \in Producers : pev'[q] = IF q = p THEN NoEvent ELSE pev[q]
  BY DEF Leave, TypeOK
<1>4. InFlight' = InFlight
  <2>1. ASSUME NEW x
        PROVE  x \in InFlight' <=> x # NoEvent /\ (x \in Queued' \/ x = cur \/ \E q \in Producers : pev'[q] = x)
    BY DEF InFlight, Queued, Elements
  <2>2. ASSUME NEW x PROVE x \in InFlight' <=> x \in InFlight
    BY <1>1, <1>2, <1>3, <2>1, InFlightIs
  <2> QED
    BY <2>2
<1>5. PlacesApart'
  BY <1>1, <1>2, <1>3, OnceParts DEF PlacesApart
<1> QED
  BY <1>4, <1>5, MoveOnce

\* The queue's oldest event is dropped.
LEMMA EvictOnce ==
  ASSUME TypeOK, EachEventOnce, NEW p \in Producers, Evict(p)
  PROVE  EachEventOnce'
<1> DEFINE e == Head(queue)
<1>1. /\ queue # <<>> /\ Becomes(e, "dropped") /\ queue' = Tail(queue)
      /\ UNCHANGED <<raised, pev, cur>>
  BY DEF Evict, workerVars
<1>2. /\ e \in Event /\ e \in Queued /\ e \in InFlight
      /\ e # cur /\ \A q \in Producers : pev[q] # e
      /\ Elements(Tail(queue)) = Queued \ {e} /\ Injective(Tail(queue))
  BY <1>1, HeadFacts
<1> HIDE DEF e
<1>3. Queued' = Queued \ {e} /\ Injective(queue)'
  BY <1>1, <1>2 DEF Queued, Elements, Injective
<1>4. InFlight' = InFlight \ {e}
  <2>1. ASSUME NEW x
        PROVE  x \in InFlight' <=> x # NoEvent /\ (x \in Queued' \/ x = cur \/ \E q \in Producers : pev[q] = x)
    BY <1>1 DEF InFlight, Queued, Elements
  <2>2. ASSUME NEW x PROVE x \in InFlight' <=> x \in InFlight /\ x # e
    BY <1>2, <1>3, <2>1, InFlightIs
  <2> QED
    BY <2>2
<1>5. PlacesApart'
  BY <1>1, <1>3, OnceParts DEF PlacesApart
<1> QED
  BY <1>1, <1>2, <1>4, <1>5, SettleOnce DEF Outcomes

\* The event offered is dropped.
LEMMA ReofferFullOnce ==
  ASSUME TypeOK, ProducersOK, EachEventOnce, NEW p \in Producers, ReofferFull(p)
  PROVE  EachEventOnce'
<1> DEFINE e == pev[p]
<1>1. /\ ppc[p] # "idle" /\ Becomes(e, "dropped") /\ Leave(p)
      /\ UNCHANGED <<raised, queue, cur>>
  BY DEF ReofferFull, At, workerVars
<1>2. /\ e \in Event /\ e # NoEvent /\ e \in InFlight /\ e \notin Queued /\ e # cur
      /\ \A q \in Producers : q # p => pev[q] # e
  BY <1>1, OfferedFacts
<1>3. \A q \in Producers : pev'[q] = IF q = p THEN NoEvent ELSE pev[q]
  BY <1>1 DEF Leave, TypeOK
<1>4. Queued' = Queued /\ Injective(queue)' = Injective(queue)
  BY <1>1 DEF Queued, Elements, Injective
<1>5. InFlight' = InFlight \ {e}
  <2>1. ASSUME NEW x
        PROVE  x \in InFlight' <=> x # NoEvent /\ (x \in Queued \/ x = cur \/ \E q \in Producers : pev'[q] = x)
    BY <1>1 DEF InFlight, Queued, Elements
  <2>2. ASSUME NEW x PROVE x \in InFlight' <=> x \in InFlight /\ x # e
    BY <1>2, <1>3, <2>1, InFlightIs
  <2> QED
    BY <2>2
<1>6. PlacesApart'
  BY <1>1, <1>2, <1>3, <1>4, OnceParts DEF PlacesApart
<1> QED
  BY <1>1, <1>2, <1>5, <1>6, SettleOnce DEF Outcomes

\* From the queue to the worker.
LEMMA TakeOnce ==
  ASSUME TypeOK, IdleOK, EachEventOnce, Take
  PROVE  EachEventOnce'
<1> DEFINE e == Head(queue)
<1>1. /\ queue # <<>> /\ cur = NoEvent /\ cur' = e /\ queue' = Tail(queue)
      /\ UNCHANGED <<raised, pev, outcome>>
  BY DEF Take, IdleOK, producerVars
<1>2. /\ e \in Event /\ e \in Queued /\ e \in InFlight
      /\ e # cur /\ \A q \in Producers : pev[q] # e
      /\ Elements(Tail(queue)) = Queued \ {e} /\ Injective(Tail(queue))
  BY <1>1, HeadFacts
<1> HIDE DEF e
<1>3. Queued' = Queued \ {e} /\ Injective(queue)'
  BY <1>1, <1>2 DEF Queued, Elements, Injective
<1>4. InFlight' = InFlight
  <2>1. ASSUME NEW x
        PROVE  x \in InFlight' <=> x # NoEvent /\ (x \in Queued' \/ x = e \/ \E q \in Producers : pev[q] = x)
    BY <1>1 DEF InFlight, Queued, Elements
  <2>2. ASSUME NEW x PROVE x \in InFlight' <=> x \in InFlight
    BY <1>1, <1>2, <1>3, <2>1, InFlightIs
  <2> QED
    BY <2>2
<1>5. PlacesApart'
  BY <1>1, <1>2, <1>3, OnceParts DEF PlacesApart
<1> QED
  BY <1>1, <1>4, <1>5, MoveOnce

\* The worker settles its event.
LEMMA DoneOnce ==
  ASSUME TypeOK, AdmissionOK, EachEventOnce, wpc # "idle", NEW o \in Outcomes,
         Becomes(cur, o), Done, UNCHANGED <<producerVars, queue>>
  PROVE  EachEventOnce'
<1>1. cur' = NoEvent /\ UNCHANGED <<raised, pev, queue>>
  BY DEF Done, producerVars
<1>2. /\ cur \in Event /\ cur # NoEvent /\ cur \in InFlight
      /\ cur \notin Queued /\ \A p \in Producers : pev[p] # cur
  BY CurFacts
<1>3. Queued' = Queued /\ Injective(queue)' = Injective(queue)
  BY <1>1 DEF Queued, Elements, Injective
<1>4. InFlight' = InFlight \ {cur}
  <2>1. ASSUME NEW x
        PROVE  x \in InFlight' <=> x # NoEvent /\ (x \in Queued \/ x = NoEvent \/ \E q \in Producers : pev[q] = x)
    BY <1>1 DEF InFlight, Queued, Elements
  <2>2. ASSUME NEW x PROVE x \in InFlight' <=> x \in InFlight /\ x # cur
    BY <1>2, <2>1, InFlightIs
  <2> QED
    BY <2>2
<1>5. NoEvent \notin Queued
  BY QueueFacts, NoEventIsNone DEF TypeOK, Queued, Elements
<1>6. PlacesApart'
  BY <1>1, <1>3, <1>5, OnceParts DEF PlacesApart
<1> QED
  BY <1>1, <1>2, <1>4, <1>6, SettleOnce

\* All that is in the memory is lost.
LEMMA RestartOnce ==
  ASSUME TypeOK, EachEventOnce, NEW c \in Cooldowns, Restart(c)
  PROVE  EachEventOnce'
<1>1. /\ raised' = raised /\ queue' = <<>> /\ cur' = NoEvent
      /\ pev' = [p \in Producers |-> NoEvent]
      /\ outcome' = [outcome EXCEPT !["lost"] = @ \cup InFlight]
  BY DEF Restart, Done
<1>2. Queued' = {} /\ Injective(queue)'
  BY <1>1 DEF Queued, Elements, Injective
<1>3. InFlight' = {}
  <2>1. ASSUME NEW x
        PROVE  x \in InFlight' <=> x # NoEvent /\ (x \in Queued' \/ x = NoEvent \/ \E q \in Producers : pev'[q] = x)
    BY <1>1 DEF InFlight, Queued, Elements
  <2> QED
    BY <1>1, <1>2, <2>1
<1>4. \A o \in Outcomes : outcome'[o] = IF o = "lost" THEN outcome[o] \cup InFlight ELSE outcome[o]
  BY <1>1 DEF TypeOK
<1>5. Settled' = Settled \cup InFlight
  <2>1. ASSUME NEW x PROVE x \in Settled' <=> x \in Settled \/ x \in InFlight
    BY <1>4 DEF Settled, Outcomes
  <2> QED
    BY <2>1
<1>6. Known' = Known
  BY <1>3, <1>5 DEF Known
<1>7. Numbered'
  BY <1>1, <1>6, OnceParts DEF Numbered
<1>8. PlacesApart'
  BY <1>1, <1>2 DEF PlacesApart
<1>9. SettledApart'
  <2>1. \A o \in Outcomes : outcome[o] \cap InFlight = {}
    BY OnceParts DEF Settled
  <2> QED
    BY <1>4, <2>1, OnceParts DEF SettledApart
<1> QED
  <2>1. (InFlight \cap Settled = {})'
    BY <1>3
  <2> QED
    BY <1>7, <1>8, <1>9, <2>1, OnceParts, PTL

\* Steps that leave the events where they are.
LEMMA QuietOnce ==
  ASSUME EachEventOnce, UNCHANGED <<raised, pev, queue, cur, outcome>>
  PROVE  EachEventOnce'
BY DEF EachEventOnce, InFlight, Settled

LEMMA OnceStep ==
  ASSUME TypeOK, ProducersOK, AdmissionOK, IdleOK, EachEventOnce, Next
  PROVE  EachEventOnce'
<1> USE DEF producerVars, workerVars, silenceVars
<1>1. ASSUME NEW p \in Producers, Enqueue(p) PROVE EachEventOnce'
  <2>1. CASE Offer(p) \/ Reoffer(p)
    BY <2>1, OfferOnce DEF Offer, Reoffer, At
  <2>2. CASE OfferFull(p) \/ EvictNothing(p)
    BY <2>2, QuietOnce DEF OfferFull, EvictNothing
  <2> QED
    BY <1>1, <2>1, <2>2, EvictOnce, ReofferFullOnce DEF Enqueue
<1>2. ASSUME NEW p \in Producers, NEW k \in Keys, Raise(p, k) PROVE EachEventOnce'
  BY <1>2, RaiseOnce
<1>3. CASE Run
  <2>1. CASE Take
    BY <2>1, TakeOnce
  <2>2. CASE CheckSilence
    BY <2>2, DoneOnce, QuietOnce DEF CheckSilence, Outcomes
  <2>3. CASE CheckCooldown
    BY <2>3, DoneOnce, QuietOnce DEF CheckCooldown, Outcomes
  <2>4. CASE NotifyOk
    BY <2>4, DoneOnce DEF NotifyOk, Outcomes
  <2>5. CASE NotifyFails
    BY <2>5, DoneOnce, QuietOnce DEF NotifyFails, Outcomes
  <2>6. CASE Backoff
    BY <2>6, QuietOnce DEF Backoff
  <2> QED
    BY <1>3, <2>1, <2>2, <2>3, <2>4, <2>5, <2>6 DEF Run
<1>4. ASSUME NEW k \in MuteKeys, NEW d \in Durations, Silence(k, d) \/ SilenceUnsaved(k, d)
      PROVE  EachEventOnce'
  BY <1>4, QuietOnce DEF Silence, SilenceUnsaved
<1>5. CASE ListSilences \/ Tick
  BY <1>5, QuietOnce DEF ListSilences, Tick
<1>6. ASSUME NEW c \in Cooldowns, UpdateConfig(c) \/ Restart(c) PROVE EachEventOnce'
  BY <1>6, QuietOnce, RestartOnce DEF UpdateConfig
<1> QED
  BY <1>1, <1>2, <1>3, <1>4, <1>5, <1>6 DEF Next

LEMMA IdleStep ==
  ASSUME TypeOK, IdleOK, Next
  PROVE  IdleOK'
<1> USE DEF producerVars, workerVars, silenceVars, IdleOK
<1>1. ASSUME NEW p \in Producers, Enqueue(p) PROVE IdleOK'
  BY <1>1 DEF Enqueue, Offer, OfferFull, Evict, EvictNothing, Reoffer, ReofferFull, At, Goto, Leave, TypeOK
<1>2. ASSUME NEW p \in Producers, NEW k \in Keys, Raise(p, k) PROVE IdleOK'
  BY <1>2 DEF Raise, Goto, TypeOK
<1>3. CASE Run
  BY <1>3 DEF Run, Take, CheckSilence, CheckCooldown, NotifyOk, NotifyFails, Backoff, Done
<1>4. ASSUME NEW k \in MuteKeys, NEW d \in Durations, Silence(k, d) \/ SilenceUnsaved(k, d)
      PROVE  IdleOK'
  BY <1>4 DEF Silence, SilenceUnsaved
<1>5. CASE ListSilences \/ Tick
  BY <1>5 DEF ListSilences, Tick
<1>6. ASSUME NEW c \in Cooldowns, UpdateConfig(c) \/ Restart(c) PROVE IdleOK'
  BY <1>6 DEF UpdateConfig, Restart, Done
<1> QED
  BY <1>1, <1>2, <1>3, <1>4, <1>5, <1>6 DEF Next

LEMMA OnceInit ==
  ASSUME Init
  PROVE  IdleOK /\ EachEventOnce
<1>1. queue = <<>> /\ cur = NoEvent /\ \A p \in Producers : pev[p] = NoEvent
  BY DEF Init
<1>2. InFlight = {} /\ Settled = {}
  BY <1>1 DEF Init, InFlight, Settled
<1>3. 1 .. raised = {}
  BY DEF Init
<1>4. PlacesApart
  BY <1>1 DEF PlacesApart, Queued, Elements, Injective
<1>5. SettledApart /\ Numbered
  BY <1>2, <1>3 DEF Init, SettledApart, Numbered, Known
<1> QED
  BY <1>1, <1>2, <1>4, <1>5, OnceParts DEF IdleOK

-----------------------------------------------------------------------------
(* The theorems.                                                           *)

LEMMA Initially == ConstantsAssumption /\ Init => IInv
<1> SUFFICES ASSUME ConstantsAssumption, Init
             PROVE  IInv
  OBVIOUS
<1>1. TypeOK
  BY TypeInit
<1>2. ProducersOK /\ LastSentOK /\ AdmissionOK /\ CooldownRespected
  BY DEF Init, ProducersOK, LastSentOK, AdmissionOK, CooldownRespected
<1>3. SavedOK /\ SilencesSurvive
  BY DEF Init, SavedOK, SilencesSurvive
<1>4. IdleOK /\ EachEventOnce
  BY OnceInit
<1> QED
  BY <1>1, <1>2, <1>3, <1>4 DEF IInv

LEMMA Stutter ==
  ASSUME IInv, UNCHANGED vars
  PROVE  IInv'
<1> USE DEF IInv, vars, producerVars, workerVars, silenceVars
<1>1. TypeOK'
  BY DEF TypeOK
<1>2. ProducersOK' /\ LastSentOK' /\ AdmissionOK' /\ CooldownRespected'
  BY DEF ProducersOK, LastSentOK, AdmissionOK, CooldownRespected
<1>3. SavedOK' /\ SilencesSurvive'
  BY DEF SavedOK, SilencesSurvive
<1>4. IdleOK' /\ EachEventOnce'
  BY QuietOnce DEF IdleOK
<1> QED
  BY <1>1, <1>2, <1>3, <1>4

LEMMA Step ==
  ASSUME ConstantsAssumption, IInv, Next
  PROVE  IInv'
<1>1. TypeOK' /\ ProducersOK' /\ AdmissionOK'
  BY TypeStep, ProducersStep, AdmissionStep DEF IInv
<1>2. LastSentOK' /\ CooldownRespected'
  BY LastSentStep, CooldownStep DEF IInv
<1>3. SavedOK' /\ SilencesSurvive'
  BY SilencesStep DEF IInv, SilencesOK
<1>4. IdleOK' /\ EachEventOnce'
  BY IdleStep, OnceStep DEF IInv
<1> QED
  BY <1>1, <1>2, <1>3, <1>4 DEF IInv

(* The inductive invariant of the alert path.                              *)
THEOREM Invariance == Spec => []IInv
<1>1. IInv /\ [Next]_vars => IInv'
  BY Step, Stutter, ConstantsAssumption
<1> QED
  BY <1>1, Initially, ConstantsAssumption, PTL DEF Spec

(* Every variable keeps its type; the ring of failed events its size.      *)
THEOREM TypeCorrect == Spec => []TypeOK
<1>1. IInv => TypeOK
  BY DEF IInv
<1> QED
  BY <1>1, Invariance, PTL

(* Two notifications of one agent and type from one process of the hub are *)
(* a cooldown apart, retries and changes of the configuration included.    *)
THEOREM CooldownsHold == Spec => []CooldownRespected
<1>1. IInv => CooldownRespected
  BY DEF IInv
<1> QED
  BY <1>1, Invariance, PTL

(* A silence that was answered with 200 lasts as long as it was promised.  *)
THEOREM SilencesLast == Spec => []SilencesSurvive
<1>1. IInv => SilencesSurvive
  BY DEF IInv
<1> QED
  BY <1>1, Invariance, PTL

(* No request and no step of the worker shortens a silence in force.       *)
THEOREM WindowsNeverShrink == Spec => SilencesNotShortened
<1>1. IInv /\ [Next]_vars =>
        [life' = life => \A k \in MuteKeys : silences[k] > now => silences'[k] >= silences[k]]_vars
  BY NotShortenedStep, ConstantsAssumption DEF IInv
<1> QED
  BY <1>1, Invariance, PTL DEF Spec, SilencesNotShortened

(* An event the cooldown suppresses follows a notification by less than it.*)
THEOREM SuppressedForAReason == Spec => SuppressionJustified
<1>1. IInv /\ [Next]_vars =>
        [\A e \in outcome'["cooled"] \ outcome["cooled"] :
          \E s \in sent : /\ s.event.key = e.key /\ s.life = life
                          /\ now < s.at + cooldown]_vars
  BY CooledStep, ConstantsAssumption DEF IInv
<1> QED
  BY <1>1, Invariance, PTL DEF Spec, SuppressionJustified

(* enqueue and deliver lose no event and handle none twice: each one that  *)
(* was raised is with a producer, in the queue, with the worker or settled *)
(* in one way, however full the queue is and whoever takes the room first. *)
THEOREM EventsOnce == Spec => []EachEventOnce
<1>1. IInv => EachEventOnce
  BY DEF IInv
<1> QED
  BY <1>1, Invariance, PTL
=============================================================================
