---------------------------- MODULE HistoryRollup ----------------------------
(***************************************************************************)
(* The hub's history tiers in SQLite: the raw samples, the hourly rows     *)
(* summed up from them, the daily rows summed up from those, and the one   *)
(* goroutine that runs the rollup and the retention passes.  A pass is a   *)
(* series of statements; samples are written between any two of them.      *)
(*                                                                         *)
(* A rollup row is the set of samples its averages and counts stand for.   *)
(* Time is counted in instants.  The first instant of an hour is a whole   *)
(* second, the next one a fraction of that same second.                    *)
(***************************************************************************)
EXTENDS Naturals, FiniteSets

CONSTANTS
    Agents,
    Hour,        \* instants in an hour
    Day,         \* hours in a day
    Lookback,    \* tier -> how many slots a first pass reaches back
    Retention,   \* instants a raw sample is kept
    MaxPass,     \* bound: instants a pass takes
    MaxTime,     \* bound: the clock
    MaxAge,      \* bound: how old a sample is when it is written
    MaxSamples,  \* bound: samples written
    MaxFaults    \* bound: statements that fail, restarts of the hub

Tiers  == {"hourly", "daily"}
Passes == {"rollup", "retention"}

ASSUME ConstantsAssumption ==
    /\ Hour \in Nat /\ Hour >= 2 /\ Day \in Nat \ {0}
    /\ Lookback \in [Tiers -> Nat \ {0}]
    /\ Retention \in Nat /\ MaxPass \in Nat /\ Retention >= Hour + MaxPass
    /\ MaxTime \in Nat /\ MaxTime >= Hour * Day + Hour
    /\ MaxAge \in Nat /\ MaxSamples \in Nat /\ MaxFaults \in Nat

VARIABLES
    now,       \* the clock
    raw,       \* table raw_samples
    due,       \* when the rollup and the retention ticker fire next
    rows,      \* tables hourly_rollup and daily_rollup: slot -> the samples summed up
    mark,      \* the watermarks in hub_settings, 0 if there is none
    job,       \* where the goroutine is: pass, tier, slot, end, rows to insert
    deleted,   \* record: samples retention deleted
    missed,    \* record: samples that came after their hour was summed up
    early,     \* record: days summed up before all of their hours were
    faults     \* failures so far

vars == <<now, due, raw, rows, mark, job, deleted, missed, early, faults>>

Sample == [agent : Agents, at : Hour .. MaxTime]
Slots  == 0 .. MaxTime

\* RFC3339Nano texts compare as texts: ".5Z" is before "Z".
Text(t) == IF t % Hour = 0 THEN t + 1 ELSE IF t % Hour = 1 THEN t - 1 ELSE t

Width(tier) == IF tier = "hourly" THEN Hour ELSE Hour * Day
SlotOf(tier, t) == t \div Width(tier)
NoRows == [a \in Agents |-> {}]
IdleJob == [pc |-> "idle", pass |-> "rollup", tier |-> "hourly", slot |-> 0, end |-> 0,
            batch |-> NoRows, began |-> 0]

\* The periods of the tickers: an hour and a day.
Period(pass) == IF pass = "rollup" THEN Hour ELSE Hour * Day

Later(a, b) == IF a > b THEN a ELSE b

Fault == faults < MaxFaults /\ faults' = faults + 1

Init ==
    /\ now \in Hour * Day .. Hour * Day + Hour - 1
    /\ due = [pass \in Passes |-> now + Period(pass)]
    /\ raw = {}
    /\ rows = [tier \in Tiers |-> [r \in Agents \X Slots |-> {}]]
    /\ mark = [tier \in Tiers |-> 0]
    /\ job = IdleJob
    /\ deleted = {} /\ missed = {} /\ early = {}
    /\ faults = 0

-----------------------------------------------------------------------------
(* What the statements read.                                               *)

\* collected_at is before the text of hour h, and in [h, h + 1).
Before(s, h) == Text(s.at) < Text(h * Hour)

InHour(s, h) == ~Before(s, h) /\ Before(s, h + 1)

\* rollupHour and rollupDay.
SumHour(a, h) == {s \in raw : s.agent = a /\ InHour(s, h)}
SumDay(a, d) == UNION {rows["hourly"][a, h] : h \in {h \in Slots : h \div Day = d}}

Summed(tier, a, i) == IF tier = "hourly" THEN SumHour(a, i) ELSE SumDay(a, i)

\* MIN(collected_at) and MIN(hour_start), truncated to their slot.
OldestHour == {s.at \div Hour : s \in {s \in raw : \A t \in raw : Text(s.at) <= Text(t.at)}}
OldestDay ==
    LET held == {h \in Slots : \E a \in Agents : rows["hourly"][a, h] # {}}
    IN  {h \div Day : h \in {h \in held : \A g \in held : h <= g}}
Oldest(tier) == IF tier = "hourly" THEN OldestHour ELSE OldestDay

\* Where a pass starts: the watermark, or some slots back the first time, but
\* not before the oldest row unless the query for it fails or finds none.
Back(tier, end) == IF end > Lookback[tier] THEN end - Lookback[tier] ELSE 0
Starts(tier, end) ==
    IF mark[tier] # 0 THEN {mark[tier]}
    ELSE {Back(tier, end)} \cup {Later(i, Back(tier, end)) : i \in Oldest(tier)}

-----------------------------------------------------------------------------
(* Ingest.                                                                 *)

\* The hours below it are summed up, or being so.
Frontier ==
    IF job.pc \in {"select", "insert"} /\ job.tier = "hourly"
    THEN Later(mark["hourly"], IF job.pc = "insert" THEN job.slot + 1 ELSE job.slot)
    ELSE mark["hourly"]

\* A sample may be hours old: the agent had it spooled.
WriteSample(a, t) ==
    LET s == [agent |-> a, at |-> t]
    IN  /\ t <= now /\ now <= t + MaxAge
        /\ Cardinality(raw \cup deleted \cup {s}) <= MaxSamples
        /\ raw' = raw \cup {s}
        /\ missed' = IF Before(s, Frontier) THEN missed \cup {s} ELSE missed
        /\ UNCHANGED <<now, due, rows, mark, job, deleted, early, faults>>

-----------------------------------------------------------------------------
(* The passes.                                                             *)

\* Read the watermark of the tier, and the oldest row if there is none.
Begin(pass, tier) ==
    \E start \in Starts(tier, SlotOf(tier, now)) :
        /\ job' = [IdleJob EXCEPT !.pc = "select", !.pass = pass, !.tier = tier,
                                  !.slot = start, !.end = SlotOf(tier, now),
                                  !.began = IF job.pc = "idle" THEN now ELSE job.began]
        /\ missed' = IF tier = "hourly" /\ mark[tier] = 0
                     THEN missed \cup {s \in raw : Before(s, start)} ELSE missed
        /\ early' = IF tier = "daily" /\ mark[tier] = 0
                    THEN early \cup {d \in Slots : d < start} ELSE early

\* A ticker fires.  At the bound of the clock both go on firing.
StartPass(pass) ==
    /\ job.pc = "idle" /\ (due[pass] <= now \/ now = MaxTime)
    /\ Begin(pass, "hourly")
    /\ due' = IF due[pass] <= now THEN [due EXCEPT ![pass] = @ + Period(pass)] ELSE due
    /\ UNCHANGED <<now, raw, rows, mark, deleted, faults>>

StartDaily ==
    /\ job.pc = "daily"
    /\ Begin("rollup", "daily")
    /\ UNCHANGED <<now, due, raw, rows, mark, deleted, faults>>

\* Mutated form of SelectSlot: the loop does not look at its end.
SelectUnbounded ==
    /\ job.pc = "select"
    /\ job' = [job EXCEPT !.pc = "insert",
                          !.batch = [a \in Agents |-> Summed(job.tier, a, job.slot)]]
    /\ early' = IF job.tier = "daily" /\ mark["hourly"] < (job.slot + 1) * Day
                THEN early \cup {job.slot} ELSE early
    /\ UNCHANGED <<now, due, raw, rows, mark, deleted, missed, faults>>

SelectSlot ==
    /\ job.pc = "select" /\ job.slot < job.end
    /\ job' = [job EXCEPT !.pc = "insert",
                          !.batch = [a \in Agents |-> Summed(job.tier, a, job.slot)]]
    /\ early' = IF job.tier = "daily" /\ mark["hourly"] < (job.slot + 1) * Day
                THEN early \cup {job.slot} ELSE early
    /\ UNCHANGED <<now, due, raw, rows, mark, deleted, missed, faults>>

InsertRow(a) ==
    /\ job.pc = "insert" /\ job.batch[a] # {}
    /\ rows' = [rows EXCEPT ![job.tier][<<a, job.slot>>] = job.batch[a]]
    /\ job' = [job EXCEPT !.batch[a] = {}]
    /\ UNCHANGED <<now, due, raw, mark, deleted, missed, early, faults>>

\* Mutated form of NextSlot: the loop does not advance.
NextSlotStays ==
    /\ job.pc = "insert" /\ job.batch = NoRows
    /\ job' = [job EXCEPT !.pc = "select"]
    /\ UNCHANGED <<now, due, raw, rows, mark, deleted, missed, early, faults>>

NextSlot ==
    /\ job.pc = "insert" /\ job.batch = NoRows
    /\ job' = [job EXCEPT !.pc = "select", !.slot = @ + 1]
    /\ UNCHANGED <<now, due, raw, rows, mark, deleted, missed, early, faults>>

\* What follows a tier of a pass.
After(tier) == IF tier = "daily" THEN "idle" ELSE IF job.pass = "rollup" THEN "daily" ELSE "delete"

JobAt(pc) ==
    IF pc = "idle" THEN IdleJob ELSE [IdleJob EXCEPT !.pc = pc, !.pass = job.pass, !.began = job.began]

\* Mutated form of SaveMark: the clock is read again.
SaveMarkNow ==
    /\ job.pc = "select" /\ job.slot >= job.end
    /\ mark' = [mark EXCEPT ![job.tier] = SlotOf(job.tier, now)]
    /\ job' = JobAt(After(job.tier))
    /\ UNCHANGED <<now, due, raw, rows, deleted, missed, early, faults>>

SaveMark ==
    /\ job.pc = "select" /\ job.slot >= job.end
    /\ mark' = [mark EXCEPT ![job.tier] = job.end]
    /\ job' = JobAt(After(job.tier))
    /\ UNCHANGED <<now, due, raw, rows, deleted, missed, early, faults>>

Expired == {s \in raw : now >= Retention /\ Text(s.at) < Text(now - Retention)}

DeleteExpired ==
    /\ job.pc = "delete"
    /\ raw' = raw \ Expired
    /\ deleted' = deleted \cup Expired
    /\ job' = IdleJob
    /\ UNCHANGED <<now, due, rows, mark, missed, early, faults>>

\* Mutated form of AfterFailure: a retention pass goes on too.
AfterFailureGoesOn == IF job.pc \in {"select", "insert"} THEN After(job.tier) ELSE "idle"

\* The daily rollup is run though the hourly one failed.
AfterFailure ==
    IF job.pc \in {"select", "insert"} /\ job.tier = "hourly" /\ job.pass = "rollup"
    THEN "daily" ELSE "idle"

\* A statement of the pass fails.
PassFails ==
    /\ job.pc # "idle" /\ Fault
    /\ job' = JobAt(AfterFailure)
    /\ UNCHANGED <<now, due, raw, rows, mark, deleted, missed, early>>

Pass ==
    \/ \E pass \in Passes : StartPass(pass)
    \/ StartDaily
    \/ SelectSlot \/ NextSlot \/ SaveMark \/ DeleteExpired
    \/ \E a \in Agents : InsertRow(a)

-----------------------------------------------------------------------------
\* The tables stay, the pass does not.
HubRestart ==
    /\ Fault
    /\ job' = IdleJob
    /\ due' = [pass \in Passes |-> now + Period(pass)]
    /\ UNCHANGED <<now, raw, rows, mark, deleted, missed, early>>

\* A ticker that is due is served at once, or after a pass of at most MaxPass.
Tick ==
    /\ now < MaxTime
    /\ IF job.pc = "idle" THEN \A pass \in Passes : now < due[pass] ELSE now < job.began + MaxPass
    /\ now' = now + 1
    /\ UNCHANGED <<due, raw, rows, mark, job, deleted, missed, early, faults>>

Next ==
    \/ \E a \in Agents, t \in Hour .. MaxTime : WriteSample(a, t)
    \/ Pass \/ PassFails \/ HubRestart
    \/ Tick

\* Time passes, and a pass that a ticker starts goes on.
Spec == Init /\ [][Next]_vars /\ WF_vars(Pass) /\ WF_vars(Tick)

-----------------------------------------------------------------------------
TypeOK ==
    /\ now \in Nat /\ due \in [Passes -> Nat]
    /\ raw \subseteq Sample
    /\ rows \in [Tiers -> [Agents \X Slots -> SUBSET Sample]]
    /\ mark \in [Tiers -> Slots]
    /\ job \in [pc : {"idle", "daily", "select", "insert", "delete"}, pass : Passes,
               tier : Tiers, slot : Slots, end : Slots, batch : [Agents -> SUBSET Sample], began : Nat]
    /\ deleted \subseteq Sample /\ missed \subseteq Sample
    /\ early \subseteq Slots
    /\ faults \in Nat

Counted == UNION {rows["hourly"][r] : r \in Agents \X Slots}

(* rollup.go: the hourly rows are there before the samples they sum up are *)
(* deleted.  It holds of every sample that was in the table when its hour  *)
(* was summed up, whatever statements fail and wherever the hub stops.     *)
CountedBeforeDeleted == deleted \ missed \subseteq Counted

(* A day below the watermark has all the samples of its hours, if its      *)
(* hours were summed up before it.                                         *)
DailyMatchesHourly ==
    \A d \in Slots \ early, a \in Agents :
        d < mark["daily"] => rows["daily"][a, d] = SumDay(a, d)

(* Again and again, all samples of completed hours that came in time are   *)
(* summed up.                                                              *)
CaughtUp == \A s \in raw : Before(s, SlotOf("hourly", now)) => s \in Counted \cup missed
EventuallyCaughtUp == []<>CaughtUp

=============================================================================
