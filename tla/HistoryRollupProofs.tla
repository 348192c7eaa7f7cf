------------------------- MODULE HistoryRollupProofs -------------------------
(***************************************************************************)
(* Theorems about HistoryRollup, for every length of hours and days, every *)
(* retention longer than an hour and a pass, and every bound.              *)
(***************************************************************************)
EXTENDS HistoryRollup, TLAPS

-----------------------------------------------------------------------------
(* Arithmetic of the slots.                                                *)

LEMMA SlotBounds ==
    ASSUME NEW w \in Nat, w >= 1, NEW t \in Nat
    PROVE  /\ t \div w \in Nat /\ t \div w <= t
           /\ (t \div w) * w <= t /\ t < (t \div w) * w + w
OBVIOUS

LEMMA SlotReached ==
    ASSUME NEW w \in Nat, w >= 1, NEW t \in Nat, NEW h \in Nat, h * w <= t
    PROVE  h <= t \div w
OBVIOUS

LEMMA WidthOK ==
    ASSUME ConstantsAssumption, NEW tier \in Tiers
    PROVE  Width(tier) \in Nat /\ Width(tier) >= 1
<1>1. \A H, D \in Nat : H >= 1 /\ D >= 1 => H * D \in Nat /\ H * D >= 1
  OBVIOUS
<1> QED
  BY <1>1 DEF ConstantsAssumption, Tiers, Width

LEMMA PeriodTyped ==
    ASSUME ConstantsAssumption
    PROVE  /\ Hour * Day \in Nat /\ Hour * Day + Hour <= MaxTime
           /\ \A pass \in Passes : Period(pass) \in Nat
<1>1. \A h, d \in Nat : h * d \in Nat
  OBVIOUS
<1>2. Hour \in Nat /\ Day \in Nat /\ Hour * Day \in Nat
  BY <1>1 DEF ConstantsAssumption
<1>3. Hour * Day + Hour <= MaxTime
  BY DEF ConstantsAssumption
<1> QED
  BY <1>2, <1>3 DEF Period

LEMMA SlotTyped ==
    ASSUME ConstantsAssumption, NEW tier \in Tiers, NEW t \in Nat, t <= MaxTime
    PROVE  SlotOf(tier, t) \in Slots
<1>1. t \div Width(tier) \in Nat /\ t \div Width(tier) <= t
  BY WidthOK, SlotBounds
<1> QED
  BY <1>1 DEF SlotOf, Slots, ConstantsAssumption

(* The text of an hour is that of its second instant.                      *)
LEMMA HourStart ==
    ASSUME ConstantsAssumption, NEW h \in Nat
    PROVE  h * Hour \in Nat /\ Text(h * Hour) = h * Hour + 1
BY DEF ConstantsAssumption, Text

LEMMA TextBounds ==
    ASSUME ConstantsAssumption, NEW t \in Nat
    PROVE  Text(t) \in Nat /\ Text(t) <= t + 1
BY DEF ConstantsAssumption, Text

LEMMA BeforeText ==
    ASSUME ConstantsAssumption, NEW s \in Sample, NEW h \in Nat
    PROVE  /\ Text(s.at) \in Nat
           /\ Before(s, h) <=> Text(s.at) < h * Hour + 1
<1>1. s.at \in Nat
  BY DEF Sample, ConstantsAssumption
<1> QED
  BY <1>1, HourStart, TextBounds DEF Before

(* What is before an hour is before the later ones.                        *)
LEMMA BeforeMono ==
    ASSUME ConstantsAssumption, NEW s \in Sample, NEW g \in Nat, NEW h \in Nat,
           g <= h, Before(s, g)
    PROVE  Before(s, h)
<1>1. Hour \in Nat
  BY DEF ConstantsAssumption
<1>2. g * Hour <= h * Hour /\ g * Hour \in Nat /\ h * Hour \in Nat
  BY <1>1
<1> QED
  BY <1>2, BeforeText

-----------------------------------------------------------------------------
(* The invariant.                                                          *)

Summing == job.pc \in {"select", "insert"} /\ job.tier = "hourly"

\* Where the summing up of hours has got to.
Front == IF Summing THEN job.slot ELSE mark["hourly"]

ClockOK ==
    /\ now <= MaxTime
    /\ mark["hourly"] * Hour <= now
    /\ job.pc # "idle" => job.began <= now /\ now <= job.began + MaxPass

JobOK ==
    /\ job.pc = "insert" => job.slot < job.end
    /\ Summing => /\ mark["hourly"] <= job.slot /\ mark["hourly"] <= job.end
                  /\ job.end = job.began \div Hour
    /\ job.pc = "delete" => job.began \div Hour <= mark["hourly"]

\* An hourly row has samples of its agent and hour, and so does what is selected.
RowsOK == \A a \in Agents, h \in Slots : \A s \in rows["hourly"][<<a, h>>] : InHour(s, h)
BatchOK ==
    Summing /\ job.pc = "insert" => \A a \in Agents : \A s \in job.batch[a] : InHour(s, job.slot)

\* What came in time and is before the front is in a row.
SummedUp == \A s \in raw \ missed : Before(s, Front) => s \in Counted

\* What came in time for the hour at the front is selected or inserted.
HourSummed ==
    Summing /\ job.pc = "insert" =>
        \A s \in raw \ missed : InHour(s, job.slot) =>
            \/ s \in job.batch[s.agent]
            \/ job.batch[s.agent] = {} /\ s \in rows["hourly"][<<s.agent, job.slot>>]

DeletedBelow == \A s \in deleted : Before(s, mark["hourly"])

\* The same of the days.
DaySumming == job.pc \in {"select", "insert"} /\ job.tier = "daily"
DayFront == IF DaySumming THEN job.slot ELSE mark["daily"]

DaySlot == DaySumming => mark["daily"] <= job.slot

\* A day that has a row has samples in its hours.
DayHeld == \A a \in Agents, d \in Slots : rows["daily"][<<a, d>>] # {} => SumDay(a, d) # {}

\* The days before the front are below the watermark of the hours, and match them.
DaysDone ==
    \A d \in Slots \ early : d < DayFront => \A a \in Agents :
        /\ (d + 1) * Day <= mark["hourly"]
        /\ rows["daily"][<<a, d>>] = SumDay(a, d)

\* What is selected for the day at the front, or was inserted, is still what its hours have.
DayBatch ==
    DaySumming /\ job.pc = "insert" =>
        /\ job.slot \notin early => (job.slot + 1) * Day <= mark["hourly"]
        /\ \A a \in Agents :
             \/ job.batch[a] = SumDay(a, job.slot)
             \/ job.batch[a] = {} /\ rows["daily"][<<a, job.slot>>] = SumDay(a, job.slot)

IInv ==
    /\ DaySlot /\ DayHeld /\ DaysDone /\ DayBatch
    /\ TypeOK /\ ClockOK /\ JobOK /\ RowsOK /\ BatchOK
    /\ SummedUp /\ HourSummed /\ DeletedBelow /\ CountedBeforeDeleted

LEMMA CountedRow ==
    ASSUME NEW s
    PROVE  s \in Counted <=> \E a \in Agents, h \in Slots : s \in rows["hourly"][<<a, h>>]
<1>1. s \in Counted <=> \E r \in Agents \X Slots : s \in rows["hourly"][r]
  BY DEF Counted
<1>2. \A r \in Agents \X Slots : \E a \in Agents, h \in Slots : r = <<a, h>>
  OBVIOUS
<1>3. \A a \in Agents, h \in Slots : <<a, h>> \in Agents \X Slots
  OBVIOUS
<1> QED
  BY <1>1, <1>2, <1>3, Zenon

-----------------------------------------------------------------------------
(* What the steps read has its type.                                       *)

LEMMA SummedTyped ==
    ASSUME ConstantsAssumption, TypeOK, NEW tier \in Tiers, NEW a \in Agents, NEW i \in Slots
    PROVE  Summed(tier, a, i) \in SUBSET Sample
<1>1. SumHour(a, i) \subseteq Sample
  BY DEF SumHour, TypeOK
<1>2. \A h \in Slots : rows["hourly"][<<a, h>>] \subseteq Sample
  BY DEF TypeOK, Tiers
<1>3. SumDay(a, i) \subseteq Sample
  BY <1>2 DEF SumDay
<1> QED
  BY <1>1, <1>3 DEF Summed

LEMMA StartsTyped ==
    ASSUME ConstantsAssumption, TypeOK, NEW tier \in Tiers, NEW e \in Slots,
           NEW start \in Starts(tier, e)
    PROVE  /\ start \in Slots
           /\ mark[tier] # 0 => start = mark[tier]
<1>1. mark[tier] \in Slots
  BY DEF TypeOK
<1>2. Lookback[tier] \in Nat /\ MaxTime \in Nat /\ Hour \in Nat /\ Hour >= 1 /\ Day \in Nat /\ Day >= 1
  BY DEF ConstantsAssumption
<1>3. Back(tier, e) \in Slots
  BY <1>2 DEF Back, Slots
<1>4. OldestHour \subseteq Slots
  <2> SUFFICES ASSUME NEW s \in raw PROVE s.at \div Hour \in Slots
    BY DEF OldestHour
  <2>1. s.at \in Nat /\ s.at <= MaxTime
    BY <1>2 DEF TypeOK, Sample
  <2>2. s.at \div Hour \in Nat /\ s.at \div Hour <= s.at
    BY <2>1, <1>2, SlotBounds
  <2> QED
    BY <2>1, <2>2, <1>2 DEF Slots
<1>5. OldestDay \subseteq Slots
  <2> SUFFICES ASSUME NEW h \in Slots PROVE h \div Day \in Slots
    BY DEF OldestDay
  <2>1. h \in Nat /\ h <= MaxTime
    BY <1>2 DEF Slots
  <2>2. h \div Day \in Nat /\ h \div Day <= h
    BY <2>1, <1>2, SlotBounds
  <2> QED
    BY <2>1, <2>2, <1>2 DEF Slots
<1>6. Oldest(tier) \subseteq Slots
  BY <1>4, <1>5 DEF Oldest
<1>7. \A i \in Oldest(tier) : Later(i, Back(tier, e)) \in Slots
  BY <1>3, <1>6 DEF Later
<1> QED
  BY <1>1, <1>3, <1>7 DEF Starts

LEMMA IdleTyped ==
    ASSUME ConstantsAssumption
    PROVE  /\ IdleJob \in [pc : {"idle", "daily", "select", "insert", "delete"}, pass : Passes,
                           tier : Tiers, slot : Slots, end : Slots,
                           batch : [Agents -> SUBSET Sample], began : Nat]
           /\ IdleJob.pc = "idle"
BY DEF IdleJob, NoRows, Passes, Tiers, Slots, ConstantsAssumption

LEMMA JobAtTyped ==
    ASSUME ConstantsAssumption, TypeOK, NEW pc \in {"idle", "daily", "delete"}
    PROVE  /\ JobAt(pc) \in [pc : {"idle", "daily", "select", "insert", "delete"}, pass : Passes,
                             tier : Tiers, slot : Slots, end : Slots,
                             batch : [Agents -> SUBSET Sample], began : Nat]
           /\ JobAt(pc).pc = pc
           /\ pc # "idle" => JobAt(pc).began = job.began
<1>1. CASE pc = "idle"
  BY <1>1, IdleTyped DEF JobAt
<1>2. CASE pc # "idle"
  BY <1>2, IdleTyped DEF JobAt, TypeOK, IdleJob
<1> QED
  BY <1>1, <1>2

LEMMA AfterTyped ==
    ASSUME NEW tier
    PROVE  /\ After(tier) \in {"idle", "daily", "delete"}
           /\ After(tier) = "delete" => tier # "daily"
           /\ AfterFailure \in {"idle", "daily"}
BY DEF After, AfterFailure

(* What a pass begins with.                                                *)
LEMMA BeginJob ==
    ASSUME ConstantsAssumption, TypeOK, ClockOK, NEW pass \in Passes, NEW tier \in Tiers,
           Begin(pass, tier), job.pc # "idle" => tier = "daily"
    PROVE  /\ job' \in [pc : {"idle", "daily", "select", "insert", "delete"}, pass : Passes,
                        tier : Tiers, slot : Slots, end : Slots,
                        batch : [Agents -> SUBSET Sample], began : Nat]
           /\ job'.pc = "select" /\ job'.tier = tier
           /\ job'.slot \in Slots /\ (mark[tier] # 0 => job'.slot = mark[tier])
           /\ job'.end = SlotOf(tier, now) /\ job'.end \in Slots
           /\ job'.began = IF job.pc = "idle" THEN now ELSE job.began
           /\ missed' = IF tier = "hourly" /\ mark[tier] = 0
                        THEN missed \cup {s \in raw : Before(s, job'.slot)} ELSE missed
           /\ early' = IF tier = "daily" /\ mark[tier] = 0
                       THEN early \cup {d \in Slots : d < job'.slot} ELSE early
           /\ missed' \subseteq Sample /\ early' \subseteq Slots
<1>1. SlotOf(tier, now) \in Slots
  BY SlotTyped DEF TypeOK, ClockOK
<1>2. PICK start \in Starts(tier, SlotOf(tier, now)) :
        /\ job' = [IdleJob EXCEPT !.pc = "select", !.pass = pass, !.tier = tier,
                                  !.slot = start, !.end = SlotOf(tier, now),
                                  !.began = IF job.pc = "idle" THEN now ELSE job.began]
        /\ missed' = IF tier = "hourly" /\ mark[tier] = 0
                     THEN missed \cup {s \in raw : Before(s, start)} ELSE missed
        /\ early' = IF tier = "daily" /\ mark[tier] = 0
                    THEN early \cup {d \in Slots : d < start} ELSE early
  BY DEF Begin
<1>3. start \in Slots /\ (mark[tier] # 0 => start = mark[tier])
  BY <1>1, StartsTyped
<1>4. now \in Nat /\ job.began \in Nat /\ missed \subseteq Sample /\ raw \subseteq Sample /\ early \subseteq Slots
  BY DEF TypeOK
<1>5. /\ job'.pc = "select" /\ job'.pass = pass /\ job'.tier = tier /\ job'.slot = start
      /\ job'.end = SlotOf(tier, now) /\ job'.batch = NoRows
      /\ job'.began = IF job.pc = "idle" THEN now ELSE job.began
  BY <1>2 DEF IdleJob
<1>6. job' \in [pc : {"idle", "daily", "select", "insert", "delete"}, pass : Passes,
                tier : Tiers, slot : Slots, end : Slots,
                batch : [Agents -> SUBSET Sample], began : Nat]
  BY <1>1, <1>2, <1>3, <1>4, IdleTyped DEF IdleJob
<1> QED
  BY <1>1, <1>2, <1>3, <1>4, <1>5, <1>6

(* The rows of the hourly tier after an insert.                            *)
LEMMA RowInserted ==
    ASSUME TypeOK, NEW a \in Agents, InsertRow(a)
    PROVE  /\ job.pc = "insert" /\ job.batch[a] # {}
           /\ rows' \in [Tiers -> [Agents \X Slots -> SUBSET Sample]]
           /\ job' = [job EXCEPT !.batch = [job.batch EXCEPT ![a] = {}]]
           /\ job.tier = "daily" => rows'["hourly"] = rows["hourly"]
           /\ job.tier = "hourly" =>
                /\ rows'["hourly"][<<a, job.slot>>] = job.batch[a]
                /\ \A b \in Agents, h \in Slots :
                      b # a \/ h # job.slot => rows'["hourly"][<<b, h>>] = rows["hourly"][<<b, h>>]
<1>1. /\ job.pc = "insert" /\ job.batch[a] # {}
      /\ job' = [job EXCEPT !.batch[a] = {}]
      /\ rows' = [rows EXCEPT ![job.tier][<<a, job.slot>>] = job.batch[a]]
  BY DEF InsertRow
<1>2. /\ job.batch[a] \in SUBSET Sample /\ job.tier \in Tiers
      /\ <<a, job.slot>> \in Agents \X Slots
      /\ rows \in [Tiers -> [Agents \X Slots -> SUBSET Sample]]
  BY DEF TypeOK
<1>3. rows[job.tier] \in [Agents \X Slots -> SUBSET Sample]
  BY <1>2
<1> DEFINE row == [rows[job.tier] EXCEPT ![<<a, job.slot>>] = job.batch[a]]
<1>4. rows' = [rows EXCEPT ![job.tier] = row]
  BY <1>1
<1>5. row \in [Agents \X Slots -> SUBSET Sample]
  BY <1>2, <1>3
<1>6. /\ row[<<a, job.slot>>] = job.batch[a]
      /\ \A b \in Agents, h \in Slots :
           b # a \/ h # job.slot => row[<<b, h>>] = rows[job.tier][<<b, h>>]
  BY <1>2, <1>3
<1> HIDE DEF row
<1>7. rows' \in [Tiers -> [Agents \X Slots -> SUBSET Sample]]
  BY <1>2, <1>4, <1>5
<1>8. job.tier = "daily" => rows'["hourly"] = rows["hourly"]
  BY <1>2, <1>4 DEF Tiers
<1>9. job.tier = "hourly" => rows'["hourly"] = row
  BY <1>2, <1>4 DEF Tiers
<1>10. job' = [job EXCEPT !.batch = [job.batch EXCEPT ![a] = {}]]
  BY <1>1
<1> QED
  BY <1>1, <1>6, <1>7, <1>8, <1>9, <1>10

-----------------------------------------------------------------------------
(* The control: clock, job, types.                                         *)

Control == TypeOK /\ ClockOK /\ JobOK

LEMMA InitControl ==
    ASSUME ConstantsAssumption, Init
    PROVE  Control
<1>1. MaxTime \in Nat /\ Hour \in Nat
  BY DEF ConstantsAssumption
<1>2. now \in Nat /\ now <= MaxTime /\ 0 \in Slots
  <2>1. \A d, h, m \in Nat : \A t \in d .. d + h - 1 : d + h <= m => t \in Nat /\ t <= m
    OBVIOUS
  <2>2. now \in Hour * Day .. Hour * Day + Hour - 1
    BY DEF Init
  <2>3. now \in Nat /\ now <= MaxTime
    BY <1>1, <2>1, <2>2, PeriodTyped
  <2> QED
    BY <1>1, <2>3 DEF Slots
<1>3. \A pass \in Passes : Period(pass) \in Nat
  BY PeriodTyped
<1>4. TypeOK
  BY <1>2, <1>3, IdleTyped DEF Init, TypeOK
<1>5. mark["hourly"] = 0 /\ job.pc = "idle"
  BY IdleTyped DEF Init, Tiers
<1>6. ClockOK
  BY <1>1, <1>2, <1>5 DEF ClockOK
<1>7. JobOK
  BY <1>5 DEF JobOK, Summing
<1> QED
  BY <1>4, <1>6, <1>7 DEF Control

(* A pass begins with a slot at or after the watermark.                    *)
LEMMA BeginControl ==
    ASSUME ConstantsAssumption, Control, NEW pass \in Passes, NEW tier \in Tiers,
           Begin(pass, tier), job.pc # "idle" => tier = "daily",
           due' \in [Passes -> Nat], UNCHANGED <<now, raw, rows, mark, deleted, faults>>
    PROVE  Control'
<1> USE DEF Control
<1>1. /\ job' \in [pc : {"idle", "daily", "select", "insert", "delete"}, pass : Passes,
                   tier : Tiers, slot : Slots, end : Slots,
                   batch : [Agents -> SUBSET Sample], began : Nat]
      /\ job'.pc = "select" /\ job'.tier = tier
      /\ job'.slot \in Slots /\ (mark[tier] # 0 => job'.slot = mark[tier])
      /\ job'.end = SlotOf(tier, now) /\ job'.end \in Slots
      /\ job'.began = IF job.pc = "idle" THEN now ELSE job.began
      /\ missed' \subseteq Sample /\ early' \subseteq Slots
  BY BeginJob
<1>2. TypeOK'
  BY <1>1 DEF TypeOK
<1>3. now \in Nat /\ MaxPass \in Nat /\ Hour \in Nat /\ Hour >= 1
  BY DEF TypeOK, ConstantsAssumption
<1>4. ClockOK'
  BY <1>1, <1>3 DEF ClockOK, TypeOK
<1>5. tier = "hourly" => /\ job'.end = now \div Hour /\ job'.began = now
                         /\ mark["hourly"] <= now \div Hour /\ mark["hourly"] <= job'.slot
  <2> HAVE tier = "hourly"
  <2>1. mark["hourly"] \in Nat
    BY DEF TypeOK, Slots, Tiers
  <2>2. mark["hourly"] <= now \div Hour
    BY <2>1, <1>3, SlotReached DEF ClockOK
  <2>3. mark["hourly"] <= job'.slot
    BY <1>1, <2>1 DEF Slots
  <2> QED
    BY <1>1, <2>2, <2>3 DEF SlotOf, Width
<1>6. JobOK'
  BY <1>1, <1>5 DEF JobOK, Summing
<1> QED
  BY <1>2, <1>4, <1>6

(* What follows a tier of a pass keeps the clock.                          *)
LEMMA JobAtControl ==
    ASSUME ConstantsAssumption, Control, NEW pc \in {"idle", "daily", "delete"},
           job' = JobAt(pc), job.pc # "idle",
           pc = "delete" => job.began \div Hour <= mark'["hourly"],
           mark' \in [Tiers -> Slots], mark'["hourly"] * Hour <= now,
           UNCHANGED <<now, due, raw, rows, deleted, missed, early, faults>>
    PROVE  Control'
<1> USE DEF Control
<1>1. /\ job' \in [pc : {"idle", "daily", "select", "insert", "delete"}, pass : Passes,
                   tier : Tiers, slot : Slots, end : Slots,
                   batch : [Agents -> SUBSET Sample], began : Nat]
      /\ job'.pc = pc /\ (pc # "idle" => job'.began = job.began)
  BY JobAtTyped
<1>2. TypeOK'
  BY <1>1 DEF TypeOK
<1>3. ClockOK'
  BY <1>1 DEF ClockOK
<1>4. JobOK'
  BY <1>1 DEF JobOK, Summing
<1> QED
  BY <1>2, <1>3, <1>4

LEMMA PassControl ==
    ASSUME ConstantsAssumption, Control, Pass
    PROVE  Control'
<1> USE DEF Control
<1>0. /\ due \in [Passes -> Nat] /\ now \in Nat /\ Hour \in Nat /\ Hour * Day \in Nat
      /\ job.slot \in Slots /\ job.end \in Slots /\ MaxTime \in Nat
  BY DEF TypeOK, ConstantsAssumption
<1>1. ASSUME NEW pass \in Passes, StartPass(pass) PROVE Control'
  <2>1. /\ job.pc = "idle" /\ Begin(pass, "hourly")
        /\ due' = IF due[pass] <= now THEN [due EXCEPT ![pass] = @ + Period(pass)] ELSE due
        /\ UNCHANGED <<now, raw, rows, mark, deleted, faults>>
    BY <1>1 DEF StartPass
  <2>2. Period(pass) \in Nat
    BY <1>0 DEF Period
  <2>3. due' \in [Passes -> Nat]
    BY <1>0, <2>1, <2>2
  <2> QED
    BY <2>1, <2>3, BeginControl DEF Tiers
<1>2. ASSUME StartDaily PROVE Control'
  BY <1>0, <1>2, BeginControl DEF StartDaily, Tiers, Passes
<1>3. ASSUME SelectSlot PROVE Control'
  <2> DEFINE batch == [a \in Agents |-> Summed(job.tier, a, job.slot)]
  <2>1. /\ job.pc = "select" /\ job.slot < job.end
        /\ job' = [job EXCEPT !.pc = "insert", !.batch = batch]
        /\ UNCHANGED <<now, due, raw, rows, mark, deleted, missed, faults>>
    BY <1>3 DEF SelectSlot
  <2>2. batch \in [Agents -> SUBSET Sample]
    BY SummedTyped DEF TypeOK
  <2>3. early' \subseteq Slots
    BY <1>3 DEF SelectSlot, TypeOK
  <2> HIDE DEF batch
  <2>4. TypeOK'
    BY <2>1, <2>2, <2>3 DEF TypeOK
  <2>5. ClockOK' /\ JobOK'
    BY <2>1 DEF TypeOK, ClockOK, JobOK, Summing
  <2> QED
    BY <2>4, <2>5
<1>4. ASSUME NextSlot PROVE Control'
  <2>1. /\ job.pc = "insert"
        /\ job' = [job EXCEPT !.pc = "select", !.slot = job.slot + 1]
        /\ UNCHANGED <<now, due, raw, rows, mark, deleted, missed, early, faults>>
    BY <1>4 DEF NextSlot
  <2>2. job.slot < job.end /\ job.slot + 1 \in Slots
    BY <1>0, <2>1 DEF JobOK, Slots
  <2>3. TypeOK'
    BY <2>1, <2>2 DEF TypeOK
  <2>4. mark["hourly"] \in Nat /\ job.slot \in Nat
    BY DEF TypeOK, Tiers, Slots
  <2>5. ClockOK' /\ JobOK'
    BY <2>1, <2>4 DEF TypeOK, ClockOK, JobOK, Summing
  <2> QED
    BY <2>3, <2>5
<1>5. ASSUME SaveMark PROVE Control'
  <2>1. /\ job.pc = "select" /\ job.slot >= job.end /\ job.tier \in Tiers
        /\ mark' = [mark EXCEPT ![job.tier] = job.end]
        /\ job' = JobAt(After(job.tier))
        /\ UNCHANGED <<now, due, raw, rows, deleted, missed, early, faults>>
    BY <1>5 DEF SaveMark, TypeOK
  <2>2. /\ mark' \in [Tiers -> Slots]
        /\ mark'["hourly"] = IF job.tier = "hourly" THEN job.end ELSE mark["hourly"]
    BY <1>0, <2>1 DEF TypeOK, Tiers
  <2>3. /\ job.tier = "hourly" => job.end = job.began \div Hour
        /\ job.began \in Nat /\ job.began <= now /\ Hour >= 1
    BY <2>1 DEF JobOK, Summing, ClockOK, TypeOK, ConstantsAssumption
  <2>4. job.tier = "hourly" => job.end * Hour <= now
    <3>1. (job.began \div Hour) * Hour <= job.began /\ (job.began \div Hour) * Hour \in Nat
      BY <1>0, <2>3, SlotBounds
    <3> QED
      BY <1>0, <2>3, <3>1
  <2>5. mark'["hourly"] * Hour <= now
    BY <2>2, <2>4 DEF ClockOK
  <2>6. After(job.tier) = "delete" => job.began \div Hour <= mark'["hourly"]
    BY <1>0, <2>1, <2>2, <2>3, AfterTyped DEF Tiers, Slots
  <2> QED
    BY <2>1, <2>2, <2>5, <2>6, AfterTyped, JobAtControl
<1>6. ASSUME DeleteExpired PROVE Control'
  <2>1. raw' \subseteq Sample /\ deleted' \subseteq Sample
    BY <1>6 DEF DeleteExpired, Expired, TypeOK
  <2>2. TypeOK'
    BY <1>6, <2>1, IdleTyped DEF DeleteExpired, TypeOK
  <2> QED
    BY <1>6, <2>2, IdleTyped DEF DeleteExpired, ClockOK, JobOK, Summing
<1>7. ASSUME NEW a \in Agents, InsertRow(a) PROVE Control'
  <2>1. /\ rows' \in [Tiers -> [Agents \X Slots -> SUBSET Sample]]
        /\ job' = [job EXCEPT !.batch = [job.batch EXCEPT ![a] = {}]]
        /\ UNCHANGED <<now, due, raw, mark, deleted, missed, early, faults>>
    BY <1>7, RowInserted DEF InsertRow
  <2>2. [job.batch EXCEPT ![a] = {}] \in [Agents -> SUBSET Sample]
    BY DEF TypeOK
  <2>3. TypeOK'
    BY <2>1, <2>2 DEF TypeOK
  <2> QED
    BY <2>1, <2>3 DEF TypeOK, ClockOK, JobOK, Summing
<1> QED
  BY <1>1, <1>2, <1>3, <1>4, <1>5, <1>6, <1>7 DEF Pass

LEMMA StepControl ==
    ASSUME ConstantsAssumption, Control, [Next]_vars
    PROVE  Control'
<1> USE DEF Control
<1>1. ASSUME NEW a \in Agents, NEW t \in Hour .. MaxTime, WriteSample(a, t) PROVE Control'
  <2>1. [agent |-> a, at |-> t] \in Sample
    BY DEF Sample
  <2>2. /\ raw' = raw \cup {[agent |-> a, at |-> t]}
        /\ missed' \subseteq missed \cup {[agent |-> a, at |-> t]}
        /\ UNCHANGED <<now, due, rows, mark, job, deleted, early, faults>>
    BY <1>1 DEF WriteSample
  <2>3. TypeOK'
    BY <2>1, <2>2 DEF TypeOK
  <2> QED
    BY <2>2, <2>3 DEF ClockOK, JobOK, Summing
<1>2. ASSUME PassFails PROVE Control'
  <2>1. /\ job.pc # "idle" /\ faults' = faults + 1 /\ job' = JobAt(AfterFailure)
        /\ UNCHANGED <<now, due, raw, rows, mark, deleted, missed, early>>
    BY <1>2 DEF PassFails, Fault
  <2>2. /\ job' \in [pc : {"idle", "daily", "select", "insert", "delete"}, pass : Passes,
                     tier : Tiers, slot : Slots, end : Slots,
                     batch : [Agents -> SUBSET Sample], began : Nat]
        /\ job'.pc = AfterFailure /\ (AfterFailure # "idle" => job'.began = job.began)
    BY <2>1, JobAtTyped, AfterTyped
  <2>3. faults' \in Nat
    BY <2>1 DEF TypeOK
  <2>4. TypeOK'
    BY <2>1, <2>2, <2>3 DEF TypeOK
  <2> QED
    BY <2>1, <2>2, <2>4, AfterTyped DEF ClockOK, JobOK, Summing
<1>3. ASSUME HubRestart PROVE Control'
  <2>1. \A pass \in Passes : now + Period(pass) \in Nat
    BY PeriodTyped DEF TypeOK
  <2>2. due' \in [Passes -> Nat]
    BY <1>3, <2>1 DEF HubRestart
  <2>3. faults' \in Nat
    BY <1>3 DEF HubRestart, Fault, TypeOK
  <2>4. TypeOK'
    BY <1>3, <2>2, <2>3, IdleTyped DEF HubRestart, TypeOK
  <2> QED
    BY <1>3, <2>4, IdleTyped DEF HubRestart, ClockOK, JobOK, Summing
<1>4. ASSUME Tick PROVE Control'
  <2>1. TypeOK'
    <3>1. now' \in Nat
      BY <1>4 DEF Tick, TypeOK
    <3> QED
      BY <1>4, <3>1 DEF Tick, TypeOK
  <2>2. mark["hourly"] * Hour \in Nat /\ now \in Nat /\ job.began \in Nat /\ MaxPass \in Nat /\ MaxTime \in Nat
    BY DEF TypeOK, Tiers, Slots, ConstantsAssumption
  <2>3. ClockOK' /\ JobOK'
    BY <1>4, <2>2 DEF Tick, ClockOK, JobOK, Summing
  <2> QED
    BY <2>1, <2>3
<1>5. ASSUME UNCHANGED vars PROVE Control'
  BY <1>5 DEF vars, TypeOK, ClockOK, JobOK, Summing
<1> QED
  BY <1>1, <1>2, <1>3, <1>4, <1>5, PassControl DEF Next

-----------------------------------------------------------------------------
(* The samples: what is in the rows, the batch and the deleted.            *)

Contents == RowsOK /\ BatchOK /\ SummedUp /\ HourSummed /\ DeletedBelow /\ CountedBeforeDeleted

LEMMA TypesUsed ==
    ASSUME ConstantsAssumption, TypeOK
    PROVE  /\ raw \subseteq Sample /\ deleted \subseteq Sample /\ now \in Nat
           /\ \A s \in Sample : s.agent \in Agents
           /\ job.slot \in Slots /\ job.end \in Slots /\ mark["hourly"] \in Slots
           /\ job.tier \in Tiers /\ Slots \subseteq Nat
           /\ Front \in Slots
BY DEF TypeOK, Sample, Slots, Tiers, Front, ConstantsAssumption

(* A step that leaves tables and records alone, and does not select or     *)
(* advance, keeps all of it.                                               *)
LEMMA QuietContents ==
    ASSUME ConstantsAssumption, Control, Control', Contents,
           UNCHANGED <<raw, rows, mark, deleted>>,
           missed \subseteq missed', ~(Summing' /\ job'.pc = "insert"),
           \A s \in raw \ missed' : Before(s, Front') => Before(s, Front)
    PROVE  Contents'
<1>1. RowsOK' /\ DeletedBelow' /\ Counted' = Counted
  BY DEF Contents, RowsOK, DeletedBelow, Counted, InHour, Before, Text
<1>2. BatchOK' /\ HourSummed'
  BY DEF BatchOK, HourSummed
<1>3. SummedUp'
  <2> SUFFICES ASSUME NEW s \in raw \ missed', Before(s, Front')
               PROVE  s \in Counted
    BY <1>1 DEF SummedUp, Before
  <2> QED
    BY DEF Contents, SummedUp
<1>4. CountedBeforeDeleted'
  BY <1>1 DEF Contents, CountedBeforeDeleted
<1> QED
  BY <1>1, <1>2, <1>3, <1>4 DEF Contents

(* The job at rest or in another tier: the front is the watermark, which   *)
(* no hourly pass has left behind.                                         *)
LEMMA RestContents ==
    ASSUME ConstantsAssumption, Control, Control', Contents,
           UNCHANGED <<raw, rows, mark, deleted, missed>>, ~Summing'
    PROVE  Contents'
<1>1. mark["hourly"] <= Front /\ Front' = mark["hourly"]
  BY TypesUsed DEF Control, JobOK, Front
<1>2. \A s \in raw \ missed' : Before(s, Front') => Before(s, Front)
  BY <1>1, BeforeMono, TypesUsed DEF Control
<1> QED
  BY <1>2, QuietContents

LEMMA WriteContents ==
    ASSUME ConstantsAssumption, Control, Contents,
           NEW a \in Agents, NEW t \in Hour .. MaxTime, WriteSample(a, t)
    PROVE  Contents'
<1> DEFINE w == [agent |-> a, at |-> t]
<1>1. /\ raw' = raw \cup {w}
      /\ missed' = IF Before(w, Frontier) THEN missed \cup {w} ELSE missed
      /\ UNCHANGED <<now, due, rows, mark, job, deleted, early, faults>>
  BY DEF WriteSample
<1>2. w \in Sample
  BY DEF Sample
<1> HIDE DEF w
<1>3. RowsOK' /\ BatchOK' /\ DeletedBelow' /\ Counted' = Counted
  BY <1>1 DEF Contents, RowsOK, BatchOK, DeletedBelow, Counted, InHour, Before, Text, Summing
<1>4. CountedBeforeDeleted'
  BY <1>1, <1>3 DEF Contents, CountedBeforeDeleted
<1>5. /\ Frontier \in Nat /\ Front <= Frontier
      /\ Summing /\ job.pc = "insert" => job.slot + 1 <= Frontier
  BY TypesUsed DEF Control, JobOK, Front, Frontier, Summing, Later
<1>6. SummedUp'
  <2> SUFFICES ASSUME NEW s \in raw' \ missed', Before(s, Front)
               PROVE  s \in Counted
    BY <1>1, <1>3 DEF SummedUp, Before, Front, Summing
  <2>1. s = w => Before(w, Frontier)
    BY <1>2, <1>5, BeforeMono, TypesUsed DEF Control
  <2>2. s # w
    BY <1>1, <2>1
  <2> QED
    BY <1>1, <2>2 DEF Contents, SummedUp
<1>7. HourSummed'
  <2> SUFFICES ASSUME Summing, job.pc = "insert",
                      NEW s \in raw' \ missed', InHour(s, job.slot)
               PROVE  \/ s \in job.batch[s.agent]
                      \/ job.batch[s.agent] = {} /\ s \in rows["hourly"][<<s.agent, job.slot>>]
    BY <1>1 DEF HourSummed, Summing, InHour, Before
  <2>1. s = w => Before(w, Frontier)
    <3>1. Before(s, job.slot + 1)
      BY DEF InHour
    <3> QED
      BY <1>2, <1>5, <3>1, BeforeMono, TypesUsed DEF Control
  <2>2. s # w
    BY <1>1, <2>1
  <2> QED
    BY <1>1, <2>2 DEF Contents, HourSummed
<1> QED
  BY <1>3, <1>4, <1>6, <1>7 DEF Contents

LEMMA StartContents ==
    ASSUME ConstantsAssumption, Control, Control', Contents, NEW pass \in Passes, StartPass(pass)
    PROVE  Contents'
<1>1. /\ job.pc = "idle" /\ Begin(pass, "hourly")
      /\ UNCHANGED <<now, raw, rows, mark, deleted, faults>>
  BY DEF StartPass
<1>2. /\ job'.pc = "select" /\ job'.tier = "hourly"
      /\ (mark["hourly"] # 0 => job'.slot = mark["hourly"])
      /\ missed' = IF mark["hourly"] = 0
                   THEN missed \cup {s \in raw : Before(s, job'.slot)} ELSE missed
  BY <1>1, BeginJob DEF Tiers, Control
<1>3. Front' = job'.slot /\ Front = mark["hourly"]
  BY <1>1, <1>2 DEF Front, Summing
<1>4. \A s \in raw \ missed' : Before(s, Front') => Before(s, Front)
  BY <1>2, <1>3
<1>5. missed \subseteq missed' /\ ~(Summing' /\ job'.pc = "insert")
  BY <1>2
<1> QED
  BY <1>1, <1>4, <1>5, QuietContents

LEMMA DailyContents ==
    ASSUME ConstantsAssumption, Control, Control', Contents, StartDaily
    PROVE  Contents'
<1>1. /\ job.pc = "daily" /\ Begin("rollup", "daily")
      /\ UNCHANGED <<now, raw, rows, mark, deleted, faults>>
  BY DEF StartDaily
<1>2. job'.tier = "daily" /\ missed' = missed
  BY <1>1, BeginJob DEF Tiers, Passes, Control
<1> QED
  BY <1>1, <1>2, RestContents DEF Summing

LEMMA SelectContents ==
    ASSUME ConstantsAssumption, Control, Control', Contents, SelectSlot
    PROVE  Contents'
<1> DEFINE batch == [a \in Agents |-> Summed(job.tier, a, job.slot)]
<1>1. /\ job.pc = "select"
      /\ job' = [job EXCEPT !.pc = "insert", !.batch = batch]
      /\ UNCHANGED <<now, due, raw, rows, mark, deleted, missed, faults>>
  BY DEF SelectSlot
<1> HIDE DEF batch
<1>2. job'.pc = "insert" /\ job'.tier = job.tier /\ job'.slot = job.slot /\ job'.batch = batch
  BY <1>1 DEF Control, TypeOK
<1>3. CASE job.tier = "daily"
  BY <1>1, <1>2, <1>3, RestContents DEF Summing
<1>4. CASE job.tier = "hourly"
  <2>1. Summing /\ Front' = Front
    BY <1>1, <1>2, <1>4 DEF Summing, Front
  <2>2. RowsOK' /\ DeletedBelow' /\ Counted' = Counted
    BY <1>1 DEF Contents, RowsOK, DeletedBelow, Counted, InHour, Before, Text
  <2>3. SummedUp' /\ CountedBeforeDeleted'
    BY <1>1, <2>1, <2>2 DEF Contents, SummedUp, CountedBeforeDeleted, Before
  <2>4. \A a \in Agents : batch[a] = {s \in raw : s.agent = a /\ InHour(s, job.slot)}
    BY <1>4 DEF batch, Summed, SumHour
  <2>5. BatchOK'
    BY <1>2, <2>4 DEF BatchOK, InHour, Before
  <2>6. HourSummed'
    <3> SUFFICES ASSUME NEW s \in raw \ missed, InHour(s, job.slot)
                 PROVE  s \in batch[s.agent]
      BY <1>1, <1>2 DEF HourSummed, InHour, Before
    <3> QED
      BY <2>4, TypesUsed DEF Control
  <2> QED
    BY <2>2, <2>3, <2>5, <2>6 DEF Contents
<1> QED
  BY <1>3, <1>4, TypesUsed DEF Tiers, Control

(* The old row has nothing that was deleted, or is before the hour.        *)
LEMMA InsertContents ==
    ASSUME ConstantsAssumption, Control, Control', Contents, NEW a \in Agents, InsertRow(a)
    PROVE  Contents'
<1>1. /\ job.pc = "insert" /\ job.batch[a] # {} /\ job.slot \in Slots
      /\ job' = [job EXCEPT !.batch = [job.batch EXCEPT ![a] = {}]]
      /\ UNCHANGED <<now, due, raw, mark, deleted, missed, early, faults>>
  BY RowInserted, TypesUsed DEF InsertRow, Control
<1>2. /\ job'.pc = "insert" /\ job'.tier = job.tier /\ job'.slot = job.slot
      /\ job'.batch = [job.batch EXCEPT ![a] = {}] /\ job.batch \in [Agents -> SUBSET Sample]
  BY <1>1 DEF Control, TypeOK
<1>3. Front' = Front /\ (Summing' <=> Summing)
  BY <1>1, <1>2 DEF Front, Summing
<1>4. CASE job.tier = "daily"
  <2>1. rows'["hourly"] = rows["hourly"]
    BY <1>4, RowInserted DEF Control
  <2>2. RowsOK' /\ DeletedBelow' /\ Counted' = Counted
    BY <1>1, <2>1 DEF Contents, RowsOK, DeletedBelow, Counted, InHour, Before, Text
  <2>3. BatchOK' /\ HourSummed'
    BY <1>2, <1>4 DEF BatchOK, HourSummed, Summing
  <2>4. SummedUp' /\ CountedBeforeDeleted'
    BY <1>1, <1>3, <2>2 DEF Contents, SummedUp, CountedBeforeDeleted, Before
  <2> QED
    BY <2>2, <2>3, <2>4 DEF Contents
<1>5. CASE job.tier = "hourly"
  <2>1. Summing /\ Front = job.slot /\ mark["hourly"] <= job.slot
    BY <1>1, <1>5 DEF Summing, Front, Control, JobOK
  <2>2. /\ rows'["hourly"][<<a, job.slot>>] = job.batch[a]
        /\ \A b \in Agents, h \in Slots :
              b # a \/ h # job.slot => rows'["hourly"][<<b, h>>] = rows["hourly"][<<b, h>>]
    BY <1>5, RowInserted DEF Control
  <2>3. \A s \in job.batch[a] : InHour(s, job.slot)
    BY <1>1, <2>1 DEF Contents, BatchOK
  <2>4. RowsOK'
    <3> SUFFICES ASSUME NEW b \in Agents, NEW h \in Slots, NEW s \in rows'["hourly"][<<b, h>>]
                 PROVE  InHour(s, h)
      BY DEF RowsOK, InHour, Before
    <3> QED
      BY <2>2, <2>3 DEF Contents, RowsOK
  <2>5. BatchOK'
    <3> SUFFICES ASSUME NEW b \in Agents, NEW s \in job'.batch[b]
                 PROVE  InHour(s, job.slot)
      BY <1>2 DEF BatchOK, InHour, Before
    <3> QED
      BY <1>1, <1>2, <2>1 DEF Contents, BatchOK
  <2>6. ASSUME NEW s \in Counted, Before(s, job.slot) PROVE s \in Counted'
    <3>1. PICK b \in Agents, h \in Slots : s \in rows["hourly"][<<b, h>>]
      BY CountedRow
    <3>2. InHour(s, h)
      BY <3>1 DEF Contents, RowsOK
    <3>3. h # job.slot
      BY <2>6, <3>2 DEF InHour
    <3>4. s \in rows'["hourly"][<<b, h>>]
      BY <2>2, <3>1, <3>3
    <3>5. <<b, h>> \in Agents \X Slots
      OBVIOUS
    <3> QED
      BY <3>4, <3>5 DEF Counted
  <2>7. SummedUp'
    <3> SUFFICES ASSUME NEW s \in raw \ missed, Before(s, job.slot)
                 PROVE  s \in Counted'
      BY <1>1, <1>3, <2>1 DEF SummedUp, Before
    <3> QED
      BY <2>1, <2>6 DEF Contents, SummedUp
  <2>8. DeletedBelow'
    BY <1>1 DEF Contents, DeletedBelow, Before
  <2>9. CountedBeforeDeleted'
    <3> SUFFICES ASSUME NEW s \in deleted \ missed PROVE s \in Counted'
      BY <1>1 DEF CountedBeforeDeleted
    <3>1. s \in Counted /\ Before(s, mark["hourly"])
      BY DEF Contents, CountedBeforeDeleted, DeletedBelow
    <3>2. Before(s, job.slot)
      BY <2>1, <3>1, BeforeMono, TypesUsed DEF Control
    <3> QED
      BY <2>6, <3>1, <3>2
  <2>10. HourSummed'
    <3> SUFFICES ASSUME NEW s \in raw \ missed, InHour(s, job.slot)
                 PROVE  \/ s \in job'.batch[s.agent]
                        \/ /\ job'.batch[s.agent] = {}
                           /\ s \in rows'["hourly"][<<s.agent, job.slot>>]
      BY <1>1, <1>2 DEF HourSummed, InHour, Before
    <3>1. s.agent \in Agents
      BY TypesUsed DEF Control
    <3>2. \/ s \in job.batch[s.agent]
          \/ job.batch[s.agent] = {} /\ s \in rows["hourly"][<<s.agent, job.slot>>]
      BY <1>1, <2>1 DEF Contents, HourSummed
    <3> QED
      BY <1>1, <1>2, <2>2, <3>1, <3>2
  <2> QED
    BY <2>4, <2>5, <2>7, <2>8, <2>9, <2>10 DEF Contents
<1> QED
  BY <1>4, <1>5, TypesUsed DEF Tiers, Control

LEMMA NextSlotContents ==
    ASSUME ConstantsAssumption, Control, Control', Contents, NextSlot
    PROVE  Contents'
<1>1. /\ job.pc = "insert" /\ job.batch = NoRows
      /\ job' = [job EXCEPT !.pc = "select", !.slot = job.slot + 1]
      /\ UNCHANGED <<now, due, raw, rows, mark, deleted, missed, early, faults>>
  BY DEF NextSlot
<1>2. job'.pc = "select" /\ job'.tier = job.tier /\ job'.slot = job.slot + 1
  BY <1>1 DEF Control, TypeOK
<1>3. CASE job.tier = "daily"
  BY <1>1, <1>2, <1>3, RestContents DEF Summing
<1>4. CASE job.tier = "hourly"
  <2>1. Summing /\ Front = job.slot /\ Front' = job.slot + 1
    BY <1>1, <1>2, <1>4 DEF Summing, Front
  <2>2. RowsOK' /\ DeletedBelow' /\ Counted' = Counted
    BY <1>1 DEF Contents, RowsOK, DeletedBelow, Counted, InHour, Before, Text
  <2>3. CountedBeforeDeleted'
    BY <1>1, <2>2 DEF Contents, CountedBeforeDeleted
  <2>4. BatchOK' /\ HourSummed'
    BY <1>2 DEF BatchOK, HourSummed
  <2>5. SummedUp'
    <3> SUFFICES ASSUME NEW s \in raw \ missed, Before(s, job.slot + 1)
                 PROVE  s \in Counted
      BY <1>1, <2>1, <2>2 DEF SummedUp, Before
    <3>1. CASE Before(s, job.slot)
      BY <2>1, <3>1 DEF Contents, SummedUp
    <3>2. CASE ~Before(s, job.slot)
      <4>1. InHour(s, job.slot)
        BY <3>2 DEF InHour
      <4>2. s.agent \in Agents /\ job.slot \in Slots
        BY TypesUsed DEF Control
      <4>3. job.batch[s.agent] = {}
        BY <1>1, <4>2 DEF NoRows
      <4>4. s \in rows["hourly"][<<s.agent, job.slot>>]
        BY <1>1, <2>1, <4>1, <4>3 DEF Contents, HourSummed
      <4> QED
        BY <4>2, <4>4, CountedRow
    <3> QED
      BY <3>1, <3>2
  <2> QED
    BY <2>2, <2>3, <2>4, <2>5 DEF Contents
<1> QED
  BY <1>3, <1>4, TypesUsed DEF Tiers, Control

LEMMA SaveContents ==
    ASSUME ConstantsAssumption, Control, Control', Contents, SaveMark
    PROVE  Contents'
<1>1. /\ job.pc = "select" /\ job.slot >= job.end
      /\ mark' = [mark EXCEPT ![job.tier] = job.end]
      /\ job' = JobAt(After(job.tier))
      /\ UNCHANGED <<now, due, raw, rows, deleted, missed, early, faults>>
  BY DEF SaveMark
<1>2. ~Summing'
  BY <1>1, AfterTyped, JobAtTyped DEF Summing, Control
<1>3. mark'["hourly"] = IF job.tier = "hourly" THEN job.end ELSE mark["hourly"]
  BY <1>1 DEF Control, TypeOK, Tiers
<1>4. CASE job.tier = "daily"
  <2>1. Front' = Front /\ mark'["hourly"] = mark["hourly"]
    BY <1>2, <1>3, <1>4 DEF Front, Summing
  <2>2. RowsOK' /\ DeletedBelow' /\ Counted' = Counted
    BY <1>1, <2>1 DEF Contents, RowsOK, DeletedBelow, Counted, InHour, Before, Text
  <2>3. BatchOK' /\ HourSummed'
    BY <1>2 DEF BatchOK, HourSummed
  <2>4. SummedUp' /\ CountedBeforeDeleted'
    BY <1>1, <2>1, <2>2 DEF Contents, SummedUp, CountedBeforeDeleted, Before
  <2> QED
    BY <2>2, <2>3, <2>4 DEF Contents
<1>5. CASE job.tier = "hourly"
  <2>1. Summing /\ Front = job.slot /\ Front' = job.end /\ mark["hourly"] <= job.end
    BY <1>1, <1>2, <1>3, <1>5 DEF Front, Summing, Control, JobOK
  <2>2. RowsOK' /\ Counted' = Counted
    BY <1>1 DEF Contents, RowsOK, Counted, InHour, Before, Text
  <2>3. BatchOK' /\ HourSummed'
    BY <1>2 DEF BatchOK, HourSummed
  <2>4. SummedUp'
    <3> SUFFICES ASSUME NEW s \in raw \ missed, Before(s, job.end)
                 PROVE  s \in Counted
      BY <1>1, <2>1, <2>2 DEF SummedUp, Before
    <3>1. Before(s, job.slot)
      BY <1>1, BeforeMono, TypesUsed DEF Control
    <3> QED
      BY <2>1, <3>1 DEF Contents, SummedUp
  <2>5. DeletedBelow'
    <3> SUFFICES ASSUME NEW s \in deleted PROVE Before(s, job.end)
      BY <1>1, <1>3, <1>5 DEF DeletedBelow, Before
    <3> QED
      BY <2>1, BeforeMono, TypesUsed DEF Control, Contents, DeletedBelow
  <2>6. CountedBeforeDeleted'
    BY <1>1, <2>2 DEF Contents, CountedBeforeDeleted
  <2> QED
    BY <2>2, <2>3, <2>4, <2>5, <2>6 DEF Contents
<1> QED
  BY <1>4, <1>5, TypesUsed DEF Tiers, Control

(* What is expired is before the hour the pass began in, and the watermark *)
(* of a retention pass is that hour.                                       *)
LEMMA DeleteContents ==
    ASSUME ConstantsAssumption, Control, Control', Contents, DeleteExpired
    PROVE  Contents'
<1>1. /\ job.pc = "delete" /\ raw' = raw \ Expired /\ deleted' = deleted \cup Expired
      /\ job' = IdleJob /\ UNCHANGED <<now, due, rows, mark, missed, early, faults>>
  BY DEF DeleteExpired
<1>2. ~Summing' /\ ~Summing
  BY <1>1, IdleTyped DEF Summing
<1>3. Front = mark["hourly"] /\ Front' = mark["hourly"]
  BY <1>1, <1>2 DEF Front
<1>4. ASSUME NEW s \in Expired PROVE s \in raw /\ Before(s, mark["hourly"])
  <2> DEFINE b == job.began
  <2> DEFINE m == mark["hourly"]
  <2>1. /\ b \in Nat /\ now \in Nat /\ Hour \in Nat /\ Hour >= 2 /\ m \in Nat
        /\ Retention \in Nat /\ MaxPass \in Nat /\ Retention >= Hour + MaxPass
    BY TypesUsed DEF Control, TypeOK, ConstantsAssumption
  <2>2. /\ s \in raw /\ s \in Sample /\ now >= Retention
        /\ Text(s.at) < Text(now - Retention)
    BY TypesUsed DEF Expired, Control
  <2>3. b \div Hour <= m /\ now <= b + MaxPass
    BY <1>1 DEF Control, JobOK, ClockOK
  <2> HIDE DEF b, m
  <2>4. now - Retention \in Nat
    BY <2>1, <2>2
  <2>5. Text(now - Retention) \in Nat /\ Text(now - Retention) <= now - Retention + 1
    BY <2>4, TextBounds
  <2>6. b \div Hour \in Nat /\ b < (b \div Hour) * Hour + Hour
    BY <2>1, SlotBounds
  <2>7. \A g, h \in Nat : g <= h => g * Hour <= h * Hour /\ g * Hour \in Nat /\ h * Hour \in Nat
    BY <2>1
  <2>8. (b \div Hour) * Hour <= m * Hour /\ (b \div Hour) * Hour \in Nat /\ m * Hour \in Nat
    BY <2>1, <2>3, <2>6, <2>7
  <2>9. Text(s.at) \in Nat /\ (Before(s, m) <=> Text(s.at) < m * Hour + 1)
    BY <2>1, <2>2, BeforeText
  <2>10. Text(s.at) < m * Hour + 1
    BY <2>1, <2>2, <2>3, <2>4, <2>5, <2>6, <2>8, <2>9
  <2> QED
    BY <2>2, <2>9, <2>10 DEF m
<1>5. RowsOK' /\ Counted' = Counted
  BY <1>1 DEF Contents, RowsOK, Counted, InHour, Before, Text
<1>6. BatchOK' /\ HourSummed'
  BY <1>2 DEF BatchOK, HourSummed
<1>7. SummedUp'
  BY <1>1, <1>3, <1>5 DEF Contents, SummedUp, Before
<1>8. DeletedBelow'
  BY <1>1, <1>4 DEF Contents, DeletedBelow, Before
<1>9. CountedBeforeDeleted'
  BY <1>1, <1>3, <1>4, <1>5 DEF Contents, CountedBeforeDeleted, SummedUp
<1> QED
  BY <1>5, <1>6, <1>7, <1>8, <1>9 DEF Contents

LEMMA StepContents ==
    ASSUME ConstantsAssumption, Control, Control', Contents, [Next]_vars
    PROVE  Contents'
<1>1. ASSUME Pass PROVE Contents'
  BY <1>1, StartContents, DailyContents, SelectContents, NextSlotContents, SaveContents,
     DeleteContents, InsertContents DEF Pass
<1>2. ASSUME PassFails PROVE Contents'
  <2>1. ~Summing'
    BY <1>2, AfterTyped, JobAtTyped DEF PassFails, Summing, Control
  <2> QED
    BY <1>2, <2>1, RestContents DEF PassFails
<1>3. ASSUME HubRestart PROVE Contents'
  <2>1. ~Summing'
    BY <1>3, IdleTyped DEF HubRestart, Summing
  <2> QED
    BY <1>3, <2>1, RestContents DEF HubRestart
<1>4. ASSUME UNCHANGED <<raw, rows, mark, job, deleted, missed>> PROVE Contents'
  BY <1>4 DEF Contents, RowsOK, BatchOK, SummedUp, HourSummed, DeletedBelow, CountedBeforeDeleted,
              Counted, Summing, Front, InHour, Before, Text
<1>5. ASSUME Tick \/ UNCHANGED vars PROVE Contents'
  BY <1>4, <1>5 DEF Tick, vars
<1> QED
  BY <1>1, <1>2, <1>3, <1>5, WriteContents DEF Next

LEMMA InitContents ==
    ASSUME ConstantsAssumption, Init
    PROVE  Contents
<1>1. raw = {} /\ deleted = {} /\ job.pc = "idle"
  BY IdleTyped DEF Init
<1>2. \A a \in Agents, h \in Slots : rows["hourly"][<<a, h>>] = {}
  BY DEF Init, Tiers
<1> QED
  BY <1>1, <1>2 DEF Contents, RowsOK, BatchOK, SummedUp, HourSummed, DeletedBelow,
                    CountedBeforeDeleted, Summing

-----------------------------------------------------------------------------
(* The days: their rows against those of their hours.                      *)

Days == DaySlot /\ DayHeld /\ DaysDone /\ DayBatch

LEMMA SumDayIn ==
    ASSUME NEW a, NEW d, NEW s
    PROVE  s \in SumDay(a, d) <=> \E h \in Slots : h \div Day = d /\ s \in rows["hourly"][<<a, h>>]
BY DEF SumDay

LEMMA DaysFacts ==
    ASSUME ConstantsAssumption, TypeOK
    PROVE  /\ mark["daily"] \in Nat /\ mark["hourly"] \in Nat /\ job.slot \in Nat /\ job.slot \in Slots
           /\ DayFront \in Nat /\ Slots \subseteq Nat /\ early \subseteq Slots
           /\ Day \in Nat /\ Day >= 1 /\ job.tier \in Tiers
BY DEF TypeOK, Tiers, Slots, DayFront, ConstantsAssumption

(* A step that leaves the rows alone and no daily insert under way.        *)
LEMMA QuietDays ==
    ASSUME ConstantsAssumption, Control, Control', Days,
           rows' = rows, early \subseteq early', mark["hourly"] <= mark'["hourly"],
           ~(DaySumming' /\ job'.pc = "insert"),
           DaySumming' => mark'["daily"] <= job'.slot,
           \A d \in Slots \ early' : d < DayFront' => d < DayFront
    PROVE  Days'
<1>1. \A a, d : SumDay(a, d)' = SumDay(a, d)
  BY DEF SumDay
<1>2. DayHeld'
  BY <1>1 DEF Days, DayHeld
<1>3. DaysDone'
  <2> SUFFICES ASSUME NEW d \in Slots \ early', d < DayFront', NEW a \in Agents
               PROVE  /\ (d + 1) * Day <= mark'["hourly"]
                      /\ rows["daily"][<<a, d>>] = SumDay(a, d)
    BY <1>1 DEF DaysDone
  <2>1. /\ (d + 1) * Day <= mark["hourly"]
        /\ rows["daily"][<<a, d>>] = SumDay(a, d)
    BY DEF Days, DaysDone
  <2>2. (d + 1) * Day \in Nat /\ mark["hourly"] \in Nat /\ mark'["hourly"] \in Nat
    <3>1. \A m, n \in Nat : (m + 1) * n \in Nat
      OBVIOUS
    <3> QED
      BY <3>1, DaysFacts DEF Control, TypeOK, Tiers, Slots
  <2> QED
    BY <2>1, <2>2
<1>4. DayBatch' /\ DaySlot'
  BY DEF DayBatch, DaySlot
<1> QED
  BY <1>2, <1>3, <1>4 DEF Days

(* The job at rest or in the hourly tier.                                  *)
LEMMA RestDays ==
    ASSUME ConstantsAssumption, Control, Control', Days,
           rows' = rows, early' = early, mark["hourly"] <= mark'["hourly"],
           mark'["daily"] = mark["daily"], ~DaySumming'
    PROVE  Days'
<1>1. DayFront' = mark["daily"] /\ mark["daily"] <= DayFront
  BY DaysFacts DEF DayFront, Days, DaySlot, Control
<1>2. \A d \in Slots \ early' : d < DayFront' => d < DayFront
  BY <1>1, DaysFacts DEF Control
<1> QED
  BY <1>2, QuietDays

LEMMA StartDays ==
    ASSUME ConstantsAssumption, Control, Control', Days, NEW pass \in Passes, StartPass(pass)
    PROVE  Days'
<1>1. /\ job.pc = "idle" /\ Begin(pass, "hourly")
      /\ UNCHANGED <<now, raw, rows, mark, deleted, faults>>
  BY DEF StartPass
<1>2. job'.tier = "hourly"
  BY <1>1, BeginJob DEF Tiers, Control
<1>3. early' = early
  BY <1>1 DEF Begin
<1> QED
  BY <1>1, <1>2, <1>3, RestDays, DaysFacts DEF DaySumming, Control

LEMMA DailyDays ==
    ASSUME ConstantsAssumption, Control, Control', Days, StartDaily
    PROVE  Days'
<1>1. /\ job.pc = "daily" /\ Begin("rollup", "daily")
      /\ UNCHANGED <<now, raw, rows, mark, deleted, faults>>
  BY DEF StartDaily
<1>2. /\ job'.pc = "select" /\ job'.tier = "daily" /\ job'.slot \in Slots
      /\ mark["daily"] # 0 => job'.slot = mark["daily"]
      /\ early' = IF mark["daily"] = 0 THEN early \cup {d \in Slots : d < job'.slot} ELSE early
  BY <1>1, BeginJob DEF Tiers, Passes, Control
<1>3. DayFront' = job'.slot /\ DayFront = mark["daily"]
  BY <1>1, <1>2 DEF DayFront, DaySumming
<1>4. mark["daily"] <= job'.slot
  BY <1>2, DaysFacts DEF Control
<1>5. \A d \in Slots \ early' : d < DayFront' => d < DayFront
  BY <1>2, <1>3
<1>6. early \subseteq early' /\ mark["hourly"] <= mark'["hourly"]
  BY <1>1, <1>2, DaysFacts DEF Control
<1> QED
  BY <1>1, <1>2, <1>4, <1>5, <1>6, QuietDays

LEMMA SelectDays ==
    ASSUME ConstantsAssumption, Control, Control', Days, SelectSlot
    PROVE  Days'
<1> DEFINE batch == [a \in Agents |-> Summed(job.tier, a, job.slot)]
<1>1. /\ job.pc = "select"
      /\ job' = [job EXCEPT !.pc = "insert", !.batch = batch]
      /\ early' = IF job.tier = "daily" /\ mark["hourly"] < (job.slot + 1) * Day
                  THEN early \cup {job.slot} ELSE early
      /\ UNCHANGED <<now, due, raw, rows, mark, deleted, missed, faults>>
  BY DEF SelectSlot
<1> HIDE DEF batch
<1>2. job'.pc = "insert" /\ job'.tier = job.tier /\ job'.slot = job.slot /\ job'.batch = batch
  BY <1>1 DEF Control, TypeOK
<1>3. CASE job.tier = "hourly"
  BY <1>1, <1>2, <1>3, RestDays, DaysFacts DEF DaySumming, Control
<1>4. CASE job.tier = "daily"
  <2>1. DaySumming /\ DayFront' = job.slot /\ DayFront = job.slot
    BY <1>1, <1>2, <1>4 DEF DaySumming, DayFront
  <2>2. \A a, d : SumDay(a, d)' = SumDay(a, d)
    BY <1>1 DEF SumDay
  <2>3. DayHeld'
    BY <1>1, <2>2 DEF Days, DayHeld
  <2>4. DaysDone'
    BY <1>1, <2>1, <2>2 DEF Days, DaysDone
  <2>5. DaySlot'
    BY <1>1, <1>2, <2>1 DEF Days, DaySlot
  <2>6. \A a \in Agents : batch[a] = SumDay(a, job.slot)
    BY <1>4 DEF batch, Summed
  <2>7. job.slot \notin early' => (job.slot + 1) * Day <= mark["hourly"]
    <3>1. \A m, n \in Nat : (m + 1) * n \in Nat
      OBVIOUS
    <3>2. (job.slot + 1) * Day \in Nat /\ mark["hourly"] \in Nat
      BY <3>1, DaysFacts DEF Control
    <3> QED
      BY <1>1, <1>4, <3>2
  <2>8. DayBatch'
    BY <1>1, <1>2, <2>2, <2>6, <2>7 DEF DayBatch
  <2> QED
    BY <2>3, <2>4, <2>5, <2>8 DEF Days
<1> QED
  BY <1>3, <1>4, DaysFacts DEF Tiers, Control

LEMMA NextSlotDays ==
    ASSUME ConstantsAssumption, Control, Control', Days, NextSlot
    PROVE  Days'
<1>1. /\ job.pc = "insert" /\ job.batch = NoRows
      /\ job' = [job EXCEPT !.pc = "select", !.slot = job.slot + 1]
      /\ UNCHANGED <<now, due, raw, rows, mark, deleted, missed, early, faults>>
  BY DEF NextSlot
<1>2. job'.pc = "select" /\ job'.tier = job.tier /\ job'.slot = job.slot + 1
  BY <1>1 DEF Control, TypeOK
<1>3. CASE job.tier = "hourly"
  BY <1>1, <1>2, <1>3, RestDays, DaysFacts DEF DaySumming, Control
<1>4. CASE job.tier = "daily"
  <2>1. DaySumming /\ DayFront' = job.slot + 1 /\ DayFront = job.slot
    BY <1>1, <1>2, <1>4 DEF DaySumming, DayFront
  <2>2. \A a, d : SumDay(a, d)' = SumDay(a, d)
    BY <1>1 DEF SumDay
  <2>3. DayHeld' /\ DayBatch'
    BY <1>1, <1>2, <2>2 DEF Days, DayHeld, DayBatch
  <2>4. DaySlot'
    BY <1>1, <1>2, <2>1, DaysFacts DEF Days, DaySlot, Control
  <2>5. DaysDone'
    <3> SUFFICES ASSUME NEW d \in Slots \ early, d < job.slot + 1, NEW a \in Agents
                 PROVE  /\ (d + 1) * Day <= mark["hourly"]
                        /\ rows["daily"][<<a, d>>] = SumDay(a, d)
      BY <1>1, <2>1, <2>2 DEF DaysDone
    <3>1. CASE d = job.slot
      <4>1. (d + 1) * Day <= mark["hourly"]
        BY <1>1, <2>1, <3>1 DEF Days, DayBatch
      <4>2. job.batch[a] = {}
        BY <1>1 DEF NoRows
      <4>3. SumDay(a, d) = {} \/ rows["daily"][<<a, d>>] = SumDay(a, d)
        BY <1>1, <2>1, <3>1, <4>2 DEF Days, DayBatch
      <4> QED
        BY <4>1, <4>3 DEF Days, DayHeld
    <3>2. CASE d # job.slot
      BY <2>1, <3>2, DaysFacts DEF Control, Days, DaysDone
    <3> QED
      BY <3>1, <3>2
  <2> QED
    BY <2>3, <2>4, <2>5 DEF Days
<1> QED
  BY <1>3, <1>4, DaysFacts DEF Tiers, Control

LEMMA SaveDays ==
    ASSUME ConstantsAssumption, Control, Control', Days, SaveMark
    PROVE  Days'
<1>1. /\ job.pc = "select" /\ job.slot >= job.end
      /\ mark' = [mark EXCEPT ![job.tier] = job.end]
      /\ job' = JobAt(After(job.tier))
      /\ UNCHANGED <<now, due, raw, rows, deleted, missed, early, faults>>
  BY DEF SaveMark
<1>2. ~DaySumming' /\ job.end \in Nat
  <2>1. ~DaySumming'
    BY <1>1, AfterTyped, JobAtTyped DEF DaySumming, Control
  <2>2. job.end \in Slots
    BY DEF Control, TypeOK
  <2> QED
    BY <2>1, <2>2, DaysFacts DEF Control
<1>3. CASE job.tier = "hourly"
  <2>1. mark'["daily"] = mark["daily"] /\ mark'["hourly"] = job.end
    BY <1>1, <1>3 DEF Control, TypeOK, Tiers
  <2>2. mark["hourly"] <= mark'["hourly"]
    BY <1>1, <1>3, <2>1 DEF Control, JobOK, Summing
  <2> QED
    BY <1>1, <1>2, <2>1, <2>2, RestDays
<1>4. CASE job.tier = "daily"
  <2>1. mark'["daily"] = job.end /\ mark'["hourly"] = mark["hourly"]
    BY <1>1, <1>4 DEF Control, TypeOK, Tiers
  <2>2. DayFront' = job.end /\ DayFront = job.slot
    BY <1>1, <1>2, <1>4, <2>1 DEF DayFront, DaySumming
  <2>3. \A d \in Slots \ early' : d < DayFront' => d < DayFront
    BY <1>1, <1>2, <2>2, DaysFacts DEF Control
  <2>4. mark["hourly"] <= mark'["hourly"]
    BY <2>1, DaysFacts DEF Control
  <2> QED
    BY <1>1, <1>2, <2>3, <2>4, QuietDays
<1> QED
  BY <1>3, <1>4, DaysFacts DEF Tiers, Control

(* An hourly insert is at or after the watermark: in no day that is done.  *)
LEMMA InsertHourDays ==
    ASSUME ConstantsAssumption, Control, Control', Days, NEW a \in Agents, InsertRow(a),
           job.tier = "hourly"
    PROVE  Days'
<1>1. /\ job.pc = "insert" /\ job.batch[a] # {}
      /\ job' = [job EXCEPT !.batch = [job.batch EXCEPT ![a] = {}]]
      /\ UNCHANGED <<now, due, raw, mark, deleted, missed, early, faults>>
      /\ rows'["hourly"][<<a, job.slot>>] = job.batch[a]
      /\ \A b \in Agents, h \in Slots :
            b # a \/ h # job.slot => rows'["hourly"][<<b, h>>] = rows["hourly"][<<b, h>>]
  BY RowInserted DEF InsertRow, Control
<1>2. job'.tier = "hourly" /\ ~DaySumming /\ ~DaySumming'
  BY <1>1 DEF Control, TypeOK, DaySumming
<1>3. rows'["daily"] = rows["daily"]
  BY DEF InsertRow, Control, TypeOK, Tiers
<1>4. mark["hourly"] <= job.slot
  BY <1>1 DEF Control, JobOK, Summing
<1>5. DayHeld'
  <2> SUFFICES ASSUME NEW b \in Agents, NEW d \in Slots, rows["daily"][<<b, d>>] # {}
               PROVE  \E s : s \in SumDay(b, d)'
    BY <1>3 DEF DayHeld
  <2>1. SumDay(b, d) # {}
    BY DEF Days, DayHeld
  <2>2. PICK h \in Slots : h \div Day = d /\ rows["hourly"][<<b, h>>] # {}
    BY <2>1, SumDayIn
  <2>3. PICK s : s \in rows'["hourly"][<<b, h>>]
    BY <1>1, <2>2
  <2>4. s \in SumDay(b, d)'
    BY <2>2, <2>3 DEF SumDay
  <2> QED
    BY <2>4
<1>6. ASSUME NEW b \in Agents, NEW d \in Slots, (d + 1) * Day <= mark["hourly"]
      PROVE  SumDay(b, d)' = SumDay(b, d)
  <2>1. job.slot \div Day # d
    <3>1. \A m, n \in Nat : (m + 1) * n \in Nat
      OBVIOUS
    <3>2. (d + 1) * Day \in Nat /\ d \in Nat /\ d + 1 \in Nat
      BY <3>1, DaysFacts DEF Control
    <3>3. (d + 1) * Day <= job.slot
      BY <1>4, <1>6, <3>2, DaysFacts DEF Control
    <3>4. d + 1 <= job.slot \div Day /\ job.slot \div Day \in Nat
      BY <3>2, <3>3, DaysFacts, SlotReached, SlotBounds DEF Control
    <3> QED
      BY <3>2, <3>4
  <2>2. \A h \in Slots : h \div Day = d => rows'["hourly"][<<b, h>>] = rows["hourly"][<<b, h>>]
    BY <1>1, <2>1
  <2> QED
    BY <2>2 DEF SumDay
<1>7. DayFront' = DayFront
  BY <1>1, <1>2 DEF DayFront
<1>8. DaysDone'
  BY <1>1, <1>3, <1>6, <1>7 DEF Days, DaysDone
<1>9. DayBatch' /\ DaySlot'
  BY <1>2 DEF DayBatch, DaySlot
<1> QED
  BY <1>5, <1>8, <1>9 DEF Days

LEMMA InsertDayDays ==
    ASSUME ConstantsAssumption, Control, Control', Days, NEW a \in Agents, InsertRow(a),
           job.tier = "daily"
    PROVE  Days'
<1>1. /\ job.pc = "insert" /\ job.batch[a] # {}
      /\ job' = [job EXCEPT !.batch = [job.batch EXCEPT ![a] = {}]]
      /\ UNCHANGED <<now, due, raw, mark, deleted, missed, early, faults>>
      /\ rows'["hourly"] = rows["hourly"]
  BY RowInserted DEF InsertRow, Control
<1>2. /\ job'.pc = "insert" /\ job'.tier = "daily" /\ job'.slot = job.slot
      /\ job'.batch = [job.batch EXCEPT ![a] = {}] /\ job.batch \in [Agents -> SUBSET Sample]
      /\ DaySumming /\ DaySumming'
  BY <1>1 DEF Control, TypeOK, DaySumming
<1>3. /\ rows'["daily"][<<a, job.slot>>] = job.batch[a]
      /\ \A b \in Agents, d \in Slots :
            b # a \/ d # job.slot => rows'["daily"][<<b, d>>] = rows["daily"][<<b, d>>]
  <2> DEFINE row == [rows["daily"] EXCEPT ![<<a, job.slot>>] = job.batch[a]]
  <2>1. rows["daily"] \in [Agents \X Slots -> SUBSET Sample] /\ <<a, job.slot>> \in Agents \X Slots
    BY DEF Control, TypeOK, Tiers
  <2>2. rows'["daily"] = row
    BY DEF InsertRow, Control, TypeOK, Tiers
  <2>3. /\ row[<<a, job.slot>>] = job.batch[a]
        /\ \A b \in Agents, d \in Slots : b # a \/ d # job.slot => row[<<b, d>>] = rows["daily"][<<b, d>>]
    BY <2>1
  <2> QED
    BY <2>2, <2>3
<1>4. \A b, d : SumDay(b, d)' = SumDay(b, d)
  BY <1>1 DEF SumDay
<1>5. DayFront' = job.slot /\ DayFront = job.slot
  BY <1>2 DEF DayFront
<1>6. job.batch[a] = SumDay(a, job.slot)
  BY <1>1, <1>2 DEF Days, DayBatch
<1>7. DayHeld'
  <2> SUFFICES ASSUME NEW b \in Agents, NEW d \in Slots, rows'["daily"][<<b, d>>] # {}
               PROVE  SumDay(b, d) # {}
    BY <1>4 DEF DayHeld
  <2> QED
    BY <1>1, <1>3, <1>6 DEF Days, DayHeld
<1>8. DaysDone'
  <2> SUFFICES ASSUME NEW d \in Slots \ early, d < job.slot, NEW b \in Agents
               PROVE  /\ (d + 1) * Day <= mark["hourly"]
                      /\ rows'["daily"][<<b, d>>] = SumDay(b, d)
    BY <1>1, <1>4, <1>5 DEF DaysDone
  <2>1. d # job.slot
    BY DaysFacts DEF Control
  <2> QED
    BY <1>3, <1>5, <2>1 DEF Days, DaysDone
<1>9. DaySlot'
  BY <1>1, <1>2 DEF Days, DaySlot
<1>10. DayBatch'
  <2>1. job.slot \notin early => (job.slot + 1) * Day <= mark["hourly"]
    BY <1>1, <1>2 DEF Days, DayBatch
  <2>2. ASSUME NEW b \in Agents
        PROVE  \/ job'.batch[b] = SumDay(b, job.slot)
               \/ job'.batch[b] = {} /\ rows'["daily"][<<b, job.slot>>] = SumDay(b, job.slot)
    <3>1. CASE b = a
      BY <1>2, <1>3, <1>6, <3>1
    <3>2. CASE b # a
      <4>1. \/ job.batch[b] = SumDay(b, job.slot)
            \/ job.batch[b] = {} /\ rows["daily"][<<b, job.slot>>] = SumDay(b, job.slot)
        BY <1>1, <1>2 DEF Days, DayBatch
      <4>2. job'.batch[b] = job.batch[b]
        BY <1>2, <3>2
      <4>3. rows'["daily"][<<b, job.slot>>] = rows["daily"][<<b, job.slot>>]
        BY <1>3, <3>2, DaysFacts DEF Control
      <4> QED
        BY <4>1, <4>2, <4>3
    <3> QED
      BY <3>1, <3>2
  <2> QED
    BY <1>1, <1>2, <1>4, <2>1, <2>2 DEF DayBatch
<1> QED
  BY <1>7, <1>8, <1>9, <1>10 DEF Days

LEMMA StepDays ==
    ASSUME ConstantsAssumption, Control, Control', Days, [Next]_vars
    PROVE  Days'
<1>1. ASSUME NEW a \in Agents, InsertRow(a) PROVE Days'
  BY <1>1, InsertHourDays, InsertDayDays, DaysFacts DEF Tiers, Control
<1>2. mark["hourly"] <= mark["hourly"]
  BY DaysFacts DEF Control
<1>3. ASSUME DeleteExpired PROVE Days'
  <2>1. ~DaySumming'
    BY <1>3, IdleTyped DEF DeleteExpired, DaySumming
  <2> QED
    BY <1>2, <1>3, <2>1, RestDays DEF DeleteExpired
<1>4. ASSUME Pass PROVE Days'
  BY <1>1, <1>3, <1>4, StartDays, DailyDays, SelectDays, NextSlotDays, SaveDays DEF Pass
<1>5. ASSUME PassFails PROVE Days'
  <2>1. ~DaySumming'
    BY <1>5, AfterTyped, JobAtTyped DEF PassFails, DaySumming, Control
  <2> QED
    BY <1>2, <1>5, <2>1, RestDays DEF PassFails
<1>6. ASSUME HubRestart PROVE Days'
  <2>1. ~DaySumming'
    BY <1>6, IdleTyped DEF HubRestart, DaySumming
  <2> QED
    BY <1>2, <1>6, <2>1, RestDays DEF HubRestart
<1>7. ASSUME UNCHANGED <<rows, mark, job, early>> PROVE Days'
  <2>1. \A a, d : SumDay(a, d)' = SumDay(a, d)
    BY <1>7 DEF SumDay
  <2>2. (DaySumming' <=> DaySumming) /\ DayFront' = DayFront
    BY <1>7 DEF DaySumming, DayFront
  <2> QED
    BY <1>7, <2>1, <2>2 DEF Days, DayHeld, DaysDone, DayBatch, DaySlot
<1>8. ASSUME Tick \/ UNCHANGED vars PROVE Days'
  BY <1>7, <1>8 DEF Tick, vars
<1>9. ASSUME NEW a \in Agents, NEW t \in Hour .. MaxTime, WriteSample(a, t) PROVE Days'
  BY <1>7, <1>9 DEF WriteSample
<1> QED
  BY <1>4, <1>5, <1>6, <1>8, <1>9 DEF Next

LEMMA InitDays ==
    ASSUME ConstantsAssumption, Init
    PROVE  Days
<1>1. job.pc = "idle" /\ mark["daily"] = 0
  BY IdleTyped DEF Init, Tiers
<1>2. \A a \in Agents, d \in Slots : rows["daily"][<<a, d>>] = {}
  BY DEF Init, Tiers
<1>3. ~DaySumming /\ DayFront = 0
  BY <1>1 DEF DaySumming, DayFront
<1>4. \A d \in Slots : ~(d < 0)
  BY DEF Slots
<1> QED
  BY <1>2, <1>3, <1>4 DEF Days, DayHeld, DaysDone, DayBatch, DaySlot

-----------------------------------------------------------------------------
(* What a repeated pass inserts over what is there.                        *)

\* A row that a pass may yet replace has samples of the table only.
RowsRaw ==
    \A a \in Agents, h \in Slots : mark["hourly"] <= h => rows["hourly"][<<a, h>>] \subseteq raw
RowsOwn == \A a \in Agents, h \in Slots : \A s \in rows["hourly"][<<a, h>>] : s.agent = a

BatchRaw ==
    Summing /\ job.pc = "insert" => \A a \in Agents : \A s \in job.batch[a] : s \in raw

\* What is selected for a slot has what the row of the slot has.
RowInBatch ==
    job.pc = "insert" =>
        \A a \in Agents : job.batch[a] # {} => rows[job.tier][<<a, job.slot>>] \subseteq job.batch[a]

BatchOwn ==
    Summing /\ job.pc = "insert" => \A a \in Agents : \A s \in job.batch[a] : s.agent = a

\* A day has no sample that its hours do not have.
DaysWithin == \A a \in Agents, d \in Slots : rows["daily"][<<a, d>>] \subseteq SumDay(a, d)

Growth == RowsRaw /\ RowsOwn /\ BatchRaw /\ BatchOwn /\ RowInBatch /\ DaysWithin

LEMMA InitGrowth ==
    ASSUME ConstantsAssumption, Init
    PROVE  Growth
<1>1. job.pc = "idle"
  BY IdleTyped DEF Init
<1>2. \A a \in Agents, h \in Slots :
        rows["hourly"][<<a, h>>] = {} /\ rows["daily"][<<a, h>>] = {}
  BY DEF Init, Tiers
<1> QED
  BY <1>1, <1>2 DEF Growth, RowsRaw, RowsOwn, BatchRaw, BatchOwn, RowInBatch, DaysWithin

(* The rows after an insert, of either tier.                               *)
LEMMA RowReplaced ==
    ASSUME TypeOK, NEW a \in Agents, InsertRow(a)
    PROVE  /\ rows'[job.tier][<<a, job.slot>>] = job.batch[a]
           /\ \A tier \in Tiers, b \in Agents, h \in Slots :
                 tier # job.tier \/ b # a \/ h # job.slot =>
                     rows'[tier][<<b, h>>] = rows[tier][<<b, h>>]
<1>1. /\ <<a, job.slot>> \in Agents \X Slots /\ job.tier \in Tiers
      /\ rows \in [Tiers -> [Agents \X Slots -> SUBSET Sample]]
  BY DEF TypeOK
<1>2. rows[job.tier] \in [Agents \X Slots -> SUBSET Sample]
  BY <1>1
<1> DEFINE row == [rows[job.tier] EXCEPT ![<<a, job.slot>>] = job.batch[a]]
<1>3. rows' = [rows EXCEPT ![job.tier] = row]
  BY DEF InsertRow
<1>4. /\ row[<<a, job.slot>>] = job.batch[a]
      /\ \A b \in Agents, h \in Slots :
            b # a \/ h # job.slot => row[<<b, h>>] = rows[job.tier][<<b, h>>]
  BY <1>1, <1>2
<1> HIDE DEF row
<1>5. rows'[job.tier] = row /\ \A tier \in Tiers : tier # job.tier => rows'[tier] = rows[tier]
  BY <1>1, <1>3
<1> QED
  BY <1>4, <1>5

(* A step that loses no sample and leaves no insert under way.             *)
LEMMA QuietGrowth ==
    ASSUME ConstantsAssumption, Control, Control', Growth,
           rows' = rows, raw \subseteq raw', mark["hourly"] <= mark'["hourly"], job'.pc # "insert"
    PROVE  Growth'
<1>1. \A a, d : SumDay(a, d)' = SumDay(a, d)
  BY DEF SumDay
<1>2. \A h \in Slots : mark'["hourly"] <= h => mark["hourly"] <= h
  BY DaysFacts DEF Control, TypeOK, Tiers, Slots
<1>3. RowsRaw' /\ RowsOwn'
  BY <1>2 DEF Growth, RowsRaw, RowsOwn
<1>4. BatchRaw' /\ BatchOwn' /\ RowInBatch'
  BY DEF BatchRaw, BatchOwn, RowInBatch
<1>5. DaysWithin'
  BY <1>1 DEF Growth, DaysWithin
<1> QED
  BY <1>3, <1>4, <1>5 DEF Growth

(* No row at or after the watermark has a sample that expires.             *)
LEMMA DeleteGrowth ==
    ASSUME ConstantsAssumption, Control, Control', Contents, Contents', Growth, DeleteExpired
    PROVE  Growth'
<1>1. /\ raw' = raw \ Expired /\ deleted' = deleted \cup Expired
      /\ rows' = rows /\ mark' = mark /\ job' = IdleJob
  BY DEF DeleteExpired
<1>2. RowsRaw'
  <2> SUFFICES ASSUME NEW a \in Agents, NEW h \in Slots, mark["hourly"] <= h,
                      NEW s \in rows["hourly"][<<a, h>>]
               PROVE  s \in raw'
    BY <1>1 DEF RowsRaw
  <2>1. s \in raw /\ s \in Sample
    BY DEF Growth, RowsRaw, Control, TypeOK
  <2>2. ~Before(s, h)
    BY DEF Contents, RowsOK, InHour
  <2>3. ASSUME s \in Expired PROVE FALSE
    <3>1. Before(s, mark["hourly"])
      BY <1>1, <2>3 DEF Contents, DeletedBelow, Before
    <3> QED
      BY <2>1, <2>2, <3>1, BeforeMono, DaysFacts DEF Control
  <2> QED
    BY <1>1, <2>1, <2>3
<1>3. RowsOwn'
  BY <1>1 DEF Growth, RowsOwn
<1>4. BatchRaw' /\ BatchOwn' /\ RowInBatch'
  BY <1>1, IdleTyped DEF BatchRaw, BatchOwn, RowInBatch
<1>5. DaysWithin'
  <2>1. \A a, d : SumDay(a, d)' = SumDay(a, d)
    BY <1>1 DEF SumDay
  <2> QED
    BY <1>1, <2>1 DEF Growth, DaysWithin
<1> QED
  BY <1>2, <1>3, <1>4, <1>5 DEF Growth

(* The samples of a row that may be replaced are all selected again.       *)
LEMMA SelectGrowth ==
    ASSUME ConstantsAssumption, Control, Contents, Growth, SelectSlot
    PROVE  Growth'
<1> DEFINE batch == [a \in Agents |-> Summed(job.tier, a, job.slot)]
<1>1. /\ job.pc = "select" /\ job' = [job EXCEPT !.pc = "insert", !.batch = batch]
      /\ UNCHANGED <<raw, rows, mark>>
  BY DEF SelectSlot
<1>2. \A a \in Agents :
        /\ job.tier = "hourly" => batch[a] = {s \in raw : s.agent = a /\ InHour(s, job.slot)}
        /\ job.tier = "daily" => batch[a] = SumDay(a, job.slot)
  BY DEF Summed, SumHour
<1> HIDE DEF batch
<1>3. job'.pc = "insert" /\ job'.tier = job.tier /\ job'.slot = job.slot /\ job'.batch = batch
  BY <1>1 DEF Control, TypeOK
<1>4. RowsRaw' /\ RowsOwn'
  BY <1>1 DEF Growth, RowsRaw, RowsOwn
<1>5. BatchRaw' /\ BatchOwn'
  BY <1>1, <1>2, <1>3 DEF BatchRaw, BatchOwn, Summing
<1>6. RowInBatch'
  <2> SUFFICES ASSUME NEW a \in Agents, NEW s \in rows[job.tier][<<a, job.slot>>]
               PROVE  s \in batch[a]
    BY <1>1, <1>3 DEF RowInBatch
  <2>1. job.slot \in Slots /\ job.tier \in Tiers
    BY DaysFacts DEF Control
  <2>2. CASE job.tier = "hourly"
    <3>1. mark["hourly"] <= job.slot
      BY <1>1, <2>2 DEF Control, JobOK, Summing
    <3>2. s \in raw
      BY <2>1, <2>2, <3>1 DEF Growth, RowsRaw
    <3>3. s.agent = a /\ InHour(s, job.slot)
      BY <2>1, <2>2 DEF Growth, RowsOwn, Contents, RowsOK
    <3> QED
      BY <1>2, <2>2, <3>2, <3>3
  <2>3. CASE job.tier = "daily"
    BY <1>2, <2>1, <2>3 DEF Growth, DaysWithin
  <2> QED
    BY <2>1, <2>2, <2>3 DEF Tiers
<1>7. DaysWithin'
  <2>1. \A a, d : SumDay(a, d)' = SumDay(a, d)
    BY <1>1 DEF SumDay
  <2> QED
    BY <1>1, <2>1 DEF Growth, DaysWithin
<1> QED
  BY <1>4, <1>5, <1>6, <1>7 DEF Growth

LEMMA InsertGrowth ==
    ASSUME ConstantsAssumption, Control, Days, Growth, NEW a \in Agents, InsertRow(a)
    PROVE  /\ Growth'
           /\ \A tier \in Tiers, b \in Agents, h \in Slots :
                 rows[tier][<<b, h>>] \subseteq rows'[tier][<<b, h>>]
<1>1. /\ job.pc = "insert" /\ job.batch[a] # {} /\ UNCHANGED <<raw, mark>>
      /\ job' = [job EXCEPT !.batch = [job.batch EXCEPT ![a] = {}]]
  BY RowInserted DEF InsertRow, Control
<1>2. /\ job.slot \in Slots /\ job.tier \in Tiers
      /\ rows'[job.tier][<<a, job.slot>>] = job.batch[a]
      /\ \A tier \in Tiers, b \in Agents, h \in Slots :
            tier # job.tier \/ b # a \/ h # job.slot => rows'[tier][<<b, h>>] = rows[tier][<<b, h>>]
  BY RowReplaced, DaysFacts DEF Control
<1>3. /\ job'.pc = "insert" /\ job'.tier = job.tier /\ job'.slot = job.slot
      /\ job'.batch = [job.batch EXCEPT ![a] = {}] /\ job.batch \in [Agents -> SUBSET Sample]
  BY <1>1 DEF Control, TypeOK
<1>4. rows[job.tier][<<a, job.slot>>] \subseteq job.batch[a]
  BY <1>1 DEF Growth, RowInBatch
<1>5. \A tier \in Tiers, b \in Agents, h \in Slots :
        rows[tier][<<b, h>>] \subseteq rows'[tier][<<b, h>>]
  <2> SUFFICES ASSUME NEW tier \in Tiers, NEW b \in Agents, NEW h \in Slots
               PROVE  rows[tier][<<b, h>>] \subseteq rows'[tier][<<b, h>>]
    OBVIOUS
  <2>1. CASE tier = job.tier /\ b = a /\ h = job.slot
    BY <1>2, <1>4, <2>1
  <2>2. CASE ~(tier = job.tier /\ b = a /\ h = job.slot)
    BY <1>2, <2>2
  <2> QED
    BY <2>1, <2>2
<1>6. ASSUME NEW b \in Agents, NEW h \in Slots, NEW s \in rows'["hourly"][<<b, h>>]
      PROVE  /\ mark["hourly"] <= h => s \in raw
             /\ s.agent = b
  <2>1. CASE job.tier = "hourly" /\ b = a /\ h = job.slot
    BY <1>1, <1>2, <1>6, <2>1 DEF Growth, BatchRaw, BatchOwn, Summing
  <2>2. CASE ~(job.tier = "hourly" /\ b = a /\ h = job.slot)
    <3>1. "hourly" \in Tiers
      BY DEF Tiers
    <3>2. s \in rows["hourly"][<<b, h>>]
      BY <1>2, <1>6, <2>2, <3>1
    <3> QED
      BY <3>2 DEF Growth, RowsRaw, RowsOwn
  <2> QED
    BY <2>1, <2>2
<1>7. RowsRaw' /\ RowsOwn'
  BY <1>1, <1>6 DEF RowsRaw, RowsOwn
<1>8. \A b \in Agents : job'.batch[b] = IF b = a THEN {} ELSE job.batch[b]
  BY <1>3
<1>9. BatchRaw' /\ BatchOwn'
  BY <1>1, <1>3, <1>8 DEF Growth, BatchRaw, BatchOwn, Summing
<1>10. RowInBatch'
  <2> SUFFICES ASSUME NEW b \in Agents, b # a, job.batch[b] # {}
               PROVE  rows'[job.tier][<<b, job.slot>>] \subseteq job.batch[b]
    BY <1>3, <1>8 DEF RowInBatch
  <2>1. rows'[job.tier][<<b, job.slot>>] = rows[job.tier][<<b, job.slot>>]
    BY <1>2
  <2> QED
    BY <1>1, <2>1 DEF Growth, RowInBatch
<1>11. DaysWithin'
  <2> SUFFICES ASSUME NEW b \in Agents, NEW d \in Slots, NEW s \in rows'["daily"][<<b, d>>]
               PROVE  s \in SumDay(b, d)'
    BY DEF DaysWithin
  <2>1. "daily" \in Tiers /\ "hourly" \in Tiers
    BY DEF Tiers
  <2>2. s \in SumDay(b, d)
    <3>1. CASE job.tier = "daily" /\ b = a /\ d = job.slot
      <4>1. job.batch[a] = SumDay(a, job.slot)
        BY <1>1, <3>1 DEF Days, DayBatch, DaySumming
      <4> QED
        BY <1>2, <3>1, <4>1
    <3>2. CASE ~(job.tier = "daily" /\ b = a /\ d = job.slot)
      <4>1. s \in rows["daily"][<<b, d>>]
        BY <1>2, <2>1, <3>2
      <4> QED
        BY <4>1 DEF Growth, DaysWithin
    <3> QED
      BY <3>1, <3>2
  <2>3. PICK h \in Slots : h \div Day = d /\ s \in rows["hourly"][<<b, h>>]
    BY <2>2, SumDayIn
  <2>4. s \in rows'["hourly"][<<b, h>>]
    BY <1>5, <2>1, <2>3
  <2> QED
    BY <2>3, <2>4 DEF SumDay
<1> QED
  BY <1>5, <1>7, <1>9, <1>10, <1>11 DEF Growth

LEMMA StepGrowth ==
    ASSUME ConstantsAssumption, Control, Control', Contents, Contents', Days, Growth, [Next]_vars
    PROVE  Growth'
<1>1. mark["hourly"] <= mark["hourly"] /\ mark["hourly"] \in Nat
  BY DaysFacts DEF Control
<1>2. ASSUME NEW pass \in Passes, StartPass(pass) PROVE Growth'
  <2>1. Begin(pass, "hourly") /\ job.pc = "idle" /\ UNCHANGED <<raw, rows, mark>>
    BY <1>2 DEF StartPass
  <2>2. job'.pc = "select"
    BY <2>1, BeginJob DEF Control, Tiers
  <2> QED
    BY <1>1, <2>1, <2>2, QuietGrowth
<1>3. ASSUME StartDaily PROVE Growth'
  <2>1. Begin("rollup", "daily") /\ UNCHANGED <<raw, rows, mark>>
    BY <1>3 DEF StartDaily
  <2>2. job'.pc = "select"
    BY <2>1, BeginJob DEF Control, Tiers, Passes
  <2> QED
    BY <1>1, <2>1, <2>2, QuietGrowth
<1>4. ASSUME NextSlot PROVE Growth'
  <2>1. job'.pc = "select" /\ UNCHANGED <<raw, rows, mark>>
    BY <1>4 DEF NextSlot, Control, TypeOK
  <2> QED
    BY <1>1, <2>1, QuietGrowth
<1>5. ASSUME SaveMark PROVE Growth'
  <2>1. /\ job.pc = "select" /\ mark' = [mark EXCEPT ![job.tier] = job.end]
        /\ job' = JobAt(After(job.tier)) /\ UNCHANGED <<raw, rows>>
    BY <1>5 DEF SaveMark
  <2>2. job'.pc # "insert"
    BY <2>1, AfterTyped, JobAtTyped DEF Control
  <2>3. mark'["hourly"] = IF job.tier = "hourly" THEN job.end ELSE mark["hourly"]
    BY <2>1 DEF Control, TypeOK, Tiers
  <2>4. mark["hourly"] <= mark'["hourly"]
    BY <1>1, <2>1, <2>3 DEF Control, JobOK, Summing
  <2> QED
    BY <2>1, <2>2, <2>4, QuietGrowth
<1>6. ASSUME Pass PROVE Growth'
  BY <1>2, <1>3, <1>4, <1>5, <1>6, SelectGrowth, DeleteGrowth, InsertGrowth DEF Pass
<1>7. ASSUME PassFails PROVE Growth'
  <2>1. job'.pc # "insert"
    BY <1>7, AfterTyped, JobAtTyped DEF PassFails, Control
  <2> QED
    BY <1>1, <1>7, <2>1, QuietGrowth DEF PassFails
<1>8. ASSUME HubRestart PROVE Growth'
  <2>1. job'.pc # "insert"
    BY <1>8, IdleTyped DEF HubRestart
  <2> QED
    BY <1>1, <1>8, <2>1, QuietGrowth DEF HubRestart
<1>9. ASSUME UNCHANGED <<rows, mark, job>>, raw \subseteq raw' PROVE Growth'
  <2>1. RowsRaw' /\ RowsOwn'
    BY <1>9 DEF Growth, RowsRaw, RowsOwn
  <2>2. BatchRaw' /\ BatchOwn'
    BY <1>9 DEF Growth, BatchRaw, BatchOwn, Summing
  <2>3. RowInBatch'
    BY <1>9 DEF Growth, RowInBatch
  <2>4. \A a, d : SumDay(a, d)' = SumDay(a, d)
    BY <1>9 DEF SumDay
  <2>5. DaysWithin'
    BY <1>9, <2>4 DEF Growth, DaysWithin
  <2> QED
    BY <2>1, <2>2, <2>3, <2>5 DEF Growth
<1>10. ASSUME NEW a \in Agents, NEW t \in Hour .. MaxTime, WriteSample(a, t) PROVE Growth'
  <2>1. UNCHANGED <<rows, mark, job>> /\ raw \subseteq raw'
    BY <1>10 DEF WriteSample
  <2> QED
    BY <1>9, <2>1
<1>11. ASSUME Tick \/ UNCHANGED vars PROVE Growth'
  BY <1>9, <1>11 DEF Tick, vars
<1> QED
  BY <1>6, <1>7, <1>8, <1>10, <1>11 DEF Next

(* Only an insert changes a row.                                           *)
LEMMA StepGrows ==
    ASSUME ConstantsAssumption, Control, Days, Growth, [Next]_vars
    PROVE  \A tier \in Tiers, a \in Agents, i \in Slots :
               rows[tier][<<a, i>>] \subseteq rows'[tier][<<a, i>>]
<1>1. CASE \E a \in Agents : InsertRow(a)
  BY <1>1, InsertGrowth
<1>2. CASE UNCHANGED rows
  BY <1>2
<1> QED
  BY <1>1, <1>2 DEF Next, Pass, WriteSample, StartPass, StartDaily, SelectSlot, NextSlot, SaveMark,
                    DeleteExpired, PassFails, HubRestart, Tick, vars

-----------------------------------------------------------------------------
(* The theorems.                                                           *)

\* The inductive invariant: what is before the watermark of the hours, or before
\* the slot of a pass under way, is in a row unless it came too late.
THEOREM Invariance == Spec => []IInv
<1>1. Init => Control /\ Contents /\ Days
  BY ConstantsAssumption, InitControl, InitContents, InitDays
<1>2. Control /\ Contents /\ Days /\ [Next]_vars => (Control /\ Contents /\ Days)'
  BY ConstantsAssumption, StepControl, StepContents, StepDays
<1>3. Control /\ Contents /\ Days => IInv
  BY DEF Control, Contents, Days, IInv
<1> QED
  BY <1>1, <1>2, <1>3, PTL DEF Spec

\* Every variable keeps its type: the loops of the passes stay within the slots.
THEOREM TypeCorrect == Spec => []TypeOK
BY Invariance, PTL DEF IInv

\* Retention deletes no sample that came in time and is in no hourly row, whatever
\* statements fail, wherever the hub stops and whenever samples are written.
THEOREM NothingDeletedUncounted == Spec => []CountedBeforeDeleted
BY Invariance, PTL DEF IInv

\* A daily row below the watermark of the days has the samples of the hourly rows of
\* its day, if these were complete when it was summed up.
THEOREM DaysMatchHours == Spec => []DailyMatchesHourly
<1>1. IInv => DailyMatchesHourly
  <2> SUFFICES ASSUME IInv, NEW d \in Slots \ early, NEW a \in Agents, d < mark["daily"]
               PROVE  rows["daily"][<<a, d>>] = SumDay(a, d)
    BY DEF DailyMatchesHourly
  <2>1. mark["daily"] <= DayFront
    BY ConstantsAssumption, DaysFacts DEF IInv, DayFront, DaySlot
  <2>2. d < DayFront
    BY <2>1, ConstantsAssumption, DaysFacts DEF IInv
  <2> QED
    BY <2>2 DEF IInv, DaysDone
<1> QED
  BY <1>1, Invariance, PTL

\* INSERT OR REPLACE: a pass that is repeated after a failure or a restart, when samples
\* were written or deleted in between, takes no sample out of a row it replaces.
RowsNeverShrink ==
    [][\A tier \in Tiers, a \in Agents, i \in Slots :
           rows[tier][<<a, i>>] \subseteq rows'[tier][<<a, i>>]]_vars

\* No sample that was summed up is lost from its hour or its day by a later pass.
THEOREM SummedStaysSummed == Spec => RowsNeverShrink
<1>1. Init => Control /\ Contents /\ Days /\ Growth
  BY ConstantsAssumption, InitControl, InitContents, InitDays, InitGrowth
<1>2. Control /\ Contents /\ Days /\ Growth /\ [Next]_vars => (Control /\ Contents /\ Days /\ Growth)'
  BY ConstantsAssumption, StepControl, StepContents, StepDays, StepGrowth
<1>3. /\ Control /\ Contents /\ Days /\ Growth /\ [Next]_vars
      => [\A tier \in Tiers, a \in Agents, i \in Slots :
              rows[tier][<<a, i>>] \subseteq rows'[tier][<<a, i>>]]_vars
  BY ConstantsAssumption, StepGrows
<1> QED
  BY <1>1, <1>2, <1>3, PTL DEF Spec, RowsNeverShrink
=============================================================================
