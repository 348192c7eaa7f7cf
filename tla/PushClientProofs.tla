-------------------------- MODULE PushClientProofs --------------------------
(***************************************************************************)
(* Safety theorems of PushClient, for every value of its constants.        *)
(*                                                                         *)
(* IInv is inductive.  Most actions are Quiet: they leave the stages of    *)
(* the pipeline alone and at most let go of the snapshot the worker took.  *)
(* The step lemmas treat Quiet once and the nine other actions singly.     *)
(***************************************************************************)
EXTENDS PushClient, FiniteSetTheorems, TLAPS

-----------------------------------------------------------------------------
(* The record of what was given up.                                        *)

LEMMA LoseType ==
  ASSUME NEW c \in Causes, NEW S \in SUBSET Snap,
         lost \in [Causes -> SUBSET Snap], Lose(c, S)
  PROVE  lost' \in [Causes -> SUBSET Snap]
BY DEF Lose

LEMMA LoseLost ==
  ASSUME NEW c \in Causes, NEW S, lost \in [Causes -> SUBSET Snap], Lose(c, S)
  PROVE  /\ Lost' = Lost \cup S
         /\ c # "squeezed" => lost'["squeezed"] = lost["squeezed"]
         /\ c = "squeezed" => lost'["squeezed"] = lost["squeezed"] \cup S
BY DEF Lose, Lost, Causes

LEMMA SnapNat == \A s \in Nat : s # 0 <=> s \in Snap
BY DEF Snap

(* What the worker and the ticker goroutine take from and add to the queue.*)
LEMMA QueueFacts ==
  ASSUME NEW q \in Seq(Snap)
  PROVE  /\ \A s \in Snap : Append(q, s) \in Seq(Snap)
         /\ q # <<>> => Head(q) \in Snap /\ Tail(q) \in Seq(Snap)
         /\ \A i \in DOMAIN q : q[i] \in Snap
OBVIOUS

-----------------------------------------------------------------------------
(* Types.                                                                  *)

WorkerTypeOK ==
    /\ wpc \in {"select", "drain", "send", "await", "backoff", "delete", "pause", "exited"}
    /\ cur \in Nat
    /\ peeked \in [id : Nat, snap : Nat]
    /\ attempt \in 0 .. MaxRetries
    /\ reply \in {"none", "ok", "rejected", "busy"}
    /\ lost \in [Causes -> SUBSET Snap]

LEMMA DrainReturnsType ==
  ASSUME ConstantsAssumption, TypeOK, DrainReturns
  PROVE  /\ wpc' \in {"select", "send"} /\ cur' = cur
         /\ peeked' \in [id : Nat, snap : Nat] /\ attempt' \in 0 .. MaxRetries
BY DEF ConstantsAssumption, TypeOK, DrainReturns, NoRow

LEMMA BatchFailedType ==
  ASSUME ConstantsAssumption, TypeOK, BatchFailed
  PROVE  WorkerTypeOK'
BY DrainReturnsType DEF ConstantsAssumption, TypeOK, BatchFailed, WorkerTypeOK

LEMMA AttemptFailedType ==
  ASSUME ConstantsAssumption, TypeOK, AttemptFailed
  PROVE  WorkerTypeOK'
BY BatchFailedType DEF ConstantsAssumption, TypeOK, AttemptFailed, WorkerTypeOK

LEMMA BatchOkType ==
  ASSUME ConstantsAssumption, TypeOK, BatchOk
  PROVE  WorkerTypeOK'
BY DEF ConstantsAssumption, TypeOK, BatchOk, WorkerTypeOK

LEMMA BatchRejectedType ==
  ASSUME ConstantsAssumption, TypeOK, BatchRejected, Target # 0
  PROVE  WorkerTypeOK'
<1>1. lost' \in [Causes -> SUBSET Snap]
  BY SnapNat, LoseType DEF TypeOK, BatchRejected, Target, Causes
<1> QED
  BY <1>1, DrainReturnsType DEF ConstantsAssumption, TypeOK, BatchRejected, WorkerTypeOK

LEMMA MemorySnaps ==
  ASSUME TypeOK
  PROVE  InMemory \in SUBSET Snap
BY QueueFacts, SnapNat DEF TypeOK, InMemory, Queued

LEMMA LoseMemoryType ==
  ASSUME ConstantsAssumption, TypeOK, LoseMemory
  PROVE  WorkerTypeOK' /\ queue' \in Seq(Snap)
<1>1. lost' \in [Causes -> SUBSET Snap]
  BY MemorySnaps, LoseType DEF TypeOK, LoseMemory, Causes
<1> QED
  BY <1>1 DEF ConstantsAssumption, LoseMemory, WorkerTypeOK, NoRow

LEMMA TypeStep ==
  ASSUME ConstantsAssumption, TypeOK, ControlOK, Next
  PROVE  TypeOK'
<1> USE DEF ConstantsAssumption, TypeOK, tickerVars, spoolVars, workerVars, hubVars, Ids
<1>1. CASE Collect
  BY SMTT(20), <1>1 DEF Collect
<1>2. CASE EnqueuePut
  <2>1. held \in Snap
    BY <1>2, SnapNat DEF EnqueuePut, ControlOK
  <2> QED
    BY <1>2, <2>1, QueueFacts DEF EnqueuePut
<1>3. CASE EnqueueFull
  BY <1>3 DEF EnqueueFull
<1>4. CASE EnqueueEvict
  <2>1. Head(queue) \in Snap /\ Tail(queue) \in Seq(Snap)
    BY <1>4, QueueFacts DEF EnqueueEvict
  <2>2. lost' \in [Causes -> SUBSET Snap]
    BY <1>4, <2>1, LoseType DEF EnqueueEvict, Causes
  <2>3. evicted' \in Nat
    BY <1>4, <2>1 DEF EnqueueEvict, Snap
  <2> QED
    BY <1>4, <2>1, <2>2, <2>3 DEF EnqueueEvict
<1>5. CASE EnqueueRetry
  BY <1>5 DEF EnqueueRetry
<1>6. CASE PutInsert
  <2>1. evicted \in Snap
    BY <1>6, SnapNat DEF PutInsert, ControlOK
  <2> QED
    BY SMTT(20), <1>6, <2>1 DEF PutInsert
<1>7. CASE PutInsertFails
  <2>1. {evicted} \in SUBSET Snap /\ "storage" \in Causes
    BY <1>7, SnapNat DEF PutInsertFails, ControlOK, Causes
  <2>2. lost' \in [Causes -> SUBSET Snap]
    BY <1>7, <2>1, LoseType DEF PutInsertFails
  <2> QED
    BY SMTT(20), <1>7, <2>2 DEF PutInsertFails, Fault
<1>8. CASE PutTrimNothing
  BY <1>8 DEF PutTrimNothing
<1>9. CASE PutTrim
  <2> PICK old \in SUBSET Ids :
        /\ spool' = [i \in Ids \ old |-> spool[i]]
        /\ Lose("squeezed", {spool[i] : i \in old})
    BY <1>9 DEF PutTrim
  <2>1. {spool[i] : i \in old} \in SUBSET Snap /\ "squeezed" \in Causes
    BY DEF Causes
  <2>2. lost' \in [Causes -> SUBSET Snap]
    BY <2>1, LoseType
  <2> QED
    BY <1>9, <2>2 DEF PutTrim
<1>10. CASE PutTrimFails
  BY SMTT(20), <1>10 DEF PutTrimFails, Fault
<1>11. CASE RunTick
  BY <1>11 DEF RunTick
<1>12. CASE RunTake
  <2>1. Head(queue) \in Nat /\ Tail(queue) \in Seq(Snap)
    BY <1>12, QueueFacts DEF RunTake, Snap
  <2> QED
    BY <1>12, <2>1 DEF RunTake
<1>13. CASE RunDone
  BY <1>13 DEF RunDone
<1>14. CASE DrainEmpty
  BY <1>14, DrainReturnsType DEF DrainEmpty
<1>15. CASE DrainPeekFails
  <2>1. faults' \in Nat
    BY <1>15 DEF DrainPeekFails, Fault
  <2>2. /\ wpc' \in {"select", "send"} /\ cur' = cur
        /\ peeked' \in [id : Nat, snap : Nat] /\ attempt' \in 0 .. MaxRetries
    BY <1>15, DrainReturnsType DEF DrainPeekFails
  <2> QED
    BY <1>15, <2>1, <2>2 DEF DrainPeekFails
<1>16. CASE DrainPeek
  <2>1. peeked' \in [id : Nat, snap : Nat]
    BY <1>16 DEF DrainPeek, Snap
  <2> QED
    BY SMTT(20), <1>16, <2>1 DEF DrainPeek
<1>17. CASE DrainDelete
  BY SMTT(20), <1>17 DEF DrainDelete, NoRow
<1>18. CASE DrainDeleteFails
  BY SMTT(20), <1>18 DEF DrainDeleteFails, Fault, NoRow
<1>19. CASE SendRequest
  <2>1. Target \in Snap
    BY <1>19, SnapNat DEF SendRequest, Target, Worker, ControlOK
  <2> QED
    BY <1>19, <2>1 DEF SendRequest
<1>20. CASE SendCancelled
  BY <1>20, AttemptFailedType DEF SendCancelled, WorkerTypeOK
<1>21. CASE AwaitOk
  BY <1>21, BatchOkType DEF AwaitOk, WorkerTypeOK
<1>22. CASE AwaitRejected
  BY <1>22, BatchRejectedType DEF AwaitRejected, WorkerTypeOK, ControlOK, Worker
<1>23. CASE AwaitBusy
  BY <1>23, AttemptFailedType DEF AwaitBusy, WorkerTypeOK
<1>24. CASE AwaitTimeout
  <2>1. AttemptFailed /\ faults' = faults + 1
    BY <1>24 DEF AwaitTimeout, Fault
  <2>2. WorkerTypeOK'
    BY <2>1, AttemptFailedType
  <2> QED
    BY SMTT(20), <1>24, <2>1, <2>2 DEF AwaitTimeout, WorkerTypeOK
<1>25. CASE AwaitCancelled
  BY <1>25, AttemptFailedType DEF AwaitCancelled, WorkerTypeOK
<1>26. CASE BackoffTimer
  BY SMTT(20), <1>26 DEF BackoffTimer, ControlOK, Worker
<1>27. CASE BackoffCancelled
  BY <1>27, BatchFailedType DEF BackoffCancelled, WorkerTypeOK
<1>28. CASE FlushTimer
  BY <1>28 DEF FlushTimer
<1>29. CASE FlushCancelled
  <2>1. {cur} \in SUBSET Snap /\ "memory" \in Causes
    BY <1>29, SnapNat DEF FlushCancelled, Worker, ControlOK, Causes
  <2>2. lost' \in [Causes -> SUBSET Snap]
    BY <1>29, <2>1, LoseType DEF FlushCancelled
  <2> QED
    BY <1>29, <2>2 DEF FlushCancelled
<1>30. CASE \E s \in wire : HubIngest(s)
  BY SMTT(20), <1>30 DEF HubIngest, Answer
<1>31. CASE \E s \in wire : HubUnavailable(s)
  BY SMTT(20), <1>31 DEF HubUnavailable, Answer, Fault
<1>32. CASE Shutdown
  BY SMTT(20), <1>32 DEF Shutdown
<1>33. CASE Exit
  BY <1>33, LoseMemoryType DEF Exit, LoseMemory, WorkerTypeOK
<1>34. CASE Crash
  BY SMTT(20), <1>34, LoseMemoryType DEF Crash, LoseMemory, WorkerTypeOK
<1>35. CASE Restart
  BY <1>35 DEF Restart
<1> QED
  BY <1>1, <1>2, <1>3, <1>4, <1>5, <1>6, <1>7, <1>8, <1>9, <1>10,
     <1>11, <1>12, <1>13, <1>14, <1>15, <1>16, <1>17, <1>18, <1>19,
     <1>20, <1>21, <1>22, <1>23, <1>24, <1>25, <1>26, <1>27, <1>28,
     <1>29, <1>30, <1>31, <1>32, <1>33, <1>34, <1>35
  DEF Next, Enqueue, EnqueueFaulty, Run, RunFaulty

-----------------------------------------------------------------------------
(* Control.                                                                *)

LEMMA TargetCollected ==
  ASSUME TypeOK, RowsOK, Accounted, Target # 0
  PROVE  Target \in 1 .. collected
<1>1. CASE peeked = NoRow
  <2>1. Target \in Pending
    BY <1>1 DEF Target, Pending, InMemory
  <2> QED
    BY <2>1 DEF Accounted
<1>2. CASE peeked # NoRow
  <2>1. Target \in Spooled \cup lost["squeezed"]
    BY <1>2 DEF RowsOK, Target, Spooled
  <2>2. Target \in Pending \cup Lost
    BY <2>1 DEF Pending, Lost, Causes
  <2> QED
    BY <2>2 DEF Accounted
<1> QED
  BY <1>1, <1>2

LEMMA ControlStep ==
  ASSUME ConstantsAssumption, IInv, Next
  PROVE  ControlOK'
<1> USE DEF ConstantsAssumption, IInv, TypeOK, ControlOK, Worker, Target, NoRow,
            tickerVars, spoolVars, workerVars, hubVars
<1>1. CASE Collect
  BY <1>1 DEF Collect
<1>2. CASE EnqueuePut
  BY <1>2 DEF EnqueuePut
<1>3. CASE EnqueueFull
  BY <1>3 DEF EnqueueFull
<1>4. CASE EnqueueEvict
  BY <1>4, QueueFacts DEF EnqueueEvict, Snap
<1>5. CASE EnqueueRetry
  BY <1>5 DEF EnqueueRetry
<1>6. CASE PutInsert
  BY <1>6 DEF PutInsert
<1>7. CASE PutInsertFails
  BY <1>7 DEF PutInsertFails
<1>8. CASE PutTrimNothing
  BY <1>8 DEF PutTrimNothing
<1>9. CASE PutTrim
  BY <1>9 DEF PutTrim
<1>10. CASE PutTrimFails
  BY <1>10 DEF PutTrimFails
<1>11. CASE RunTick
  BY <1>11 DEF RunTick
<1>12. CASE RunTake
  BY <1>12, QueueFacts DEF RunTake, Snap
<1>13. CASE RunDone
  BY <1>13 DEF RunDone
<1>14. CASE DrainEmpty
  BY <1>14 DEF DrainEmpty, DrainReturns
<1>15. CASE DrainPeekFails
  BY <1>15 DEF DrainPeekFails, DrainReturns
<1>16. CASE DrainPeek
  BY <1>16 DEF DrainPeek, Snap
<1>17. CASE DrainDelete
  BY <1>17 DEF DrainDelete
<1>18. CASE DrainDeleteFails
  BY <1>18 DEF DrainDeleteFails
<1>19. CASE SendRequest
  BY <1>19, TargetCollected DEF SendRequest
<1>20. CASE SendCancelled
  BY <1>20 DEF SendCancelled, AttemptFailed, BatchFailed, DrainReturns
<1>21. CASE AwaitOk
  BY <1>21 DEF AwaitOk, BatchOk
<1>22. CASE AwaitRejected
  BY <1>22 DEF AwaitRejected, BatchRejected, DrainReturns
<1>23. CASE AwaitBusy
  BY <1>23 DEF AwaitBusy, AttemptFailed, BatchFailed, DrainReturns
<1>24. CASE AwaitTimeout
  BY <1>24 DEF AwaitTimeout, AttemptFailed, BatchFailed, DrainReturns
<1>25. CASE AwaitCancelled
  BY <1>25 DEF AwaitCancelled, AttemptFailed, BatchFailed, DrainReturns
<1>26. CASE BackoffTimer
  BY <1>26 DEF BackoffTimer
<1>27. CASE BackoffCancelled
  BY <1>27 DEF BackoffCancelled, BatchFailed, DrainReturns
<1>28. CASE FlushTimer
  BY <1>28 DEF FlushTimer
<1>29. CASE FlushCancelled
  BY <1>29 DEF FlushCancelled
<1>30. CASE \E s \in wire : HubIngest(s)
  BY <1>30 DEF HubIngest, Answer, Outstanding
<1>31. CASE \E s \in wire : HubUnavailable(s)
  BY <1>31 DEF HubUnavailable, Answer, Outstanding
<1>32. CASE Shutdown
  BY <1>32 DEF Shutdown
<1>33. CASE Exit
  BY <1>33 DEF Exit, LoseMemory
<1>34. CASE Crash
  BY <1>34 DEF Crash, LoseMemory
<1>35. CASE Restart
  BY <1>35 DEF Restart
<1> QED
  BY <1>1, <1>2, <1>3, <1>4, <1>5, <1>6, <1>7, <1>8, <1>9, <1>10,
     <1>11, <1>12, <1>13, <1>14, <1>15, <1>16, <1>17, <1>18, <1>19,
     <1>20, <1>21, <1>22, <1>23, <1>24, <1>25, <1>26, <1>27, <1>28,
     <1>29, <1>30, <1>31, <1>32, <1>33, <1>34, <1>35
  DEF Next, Enqueue, EnqueueFaulty, Run, RunFaulty

-----------------------------------------------------------------------------
(* The steps that leave the stages alone.                                  *)

Quiet ==
    /\ UNCHANGED <<collected, held, evicted, queue, spool, lastId>>
    /\ \/ UNCHANGED <<cur, delivered, lost>>
       \/ cur' = 0 /\ cur \in delivered /\ UNCHANGED <<delivered, lost>>
       \/ /\ UNCHANGED <<cur, lost>>
          /\ \E s \in 1 .. collected : delivered' = delivered \cup {s}
       \/ /\ cur' = 0 /\ cur # 0
          /\ \E c \in Causes \ {"squeezed"} : Lose(c, {cur})
          /\ UNCHANGED delivered
    /\ DrainPeek \/ peeked' \in {peeked, NoRow}

LEMMA QuietSteps ==
  ASSUME TypeOK, ControlOK, Next
  PROVE  \/ Quiet
         \/ Collect \/ EnqueuePut \/ EnqueueEvict \/ PutInsert \/ PutInsertFails
         \/ PutTrim \/ RunTake \/ DrainDelete \/ LoseMemory
<1> USE DEF Quiet, tickerVars, spoolVars, workerVars, hubVars
<1>1. ASSUME EnqueueFull \/ EnqueueRetry \/ PutTrimNothing \/ PutTrimFails
      PROVE  Quiet
  BY <1>1 DEF EnqueueFull, EnqueueRetry, PutTrimNothing, PutTrimFails
<1>2. ASSUME \/ RunTick \/ RunDone \/ DrainPeek \/ DrainDeleteFails
             \/ SendRequest \/ BackoffTimer \/ FlushTimer
      PROVE  Quiet
  BY <1>2 DEF RunTick, RunDone, DrainPeek, DrainDeleteFails, SendRequest, BackoffTimer, FlushTimer
<1>3. ASSUME DrainEmpty \/ DrainPeekFails
      PROVE  Quiet
  BY <1>3 DEF DrainEmpty, DrainPeekFails, DrainReturns
<1>4. ASSUME SendCancelled \/ AwaitBusy \/ AwaitTimeout \/ AwaitCancelled \/ BackoffCancelled
      PROVE  Quiet
  <2>1. AttemptFailed \/ BatchFailed
    BY <1>4 DEF SendCancelled, AwaitBusy, AwaitTimeout, AwaitCancelled, BackoffCancelled
  <2>2. UNCHANGED <<cur, lost>> /\ peeked' \in {peeked, NoRow}
    BY <2>1 DEF AttemptFailed, BatchFailed, DrainReturns
  <2> QED
    BY <1>4, <2>2
    DEF SendCancelled, AwaitBusy, AwaitTimeout, AwaitCancelled, BackoffCancelled
<1>5. ASSUME AwaitOk
      PROVE  Quiet
  BY <1>5 DEF AwaitOk, BatchOk, Target, ControlOK
<1>6. ASSUME AwaitRejected
      PROVE  Quiet
  BY <1>6 DEF AwaitRejected, BatchRejected, DrainReturns, Target, ControlOK, Worker, Causes
<1>7. ASSUME FlushCancelled
      PROVE  Quiet
  BY <1>7 DEF FlushCancelled, ControlOK, Worker, Causes
<1>8. ASSUME NEW s \in wire, HubIngest(s) \/ HubUnavailable(s)
      PROVE  Quiet
  <2>1. s \in 1 .. collected
    BY DEF ControlOK
  <2> QED
    BY <1>8, <2>1 DEF HubIngest, HubUnavailable
<1>9. ASSUME Shutdown \/ Restart
      PROVE  Quiet
  BY <1>9 DEF Shutdown, Restart
<1>10. ASSUME Exit \/ Crash
       PROVE  LoseMemory
  BY <1>10 DEF Exit, Crash
<1> QED
  BY <1>1, <1>2, <1>3, <1>4, <1>5, <1>6, <1>7, <1>8, <1>9, <1>10
  DEF Next, Enqueue, EnqueueFaulty, Run, RunFaulty

-----------------------------------------------------------------------------
(* Rows of the spool.                                                      *)

LEMMA FiniteRows ==
  ASSUME NEW S, IsFiniteSet(S)
  PROVE  /\ \A x : IsFiniteSet(S \cup {x})
         /\ \A T \in SUBSET S : IsFiniteSet(T)
BY FS_AddElement, FS_Subset

LEMMA RowsStep ==
  ASSUME ConstantsAssumption, IInv, Next
  PROVE  RowsOK'
<1> USE DEF IInv, TypeOK, RowsOK, NoRow, Ids, tickerVars, spoolVars, workerVars, hubVars
<1>1. ASSUME Quiet
      PROVE  lost'["squeezed"] = lost["squeezed"]
  BY <1>1, LoseLost DEF Quiet
<1>2. CASE Quiet /\ peeked' \in {peeked, NoRow}
  BY <1>1, <1>2 DEF Quiet
<1>3. CASE DrainPeek
  BY <1>3 DEF DrainPeek, Snap, IsOldest
<1>4. CASE PutInsert
  <2>1. IsFiniteSet(Ids')
    BY <1>4, FiniteRows DEF PutInsert
  <2> QED
    BY SMTT(20), <1>4, <2>1 DEF PutInsert, ControlOK
<1>5. CASE PutTrim
  <2> PICK old \in SUBSET Ids :
        /\ spool' = [i \in Ids \ old |-> spool[i]]
        /\ Lose("squeezed", {spool[i] : i \in old})
    BY <1>5 DEF PutTrim
  <2>1. lost'["squeezed"] = lost["squeezed"] \cup {spool[i] : i \in old}
    BY LoseLost DEF Causes
  <2>2. IsFiniteSet(Ids')
    BY FiniteRows
  <2> QED
    BY <1>5, <2>1, <2>2 DEF PutTrim
<1>6. CASE DrainDelete
  <2>1. IsFiniteSet(Ids')
    BY <1>6, FiniteRows DEF DrainDelete
  <2> QED
    BY <1>6, <2>1 DEF DrainDelete
<1>7. CASE LoseMemory
  BY <1>7 DEF LoseMemory
<1>8. CASE Collect \/ EnqueuePut \/ RunTake
  BY <1>8 DEF Collect, EnqueuePut, RunTake
<1>9. CASE EnqueueEvict
  <2>1. lost["squeezed"] \subseteq lost'["squeezed"]
    BY <1>9, LoseLost DEF EnqueueEvict, Causes
  <2> QED
    BY <1>9, <2>1 DEF EnqueueEvict
<1>10. CASE PutInsertFails
  <2>1. lost'["squeezed"] = lost["squeezed"]
    BY <1>10, LoseLost DEF PutInsertFails, Causes
  <2> QED
    BY <1>10, <2>1 DEF PutInsertFails
<1> QED
  BY <1>2, <1>3, <1>4, <1>5, <1>6, <1>7, <1>8, <1>9, <1>10, QuietSteps DEF Quiet

-----------------------------------------------------------------------------
(* Order of the stages.                                                    *)

QueueRises(q) == \A i, j \in DOMAIN q : i < j => q[i] < q[j]

LEMMA AppendQueued ==
  ASSUME NEW q \in Seq(Snap), NEW s \in Snap
  PROVE  LET r == Append(q, s)
         IN  /\ {r[i] : i \in DOMAIN r} = {q[i] : i \in DOMAIN q} \cup {s}
             /\ QueueRises(q) /\ (\A i \in DOMAIN q : q[i] < s) => QueueRises(r)
<1> DEFINE r == Append(q, s)
<1>1. /\ DOMAIN r = 1 .. Len(q) + 1 /\ DOMAIN q = 1 .. Len(q)
      /\ r[Len(q) + 1] = s
      /\ \A i \in DOMAIN q : r[i] = q[i]
      /\ Len(q) \in Nat
  OBVIOUS
<1> HIDE DEF r
<1>2. {r[i] : i \in DOMAIN r} = {q[i] : i \in DOMAIN q} \cup {s}
  BY <1>1
<1>3. QueueRises(q) /\ (\A i \in DOMAIN q : q[i] < s) => QueueRises(r)
  BY <1>1 DEF QueueRises
<1> QED
  BY <1>2, <1>3 DEF r

LEMMA TailQueued ==
  ASSUME NEW q \in Seq(Snap), q # <<>>
  PROVE  LET r == Tail(q)
         IN  /\ {q[i] : i \in DOMAIN q} = {r[i] : i \in DOMAIN r} \cup {Head(q)}
             /\ QueueRises(q) => QueueRises(r) /\ \A i \in DOMAIN r : Head(q) < r[i]
<1> DEFINE r == Tail(q)
<1>1. /\ Len(q) \in Nat \ {0} /\ DOMAIN q = 1 .. Len(q) /\ DOMAIN r = 1 .. Len(q) - 1
      /\ Head(q) = q[1]
      /\ \A i \in DOMAIN r : r[i] = q[i + 1]
  OBVIOUS
<1> HIDE DEF r
<1>2. {q[i] : i \in DOMAIN q} = {r[i] : i \in DOMAIN r} \cup {q[1]}
  <2>1. \A i \in DOMAIN q : i = 1 \/ (i - 1 \in DOMAIN r /\ q[i] = r[i - 1])
    BY <1>1
  <2> QED
    BY <1>1, <2>1
<1>3. QueueRises(q) => QueueRises(r) /\ \A i \in DOMAIN r : q[1] < r[i]
  BY <1>1 DEF QueueRises
<1> QED
  BY <1>1, <1>2, <1>3 DEF r

(* The effect of each action that moves a snapshot on the contents of the  *)
(* queue.                                                                  *)
LEMMA QueuedStep ==
  ASSUME IInv
  PROVE  /\ EnqueuePut =>
              Queued' = Queued \cup {held} /\ QueueRises(queue')
         /\ EnqueueEvict \/ RunTake =>
              /\ Queued = Queued' \cup {Head(queue)}
              /\ QueueRises(queue')
              /\ Head(queue) \in Queued /\ Head(queue) # 0
              /\ \A t \in Queued' : Head(queue) < t
<1> USE DEF IInv, TypeOK
<1>1. ASSUME EnqueuePut
      PROVE  Queued' = Queued \cup {held} /\ QueueRises(queue')
  <2>1. held \in Snap /\ QueueRises(queue) /\ \A i \in DOMAIN queue : queue[i] < held
    BY <1>1, SnapNat
    DEF EnqueuePut, ControlOK, PipelineOrdered, StagesOrdered, Queued, QueueRises
  <2> QED
    BY SMTT(20), <1>1, <2>1, AppendQueued DEF EnqueuePut, Queued
<1>2. ASSUME EnqueueEvict \/ RunTake
      PROVE  /\ Queued = Queued' \cup {Head(queue)}
             /\ QueueRises(queue')
             /\ Head(queue) \in Queued /\ Head(queue) # 0
             /\ \A t \in Queued' : Head(queue) < t
  <2>1. QueueRises(queue) /\ queue # <<>> /\ queue' = Tail(queue)
    BY <1>2 DEF EnqueueEvict, RunTake, PipelineOrdered, StagesOrdered, QueueRises
  <2>2. Head(queue) \in Snap
    BY <2>1, QueueFacts
  <2>3. queue \in Seq(Snap)
    OBVIOUS
  <2>4. /\ Queued = Queued' \cup {Head(queue)}
        /\ QueueRises(queue')
        /\ \A i \in DOMAIN queue' : Head(queue) < queue'[i]
    BY <2>1, <2>3, TailQueued DEF Queued
  <2> QED
    BY <2>2, <2>4 DEF Queued, Snap
<1> QED
  BY <1>1, <1>2

LEMMA PendingSnaps ==
  ASSUME IInv
  PROVE  /\ \A s \in Spooled \cup Queued : s \in Nat /\ 0 < s /\ s <= collected
         /\ \A c \in Causes : \A s \in lost[c] : s \in Nat /\ s <= collected
         /\ \A s \in {held, evicted, cur} : s \in Nat /\ s <= collected
<1>1. Pending \cup Lost \subseteq 1 .. collected /\ collected \in Nat
  BY DEF IInv, Accounted, TypeOK
<1>2. \A s \in 1 .. collected : s \in Nat /\ 0 < s /\ s <= collected
  BY <1>1
<1>3. \A s \in Spooled : s \in 1 .. collected
  BY <1>1 DEF Pending
<1>4. \A s \in Queued \cup {held, evicted, cur} : s = 0 \/ s \in 1 .. collected
  BY <1>1 DEF Pending, InMemory
<1>5. \A s \in Queued : s # 0
  BY DEF Queued, IInv, TypeOK, Snap
<1>6. \A c \in Causes : lost[c] \subseteq 1 .. collected
  BY <1>1 DEF Lost
<1> QED
  BY <1>1, <1>2, <1>3, <1>4, <1>5, <1>6

LEMMA OrderStep ==
  ASSUME ConstantsAssumption, IInv, Next
  PROVE  PipelineOrdered'
<1> USE DEF tickerVars, spoolVars, workerVars, hubVars
<1>1. /\ TypeOK /\ ControlOK /\ RowsOK
      /\ SpoolOrdered /\ StagesOrdered /\ QueueRises(queue)
  BY DEF IInv, PipelineOrdered, StagesOrdered, QueueRises
<1>2. ASSUME UNCHANGED spool
      PROVE  SpoolOrdered' /\ Spooled' = Spooled
  BY <1>1, <1>2 DEF SpoolOrdered, Ids, Spooled
<1>3. ASSUME UNCHANGED queue
      PROVE  QueueRises(queue') /\ Queued' = Queued
  BY <1>1, <1>3 DEF Queued
<1>4. ASSUME NEW gone \in SUBSET Ids, spool' = [i \in Ids \ gone |-> spool[i]]
      PROVE  SpoolOrdered' /\ Spooled' \subseteq Spooled
  BY <1>1, <1>4 DEF SpoolOrdered, Ids, Spooled
<1>5. ASSUME UNCHANGED <<spool, queue>>, held' \in {held, 0}, evicted' \in {evicted, 0},
             cur' \in {cur, 0}
      PROVE  PipelineOrdered'
  BY <1>1, <1>2, <1>3, <1>5 DEF PipelineOrdered, StagesOrdered, QueueRises
<1>6. CASE Quiet
  BY <1>5, <1>6 DEF Quiet
<1>7. CASE Collect
  <2>1. /\ held' = collected + 1 /\ evicted' = 0 /\ cur' = cur
        /\ UNCHANGED <<spool, queue>>
    BY <1>1, <1>7 DEF Collect, ControlOK
  <2> QED
    BY <2>1, <1>1, <1>2, <1>3, PendingSnaps DEF PipelineOrdered, StagesOrdered, QueueRises, TypeOK
<1>8. CASE EnqueuePut
  <2>1. Queued' = Queued \cup {held} /\ QueueRises(queue')
    BY <1>8, QueuedStep
  <2>2. held' = 0 /\ evicted' = evicted /\ cur' = cur /\ UNCHANGED spool
    BY <1>8 DEF EnqueuePut
  <2> QED
    BY <2>1, <2>2, <1>1, <1>2 DEF PipelineOrdered, StagesOrdered, QueueRises
<1>9. CASE EnqueueEvict
  <2>1. /\ Queued = Queued' \cup {Head(queue)} /\ QueueRises(queue')
        /\ Head(queue) \in Queued /\ Head(queue) # 0
        /\ \A t \in Queued' : Head(queue) < t
    BY <1>9, QueuedStep
  <2>2. evicted' \in {evicted, Head(queue)} /\ UNCHANGED <<held, cur, spool>>
    BY <1>9 DEF EnqueueEvict
  <2>3. evicted = 0 /\ held # 0
    BY <1>1, <1>9 DEF EnqueueEvict, ControlOK
  <2> QED
    BY <2>1, <2>2, <2>3, <1>1, <1>2, PendingSnaps DEF PipelineOrdered, StagesOrdered, QueueRises
<1>10. CASE PutInsert
  <2>1. /\ evicted # 0 /\ evicted' = 0 /\ UNCHANGED <<queue, held, cur>>
        /\ lastId + 1 \notin Ids
        /\ Ids' = Ids \cup {lastId + 1}
        /\ spool' = [i \in Ids' |-> IF i = lastId + 1 THEN evicted ELSE spool[i]]
    BY <1>1, <1>10 DEF PutInsert, ControlOK, RowsOK, TypeOK, Ids
  <2>2. Spooled' = Spooled \cup {evicted}
    BY <2>1 DEF Spooled
  <2>3. SpoolOrdered'
    <3>1. \A i \in Ids : i < lastId + 1 /\ ~(lastId + 1 < i)
      BY <1>1 DEF RowsOK, TypeOK
    <3>2. \A i \in Ids : spool[i] < evicted
      BY <1>1, <2>1 DEF StagesOrdered, Spooled
    <3> QED
      BY <2>1, <3>1, <3>2, <1>1 DEF SpoolOrdered, TypeOK
  <2> QED
    BY <2>1, <2>2, <2>3, <1>1, <1>3 DEF PipelineOrdered, StagesOrdered, QueueRises
<1>11. CASE PutInsertFails
  BY <1>5, <1>11 DEF PutInsertFails
<1>12. CASE PutTrim \/ DrainDelete
  <2>1. PICK gone \in SUBSET Ids : spool' = [i \in Ids \ gone |-> spool[i]]
    <3>1. CASE PutTrim
      BY <3>1 DEF PutTrim
    <3>2. CASE DrainDelete
      <4>1. Ids \ {peeked.id} = Ids \ ({peeked.id} \cap Ids)
        OBVIOUS
      <4> QED
        BY <3>2, <4>1 DEF DrainDelete
    <3> QED
      BY <1>12, <3>1, <3>2
  <2>2. SpoolOrdered' /\ Spooled' \subseteq Spooled
    BY <1>4, <2>1
  <2>3. UNCHANGED <<queue, held, evicted, cur>>
    BY <1>12 DEF PutTrim, DrainDelete
  <2> QED
    BY <2>2, <2>3, <1>1, <1>3 DEF PipelineOrdered, StagesOrdered, QueueRises
<1>13. CASE RunTake
  <2>1. /\ Queued = Queued' \cup {Head(queue)} /\ QueueRises(queue')
        /\ Head(queue) \in Queued /\ Head(queue) # 0
        /\ \A t \in Queued' : Head(queue) < t
    BY <1>13, QueuedStep
  <2>2. cur' = Head(queue) /\ UNCHANGED <<held, evicted, spool>>
    BY <1>13 DEF RunTake
  <2> QED
    BY <2>1, <2>2, <1>1, <1>2, PendingSnaps DEF PipelineOrdered, StagesOrdered, QueueRises
<1>14. CASE LoseMemory
  <2>1. /\ held' = 0 /\ evicted' = 0 /\ cur' = 0 /\ UNCHANGED spool
        /\ Queued' = {} /\ QueueRises(queue')
    BY <1>14 DEF LoseMemory, Queued, QueueRises
  <2> QED
    BY <2>1, <1>2 DEF PipelineOrdered, StagesOrdered, QueueRises
<1> QED
  BY <1>6, <1>7, <1>8, <1>9, <1>10, <1>11, <1>12, <1>13, <1>14, <1>1, QuietSteps

-----------------------------------------------------------------------------
(* What is given up for lack of room.                                      *)

LEMMA DropsStep ==
  ASSUME ConstantsAssumption, IInv, Next
  PROVE  DropsOldest'
<1> USE DEF tickerVars, spoolVars, workerVars, hubVars
<1>1. TypeOK /\ ControlOK /\ RowsOK /\ SpoolOrdered /\ StagesOrdered /\ DropsOldest
  BY DEF IInv, PipelineOrdered
<1>2. ASSUME UNCHANGED spool
      PROVE  Spooled' = Spooled
  BY <1>2 DEF Ids, Spooled
<1>3. ASSUME UNCHANGED queue
      PROVE  Queued' = Queued
  BY <1>3 DEF Queued
<1>4. ASSUME lost'["squeezed"] = lost["squeezed"],
             (Spooled \cup Queued \cup {held, evicted})' \subseteq
                Spooled \cup Queued \cup {held, evicted, 0}
      PROVE  DropsOldest'
  BY <1>1, <1>4 DEF DropsOldest
<1>5. CASE Quiet
  <2>1. lost'["squeezed"] = lost["squeezed"]
    BY <1>1, <1>5, LoseLost DEF Quiet, TypeOK
  <2> QED
    BY <2>1, <1>2, <1>3, <1>4, <1>5 DEF Quiet
<1>6. CASE Collect
  <2>1. /\ held' = collected + 1 /\ evicted' = evicted
        /\ UNCHANGED <<spool, queue, lost>>
    BY <1>6 DEF Collect
  <2>2. \A s \in lost["squeezed"] : s < collected + 1
    BY <1>1, PendingSnaps DEF TypeOK, Causes
  <2> QED
    BY <2>1, <2>2, <1>1, <1>2, <1>3 DEF DropsOldest
<1>7. CASE EnqueuePut
  <2>1. Queued' = Queued \cup {held}
    BY <1>7, QueuedStep
  <2> QED
    BY <2>1, <1>2, <1>4, <1>7 DEF EnqueuePut
<1>8. CASE EnqueueEvict
  <2>1. /\ Queued = Queued' \cup {Head(queue)} /\ Head(queue) # 0
        /\ \A t \in Queued' : Head(queue) < t
    BY <1>8, QueuedStep
  <2>2. UNCHANGED <<held, spool>>
    BY <1>8 DEF EnqueueEvict
  <2>3. CASE SpoolEnabled
    <3>1. evicted' = Head(queue) /\ UNCHANGED lost
      BY <1>8, <2>3 DEF EnqueueEvict
    <3> QED
      BY <3>1, <2>1, <2>2, <1>2, <1>4
  <2>4. CASE ~SpoolEnabled
    <3>1. UNCHANGED evicted /\ Lose("squeezed", {Head(queue)})
      BY <1>8, <2>4 DEF EnqueueEvict
    <3>2. lost'["squeezed"] = lost["squeezed"] \cup {Head(queue)}
      BY <3>1, <1>1, LoseLost DEF TypeOK, Causes
    <3>3. evicted = 0 /\ Spooled = {} /\ \A t \in {held} \ {0} : Head(queue) < t
      BY <2>1, <2>4, <1>1, <1>8 DEF EnqueueEvict, ControlOK, RowsOK, StagesOrdered, Spooled
    <3> QED
      BY <3>1, <3>2, <3>3, <2>1, <2>2, <1>1, <1>2 DEF DropsOldest
  <2> QED
    BY <2>3, <2>4
<1>9. CASE PutInsert
  <2>1. Spooled' \subseteq Spooled \cup {evicted}
    BY <1>9 DEF PutInsert, Ids, Spooled
  <2> QED
    BY <2>1, <1>3, <1>4, <1>9 DEF PutInsert
<1>10. CASE PutInsertFails
  <2>1. lost'["squeezed"] = lost["squeezed"]
    BY <1>1, <1>10, LoseLost DEF PutInsertFails, TypeOK, Causes
  <2> QED
    BY <2>1, <1>2, <1>3, <1>4, <1>10 DEF PutInsertFails
<1>11. CASE PutTrim
  <2> PICK old \in SUBSET Ids :
        /\ \A i \in old, j \in Ids \ old : i < j
        /\ spool' = [i \in Ids \ old |-> spool[i]]
        /\ Lose("squeezed", {spool[i] : i \in old})
    BY <1>11 DEF PutTrim, Oldest
  <2>1. lost'["squeezed"] = lost["squeezed"] \cup {spool[i] : i \in old}
    BY <1>1, LoseLost DEF TypeOK, Causes
  <2>2. Spooled' = {spool[i] : i \in Ids \ old}
    BY DEF Spooled, Ids
  <2>3. \A i \in old, j \in Ids \ old : spool[i] < spool[j]
    BY <1>1 DEF SpoolOrdered
  <2>4. \A i \in old : \A t \in (Queued \cup {held, evicted}) \ {0} : spool[i] < t
    BY <1>1 DEF StagesOrdered, Spooled
  <2>5. UNCHANGED <<held, evicted, queue>>
    BY <1>11 DEF PutTrim
  <2>6. ASSUME NEW s \in lost'["squeezed"], NEW t \in (Spooled \cup Queued \cup {held, evicted})', t # 0
        PROVE  s < t
    <3>1. t \in (Spooled \cup Queued \cup {held, evicted}) \ {0}
      BY <2>2, <2>5, <2>6, <1>3 DEF Spooled
    <3>2. CASE s \in lost["squeezed"]
      BY <3>1, <3>2, <1>1 DEF DropsOldest
    <3>3. CASE s \in {spool[i] : i \in old}
      BY <3>3, <2>2, <2>3, <2>4, <2>5, <2>6, <1>3
    <3> QED
      BY <2>1, <3>2, <3>3
  <2> QED
    BY <2>6 DEF DropsOldest
<1>12. CASE RunTake
  <2>1. Queued = Queued' \cup {Head(queue)}
    BY <1>12, QueuedStep
  <2> QED
    BY <2>1, <1>2, <1>4, <1>12 DEF RunTake
<1>13. CASE DrainDelete
  <2>1. Spooled' \subseteq Spooled
    BY <1>13 DEF DrainDelete, Spooled, Ids
  <2> QED
    BY <2>1, <1>3, <1>4, <1>13 DEF DrainDelete
<1>14. CASE LoseMemory
  <2>1. lost'["squeezed"] = lost["squeezed"]
    BY <1>1, <1>14, LoseLost DEF LoseMemory, TypeOK, Causes
  <2>2. Queued' = {} /\ held' = 0 /\ evicted' = 0 /\ UNCHANGED spool
    BY <1>14 DEF LoseMemory, Queued
  <2> QED
    BY <2>1, <2>2, <1>2, <1>4
<1> QED
  BY <1>1, <1>5, <1>6, <1>7, <1>8, <1>9, <1>10, <1>11, <1>12, <1>13, <1>14, QuietSteps

-----------------------------------------------------------------------------
(* The outbox: what a step does to the pending snapshots.                  *)

OutboxStep ==
    \/ /\ collected' = collected + 1
       /\ Pending' = Pending \cup {collected + 1}
       /\ UNCHANGED <<delivered, Lost>>
    \/ \E s \in 1 .. collected :
          delivered' = delivered \cup {s} /\ UNCHANGED <<collected, Pending, Lost>>
    \/ \E S \in SUBSET Pending :
          /\ S \subseteq delivered /\ Pending' = Pending \ S
          /\ UNCHANGED <<collected, delivered, Lost>>
    \/ \E S \in SUBSET Pending :
          /\ Pending' = Pending \ S /\ Lost' = Lost \cup S
          /\ UNCHANGED <<collected, delivered>>

LEMMA OutboxStepIsNext ==
  ASSUME OutboxStep
  PROVE  Abstract!Next
BY DEF OutboxStep, Abstract!Next, Abstract!Offer, Abstract!Accept, Abstract!Settle, Abstract!GiveUp

LEMMA UniqueRows ==
  ASSUME TypeOK, SpoolOrdered
  PROVE  \A i, j \in Ids : spool[i] = spool[j] => i = j
<1> SUFFICES ASSUME NEW i \in Ids, NEW j \in Ids, i # j
             PROVE  spool[i] # spool[j]
  OBVIOUS
<1>1. i \in Nat /\ j \in Nat /\ spool[i] \in Nat /\ spool[j] \in Nat
  BY DEF TypeOK, Snap
<1>2. i < j \/ j < i
  BY <1>1
<1> QED
  BY <1>1, <1>2 DEF SpoolOrdered

(* A step that moves nothing settles the empty set.                        *)
LEMMA NothingMoves ==
  ASSUME UNCHANGED <<collected, Pending, delivered, Lost>>
  PROVE  OutboxStep
<1>1. {} \in SUBSET Pending /\ {} \subseteq delivered /\ Pending' = Pending \ {}
  OBVIOUS
<1> QED
  BY <1>1 DEF OutboxStep

LEMMA Simulation ==
  ASSUME ConstantsAssumption, IInv, Next
  PROVE  OutboxStep
<1> USE DEF tickerVars, spoolVars, workerVars, hubVars
<1>1. TypeOK /\ ControlOK /\ RowsOK /\ SpoolOrdered /\ StagesOrdered
  BY DEF IInv, PipelineOrdered
<1>2. ASSUME UNCHANGED spool
      PROVE  Spooled' = Spooled
  BY <1>2 DEF Ids, Spooled
<1>3. ASSUME UNCHANGED queue
      PROVE  Queued' = Queued
  BY <1>3 DEF Queued
<1>4. ASSUME UNCHANGED lost
      PROVE  Lost' = Lost
  BY <1>4 DEF Lost
<1>5. 0 \notin Spooled /\ 0 \notin Queued
  BY PendingSnaps
<1>6. \A t \in Spooled \cup Queued \cup {held, evicted, cur} : t \in Nat
  BY PendingSnaps
<1>7. CASE Quiet
  <2>1. UNCHANGED <<Spooled, Queued, held, evicted, collected>>
    BY <1>2, <1>3, <1>7 DEF Quiet
  <2>2. cur # 0 => cur \notin Spooled \cup Queued \cup {held, evicted}
    BY <1>1, <1>5, <1>6 DEF StagesOrdered
  <2>3. CASE UNCHANGED <<cur, delivered, lost>>
    BY <2>1, <2>3, <1>4, NothingMoves DEF Pending, InMemory
  <2>4. CASE cur' = 0 /\ cur \in delivered /\ UNCHANGED <<delivered, lost>>
    <3>1. cur # 0
      BY <1>1, <2>4 DEF TypeOK, Snap
    <3>2. Pending' = Pending \ {cur} /\ {cur} \in SUBSET Pending /\ Lost' = Lost
      BY <2>1, <2>2, <2>4, <3>1, <1>4 DEF Pending, InMemory
    <3> QED
      BY <2>1, <2>4, <3>2 DEF OutboxStep
  <2>5. CASE /\ UNCHANGED <<cur, lost>>
             /\ \E s \in 1 .. collected : delivered' = delivered \cup {s}
    <3>1. UNCHANGED <<Pending, Lost>>
      BY <2>1, <2>5, <1>4 DEF Pending, InMemory
    <3> QED
      BY <2>1, <2>5, <3>1 DEF OutboxStep
  <2>6. CASE /\ cur' = 0 /\ cur # 0
             /\ \E c \in Causes \ {"squeezed"} : Lose(c, {cur})
             /\ UNCHANGED delivered
    <3>1. Pending' = Pending \ {cur} /\ {cur} \in SUBSET Pending
      BY <2>1, <2>2, <2>6 DEF Pending, InMemory
    <3>2. Lost' = Lost \cup {cur}
      BY <2>6, <1>1, LoseLost DEF TypeOK
    <3> QED
      BY <2>1, <2>6, <3>1, <3>2 DEF OutboxStep
  <2> QED
    BY <1>7, <2>3, <2>4, <2>5, <2>6 DEF Quiet
<1>8. CASE Collect
  <2>1. /\ held = 0 /\ held' = collected + 1 /\ collected' = collected + 1 /\ collected + 1 # 0
        /\ UNCHANGED <<spool, queue, evicted, cur, delivered, lost>>
    BY <1>1, <1>8 DEF Collect, ControlOK, TypeOK
  <2>2. Pending' = Pending \cup {collected + 1} /\ Lost' = Lost
    BY <2>1, <1>2, <1>3, <1>4 DEF Pending, InMemory
  <2> QED
    BY <2>1, <2>2 DEF OutboxStep
<1>9. CASE EnqueuePut
  <2>1. /\ Queued' = Queued \cup {held} /\ held' = 0
        /\ UNCHANGED <<collected, spool, evicted, cur, delivered, lost>>
    BY <1>9, QueuedStep DEF EnqueuePut
  <2>2. Pending' = Pending /\ Lost' = Lost
    BY <2>1, <1>2, <1>4, <1>5 DEF Pending, InMemory
  <2> QED
    BY <2>1, <2>2, NothingMoves
<1>10. CASE EnqueueEvict
  <2>1. /\ Queued = Queued' \cup {Head(queue)} /\ Head(queue) \in Queued /\ Head(queue) # 0
        /\ \A t \in Queued' : Head(queue) < t
        /\ UNCHANGED <<collected, spool, held, cur, delivered>>
    BY <1>10, QueuedStep DEF EnqueueEvict
  <2>2. evicted = 0
    BY <1>1, <1>10 DEF EnqueueEvict, ControlOK
  <2>3. CASE SpoolEnabled
    <3>1. evicted' = Head(queue) /\ UNCHANGED lost
      BY <1>10, <2>3 DEF EnqueueEvict
    <3>2. Pending' = Pending /\ Lost' = Lost
      BY <2>1, <2>2, <3>1, <1>2, <1>4 DEF Pending, InMemory
    <3> QED
      BY <2>1, <3>2, NothingMoves
  <2>4. CASE ~SpoolEnabled
    <3>1. UNCHANGED evicted /\ Lose("squeezed", {Head(queue)})
      BY <1>10, <2>4 DEF EnqueueEvict
    <3>2. Lost' = Lost \cup {Head(queue)}
      BY <3>1, <1>1, LoseLost DEF TypeOK, Causes
    <3>3. Head(queue) \notin Spooled \cup Queued' \cup {held, evicted, cur}
      BY <2>1, <2>2, <1>1, <1>6 DEF StagesOrdered
    <3>4. Pending' = Pending \ {Head(queue)} /\ {Head(queue)} \in SUBSET Pending
      BY <2>1, <3>1, <3>3, <1>2 DEF Pending, InMemory
    <3> QED
      BY <2>1, <3>2, <3>4 DEF OutboxStep
  <2> QED
    BY <2>3, <2>4
<1>11. CASE PutInsert
  <2>1. /\ evicted # 0 /\ evicted' = 0 /\ lastId + 1 \notin Ids
        /\ UNCHANGED <<collected, queue, held, cur, delivered, lost>>
    BY <1>1, <1>11 DEF PutInsert, ControlOK, RowsOK, TypeOK
  <2>2. Spooled' = Spooled \cup {evicted}
    BY <1>11, <2>1 DEF PutInsert, Spooled, Ids
  <2>3. Pending' = Pending /\ Lost' = Lost
    BY <2>1, <2>2, <1>3, <1>4 DEF Pending, InMemory
  <2> QED
    BY <2>1, <2>3, NothingMoves
<1>12. CASE PutInsertFails
  <2>1. /\ evicted # 0 /\ evicted' = 0 /\ Lose("storage", {evicted})
        /\ UNCHANGED <<collected, spool, queue, held, cur, delivered>>
    BY <1>1, <1>12 DEF PutInsertFails, ControlOK
  <2>2. Lost' = Lost \cup {evicted}
    BY <2>1, <1>1, LoseLost DEF TypeOK, Causes
  <2>3. evicted \notin Spooled \cup Queued \cup {held, cur}
    BY <2>1, <1>1, <1>5, <1>6 DEF StagesOrdered
  <2>4. Pending' = Pending \ {evicted} /\ {evicted} \in SUBSET Pending
    BY <2>1, <2>3, <1>2, <1>3 DEF Pending, InMemory
  <2> QED
    BY <2>1, <2>2, <2>4 DEF OutboxStep
<1>13. CASE PutTrim
  <2> PICK old \in SUBSET Ids :
        /\ spool' = [i \in Ids \ old |-> spool[i]]
        /\ Lose("squeezed", {spool[i] : i \in old})
    BY <1>13 DEF PutTrim
  <2> DEFINE S == {spool[i] : i \in old}
  <2>1. UNCHANGED <<collected, queue, held, evicted, cur, delivered>>
    BY <1>13 DEF PutTrim
  <2>2. Lost' = Lost \cup S
    BY <1>1, LoseLost DEF TypeOK, Causes
  <2>3. Spooled' = {spool[i] : i \in Ids \ old}
    BY DEF Spooled, Ids
  <2>4. S \in SUBSET Spooled
    BY DEF Spooled
  <2>5. Spooled' = Spooled \ S
    BY <2>3, <1>1, UniqueRows DEF Spooled
  <2>6. S \cap (Queued \cup {held, evicted, cur}) = {}
    BY <2>4, <1>1, <1>5, <1>6 DEF StagesOrdered
  <2>7. Pending' = Pending \ S /\ S \in SUBSET Pending
    BY <2>1, <2>4, <2>5, <2>6, <1>3 DEF Pending, InMemory
  <2> QED
    BY <2>1, <2>2, <2>7 DEF OutboxStep
<1>14. CASE RunTake
  <2>1. /\ Queued = Queued' \cup {Head(queue)} /\ Head(queue) # 0 /\ cur' = Head(queue)
        /\ UNCHANGED <<collected, spool, held, evicted, delivered, lost>>
    BY <1>14, QueuedStep DEF RunTake
  <2>2. cur = 0
    BY <1>1, <1>14 DEF RunTake, ControlOK, Worker
  <2>3. Pending' = Pending /\ Lost' = Lost
    BY <2>1, <2>2, <1>2, <1>4 DEF Pending, InMemory
  <2> QED
    BY <2>1, <2>3, NothingMoves
<1>15. CASE DrainDelete
  <2>1. UNCHANGED <<collected, queue, held, evicted, cur, delivered, lost>>
    BY <1>15 DEF DrainDelete
  <2>2. spool' = [i \in Ids \ {peeked.id} |-> spool[i]]
    BY <1>15 DEF DrainDelete
  <2>3. CASE peeked.id \in Ids
    <3> DEFINE s == spool[peeked.id]
    <3>1. s \in delivered /\ s \in Spooled
      BY <2>3, <1>1, <1>15 DEF DrainDelete, Worker, ControlOK, RowsOK, TypeOK, NoRow, Snap, Spooled
    <3>2. Spooled' = {spool[i] : i \in Ids \ {peeked.id}}
      BY <2>2 DEF Spooled, Ids
    <3>3. Spooled' = Spooled \ {s}
      BY <3>2, <2>3, <1>1, UniqueRows DEF Spooled
    <3>4. s \notin Queued \cup {held, evicted, cur}
      BY <3>1, <1>1, <1>5, <1>6 DEF StagesOrdered
    <3>5. Pending' = Pending \ {s} /\ {s} \in SUBSET Pending /\ Lost' = Lost
      BY <2>1, <3>1, <3>3, <3>4, <1>3, <1>4 DEF Pending, InMemory
    <3> QED
      BY <2>1, <3>1, <3>5 DEF OutboxStep
  <2>4. CASE peeked.id \notin Ids
    <3>1. Spooled' = Spooled
      BY <2>2, <2>4 DEF Spooled, Ids
    <3>2. Pending' = Pending /\ Lost' = Lost
      BY <2>1, <3>1, <1>3, <1>4 DEF Pending, InMemory
    <3> QED
      BY <2>1, <3>2, NothingMoves
  <2> QED
    BY <2>3, <2>4
<1>16. CASE LoseMemory
  <2>1. /\ held' = 0 /\ evicted' = 0 /\ cur' = 0 /\ Queued' = {}
        /\ Lose("memory", InMemory)
        /\ UNCHANGED <<collected, spool, delivered>>
    BY <1>16 DEF LoseMemory, Queued
  <2>2. Lost' = Lost \cup InMemory
    BY <2>1, <1>1, LoseLost DEF TypeOK, Causes
  <2>3. InMemory \cap Spooled = {}
    BY <1>1, <1>5, <1>6 DEF InMemory, StagesOrdered
  <2>4. Pending' = Pending \ InMemory /\ InMemory \in SUBSET Pending
    BY <2>1, <2>3, <1>2 DEF Pending, InMemory
  <2> QED
    BY <2>1, <2>2, <2>4 DEF OutboxStep
<1> QED
  BY <1>1, <1>7, <1>8, <1>9, <1>10, <1>11, <1>12, <1>13, <1>14, <1>15, <1>16, QuietSteps

LEMMA AccountedStep ==
  ASSUME IInv, OutboxStep
  PROVE  Accounted'
<1>1. Accounted /\ collected \in Nat
  BY DEF IInv, TypeOK
<1>2. 1 .. collected + 1 = (1 .. collected) \cup {collected + 1}
  BY <1>1
<1> QED
  BY <1>1, <1>2 DEF OutboxStep, Accounted

-----------------------------------------------------------------------------
(* Theorems.                                                               *)

LEMMA Stutter ==
  ASSUME IInv, UNCHANGED vars
  PROVE  IInv'
<1> USE DEF vars, tickerVars, spoolVars, workerVars, hubVars
<1>1. TypeOK'
  BY DEF IInv, TypeOK, Ids
<1>2. UNCHANGED <<Ids, Spooled, Queued, Target, Lost, Pending>>
  BY DEF Ids, Spooled, Queued, Target, Lost, InMemory, Pending
<1>3. ControlOK' /\ RowsOK'
  BY <1>2 DEF IInv, ControlOK, RowsOK
<1>4. PipelineOrdered' /\ Accounted' /\ DropsOldest'
  BY <1>2 DEF IInv, PipelineOrdered, SpoolOrdered, StagesOrdered, Accounted, DropsOldest
<1> QED
  BY <1>1, <1>3, <1>4 DEF IInv

LEMMA Initially ==
  ASSUME ConstantsAssumption, Init
  PROVE  IInv
<1> USE DEF Init, NoRow
<1>1. Ids = {} /\ Spooled = {} /\ Queued = {} /\ Pending = {} /\ Lost = {}
  BY DEF Ids, Spooled, Queued, InMemory, Pending, Lost, Causes
<1>2. TypeOK
  BY <1>1 DEF ConstantsAssumption, TypeOK, Ids, Causes
<1>3. ControlOK
  BY DEF ControlOK
<1>4. RowsOK
  BY <1>1, FS_EmptySet DEF RowsOK
<1>5. PipelineOrdered /\ DropsOldest
  BY <1>1 DEF PipelineOrdered, SpoolOrdered, StagesOrdered, DropsOldest, Causes
<1>6. Accounted
  BY <1>1 DEF Accounted
<1> QED
  BY <1>2, <1>3, <1>4, <1>5, <1>6 DEF IInv

(* The inductive invariant: with it, the worker never takes a late answer  *)
(* for the one it waits for, and never deletes a row it has not sent.      *)
THEOREM Invariance == Spec => []IInv
<1>1. Init => IInv
  BY Initially, ConstantsAssumption
<1>2. IInv /\ [Next]_vars => IInv'
  <2>1. ASSUME IInv, Next
        PROVE  IInv'
    <3>1. TypeOK' /\ ControlOK' /\ RowsOK' /\ PipelineOrdered' /\ DropsOldest'
      BY <2>1, ConstantsAssumption, TypeStep, ControlStep, RowsStep, OrderStep, DropsStep DEF IInv
    <3>2. Accounted'
      BY <2>1, ConstantsAssumption, Simulation, AccountedStep
    <3> QED
      BY <3>1, <3>2 DEF IInv
  <2> QED
    BY <2>1, Stutter
<1> QED
  BY <1>1, <1>2, PTL DEF Spec

(* Every variable keeps its type.                                          *)
THEOREM TypeCorrect == Spec => []TypeOK
<1>1. IInv => TypeOK
  BY DEF IInv
<1> QED
  BY <1>1, Invariance, PTL

(* The stages hold the snapshots oldest first, none of them in two stages. *)
THEOREM StagesStayOrdered == Spec => []PipelineOrdered
<1>1. IInv => PipelineOrdered
  BY DEF IInv
<1> QED
  BY <1>1, Invariance, PTL

(* No snapshot is lost without a recorded cause.                           *)
THEOREM NothingUnaccounted == Spec => []Accounted
<1>1. IInv => Accounted
  BY DEF IInv
<1> QED
  BY <1>1, Invariance, PTL

(* Only the oldest snapshots give way when there is no room.               *)
THEOREM OldestGiveWay == Spec => []DropsOldest
<1>1. IInv => DropsOldest
  BY DEF IInv
<1> QED
  BY <1>1, Invariance, PTL

(* The push path implements the outbox: at-least-once delivery of every    *)
(* snapshot that is not given up on the record.                            *)
THEOREM ImplementsOutbox == Spec => OutboxSpec
<1>1. Init => Abstract!Init
  BY DEF Init, Abstract!Init, Pending, InMemory, Queued, Spooled, Ids, Lost, Causes
<1>2. IInv /\ [Next]_vars => [Abstract!Next]_(Abstract!vars)
  <2>1. ASSUME IInv, Next
        PROVE  Abstract!Next
    BY <2>1, ConstantsAssumption, Simulation, OutboxStepIsNext
  <2>2. ASSUME UNCHANGED vars
        PROVE  UNCHANGED Abstract!vars
    BY <2>2 DEF vars, tickerVars, spoolVars, workerVars, hubVars, Abstract!vars,
                Pending, InMemory, Queued, Spooled, Ids, Lost
  <2> QED
    BY <2>1, <2>2
<1> QED
  BY <1>1, <1>2, Invariance, PTL DEF Spec, OutboxSpec, Abstract!Spec

-----------------------------------------------------------------------------
(* The size of the spool.                                                  *)

(* A trim keeps exactly SpoolMax rows.                                     *)
LEMMA TrimKeepsMax ==
  ASSUME ConstantsAssumption, TypeOK, RowsOK, NEW old \in SUBSET Ids,
         Cardinality(old) = Overflow
  PROVE  Cardinality(Ids \ old) = SpoolMax
<1>1. IsFiniteSet(Ids) /\ IsFiniteSet(old)
  BY FS_Subset DEF RowsOK
<1>2. Ids \cap old = old
  OBVIOUS
<1>3. Cardinality(Ids \ old) = Cardinality(Ids) - Cardinality(old)
  BY <1>1, <1>2, FS_Difference
<1>4. Cardinality(Ids) \in Nat
  BY <1>1, FS_CardinalityType
<1> QED
  BY <1>3, <1>4 DEF Overflow, ConstantsAssumption

(* A row leaves the spool delivered, or squeezed out by SpoolMax newer     *)
(* ones.                                                                   *)
THEOREM RowsLeaveSafely == Spec => RowsLeaveDeliveredOrSqueezed
<1> DEFINE Safe == \A i \in Ids \ DOMAIN spool' :
                      \/ spool[i] \in delivered
                      \/ /\ Cardinality(DOMAIN spool') >= SpoolMax
                         /\ \A j \in DOMAIN spool' : i < j
<1>1. IInv /\ [Next]_vars => [Safe]_vars
  <2>1. ASSUME UNCHANGED spool
        PROVE  Safe
    BY <2>1 DEF Ids
  <2>2. ASSUME IInv, PutTrim
        PROVE  Safe
    <3> PICK old \in SUBSET Ids :
          /\ Oldest(old, Overflow)
          /\ spool' = [i \in Ids \ old |-> spool[i]]
      BY <2>2 DEF PutTrim
    <3>1. Cardinality(Ids \ old) = SpoolMax
      BY <2>2, ConstantsAssumption, TrimKeepsMax DEF IInv, Oldest
    <3> QED
      BY <3>1, ConstantsAssumption DEF Oldest, Ids, ConstantsAssumption
  <2>3. ASSUME IInv, DrainDelete
        PROVE  Safe
    BY <2>3 DEF IInv, ControlOK, RowsOK, TypeOK, DrainDelete, Worker, NoRow, Snap, Ids
  <2>4. ASSUME IInv, PutInsert
        PROVE  Safe
    BY <2>4 DEF PutInsert, Ids
  <2>5. ASSUME IInv, Next
        PROVE  Safe
    <3>1. \/ UNCHANGED spool \/ PutTrim \/ DrainDelete \/ PutInsert
      BY <2>5, QuietSteps
      DEF IInv, Quiet, Collect, EnqueuePut, EnqueueEvict, PutInsertFails, RunTake, LoseMemory,
          spoolVars
    <3> QED
      BY <2>1, <2>2, <2>3, <2>4, <2>5, <3>1
  <2> QED
    BY <2>5
<1> QED
  BY <1>1, Invariance, PTL DEF Spec, RowsLeaveDeliveredOrSqueezed
=============================================================================
