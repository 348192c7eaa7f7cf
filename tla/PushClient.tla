----------------------------- MODULE PushClient -----------------------------
(***************************************************************************)
(* The agent's push path: the ticker goroutine that calls Client.Enqueue,  *)
(* the worker goroutine in Client.Run, the SQLite spool they share under   *)
(* Spool.mu, the HTTP request between the worker and the hub, and the end  *)
(* and restart of the agent process.                                       *)
(*                                                                         *)
(* A snapshot is the number of the tick that collected it, so < is the     *)
(* order of collection.  Times (backoff, HubRetryTick, the HTTP timeout)   *)
(* are left out: a timer is an action that may fire.                       *)
(***************************************************************************)
EXTENDS Naturals, Sequences, FiniteSets

CONSTANTS
    QueueSize,     \* capacity of Client.queue
    SpoolMax,      \* Spool.maxItems
    MaxRetries,    \* attempts of one sendBatch
    SpoolEnabled,  \* FALSE: Client.spool is nil
    Poison,        \* snapshots the hub answers with a 4xx
    MaxSnaps,      \* bound: snapshots collected in a behaviour
    MaxFaults,     \* bound: failed requests and failed SQLite statements
    MaxHalts       \* bound: crashes and shutdowns

ASSUME ConstantsAssumption ==
    /\ QueueSize \in Nat \ {0}
    /\ SpoolMax \in Nat \ {0}
    /\ MaxRetries \in Nat \ {0}
    /\ SpoolEnabled \in BOOLEAN
    /\ Poison \subseteq Nat \ {0}
    /\ MaxSnaps \in Nat
    /\ MaxFaults \in Nat
    /\ MaxHalts \in Nat

VARIABLES
    phase,      \* "up", "stopping" (ctx cancelled) or "down"
    collected,  \* snapshots collected so far
    cpc,        \* where the ticker goroutine is
    held,       \* the snapshot inside Enqueue, 0 if none
    evicted,    \* the oldest snapshot popped from the full queue, 0 if none
    queue,      \* the channel Client.queue
    spool,      \* table push_spool: row id -> snapshot
    lastId,     \* the last AUTOINCREMENT id given out
    wpc,        \* where the worker goroutine is
    cur,        \* the queued snapshot the worker took, 0 if none
    peeked,     \* the spool row being drained, NoRow if none
    attempt,    \* number of the attempt in sendBatch
    reply,      \* the hub's answer to the outstanding request
    wire,       \* requests the hub has not handled yet
    delivered,  \* snapshots the hub ingested
    lost,       \* cause -> snapshots given up for it (a record for the properties)
    faults,     \* failures so far
    halts       \* crashes and shutdowns so far

tickerVars == <<collected, cpc, held, evicted>>
spoolVars  == <<spool, lastId>>
workerVars == <<wpc, cur, peeked, attempt>>
hubVars    == <<wire, delivered>>
vars == <<phase, tickerVars, queue, spoolVars, workerVars, reply, hubVars, lost, faults, halts>>

Snap   == Nat \ {0}
NoRow  == [id |-> 0, snap |-> 0]
Causes == {"memory", "squeezed", "rejected", "storage"}

Ids      == DOMAIN spool
Spooled  == {spool[i] : i \in Ids}
Queued   == {queue[i] : i \in DOMAIN queue}
InMemory == (Queued \cup {held, evicted, cur}) \ {0}
Pending  == InMemory \cup Spooled
Lost     == UNION {lost[c] : c \in Causes}

Lose(cause, S) == lost' = [lost EXCEPT ![cause] = @ \cup S]
Fault == faults < MaxFaults /\ faults' = faults + 1

\* The snapshot of the outstanding request.
Target == IF peeked = NoRow THEN cur ELSE peeked.snap

Alive      == phase # "down"
Cancelled  == phase = "stopping"
\* Spool.mu is held from the INSERT of a Put to the end of its trim.
SpoolFree  == cpc # "trim"

Init ==
    /\ phase = "up"
    /\ collected = 0 /\ cpc = "idle" /\ held = 0 /\ evicted = 0
    /\ queue = <<>>
    /\ spool = [i \in {} |-> 0] /\ lastId = 0
    /\ wpc = "drain" /\ cur = 0 /\ peeked = NoRow /\ attempt = 0
    /\ reply = "none"
    /\ wire = {} /\ delivered = {}
    /\ lost = [c \in Causes |-> {}]
    /\ faults = 0 /\ halts = 0

-----------------------------------------------------------------------------
(* The ticker goroutine: collect, then Enqueue.                            *)

\* After the ctx is cancelled select may still choose a ready tick.
Collect ==
    /\ Alive /\ cpc = "idle" /\ collected < MaxSnaps
    /\ collected' = collected + 1
    /\ held' = collected + 1
    /\ cpc' = "offer"
    /\ UNCHANGED <<phase, evicted, queue, spoolVars, workerVars, reply, hubVars, lost, faults, halts>>

\* The first select of Enqueue, when the channel has room.
EnqueuePut ==
    /\ Alive /\ cpc = "offer" /\ Len(queue) < QueueSize
    /\ queue' = Append(queue, held)
    /\ held' = 0
    /\ cpc' = "idle"
    /\ UNCHANGED <<phase, collected, evicted, spoolVars, workerVars, reply, hubVars, lost, faults, halts>>

\* Its default branch, when the channel is full.
EnqueueFull ==
    /\ Alive /\ cpc = "offer" /\ Len(queue) >= QueueSize
    /\ cpc' = "evict"
    /\ UNCHANGED <<phase, collected, held, evicted, queue, spoolVars, workerVars, reply, hubVars, lost, faults, halts>>

\* Mutated form of EnqueueEvict: the newest queued snapshot gives way.
EvictNewest ==
    /\ Alive /\ cpc = "evict" /\ queue # <<>>
    /\ queue' = SubSeq(queue, 1, Len(queue) - 1)
    /\ IF SpoolEnabled
       THEN /\ evicted' = queue[Len(queue)]
            /\ cpc' = "insert"
            /\ UNCHANGED lost
       ELSE /\ cpc' = "offer"
            /\ Lose("squeezed", {queue[Len(queue)]})
            /\ UNCHANGED evicted
    /\ UNCHANGED <<phase, collected, held, spoolVars, workerVars, reply, hubVars, faults, halts>>

\* The second select: the worker may have made room, or emptied the queue,
\* since the first one found it full.
EnqueueEvict ==
    /\ Alive /\ cpc = "evict" /\ queue # <<>>
    /\ queue' = Tail(queue)
    /\ IF SpoolEnabled
       THEN /\ evicted' = Head(queue)
            /\ cpc' = "insert"
            /\ UNCHANGED lost
       ELSE /\ cpc' = "offer"
            /\ Lose("squeezed", {Head(queue)})
            /\ UNCHANGED evicted
    /\ UNCHANGED <<phase, collected, held, spoolVars, workerVars, reply, hubVars, faults, halts>>

EnqueueRetry ==
    /\ Alive /\ cpc = "evict" /\ queue = <<>>
    /\ cpc' = "offer"
    /\ UNCHANGED <<phase, collected, held, evicted, queue, spoolVars, workerVars, reply, hubVars, lost, faults, halts>>

PutInsert ==
    /\ Alive /\ cpc = "insert"
    /\ lastId' = lastId + 1
    /\ spool' = [i \in Ids \cup {lastId + 1} |-> IF i = lastId + 1 THEN evicted ELSE spool[i]]
    /\ evicted' = 0
    /\ cpc' = "trim"
    /\ UNCHANGED <<phase, collected, held, queue, workerVars, reply, hubVars, lost, faults, halts>>

PutInsertFails ==
    /\ Alive /\ cpc = "insert" /\ Fault
    /\ Lose("storage", {evicted})
    /\ evicted' = 0
    /\ cpc' = "offer"
    /\ UNCHANGED <<phase, collected, held, queue, spoolVars, workerVars, reply, hubVars, halts>>

Overflow == Cardinality(Ids) - SpoolMax

PutTrimNothing ==
    /\ Alive /\ cpc = "trim" /\ Cardinality(Ids) <= SpoolMax
    /\ cpc' = "offer"
    /\ UNCHANGED <<phase, collected, held, evicted, queue, spoolVars, workerVars, reply, hubVars, lost, faults, halts>>

\* The oldest rows of a set of n of them.
Oldest(old, n) ==
    /\ Cardinality(old) = n
    /\ \A i \in old, j \in Ids \ old : i < j

PutTrim ==
    /\ Alive /\ cpc = "trim" /\ Cardinality(Ids) > SpoolMax
    /\ \E old \in SUBSET Ids :
          /\ Oldest(old, Overflow)
          /\ spool' = [i \in Ids \ old |-> spool[i]]
          /\ Lose("squeezed", {spool[i] : i \in old})
    /\ cpc' = "offer"
    /\ UNCHANGED <<phase, collected, held, evicted, queue, lastId, workerVars, reply, hubVars, faults, halts>>

\* Put reports the error of the trim, but the row stays.
PutTrimFails ==
    /\ Alive /\ cpc = "trim" /\ Fault
    /\ cpc' = "offer"
    /\ UNCHANGED <<phase, collected, held, evicted, queue, spoolVars, workerVars, reply, hubVars, lost, halts>>

Enqueue ==
    \/ EnqueuePut \/ EnqueueFull \/ EnqueueEvict \/ EnqueueRetry
    \/ PutInsert \/ PutTrimNothing \/ PutTrim
EnqueueFaulty == PutInsertFails \/ PutTrimFails

-----------------------------------------------------------------------------
(* The worker goroutine: Run, drainSpoolUntilBlocked, flushUntilSent and   *)
(* sendBatch.  A batch started from "drain" has peeked # NoRow, one that   *)
(* flushes the queued snapshot has peeked = NoRow and cur # 0.             *)

Worker(pc) == Alive /\ wpc = pc

\* Mutated form of RunTick: the tick does not drain.
TickIgnored ==
    /\ Worker("select")
    /\ UNCHANGED vars

\* The three cases of the select in Run.
RunTick ==
    /\ Worker("select")
    /\ wpc' = "drain"
    /\ UNCHANGED <<phase, tickerVars, queue, spoolVars, cur, peeked, attempt, reply, hubVars, lost, faults, halts>>

RunTake ==
    /\ Worker("select") /\ queue # <<>>
    /\ cur' = Head(queue)
    /\ queue' = Tail(queue)
    /\ wpc' = "drain"
    /\ UNCHANGED <<phase, tickerVars, spoolVars, peeked, attempt, reply, hubVars, lost, faults, halts>>

RunDone ==
    /\ Worker("select") /\ Cancelled
    /\ wpc' = "exited"
    /\ UNCHANGED <<phase, tickerVars, queue, spoolVars, cur, peeked, attempt, reply, hubVars, lost, faults, halts>>

\* drainSpoolUntilBlocked returned: back to select, or on to flushUntilSent.
DrainReturns ==
    /\ peeked' = NoRow
    /\ IF cur = 0
       THEN wpc' = "select" /\ attempt' = 0
       ELSE wpc' = "send" /\ attempt' = 1
    /\ UNCHANGED cur

DrainEmpty ==
    /\ Worker("drain") /\ SpoolFree /\ Ids = {}
    /\ DrainReturns
    /\ UNCHANGED <<phase, tickerVars, queue, spoolVars, reply, hubVars, lost, faults, halts>>

DrainPeekFails ==
    /\ Worker("drain") /\ SpoolFree /\ SpoolEnabled /\ Fault
    /\ DrainReturns
    /\ UNCHANGED <<phase, tickerVars, queue, spoolVars, reply, hubVars, lost, halts>>

\* The row Peek returns.
IsOldest(i) == i \in Ids /\ \A j \in Ids : i <= j

DrainPeek ==
    /\ Worker("drain") /\ SpoolFree
    /\ \E i \in Ids : IsOldest(i) /\ peeked' = [id |-> i, snap |-> spool[i]]
    /\ wpc' = "send"
    /\ attempt' = 1
    /\ UNCHANGED <<phase, tickerVars, queue, spoolVars, cur, reply, hubVars, lost, faults, halts>>

\* Delete of a row the trim has already removed changes nothing.
DrainDelete ==
    /\ Worker("delete") /\ SpoolFree
    /\ spool' = [i \in Ids \ {peeked.id} |-> spool[i]]
    /\ peeked' = NoRow
    /\ wpc' = "drain"
    /\ attempt' = 0
    /\ UNCHANGED <<phase, tickerVars, queue, lastId, cur, reply, hubVars, lost, faults, halts>>

\* The error is logged and the loop goes on: the row will be sent again.
DrainDeleteFails ==
    /\ Worker("delete") /\ SpoolFree /\ Fault
    /\ peeked' = NoRow
    /\ wpc' = "drain"
    /\ attempt' = 0
    /\ UNCHANGED <<phase, tickerVars, queue, spoolVars, cur, reply, hubVars, lost, halts>>

\* sendBatch returned nil.
BatchOk ==
    /\ reply' = "none"
    /\ IF peeked # NoRow
       THEN wpc' = "delete" /\ UNCHANGED <<cur, attempt>>
       ELSE wpc' = "select" /\ cur' = 0 /\ attempt' = 0
    /\ UNCHANGED <<peeked, lost>>

\* It returned a permanentError: the drain stops at the row, the flush drops
\* the snapshot.
BatchRejected ==
    /\ reply' = "none"
    /\ IF peeked # NoRow
       THEN DrainReturns /\ UNCHANGED lost
       ELSE /\ wpc' = "select" /\ cur' = 0 /\ attempt' = 0
            /\ Lose("rejected", {cur})
            /\ UNCHANGED peeked

\* Mutated form of BatchFailed: the flush gives up after one batch.
BatchDropped ==
    /\ reply' = "none"
    /\ IF peeked # NoRow
       THEN DrainReturns
       ELSE wpc' = "select" /\ cur' = 0 /\ attempt' = 0 /\ UNCHANGED peeked
    /\ UNCHANGED lost

\* It ran out of attempts, or the ctx was cancelled.
BatchFailed ==
    /\ reply' = "none"
    /\ IF peeked # NoRow
       THEN DrainReturns
       ELSE wpc' = "pause" /\ attempt' = 0 /\ UNCHANGED <<cur, peeked>>
    /\ UNCHANGED lost

\* Mutated form of AttemptFailed: one attempt too many.
AttemptTooMany ==
    IF attempt <= MaxRetries
    THEN /\ reply' = "none"
         /\ wpc' = "backoff"
         /\ UNCHANGED <<cur, peeked, attempt, lost>>
    ELSE BatchFailed

\* Mutated form of AttemptFailed: no error left after the last attempt.
ExhaustedIsNil ==
    IF attempt < MaxRetries
    THEN /\ reply' = "none"
         /\ wpc' = "backoff"
         /\ UNCHANGED <<cur, peeked, attempt, lost>>
    ELSE BatchOk

\* One attempt failed with an error that is not permanent.
AttemptFailed ==
    IF attempt < MaxRetries
    THEN /\ reply' = "none"
         /\ wpc' = "backoff"
         /\ UNCHANGED <<cur, peeked, attempt, lost>>
    ELSE BatchFailed

SendRequest ==
    /\ Worker("send") /\ ~Cancelled
    /\ wire' = wire \cup {Target}
    /\ wpc' = "await"
    /\ UNCHANGED <<phase, tickerVars, queue, spoolVars, cur, peeked, attempt, reply, delivered, lost, faults, halts>>

\* http.Do returns at once on a cancelled ctx.
SendCancelled ==
    /\ Worker("send") /\ Cancelled
    /\ AttemptFailed
    /\ UNCHANGED <<phase, tickerVars, queue, spoolVars, hubVars, faults, halts>>

AwaitOk ==
    /\ Worker("await") /\ reply = "ok"
    /\ BatchOk
    /\ UNCHANGED <<phase, tickerVars, queue, spoolVars, hubVars, faults, halts>>

AwaitRejected ==
    /\ Worker("await") /\ reply = "rejected"
    /\ BatchRejected
    /\ UNCHANGED <<phase, tickerVars, queue, spoolVars, hubVars, faults, halts>>

AwaitBusy ==
    /\ Worker("await") /\ reply = "busy"
    /\ AttemptFailed
    /\ UNCHANGED <<phase, tickerVars, queue, spoolVars, hubVars, faults, halts>>

\* The HTTP timeout, or a connection cut after the hub has answered: the
\* request may be on the wire still, or have been ingested.
AwaitTimeout ==
    /\ Worker("await") /\ Fault
    /\ AttemptFailed
    /\ UNCHANGED <<phase, tickerVars, queue, spoolVars, hubVars, halts>>

AwaitCancelled ==
    /\ Worker("await") /\ Cancelled
    /\ AttemptFailed
    /\ UNCHANGED <<phase, tickerVars, queue, spoolVars, hubVars, faults, halts>>

BackoffTimer ==
    /\ Worker("backoff")
    /\ attempt' = attempt + 1
    /\ wpc' = "send"
    /\ UNCHANGED <<phase, tickerVars, queue, spoolVars, cur, peeked, reply, hubVars, lost, faults, halts>>

BackoffCancelled ==
    /\ Worker("backoff") /\ Cancelled
    /\ BatchFailed
    /\ UNCHANGED <<phase, tickerVars, queue, spoolVars, hubVars, faults, halts>>

FlushTimer ==
    /\ Worker("pause")
    /\ attempt' = 1
    /\ wpc' = "send"
    /\ UNCHANGED <<phase, tickerVars, queue, spoolVars, cur, peeked, reply, hubVars, lost, faults, halts>>

FlushCancelled ==
    /\ Worker("pause") /\ Cancelled
    /\ Lose("memory", {cur})
    /\ cur' = 0
    /\ wpc' = "select"
    /\ UNCHANGED <<phase, tickerVars, queue, spoolVars, peeked, attempt, reply, hubVars, faults, halts>>

-----------------------------------------------------------------------------
(* The hub's side of a request (web.handleIngest), and the network.  Two   *)
(* copies of one snapshot on the wire are one element of the set: ingesting *)
(* a snapshot twice leaves delivered as it was.                            *)

Outstanding(s) == Worker("await") /\ Target = s /\ reply = "none"
Answer(s, r) == reply' = IF Outstanding(s) THEN r ELSE reply

HubIngest(s) ==
    /\ s \in wire
    /\ wire' = wire \ {s}
    /\ IF s \in Poison
       THEN Answer(s, "rejected") /\ UNCHANGED delivered
       ELSE Answer(s, "ok") /\ delivered' = delivered \cup {s}
    /\ UNCHANGED <<phase, tickerVars, queue, spoolVars, workerVars, lost, faults, halts>>

\* A refused connection, a 5xx, or a request that never arrives.
HubUnavailable(s) ==
    /\ s \in wire /\ Fault
    /\ wire' = wire \ {s}
    /\ Answer(s, "busy")
    /\ UNCHANGED <<phase, tickerVars, queue, spoolVars, workerVars, delivered, lost, halts>>

-----------------------------------------------------------------------------
(* The agent process.                                                      *)

\* SIGTERM: the root ctx is cancelled.
Shutdown ==
    /\ phase = "up" /\ halts < MaxHalts
    /\ halts' = halts + 1
    /\ phase' = "stopping"
    /\ UNCHANGED <<tickerVars, queue, spoolVars, workerVars, reply, hubVars, lost, faults>>

\* The end of the process loses its memory and keeps the spool file.
LoseMemory ==
    /\ phase' = "down"
    /\ Lose("memory", InMemory)
    /\ cpc' = "idle" /\ held' = 0 /\ evicted' = 0
    /\ queue' = <<>>
    /\ wpc' = "drain" /\ cur' = 0 /\ peeked' = NoRow /\ attempt' = 0
    /\ reply' = "none"
    /\ UNCHANGED <<collected, spoolVars, hubVars, faults>>

\* runner.Run returns once the ticker goroutine has ended, or after 5 s, and
\* never waits for the worker: the process may end at any point of it.
Exit ==
    /\ Cancelled
    /\ LoseMemory
    /\ UNCHANGED halts

Crash ==
    /\ phase = "up" /\ halts < MaxHalts
    /\ halts' = halts + 1
    /\ LoseMemory

Restart ==
    /\ phase = "down"
    /\ phase' = "up"
    /\ UNCHANGED <<tickerVars, queue, spoolVars, workerVars, reply, hubVars, lost, faults, halts>>

-----------------------------------------------------------------------------
Run ==
    \/ RunTick \/ RunTake \/ RunDone
    \/ DrainEmpty \/ DrainPeek \/ DrainDelete
    \/ SendRequest \/ SendCancelled
    \/ AwaitOk \/ AwaitRejected \/ AwaitBusy \/ AwaitCancelled
    \/ BackoffTimer \/ BackoffCancelled
    \/ FlushTimer \/ FlushCancelled
RunFaulty == DrainPeekFails \/ DrainDeleteFails \/ AwaitTimeout

Next ==
    \/ Collect
    \/ Enqueue \/ EnqueueFaulty
    \/ Run \/ RunFaulty
    \/ \E s \in wire : HubIngest(s) \/ HubUnavailable(s)
    \/ Shutdown \/ Exit \/ Crash \/ Restart

Spec == Init /\ [][Next]_vars

\* The goroutines are scheduled, the timers fire, select does not starve a
\* ready case (SF), the hub answers what reaches it, and the service manager
\* restarts the agent (docker-compose.yml: restart: unless-stopped).
Fairness ==
    /\ WF_vars(Enqueue)
    /\ WF_vars(Run) /\ SF_vars(RunTake)
    /\ \A s \in 1 .. MaxSnaps : WF_vars(HubIngest(s))
    /\ WF_vars(Exit) /\ WF_vars(Restart)
FairSpec == Spec /\ Fairness

-----------------------------------------------------------------------------
TypeOK ==
    /\ phase \in {"up", "stopping", "down"}
    /\ collected \in Nat
    /\ cpc \in {"idle", "offer", "evict", "insert", "trim"}
    /\ held \in Nat /\ evicted \in Nat /\ cur \in Nat
    /\ queue \in Seq(Snap)
    /\ Ids \subseteq Nat /\ spool \in [Ids -> Snap]
    /\ lastId \in Nat
    /\ wpc \in {"select", "drain", "send", "await", "backoff", "delete", "pause", "exited"}
    /\ peeked \in [id : Nat, snap : Nat]
    /\ attempt \in 0 .. MaxRetries
    /\ reply \in {"none", "ok", "rejected", "busy"}
    /\ wire \subseteq Snap /\ delivered \subseteq Snap
    /\ lost \in [Causes -> SUBSET Snap]
    /\ faults \in Nat /\ halts \in Nat

(* The stages of the pipeline hold the snapshots oldest first: each spool  *)
(* row is older than the rows after it, than the snapshot on its way to    *)
(* the spool, than everything queued and than the one being offered; the   *)
(* snapshot the worker took from the queue is never in the spool as well.  *)
(* So Peek, which takes the smallest id, drains the oldest snapshot.       *)
SpoolOrdered == \A i, j \in Ids : i < j => spool[i] < spool[j]
StagesOrdered ==
    /\ \A i, j \in DOMAIN queue : i < j => queue[i] < queue[j]
    /\ \A s \in Spooled : \A t \in (Queued \cup {evicted, held}) \ {0} : s < t
    /\ evicted # 0 => \A t \in (Queued \cup {held}) \ {0} : evicted < t
    /\ held # 0 => \A t \in Queued : t < held
    /\ cur # 0 => \A t \in (Queued \cup {held}) \ {0} : cur < t
    /\ cur # 0 => cur \notin Spooled \cup {evicted}
PipelineOrdered == SpoolOrdered /\ StagesOrdered

(* Every snapshot collected is still held by the agent, was ingested by    *)
(* the hub, or was given up for a recorded cause.                          *)
Accounted == 1 .. collected = Pending \cup delivered \cup Lost

(* What is given up for lack of room is older than everything that is kept *)
(* in the spool, the queue or Enqueue (drop-oldest, never a newer sample). *)
DropsOldest ==
    \A s \in lost["squeezed"] :
        \A t \in (Spooled \cup Queued \cup {held, evicted}) \ {0} : s < t

(* What the invariants above rest on: how the program counters, the stages *)
(* and the requests of the two goroutines fit together.                    *)
ControlOK ==
    /\ cpc = "idle" <=> held = 0
    /\ cpc = "insert" <=> evicted # 0
    /\ cpc = "insert" => SpoolEnabled
    /\ held # 0 => held = collected
    /\ wpc \in {"select", "exited"} => cur = 0
    /\ wpc \in {"select", "exited", "drain", "pause"} => peeked = NoRow
    /\ wpc = "pause" => cur # 0
    /\ wpc = "backoff" => attempt < MaxRetries
    /\ wpc \in {"send", "await", "backoff"} => Target # 0
    /\ wpc = "delete" => peeked.snap \in delivered
    /\ reply # "none" => wpc = "await"
    /\ reply = "ok" => Target \in delivered
    /\ wire \subseteq 1 .. collected

(* The batch the worker sends for a spool row carries that row's snapshot, *)
(* unless the trim removed the row meanwhile: ids are never reused, so     *)
(* Delete(id) cannot hit another snapshot.                                 *)
RowsOK ==
    /\ IsFiniteSet(Ids)
    /\ \A i \in Ids : i <= lastId
    /\ ~SpoolEnabled => Ids = {}
    /\ peeked # NoRow =>
          /\ peeked.snap # 0 /\ peeked.id <= lastId
          /\ \/ peeked.id \in Ids /\ spool[peeked.id] = peeked.snap
             \/ peeked.id \notin Ids /\ peeked.snap \in lost["squeezed"]

(* The inductive invariant: an answer the worker acts on is the answer to  *)
(* the request it waits for, and a row it deletes is the row it sent.      *)
IInv == TypeOK /\ ControlOK /\ RowsOK /\ PipelineOrdered /\ Accounted /\ DropsOldest

(* A row leaves the spool only when the hub has accepted its snapshot, or  *)
(* when a full spool makes room: then SpoolMax newer rows remain.          *)
RowsLeaveDeliveredOrSqueezed ==
    [][\A i \in Ids \ DOMAIN spool' :
          \/ spool[i] \in delivered
          \/ /\ Cardinality(DOMAIN spool') >= SpoolMax
             /\ \A j \in DOMAIN spool' : i < j]_vars

(* The push path implements the outbox.                                    *)
Abstract == INSTANCE Outbox WITH
    offered <- collected, pending <- Pending, delivered <- delivered, givenUp <- Lost
OutboxSpec == Abstract!Spec

(* Each snapshot collected reaches the hub unless it was given up, or waits *)
(* behind a row of the spool that the hub rejects for good, if the worker,  *)
(* the hub and the service manager do their part: Enqueue never blocks the  *)
(* ticker goroutine, and no fault, crash or shutdown stops the drain.       *)
EventuallyDelivered ==
    \A s \in 1 .. MaxSnaps :
        (s <= collected) ~> (s \in delivered \cup Lost \/ Spooled \cap Poison # {})

(* client.go:110: the drain "delivers overflow snapshots once the hub is   *)
(* reachable".                                                             *)
OverflowDelivered ==
    \A s \in (1 .. MaxSnaps) \ Poison : (s \in Spooled) ~> (s \notin Spooled)
=============================================================================
