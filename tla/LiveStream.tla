------------------------------ MODULE LiveStream ------------------------------
(***************************************************************************)
(* The live view of an agent: the snapshot store, the event stream of the  *)
(* server (one handler and one channel per connection) and the hook        *)
(* useMetrics, which asks for the current snapshot once and then follows   *)
(* the stream.  The header has one such hook and every page its own: no    *)
(* provider of the context is ever mounted.                                *)
(*                                                                         *)
(* Snapshots are numbered in the order of their collection.  A hub has no  *)
(* store: its streams stay silent.                                         *)
(***************************************************************************)
EXTENDS Naturals, Sequences, SequencesExt

CONSTANTS
    Cap,        \* capacity of a channel (4)
    MaxConns,   \* bound: connections and handlers that have not ended
    MaxWire,    \* bound: events on the way to a browser
    MaxPush,    \* bound: snapshots
    MaxMoves,   \* bound: pages opened and reloads of the browser
    MaxFaults   \* bound: lost connections and requests, restarts of the server

ASSUME ConstantsAssumption ==
    /\ {Cap, MaxConns, MaxWire} \subseteq Nat \ {0}
    /\ {MaxPush, MaxMoves, MaxFaults} \subseteq Nat

Conns     == 1 .. MaxConns
Consumers == {"header", "page"}     \* AppLayout, useMetricsContext
Times     == 0 .. MaxPush           \* 0: none

\* A connection and its handler; open: its channel is not closed; done: the
\* context of the request is.
Free     == [pc |-> "free", open |-> FALSE, done |-> FALSE, ch |-> <<>>, wire |-> <<>>]
Accepted == [Free EXCEPT !.pc = "start"]

VARIABLES
    mode,       \* of the server, "agent" or "hub"
    time,       \* the snapshots collected
    latest,     \* the store: its newest snapshot
    pushing,    \* Push: the snapshot that is stored and not yet broadcast
    clients,    \* sseHub.clients
    conn,       \* the connections
    meta,       \* AppLayout: "loading", "known", "failed"
    mounted,    \* the hooks that are mounted
    snapshot, live,   \* useMetrics
    es,         \* useMetrics: the connection of its EventSource, 0 if it has none
    get,        \* useMetrics: GET /api/metrics/current
    out,        \* record: the newest snapshot that was broadcast by this server
    dropped,    \* record: the last broadcast found the channel full
    late,       \* record: GET was answered, or failed, after the last event
    moves, faults

serverVars == <<mode, time, latest, pushing, out>>
hookVars   == <<snapshot, live, get>>
vars == <<serverVars, clients, conn, meta, mounted, hookVars, es, dropped, late, moves, faults>>

Asked == [phase |-> "sent"]
Idle  == [phase |-> "idle"]
For(k, x, y) == [j \in Consumers |-> IF j = k THEN x ELSE y]

Init ==
    /\ mode \in {"agent", "hub"}
    /\ time = 0 /\ latest = 0 /\ pushing = 0 /\ out = 0
    /\ clients = {} /\ conn = [c \in Conns |-> Free]
    /\ meta = "loading" /\ mounted = {"header"}
    /\ snapshot = [k \in Consumers |-> 0] /\ live = [k \in Consumers |-> FALSE]
    /\ es = [k \in Consumers |-> 0] /\ get = For("header", Asked, Idle)
    /\ dropped = [k \in Consumers |-> FALSE] /\ late = [k \in Consumers |-> FALSE]
    /\ moves = 0 /\ faults = 0

------------------------------------------------------------------------------
(* The server. *)

\* Push: the snapshot is stored; the listeners are called after the unlock.
Push ==
    /\ mode = "agent" /\ pushing = 0 /\ time < MaxPush
    /\ time' = time + 1 /\ latest' = time' /\ pushing' = time'
    /\ UNCHANGED <<mode, out, clients, conn, meta, mounted, hookVars, es, dropped, late, moves, faults>>

\* Mutated form of Full: a channel takes any number.
FullNever(c) == FALSE

Full(c) == Len(conn[c].ch) >= Cap

\* broadcast: a channel that is full misses the snapshot.
Broadcast ==
    /\ pushing # 0 /\ pushing' = 0 /\ out' = pushing
    /\ conn' = [c \in Conns |-> IF c \in clients /\ ~Full(c)
                                THEN [conn[c] EXCEPT !.ch = Append(@, pushing)] ELSE conn[c]]
    /\ dropped' = [k \in Consumers |-> IF es[k] \in clients THEN Full(es[k]) ELSE dropped[k]]
    /\ UNCHANGED <<mode, time, latest, clients, meta, mounted, hookVars, es, late, moves, faults>>

Goto(c, pc) == [conn EXCEPT ![c].pc = pc]
Write(c, r, t) == IF r.done THEN r ELSE [r EXCEPT !.wire = Append(@, t)]
Writable(c) == conn[c].done \/ Len(conn[c].wire) < MaxWire
Others == <<serverVars, meta, mounted, hookVars, es, dropped, late, moves, faults>>

\* serve: the channel is registered before the first event is written.
Register(c) ==
    /\ conn[c].pc = "start"
    /\ conn' = [conn EXCEPT ![c].pc = "first", ![c].open = TRUE]
    /\ clients' = clients \cup {c}
    /\ UNCHANGED Others

\* Mutated form of First: the stream starts with the next snapshot.
FirstNothing(c) ==
    /\ conn[c].pc = "first"
    /\ conn' = Goto(c, "loop")
    /\ UNCHANGED <<clients, Others>>

First(c) ==
    /\ conn[c].pc = "first" /\ Writable(c)
    /\ conn' = [conn EXCEPT ![c] = LET r == [@ EXCEPT !.pc = "loop"]
                                   IN  IF latest = 0 THEN r ELSE Write(c, r, latest)]
    /\ UNCHANGED <<clients, Others>>

Receive(c) ==
    /\ conn[c].pc = "loop" /\ conn[c].ch # <<>> /\ Writable(c)
    /\ LET r == conn[c]
       IN  conn' = [conn EXCEPT ![c] = Write(c, [r EXCEPT !.ch = Tail(r.ch)], Head(r.ch))]
    /\ UNCHANGED <<clients, Others>>

\* The select sees that the client is gone; the deferred function follows.
Done(c) ==
    /\ conn[c].pc = "loop" /\ conn[c].done
    /\ conn' = Goto(c, "leave")
    /\ UNCHANGED <<clients, Others>>

\* Mutated form of Leave: the channel is closed before it is deleted.
LeaveClosed(c) ==
    /\ conn[c].pc = "leave"
    /\ conn' = [conn EXCEPT ![c].pc = "close", ![c].open = FALSE]
    /\ UNCHANGED <<clients, Others>>

Leave(c) ==
    /\ conn[c].pc = "leave"
    /\ clients' = clients \ {c} /\ conn' = Goto(c, "close")
    /\ UNCHANGED Others

Close(c) ==
    /\ conn[c].pc = "close"
    /\ conn' = [conn EXCEPT ![c] = Free]
    /\ UNCHANGED <<clients, Others>>

------------------------------------------------------------------------------
(* The hook. *)

\* Mutated form of Connect: the stream is opened for a snapshot that is there.
ConnectAfter(k) ==
    /\ k \in mounted /\ es[k] = 0 /\ snapshot[k] # 0
    /\ \E c \in Conns : /\ conn[c] = Free /\ \A d \in 1 .. c - 1 : conn[d] # Free
                        /\ conn' = [conn EXCEPT ![c] = Accepted]
                        /\ es' = [es EXCEPT ![k] = c]
    /\ dropped' = [dropped EXCEPT ![k] = FALSE]
    /\ UNCHANGED <<serverVars, clients, meta, mounted, hookVars, late, moves, faults>>

\* new EventSource, and its reconnection after an error.
Connect(k) ==
    /\ k \in mounted /\ es[k] = 0
    /\ \E c \in Conns : /\ conn[c] = Free /\ \A d \in 1 .. c - 1 : conn[d] # Free
                        /\ conn' = [conn EXCEPT ![c] = Accepted]
                        /\ es' = [es EXCEPT ![k] = c]
    /\ dropped' = [dropped EXCEPT ![k] = FALSE]
    /\ UNCHANGED <<serverVars, clients, meta, mounted, hookVars, late, moves, faults>>

\* The event "metrics".
Event(k) ==
    /\ es[k] # 0 /\ conn[es[k]].wire # <<>>
    /\ snapshot' = [snapshot EXCEPT ![k] = Head(conn[es[k]].wire)]
    /\ live' = [live EXCEPT ![k] = TRUE] /\ late' = [late EXCEPT ![k] = FALSE]
    /\ conn' = [conn EXCEPT ![es[k]].wire = Tail(@)]
    /\ UNCHANGED <<serverVars, clients, meta, mounted, get, es, dropped, moves, faults>>

Current(k) ==
    /\ get[k].phase = "sent"
    /\ get' = [get EXCEPT ![k] = [phase |-> "answered", got |-> latest]]
    /\ UNCHANGED <<serverVars, clients, conn, meta, mounted, snapshot, live, es, dropped, late, moves, faults>>

\* Then and catch of the request; 204 changes nothing.
Got(k) ==
    /\ \/ /\ get[k].phase = "answered"
          /\ IF get[k].got = 0 THEN UNCHANGED <<snapshot, live, late>>
             ELSE /\ snapshot' = [snapshot EXCEPT ![k] = get[k].got]
                  /\ live' = [live EXCEPT ![k] = TRUE] /\ late' = [late EXCEPT ![k] = TRUE]
          /\ UNCHANGED faults
       \/ /\ get[k].phase = "sent" /\ faults < MaxFaults /\ faults' = faults + 1
          /\ live' = [live EXCEPT ![k] = FALSE] /\ late' = [late EXCEPT ![k] = TRUE]
          /\ UNCHANGED snapshot
    /\ get' = [get EXCEPT ![k] = Idle]
    /\ UNCHANGED <<serverVars, clients, conn, meta, mounted, es, dropped, moves>>

------------------------------------------------------------------------------
(* The pages. *)

\* The connections of the hooks in K are given up.
Abandoned(K) == [c \in Conns |-> IF \E k \in K : es[k] = c
                                 THEN [conn[c] EXCEPT !.done = TRUE, !.wire = <<>>] ELSE conn[c]]

\* The hooks in K go, and those in L come, new.
Remount(K, L) ==
    /\ conn' = Abandoned(K)
    /\ mounted' = (mounted \ K) \cup L
    /\ snapshot' = [k \in Consumers |-> IF k \in K \cup L THEN 0 ELSE snapshot[k]]
    /\ live' = [k \in Consumers |-> k \notin K \cup L /\ live[k]]
    /\ es' = [k \in Consumers |-> IF k \in K \cup L THEN 0 ELSE es[k]]
    /\ get' = [k \in Consumers |-> IF k \in L THEN Asked ELSE IF k \in K THEN Idle ELSE get[k]]
    /\ dropped' = [k \in Consumers |-> k \notin K \cup L /\ dropped[k]]
    /\ late' = [k \in Consumers |-> k \notin K \cup L /\ late[k]]

\* AppLayout shows a page when it knows the mode of the server; a failure is
\* for good.
MetaArrives ==
    /\ meta = "loading" /\ meta' = "known"
    /\ Remount({}, {"page"})
    /\ UNCHANGED <<serverVars, clients, moves, faults>>

MetaFails ==
    /\ meta = "loading" /\ meta' = "failed"
    /\ faults < MaxFaults /\ faults' = faults + 1
    /\ UNCHANGED <<serverVars, clients, conn, mounted, hookVars, es, dropped, late, moves>>

OpenPage ==
    /\ meta = "known" /\ moves < MaxMoves /\ moves' = moves + 1
    /\ Remount({"page"}, {"page"})
    /\ UNCHANGED <<serverVars, clients, meta, faults>>

Reload ==
    /\ moves < MaxMoves /\ moves' = moves + 1
    /\ meta' = "loading" /\ Remount({"header", "page"}, {"header"})
    /\ UNCHANGED <<serverVars, clients, faults>>

------------------------------------------------------------------------------
(* Failures. *)

\* A connection breaks: onerror.
Break(k) ==
    /\ es[k] # 0 /\ faults < MaxFaults /\ faults' = faults + 1
    /\ conn' = Abandoned({k}) /\ es' = [es EXCEPT ![k] = 0]
    /\ live' = [live EXCEPT ![k] = FALSE] /\ late' = [late EXCEPT ![k] = FALSE]
    /\ UNCHANGED <<serverVars, clients, meta, mounted, snapshot, get, dropped, moves>>

\* The agent is restarted: its store is empty, and every connection ends.
Restart ==
    /\ mode = "agent" /\ faults < MaxFaults /\ faults' = faults + 1
    /\ latest' = 0 /\ pushing' = 0 /\ out' = 0
    /\ clients' = {} /\ conn' = [c \in Conns |-> Free]
    /\ es' = [k \in Consumers |-> 0]
    /\ live' = [k \in Consumers |-> es[k] = 0 /\ live[k]]
    /\ late' = [k \in Consumers |-> es[k] = 0 /\ late[k]]
    /\ UNCHANGED <<mode, time, meta, mounted, snapshot, get, dropped, moves>>

------------------------------------------------------------------------------

Handler(c) == Register(c) \/ First(c) \/ Receive(c) \/ Done(c) \/ Leave(c) \/ Close(c)

Next ==
    \/ Push \/ Broadcast
    \/ \E c \in Conns : Handler(c)
    \/ \E k \in Consumers : Connect(k) \/ Event(k) \/ Current(k) \/ Got(k) \/ Break(k)
    \/ MetaArrives \/ MetaFails \/ OpenPage \/ Reload
    \/ Restart

Spec == Init /\ [][Next]_vars

\* Push calls its listeners, handlers run, the browser connects again and
\* runs its callbacks.
Fairness ==
    /\ WF_vars(Broadcast) /\ WF_vars(MetaArrives)
    /\ \A c \in Conns : WF_vars(Handler(c))
    /\ \A k \in Consumers : WF_vars(Connect(k)) /\ WF_vars(Event(k)) /\ WF_vars(Current(k)) /\ WF_vars(Got(k))

FairSpec == Spec /\ Fairness

------------------------------------------------------------------------------
(* What is shown. *)

\* AppLayout: a hub's header always says live.
HeaderLive == mode = "hub" \/ live["header"]

------------------------------------------------------------------------------
(* Properties. *)

\* Types of the state of the server, its handlers and the hooks.
TypeOK ==
    /\ mode \in {"agent", "hub"} /\ {time, latest, pushing, out} \subseteq Times
    /\ clients \subseteq Conns
    /\ \A c \in Conns :
          /\ conn[c].pc \in {"free", "start", "first", "loop", "leave", "close"}
          /\ conn[c].open \in BOOLEAN /\ conn[c].done \in BOOLEAN
          /\ Len(conn[c].ch) <= Cap /\ Len(conn[c].wire) <= MaxWire
    /\ meta \in {"loading", "known", "failed"} /\ mounted \subseteq Consumers
    /\ snapshot \in [Consumers -> Times] /\ es \in [Consumers -> 0 .. MaxConns]
    /\ {live, dropped, late} \subseteq [Consumers -> BOOLEAN]
    /\ \A k \in Consumers : get[k].phase \in {"idle", "sent", "answered"}
    /\ moves \in 0 .. MaxMoves /\ faults \in 0 .. MaxFaults

\* The broadcaster never finds a closed channel among its clients: the send
\* would bring the agent down.
NoSendOnClosed == \A c \in clients : conn[c].open

\* The newest snapshot that was broadcast, or one after it, is shown by every
\* hook whose connection is in its loop, or is on its way, unless the channel
\* was full: none falls between the first event and the registration.
Pending(k) == {snapshot[k]} \cup ToSet(conn[es[k]].wire) \cup ToSet(conn[es[k]].ch)
NoneHeldBack ==
    \A k \in mounted : es[k] # 0 /\ conn[es[k]].pc = "loop" =>
        \/ \E t \in Pending(k) : t >= out
        \/ dropped[k] \/ late[k]

\* When faults end, header and page show the newest snapshot as live, unless
\* its event was dropped or the answer of GET came after it.
EventuallyFresh ==
    /\ <>[](\A k \in mounted : latest > 0 => (snapshot[k] = latest /\ live[k]) \/ dropped[k] \/ late[k])
    /\ <>[](latest > 0 => HeaderLive \/ dropped["header"] \/ late["header"])
===============================================================================
