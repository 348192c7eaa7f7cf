-------------------------- MODULE LiveStreamProofs --------------------------
(***************************************************************************)
(* Safety theorems of LiveStream, for every number of connections, every   *)
(* capacity of a channel and every bound.                                  *)
(*                                                                         *)
(* NoSendOnClosed needs the place of every registered handler (ServerOK):  *)
(* a channel that is closed belongs to a handler that left clients before. *)
(* NoneHeldBack needs, of every stream a hook has, that no other hook has  *)
(* it, that its handler is registered from its first event on, and that    *)
(* what it brings last is as new as the last broadcast (StreamsOwn,        *)
(* StreamsNew), whatever is still queued before that.                      *)
(***************************************************************************)
EXTENDS LiveStream, TLAPS

Places == {"free", "start", "first", "loop", "leave", "close"}
ConnType == [pc : Places, open : BOOLEAN, done : BOOLEAN, ch : Seq(Times), wire : Seq(Times)]

\* The types of the server and of its handlers.
ServerTyped ==
    /\ {time, latest, pushing, out} \subseteq Times
    /\ clients \subseteq Conns
    /\ conn \in [Conns -> ConnType]

\* A handler is registered from its registration to its leave, and its
\* channel is open as long.
RegisteredOpen ==
    \A c \in clients : conn[c].pc \in {"first", "loop", "leave"} /\ conn[c].open

ServerOK == ServerTyped /\ RegisteredOpen

-----------------------------------------------------------------------------
(* What a step does to a connection.                                       *)

LEMMA ConnFacts ==
  ASSUME NEW r \in ConnType
  PROVE  /\ \A p \in Places : [r EXCEPT !.pc = p] \in ConnType
                              /\ [r EXCEPT !.pc = p].pc = p
                              /\ [r EXCEPT !.pc = p].open = r.open
         /\ [r EXCEPT !.done = TRUE, !.wire = <<>>] \in ConnType
         /\ [r EXCEPT !.done = TRUE, !.wire = <<>>].pc = r.pc
         /\ [r EXCEPT !.done = TRUE, !.wire = <<>>].open = r.open
<1>1. <<>> \in Seq(Times)
  OBVIOUS
<1>2. \A p \in Places : [r EXCEPT !.pc = p] \in ConnType
                        /\ [r EXCEPT !.pc = p].pc = p
                        /\ [r EXCEPT !.pc = p].open = r.open
  BY DEF ConnType
<1>3. /\ [r EXCEPT !.done = TRUE, !.wire = <<>>] \in ConnType
      /\ [r EXCEPT !.done = TRUE, !.wire = <<>>].pc = r.pc
      /\ [r EXCEPT !.done = TRUE, !.wire = <<>>].open = r.open
  BY <1>1 DEF ConnType
<1> QED
  BY <1>2, <1>3

LEMMA FreeType ==
  /\ Free \in ConnType /\ Free.pc = "free"
  /\ Accepted \in ConnType /\ Accepted.pc = "start"
<1>1. <<>> \in Seq(Times)
  OBVIOUS
<1>2. Free \in ConnType /\ Free.pc = "free"
  BY <1>1 DEF Free, ConnType, Places
<1> QED
  BY <1>2, ConnFacts DEF Accepted, Places

LEMMA WriteFacts ==
  ASSUME NEW c \in Conns, NEW r \in ConnType, NEW t \in Times
  PROVE  Write(c, r, t) \in ConnType /\ Write(c, r, t).pc = r.pc /\ Write(c, r, t).open = r.open
<1>1. Append(r.wire, t) \in Seq(Times)
  BY DEF ConnType
<1> QED
  BY <1>1 DEF Write, ConnType, Places

-----------------------------------------------------------------------------
(* The steps of the server.                                                *)

LEMMA InitServer ==
  ASSUME ConstantsAssumption, Init
  PROVE  ServerOK
BY FreeType DEF ConstantsAssumption, Init, ServerOK, ServerTyped, RegisteredOpen, Times, Conns

LEMMA PushServer ==
  ASSUME ConstantsAssumption, ServerOK, Push
  PROVE  ServerOK'
BY DEF ConstantsAssumption, ServerOK, Push, ServerTyped, RegisteredOpen, Times, Conns

LEMMA BroadcastServer ==
  ASSUME ConstantsAssumption, ServerOK, Broadcast
  PROVE  ServerOK'
<1>1. pushing \in Times
  BY DEF ServerOK, ServerTyped
<1>2. ASSUME NEW c \in Conns
      PROVE  LET r == [conn[c] EXCEPT !.ch = Append(@, pushing)]
             IN  r \in ConnType /\ r.pc = conn[c].pc /\ r.open = conn[c].open
  <2>1. conn[c] \in ConnType
    BY DEF ServerOK, ServerTyped
  <2>2. Append(conn[c].ch, pushing) \in Seq(Times)
    BY <1>1, <2>1 DEF ConnType
  <2> QED
    BY <2>1, <2>2 DEF ConnType
<1>3. \A c \in Conns : conn'[c] \in ConnType /\ conn'[c].pc = conn[c].pc /\ conn'[c].open = conn[c].open
  BY <1>2 DEF Broadcast, ServerOK, ServerTyped
<1>4. conn' \in [Conns -> ConnType]
  BY <1>3 DEF Broadcast
<1>5. ServerTyped'
  BY <1>1, <1>4 DEF Broadcast, ServerOK, ServerTyped, Times, ConstantsAssumption
<1>6. RegisteredOpen'
  BY <1>3 DEF Broadcast, ServerOK, ServerTyped, RegisteredOpen
<1> QED
  BY <1>5, <1>6 DEF ServerOK

\* A handler's step changes its connection and at most its registration.
LEMMA HandlerServer ==
  ASSUME ConstantsAssumption, ServerOK, NEW c \in Conns, Handler(c)
  PROVE  ServerOK'
<1>1. UNCHANGED serverVars /\ conn[c] \in ConnType /\ conn \in [Conns -> ConnType]
  BY DEF ServerOK, ServerTyped, Handler, Register, First, Receive, Done, Leave, Close, Others
<1>2. SUFFICES ASSUME NEW r \in ConnType, conn' = [conn EXCEPT ![c] = r],
                      \/ clients' = clients \ {c}
                      \/ /\ c \notin clients /\ clients' = clients
                      \/ /\ clients' = clients \cup {c}
                         /\ r.pc \in {"first", "loop", "leave"} /\ r.open
               PROVE  ServerOK'
  <2>1. CASE Register(c)
    <3> DEFINE r == [conn[c] EXCEPT !.pc = "first", !.open = TRUE]
    <3>1. r \in ConnType /\ r.pc = "first" /\ r.open
      BY <1>1 DEF ConnType, Places
    <3>2. conn' = [conn EXCEPT ![c] = r] /\ clients' = clients \cup {c}
      BY <2>1, <1>1 DEF Register
    <3> QED
      BY <3>1, <3>2, <1>2
  <2>2. CASE First(c)
    <3> DEFINE s == [conn[c] EXCEPT !.pc = "loop"]
               r == IF latest = 0 THEN s ELSE Write(c, s, latest)
    <3>1. s \in ConnType /\ s.pc = "loop" /\ s.open = conn[c].open
      BY <1>1 DEF ConnType, Places
    <3>2. latest \in Times
      BY DEF ServerOK, ServerTyped
    <3>3. r \in ConnType /\ r.pc = "loop" /\ r.open = conn[c].open
      BY <3>1, <3>2, WriteFacts
    <3>4. conn' = [conn EXCEPT ![c] = r] /\ clients' = clients
      BY <2>2, <1>1 DEF First
    <3>5. c \in clients => clients' = clients \cup {c} /\ r.open
      BY <3>3, <3>4 DEF ServerOK, RegisteredOpen
    <3> HIDE DEF r
    <3> QED
      BY <3>3, <3>4, <3>5, <1>2
  <2>3. CASE Receive(c)
    <3> DEFINE s == [conn[c] EXCEPT !.ch = Tail(@)]
               r == Write(c, s, Head(conn[c].ch))
    <3>1. conn[c].ch \in Seq(Times) /\ conn[c].ch # <<>>
      BY <2>3, <1>1 DEF ConnType, Receive
    <3>2. Head(conn[c].ch) \in Times /\ Tail(conn[c].ch) \in Seq(Times)
      BY <3>1
    <3>3. s \in ConnType /\ s.pc = conn[c].pc /\ s.open = conn[c].open
      BY <3>2, <1>1 DEF ConnType
    <3>4. r \in ConnType /\ r.pc = conn[c].pc /\ r.open = conn[c].open
      BY <3>2, <3>3, WriteFacts
    <3>5. conn' = [conn EXCEPT ![c] = r] /\ clients' = clients
      BY <2>3 DEF Receive
    <3>6. c \in clients => clients' = clients \cup {c} /\ r.open
      BY <3>4, <3>5 DEF ServerOK, RegisteredOpen
    <3>7. r.pc = "loop"
      BY <3>4, <2>3 DEF Receive
    <3> HIDE DEF r
    <3> QED
      BY <3>4, <3>5, <3>6, <3>7, <1>2
  <2>4. CASE Done(c)
    <3> DEFINE r == [conn[c] EXCEPT !.pc = "leave"]
    <3>1. r \in ConnType /\ r.pc = "leave" /\ r.open = conn[c].open
      BY <1>1 DEF ConnType, Places
    <3>2. conn' = [conn EXCEPT ![c] = r] /\ clients' = clients
      BY <2>4, <1>1 DEF Done, Goto
    <3>3. c \in clients => clients' = clients \cup {c} /\ r.open
      BY <3>1, <3>2 DEF ServerOK, RegisteredOpen
    <3> HIDE DEF r
    <3> QED
      BY <3>1, <3>2, <3>3, <1>2
  <2>5. CASE Leave(c)
    <3> DEFINE r == [conn[c] EXCEPT !.pc = "close"]
    <3>1. r \in ConnType
      BY <1>1 DEF ConnType, Places
    <3>2. conn' = [conn EXCEPT ![c] = r] /\ clients' = clients \ {c}
      BY <2>5, <1>1 DEF Leave, Goto
    <3> HIDE DEF r
    <3> QED
      BY <3>1, <3>2, <1>2
  <2>6. CASE Close(c)
    <3>1. c \notin clients
      BY <2>6 DEF Close, ServerOK, RegisteredOpen
    <3>2. conn' = [conn EXCEPT ![c] = Free] /\ clients' = clients
      BY <2>6 DEF Close
    <3> QED
      BY <3>1, <3>2, FreeType, <1>2
  <2> QED
    BY <2>1, <2>2, <2>3, <2>4, <2>5, <2>6 DEF Handler
<1>3. ServerTyped'
  BY <1>1, <1>2 DEF ServerOK, ServerTyped, serverVars
<1>4. RegisteredOpen'
  BY <1>1, <1>2 DEF ServerOK, ServerTyped, RegisteredOpen
<1> QED
  BY <1>3, <1>4 DEF ServerOK

-----------------------------------------------------------------------------
(* The steps of the browser.                                               *)

\* Conns given up keep their handlers where they are.
LEMMA AbandonServer ==
  ASSUME ServerOK, NEW K \in SUBSET Consumers, conn' = Abandoned(K),
         UNCHANGED <<serverVars, clients>>
  PROVE  ServerOK'
<1>1. conn \in [Conns -> ConnType]
  BY DEF ServerOK, ServerTyped
<1>2. \A c \in Conns : conn'[c] \in ConnType /\ conn'[c].pc = conn[c].pc /\ conn'[c].open = conn[c].open
  BY <1>1, ConnFacts DEF Abandoned
<1>3. conn' \in [Conns -> ConnType]
  BY <1>2 DEF Abandoned
<1> QED
  BY <1>2, <1>3 DEF ServerOK, ServerTyped, RegisteredOpen, serverVars

LEMMA ConnectServer ==
  ASSUME ServerOK, NEW k \in Consumers, Connect(k)
  PROVE  ServerOK'
<1>1. PICK c \in Conns : conn[c] = Free /\ conn' = [conn EXCEPT ![c] = Accepted]
  BY DEF Connect
<1>2. c \notin clients
  BY <1>1, FreeType DEF ServerOK, RegisteredOpen
<1> QED
  BY <1>1, <1>2, FreeType DEF Connect, ServerOK, ServerTyped, RegisteredOpen, serverVars

LEMMA EventServer ==
  ASSUME ServerOK, NEW k \in Consumers, Event(k)
  PROVE  ServerOK'
<1> DEFINE r == [conn[es[k]] EXCEPT !.wire = Tail(@)]
<1>1. conn \in [Conns -> ConnType] /\ conn' = [conn EXCEPT ![es[k]] = r]
  BY DEF ServerOK, ServerTyped, Event
<1>2. CASE es[k] \in Conns
  <2>1. conn[es[k]].wire \in Seq(Times) /\ conn[es[k]].wire # <<>>
    BY <1>1, <1>2 DEF ConnType, Event
  <2>2. Tail(conn[es[k]].wire) \in Seq(Times)
    BY <2>1
  <2>3. r \in ConnType /\ r.pc = conn[es[k]].pc /\ r.open = conn[es[k]].open
    BY <1>1, <1>2, <2>2 DEF ConnType
  <2> HIDE DEF r
  <2> QED
    BY <1>1, <2>3 DEF Event, ServerOK, ServerTyped, RegisteredOpen, serverVars
<1>3. CASE es[k] \notin Conns
  <2>1. conn' = conn
    BY <1>1, <1>3
  <2> QED
    BY <2>1 DEF Event, ServerOK, ServerTyped, RegisteredOpen, serverVars
<1> QED
  BY <1>2, <1>3

\* The other steps of the hooks and pages leave the server alone.
LEMMA QuietServer ==
  ASSUME ServerOK, UNCHANGED <<serverVars, clients, conn>>
  PROVE  ServerOK'
BY DEF ServerOK, ServerTyped, RegisteredOpen, serverVars

LEMMA RestartServer ==
  ASSUME ConstantsAssumption, ServerOK, Restart
  PROVE  ServerOK'
BY FreeType DEF ConstantsAssumption, Restart, ServerOK, ServerTyped, RegisteredOpen, Times

LEMMA NextServer ==
  ASSUME ConstantsAssumption, ServerOK, [Next]_vars
  PROVE  ServerOK'
<1>1. CASE Push
  BY <1>1, PushServer
<1>2. CASE Broadcast
  BY <1>2, BroadcastServer
<1>3. ASSUME NEW c \in Conns, Handler(c) PROVE ServerOK'
  BY <1>3, HandlerServer
<1>4. ASSUME NEW k \in Consumers, Connect(k) PROVE ServerOK'
  BY <1>4, ConnectServer
<1>5. ASSUME NEW k \in Consumers, Event(k) PROVE ServerOK'
  BY <1>5, EventServer
<1>6. ASSUME NEW k \in Consumers, Current(k) \/ Got(k) PROVE ServerOK'
  BY <1>6, QuietServer DEF Current, Got
<1>7. ASSUME NEW k \in Consumers, Break(k) PROVE ServerOK'
  <2>1. {k} \in SUBSET Consumers /\ conn' = Abandoned({k}) /\ UNCHANGED <<serverVars, clients>>
    BY <1>7 DEF Break
  <2> QED
    BY <2>1, AbandonServer
<1>8. CASE MetaFails
  BY <1>8, QuietServer DEF MetaFails
<1>9. CASE MetaArrives \/ OpenPage \/ Reload
  <2>1. \E K \in SUBSET Consumers : conn' = Abandoned(K)
    BY <1>9 DEF MetaArrives, OpenPage, Reload, Remount, Consumers
  <2>2. UNCHANGED <<serverVars, clients>>
    BY <1>9 DEF MetaArrives, OpenPage, Reload
  <2> QED
    BY <2>1, <2>2, AbandonServer
<1>10. CASE Restart
  BY <1>10, RestartServer
<1>11. CASE UNCHANGED vars
  BY <1>11, QuietServer DEF vars
<1> QED
  BY <1>1, <1>2, <1>3, <1>4, <1>5, <1>6, <1>7, <1>8, <1>9, <1>10, <1>11 DEF Next

-----------------------------------------------------------------------------
(* The hooks.                                                              *)

Answers == [phase : {"answered"}, got : Times]

\* The types of the hooks, of the pages and of the bounds.
HooksTyped ==
    /\ mode \in {"agent", "hub"} /\ meta \in {"loading", "known", "failed"}
    /\ mounted \subseteq Consumers
    /\ snapshot \in [Consumers -> Times] /\ es \in [Consumers -> 0 .. MaxConns]
    /\ live \in [Consumers -> BOOLEAN] /\ dropped \in [Consumers -> BOOLEAN]
    /\ late \in [Consumers -> BOOLEAN]
    /\ get \in [Consumers -> {Idle, Asked} \cup Answers]
    /\ moves \in 0 .. MaxMoves /\ faults \in 0 .. MaxFaults

\* No channel and no connection holds more than it can.
Capacities == \A c \in Conns : Len(conn[c].ch) <= Cap /\ Len(conn[c].wire) <= MaxWire

\* Snapshots are stored in order, and broadcast after they are stored.
Ordered == out <= latest /\ latest <= time /\ (pushing # 0 => pushing = latest)

\* The stream of a hook is its own, and its handler has not seen it go.
Place(k) ==
    /\ conn[es[k]].pc \in {"start", "first", "loop"} /\ ~conn[es[k]].done
    /\ conn[es[k]].pc # "start" => es[k] \in clients
    /\ \A j \in Consumers : j # k => es[j] # es[k]

StreamsOwn == \A k \in Consumers : es[k] # 0 => Place(k)

\* What a stream brings last: it is as new as the last broadcast, unless the
\* channel was full.
Final(r) == IF r.ch # <<>> THEN r.ch[Len(r.ch)] ELSE r.wire[Len(r.wire)]

Brings(k, r) ==
    /\ r.pc = "start" => r.ch = <<>> /\ r.wire = <<>>
    /\ r.pc = "first" => r.ch = <<>> \/ Final(r) >= out \/ dropped[k]
    /\ r.pc = "loop" =>
         \/ dropped[k]
         \/ (r.ch # <<>> \/ r.wire # <<>>) /\ Final(r) >= out
         \/ r.ch = <<>> /\ r.wire = <<>> /\ (snapshot[k] >= out \/ late[k])

StreamsNew == \A k \in Consumers : es[k] # 0 => Brings(k, conn[es[k]])

IInv == ServerOK /\ HooksTyped /\ Capacities /\ Ordered /\ StreamsOwn /\ StreamsNew

-----------------------------------------------------------------------------
(* What comes last in a queue.                                             *)

LEMMA LastAppended ==
  ASSUME NEW s \in Seq(Times), NEW t \in Times
  PROVE  /\ Append(s, t) \in Seq(Times) /\ Append(s, t) # <<>>
         /\ Len(Append(s, t)) = Len(s) + 1
         /\ Append(s, t)[Len(Append(s, t))] = t
OBVIOUS

LEMMA LastOfTail ==
  ASSUME NEW s \in Seq(Times), s # <<>>
  PROVE  /\ Head(s) \in Times /\ Tail(s) \in Seq(Times) /\ Len(Tail(s)) = Len(s) - 1
         /\ Len(s) \in Nat \ {0} /\ s[Len(s)] \in Times
         /\ Tail(s) # <<>> => Tail(s)[Len(Tail(s))] = s[Len(s)]
         /\ Tail(s) = <<>> => Head(s) = s[Len(s)]
<1>1. Head(s) \in Times /\ Tail(s) \in Seq(Times) /\ Len(Tail(s)) = Len(s) - 1
  OBVIOUS
<1>2. Len(s) \in Nat \ {0} /\ s[Len(s)] \in Times
  OBVIOUS
<1>3. ASSUME Tail(s) # <<>> PROVE Tail(s)[Len(Tail(s))] = s[Len(s)]
  <2>1. Len(Tail(s)) # 0
    BY <1>1, <1>3
  <2> QED
    BY <2>1, <1>1, <1>2
<1>4. ASSUME Tail(s) = <<>> PROVE Head(s) = s[Len(s)]
  <2>1. Len(s) = 1
    BY <1>1, <1>2, <1>4
  <2> QED
    BY <2>1
<1> QED
  BY <1>1, <1>2, <1>3, <1>4

LEMMA FinalType ==
  ASSUME NEW r \in ConnType, r.ch # <<>> \/ r.wire # <<>>
  PROVE  Final(r) \in Times
<1>1. r.ch \in Seq(Times) /\ r.wire \in Seq(Times)
  BY DEF ConnType
<1>2. CASE r.ch # <<>>
  BY <1>1, <1>2, LastOfTail DEF Final
<1>3. CASE r.ch = <<>>
  BY <1>1, <1>3, LastOfTail DEF Final
<1> QED
  BY <1>2, <1>3

-----------------------------------------------------------------------------
(* The steps of a handler, as what they leave of its connection.           *)

Registers(c, q, r) ==
    /\ q.pc = "start" /\ r.pc = "first" /\ r.done = q.done
    /\ r.ch = q.ch /\ r.wire = q.wire /\ clients' = clients \cup {c}

Begins(c, q, r) ==
    /\ q.pc = "first" /\ r.pc = "loop" /\ r.done = q.done
    /\ r.ch = q.ch /\ clients' = clients
    /\ r.wire = IF latest = 0 \/ q.done THEN q.wire ELSE Append(q.wire, latest)
    /\ q.done \/ Len(q.wire) < MaxWire

Forwards(c, q, r) ==
    /\ q.pc = "loop" /\ r.pc = "loop" /\ r.done = q.done /\ q.ch # <<>>
    /\ r.ch = Tail(q.ch) /\ clients' = clients
    /\ r.wire = IF q.done THEN q.wire ELSE Append(q.wire, Head(q.ch))
    /\ q.done \/ Len(q.wire) < MaxWire

Retires(c, q, r) ==
    /\ (q.pc = "loop" /\ q.done) \/ q.pc \in {"leave", "close"}
    /\ (r.ch = q.ch /\ r.wire = q.wire) \/ r = Free
    /\ clients' = clients \ {c} \/ clients' = clients

LEMMA HandlerMoves ==
  ASSUME ServerTyped, NEW c \in Conns, Handler(c)
  PROVE  /\ UNCHANGED Others
         /\ \E r \in ConnType :
              /\ conn' = [conn EXCEPT ![c] = r]
              /\ \/ Registers(c, conn[c], r) \/ Begins(c, conn[c], r)
                 \/ Forwards(c, conn[c], r) \/ Retires(c, conn[c], r)
<1>1. conn[c] \in ConnType /\ conn \in [Conns -> ConnType] /\ latest \in Times
  BY DEF ServerTyped
<1>2. conn[c].ch \in Seq(Times) /\ conn[c].wire \in Seq(Times)
  BY <1>1 DEF ConnType
<1>3. UNCHANGED Others
  BY DEF Handler, Register, First, Receive, Done, Leave, Close
<1>4. CASE Register(c)
  <2> DEFINE r == [conn[c] EXCEPT !.pc = "first", !.open = TRUE]
  <2>1. r \in ConnType /\ Registers(c, conn[c], r)
    BY <1>1, <1>4 DEF ConnType, Places, Register, Registers
  <2>2. conn' = [conn EXCEPT ![c] = r]
    BY <1>1, <1>4 DEF Register
  <2> QED
    BY <1>3, <2>1, <2>2
<1>5. CASE First(c)
  <2> DEFINE s == [conn[c] EXCEPT !.pc = "loop"]
             r == IF latest = 0 THEN s ELSE Write(c, s, latest)
  <2>1. s \in ConnType /\ s.pc = "loop" /\ s.done = conn[c].done /\ s.ch = conn[c].ch /\ s.wire = conn[c].wire
    BY <1>1 DEF ConnType, Places
  <2>2. Append(s.wire, latest) \in Seq(Times)
    BY <1>1, <1>2, <2>1, LastAppended
  <2>3. Write(c, s, latest) = IF s.done THEN s ELSE [s EXCEPT !.wire = Append(s.wire, latest)]
    BY DEF Write
  <2> HIDE DEF s
  <2>4. r \in ConnType /\ r.pc = "loop" /\ r.done = conn[c].done /\ r.ch = conn[c].ch
        /\ r.wire = IF latest = 0 \/ conn[c].done THEN conn[c].wire ELSE Append(conn[c].wire, latest)
    BY <2>1, <2>2, <2>3 DEF ConnType
  <2>5. conn' = [conn EXCEPT ![c] = r] /\ clients' = clients /\ conn[c].pc = "first" /\ Writable(c)
    BY <1>1, <1>5 DEF First, s
  <2> HIDE DEF r
  <2>6. Begins(c, conn[c], r)
    BY <2>4, <2>5 DEF Begins, Writable
  <2> QED
    BY <1>3, <2>4, <2>5, <2>6
<1>6. CASE Receive(c)
  <2> DEFINE s == [conn[c] EXCEPT !.ch = Tail(conn[c].ch)]
             r == Write(c, s, Head(conn[c].ch))
  <2>1. conn[c].ch # <<>> /\ conn[c].pc = "loop" /\ Writable(c)
        /\ conn' = [conn EXCEPT ![c] = r] /\ clients' = clients
    BY <1>6 DEF Receive
  <2>2. Tail(conn[c].ch) \in Seq(Times) /\ Head(conn[c].ch) \in Times
    BY <1>2, <2>1, LastOfTail
  <2>3. s \in ConnType /\ s.pc = "loop" /\ s.done = conn[c].done /\ s.ch = Tail(conn[c].ch) /\ s.wire = conn[c].wire
    BY <1>1, <2>1, <2>2 DEF ConnType
  <2>4. Append(s.wire, Head(conn[c].ch)) \in Seq(Times)
    BY <1>2, <2>2, <2>3, LastAppended
  <2>5. r = IF s.done THEN s ELSE [s EXCEPT !.wire = Append(s.wire, Head(conn[c].ch))]
    BY DEF Write
  <2> HIDE DEF s, r
  <2>6. r \in ConnType /\ r.pc = "loop" /\ r.done = conn[c].done /\ r.ch = Tail(conn[c].ch)
        /\ r.wire = IF conn[c].done THEN conn[c].wire ELSE Append(conn[c].wire, Head(conn[c].ch))
    BY <2>3, <2>4, <2>5 DEF ConnType
  <2>7. Forwards(c, conn[c], r)
    BY <2>1, <2>6 DEF Forwards, Writable
  <2> QED
    BY <1>3, <2>1, <2>6, <2>7
<1>7. CASE Done(c)
  <2> DEFINE r == [conn[c] EXCEPT !.pc = "leave"]
  <2>1. r \in ConnType /\ conn' = [conn EXCEPT ![c] = r]
    BY <1>1, <1>7 DEF ConnType, Places, Done, Goto
  <2>2. Retires(c, conn[c], r)
    BY <1>1, <1>7 DEF ConnType, Done, Retires
  <2> QED
    BY <1>3, <2>1, <2>2
<1>8. CASE Leave(c)
  <2> DEFINE r == [conn[c] EXCEPT !.pc = "close"]
  <2>1. r \in ConnType /\ conn' = [conn EXCEPT ![c] = r]
    BY <1>1, <1>8 DEF ConnType, Places, Leave, Goto
  <2>2. Retires(c, conn[c], r)
    BY <1>1, <1>8 DEF ConnType, Leave, Retires
  <2> QED
    BY <1>3, <2>1, <2>2
<1>9. CASE Close(c)
  <2>1. Free \in ConnType /\ conn' = [conn EXCEPT ![c] = Free] /\ Retires(c, conn[c], Free)
    BY <1>9, FreeType DEF Close, Retires
  <2> QED
    BY <1>3, <2>1
<1> QED
  BY <1>4, <1>5, <1>6, <1>7, <1>8, <1>9 DEF Handler

-----------------------------------------------------------------------------
(* What leaves a stream as new as it was.                                  *)

\* The parts of the invariant that the server's theorems do not need.
HooksOK == HooksTyped /\ Capacities /\ Ordered /\ StreamsOwn /\ StreamsNew

\* Whoever has a stream after a step has had it before.
Kept(k) ==
    es'[k] # 0 =>
        /\ es'[k] = es[k] /\ conn'[es[k]] = conn[es[k]]
        /\ es[k] \in clients => es[k] \in clients'
        /\ out' = out /\ (dropped[k] => dropped'[k])
        /\ snapshot'[k] = snapshot[k] /\ late'[k] = late[k]

LEMMA StreamOfHook ==
  ASSUME ServerTyped, HooksTyped, NEW k \in Consumers, es[k] # 0
  PROVE  /\ es[k] \in Conns /\ conn[es[k]] \in ConnType
         /\ conn[es[k]].ch \in Seq(Times) /\ conn[es[k]].wire \in Seq(Times)
         /\ snapshot[k] \in Times
<1>1. es[k] \in 0 .. MaxConns /\ snapshot[k] \in Times
  BY DEF HooksTyped
<1>2. es[k] \in Conns
  BY <1>1, ConstantsAssumption DEF Conns, ConstantsAssumption
<1> QED
  BY <1>1, <1>2 DEF ServerTyped, ConnType

LEMMA KeptStreams ==
  ASSUME StreamsOwn, StreamsNew, \A k \in Consumers : Kept(k)
  PROVE  StreamsOwn' /\ StreamsNew'
<1>1. ASSUME NEW k \in Consumers, es'[k] # 0
      PROVE  Place(k)' /\ Brings(k, conn[es[k]])'
  <2>1. /\ es'[k] = es[k] /\ conn'[es[k]] = conn[es[k]] /\ es[k] # 0
        /\ es[k] \in clients => es[k] \in clients'
        /\ out' = out /\ (dropped[k] => dropped'[k])
        /\ snapshot'[k] = snapshot[k] /\ late'[k] = late[k]
    BY <1>1 DEF Kept
  <2>2. Place(k) /\ Brings(k, conn[es[k]])
    BY <2>1 DEF StreamsOwn, StreamsNew
  <2>3. \A j \in Consumers : j # k => es'[j] # es'[k]
    BY <2>1, <2>2, <1>1 DEF Kept, Place
  <2>4. Place(k)'
    BY <2>1, <2>2, <2>3 DEF Place
  <2>5. Brings(k, conn[es[k]])'
    BY <2>1, <2>2 DEF Brings, Final
  <2> QED
    BY <2>4, <2>5
<1> QED
  BY <1>1 DEF StreamsOwn, StreamsNew

\* The streams of the hooks that stay are not among the abandoned.
LEMMA AbandonKeeps ==
  ASSUME ServerTyped, HooksTyped, Capacities, NEW K \in SUBSET Consumers, conn' = Abandoned(K)
  PROVE  /\ Capacities'
         /\ StreamsOwn => \A k \in Consumers \ K : es[k] # 0 => conn'[es[k]] = conn[es[k]]
<1>1. ASSUME NEW c \in Conns
      PROVE  /\ (\A k \in K : es[k] # c) => conn'[c] = conn[c]
             /\ Len(conn'[c].ch) <= Cap /\ Len(conn'[c].wire) <= MaxWire
  <2>1. conn[c] \in ConnType
    BY DEF ServerTyped
  <2>2. /\ [conn[c] EXCEPT !.done = TRUE, !.wire = <<>>].ch = conn[c].ch
        /\ [conn[c] EXCEPT !.done = TRUE, !.wire = <<>>].wire = <<>>
    BY <2>1 DEF ConnType
  <2>3. Len(<<>>) = 0 /\ 0 <= MaxWire
    BY ConstantsAssumption DEF ConstantsAssumption
  <2> QED
    BY <2>2, <2>3 DEF Abandoned, Capacities
<1>2. Capacities'
  BY <1>1 DEF Capacities
<1>3. ASSUME StreamsOwn, NEW k \in Consumers \ K, es[k] # 0
      PROVE  conn'[es[k]] = conn[es[k]]
  <2>1. es[k] \in Conns
    BY <1>3, StreamOfHook
  <2>2. \A j \in K : es[j] # es[k]
    BY <1>3 DEF StreamsOwn, Place
  <2> QED
    BY <1>1, <2>1, <2>2
<1> QED
  BY <1>2, <1>3

-----------------------------------------------------------------------------
(* The steps of the server keep the streams new.                           *)

LEMMA InitHooks ==
  ASSUME Init
  PROVE  HooksOK
<1>1. 0 \in Times /\ 0 \in 0 .. MaxConns /\ 0 \in 0 .. MaxMoves /\ 0 \in 0 .. MaxFaults
  BY ConstantsAssumption DEF ConstantsAssumption, Times
<1>2. HooksTyped
  BY <1>1 DEF Init, HooksTyped, For, Consumers
<1>3. Capacities
  <2>1. Free.ch = <<>> /\ Free.wire = <<>> /\ Len(<<>>) = 0 /\ 0 <= Cap /\ 0 <= MaxWire
    BY ConstantsAssumption DEF ConstantsAssumption, Free
  <2> QED
    BY <2>1 DEF Init, Capacities
<1>4. Ordered /\ StreamsOwn /\ StreamsNew
  BY DEF Init, Ordered, StreamsOwn, StreamsNew
<1> QED
  BY <1>2, <1>3, <1>4 DEF HooksOK

LEMMA PushHooks ==
  ASSUME ServerTyped, HooksOK, Push
  PROVE  HooksOK'
<1>1. HooksTyped' /\ Capacities'
  BY DEF HooksOK, Push, HooksTyped, Capacities, Times, hookVars
<1>2. time \in Nat /\ latest \in Nat /\ out \in Nat
  BY DEF ServerTyped, Times
<1>3. Ordered'
  BY <1>2 DEF HooksOK, Push, Ordered
<1>4. \A k \in Consumers : Kept(k)
  BY DEF Push, Kept, hookVars
<1> QED
  BY <1>1, <1>3, <1>4, KeptStreams DEF HooksOK

LEMMA BroadcastHooks ==
  ASSUME ServerOK, HooksOK, Broadcast
  PROVE  HooksOK'
<1>1. /\ pushing \in Times /\ conn \in [Conns -> ConnType] /\ clients \subseteq Conns
      /\ latest \in Times /\ pushing # 0 /\ out' = pushing /\ Times \subseteq Nat /\ Cap \in Nat
  BY ConstantsAssumption DEF ServerOK, ServerTyped, Broadcast, Times, ConstantsAssumption
<1>2. ASSUME NEW c \in Conns
      PROVE  /\ conn[c].ch \in Seq(Times)
             /\ c \in clients /\ ~Full(c) => conn'[c] = [conn[c] EXCEPT !.ch = Append(conn[c].ch, pushing)]
             /\ ~(c \in clients /\ ~Full(c)) => conn'[c] = conn[c]
  BY <1>1 DEF Broadcast, ConnType
<1>3. ASSUME NEW c \in clients, ~Full(c)
      PROVE  /\ conn'[c].pc = conn[c].pc /\ conn'[c].done = conn[c].done
             /\ conn'[c].wire = conn[c].wire /\ conn'[c].ch = Append(conn[c].ch, pushing)
  <2>1. conn[c] \in ConnType /\ conn'[c] = [conn[c] EXCEPT !.ch = Append(conn[c].ch, pushing)]
    BY <1>1, <1>2, <1>3
  <2> QED
    BY <2>1 DEF ConnType
<1>4. HooksTyped'
  <2>1. \A k \in Consumers : (IF es[k] \in clients THEN Full(es[k]) ELSE dropped[k]) \in BOOLEAN
    <3>1. ASSUME NEW c \in clients PROVE Full(c) \in BOOLEAN
      <4>1. Len(conn[c].ch) \in Nat
        BY <1>1, <1>2
      <4> QED
        BY <1>1, <4>1 DEF Full
    <3> QED
      BY <3>1 DEF HooksOK, HooksTyped
  <2>2. dropped' \in [Consumers -> BOOLEAN]
    BY <2>1 DEF Broadcast
  <2> QED
    BY <2>2 DEF HooksOK, HooksTyped, Broadcast, hookVars, Times
<1>5. Capacities'
  <2>1. ASSUME NEW c \in Conns PROVE Len(conn'[c].ch) <= Cap /\ Len(conn'[c].wire) <= MaxWire
    <3>1. Len(conn[c].ch) <= Cap /\ Len(conn[c].wire) <= MaxWire /\ Len(conn[c].ch) \in Nat
      BY <1>2 DEF HooksOK, Capacities
    <3>2. CASE c \in clients /\ ~Full(c)
      <4>1. Len(conn'[c].ch) = Len(conn[c].ch) + 1
        BY <1>1, <1>2, <1>3, <3>2, LastAppended
      <4> QED
        BY <1>1, <1>3, <3>1, <3>2, <4>1 DEF Full
    <3>3. CASE ~(c \in clients /\ ~Full(c))
      BY <1>2, <3>1, <3>3
    <3> QED
      BY <3>2, <3>3
  <2> QED
    BY <2>1 DEF Capacities
<1>6. Ordered'
  BY <1>1 DEF HooksOK, Broadcast, Ordered
<1>7. ASSUME NEW k \in Consumers, es'[k] # 0
      PROVE  Place(k)' /\ Brings(k, conn[es[k]])'
  <2>1. /\ es' = es /\ es[k] # 0 /\ es[k] \in Conns /\ clients' = clients
        /\ snapshot' = snapshot /\ late' = late
        /\ dropped'[k] = IF es[k] \in clients THEN Full(es[k]) ELSE dropped[k]
    BY <1>7, StreamOfHook DEF ServerOK, HooksOK, Broadcast, hookVars
  <2>2. Place(k) /\ Brings(k, conn[es[k]])
    BY <2>1 DEF HooksOK, StreamsOwn, StreamsNew
  <2>3. CASE es[k] \in clients /\ ~Full(es[k])
    <3>1. /\ conn'[es[k]].pc = conn[es[k]].pc /\ conn'[es[k]].done = conn[es[k]].done
          /\ conn'[es[k]].ch = Append(conn[es[k]].ch, pushing)
      BY <1>3, <2>3
    <3>2. conn'[es[k]].ch # <<>> /\ conn'[es[k]].ch[Len(conn'[es[k]].ch)] = pushing
      BY <1>1, <1>2, <2>1, <3>1, LastAppended
    <3>3. Final(conn'[es[k]]) = pushing /\ pushing >= out'
      BY <1>1, <3>2 DEF Final
    <3>4. Place(k)'
      BY <2>1, <2>2, <3>1 DEF Place
    <3>5. conn[es[k]].pc # "start"
      BY <2>3 DEF ServerOK, RegisteredOpen
    <3>6. Brings(k, conn[es[k]])'
      BY <2>1, <3>1, <3>2, <3>3, <3>5 DEF Brings, Final
    <3> QED
      BY <3>4, <3>6
  <2>4. CASE es[k] \in clients /\ Full(es[k])
    <3>1. conn'[es[k]] = conn[es[k]] /\ dropped'[k]
      BY <1>2, <2>1, <2>4
    <3> QED
      BY <2>1, <2>2, <3>1 DEF Place, Brings
  <2>5. CASE es[k] \notin clients
    <3>1. conn'[es[k]] = conn[es[k]] /\ conn[es[k]].pc = "start"
      BY <1>2, <2>1, <2>2, <2>5 DEF Place
    <3> QED
      BY <2>1, <2>2, <3>1 DEF Place, Brings
  <2> QED
    BY <2>3, <2>4, <2>5
<1>8. StreamsOwn' /\ StreamsNew'
  BY <1>7 DEF StreamsOwn, StreamsNew
<1> QED
  BY <1>4, <1>5, <1>6, <1>8 DEF HooksOK

\* A handler's step: the streams that are not its own stay, and its own is as
\* new as before.
LEMMA HandlerHooks ==
  ASSUME ServerOK, HooksOK, NEW c \in Conns, Handler(c)
  PROVE  HooksOK'
<1>1. /\ ServerTyped /\ conn \in [Conns -> ConnType] /\ conn[c] \in ConnType
      /\ latest \in Nat /\ latest \in Times /\ out \in Nat /\ Times \subseteq Nat /\ MaxWire \in Nat /\ Cap \in Nat
  BY ConstantsAssumption DEF ServerOK, ServerTyped, Times, ConstantsAssumption
<1>2. UNCHANGED Others
  BY <1>1, HandlerMoves
<1>3. PICK r \in ConnType :
        /\ conn' = [conn EXCEPT ![c] = r]
        /\ \/ Registers(c, conn[c], r) \/ Begins(c, conn[c], r)
           \/ Forwards(c, conn[c], r) \/ Retires(c, conn[c], r)
  BY <1>1, HandlerMoves
<1> DEFINE q == conn[c]
<1>4. /\ conn'[c] = r /\ \A d \in Conns : d # c => conn'[d] = conn[d]
      /\ \A d \in clients : d # c => d \in clients'
  BY <1>1, <1>3 DEF Registers, Begins, Forwards, Retires
<1>5. /\ q.ch \in Seq(Times) /\ q.wire \in Seq(Times)
      /\ Len(q.ch) \in Nat /\ Len(q.wire) \in Nat /\ Len(q.ch) <= Cap /\ Len(q.wire) <= MaxWire
  BY <1>1 DEF ConnType, HooksOK, Capacities
<1> HIDE DEF q
<1>6. /\ latest # 0 => /\ Append(q.wire, latest) # <<>>
                       /\ Len(Append(q.wire, latest)) = Len(q.wire) + 1
                       /\ Append(q.wire, latest)[Len(Append(q.wire, latest))] = latest
      /\ q.ch # <<>> =>
           /\ Append(q.wire, Head(q.ch)) # <<>>
           /\ Len(Append(q.wire, Head(q.ch))) = Len(q.wire) + 1
           /\ Append(q.wire, Head(q.ch))[Len(Append(q.wire, Head(q.ch)))] = Head(q.ch)
           /\ Len(Tail(q.ch)) = Len(q.ch) - 1
           /\ Tail(q.ch) # <<>> => Tail(q.ch)[Len(Tail(q.ch))] = q.ch[Len(q.ch)]
           /\ Tail(q.ch) = <<>> => Head(q.ch) = q.ch[Len(q.ch)]
  BY <1>1, <1>5, LastAppended, LastOfTail
<1>7. Len(r.ch) <= Cap /\ Len(r.wire) <= MaxWire
  <2>1. CASE Registers(c, q, r)
    BY <2>1, <1>5 DEF Registers
  <2>2. CASE Begins(c, q, r)
    BY <2>2, <1>1, <1>5, <1>6 DEF Begins
  <2>3. CASE Forwards(c, q, r)
    BY <2>3, <1>1, <1>5, <1>6 DEF Forwards
  <2>4. CASE Retires(c, q, r)
    <3>1. Free.ch = <<>> /\ Free.wire = <<>> /\ Len(<<>>) = 0
      BY DEF Free
    <3> QED
      BY <2>4, <3>1, <1>1, <1>5 DEF Retires
  <2> QED
    BY <1>3, <2>1, <2>2, <2>3, <2>4 DEF q
<1>8. HooksTyped' /\ Ordered'
  BY <1>2 DEF HooksOK, HooksTyped, Ordered, Others, serverVars, hookVars
<1>9. Capacities'
  BY <1>4, <1>7 DEF HooksOK, Capacities
<1>10. ASSUME NEW k \in Consumers, es'[k] # 0
       PROVE  Place(k)' /\ Brings(k, conn[es[k]])'
  <2>1. /\ es' = es /\ es[k] # 0 /\ es[k] \in Conns /\ out' = out
        /\ snapshot' = snapshot /\ late' = late /\ dropped' = dropped /\ snapshot[k] \in Times
    BY <1>1, <1>2, <1>10, StreamOfHook DEF HooksOK, Others, serverVars, hookVars
  <2>2. Place(k) /\ Brings(k, conn[es[k]])
    BY <2>1 DEF HooksOK, StreamsOwn, StreamsNew
  <2>3. CASE es[k] # c
    BY <2>1, <2>2, <2>3, <1>4 DEF Place, Brings, Final
  <2>4. CASE es[k] = c
    <3>1. /\ q.pc \in {"start", "first", "loop"} /\ ~q.done
          /\ q.pc # "start" => c \in clients
          /\ \A j \in Consumers : j # k => es[j] # es[k]
      BY <2>2, <2>4 DEF Place, q
    <3>2. Brings(k, q)
      BY <2>2, <2>4 DEF q
    <3>3. SUFFICES /\ r.pc \in {"first", "loop"} /\ ~r.done /\ c \in clients'
                   /\ Brings(k, r)
      BY <1>4, <2>1, <2>4, <3>1 DEF Place, Brings
    <3>4. CASE Registers(c, q, r)
      BY <3>1, <3>2, <3>4 DEF Registers, Brings
    <3>5. CASE Begins(c, q, r)
      <4>1. r.pc = "loop" /\ ~r.done /\ c \in clients' /\ r.ch = q.ch
        BY <3>1, <3>5 DEF Begins
      <4>2. q.ch = <<>> \/ Final(q) >= out \/ dropped[k]
        BY <3>2, <3>5 DEF Begins, Brings
      <4>3. out <= latest
        BY DEF HooksOK, Ordered
      <4>4. CASE q.ch # <<>>
        BY <4>1, <4>2, <4>4 DEF Brings, Final
      <4>5. CASE q.ch = <<>> /\ latest # 0
        <5>1. r.wire # <<>> /\ Final(r) = latest
          BY <1>6, <3>1, <3>5, <4>1, <4>5 DEF Begins, Final
        <5> QED
          BY <1>1, <4>1, <4>3, <5>1 DEF Brings
      <4>6. CASE q.ch = <<>> /\ latest = 0
        <5>1. out = 0 /\ snapshot[k] >= out
          BY <1>1, <2>1, <4>3, <4>6 DEF Times
        <5>2. r.wire # <<>> => Final(r) >= out
          <6>1. r.wire # <<>> => Final(r) \in Times
            BY FinalType
          <6> QED
            BY <1>1, <5>1, <6>1 DEF Times
        <5> QED
          BY <4>1, <4>6, <5>1, <5>2 DEF Brings
      <4> QED
        BY <4>4, <4>5, <4>6
    <3>6. CASE Forwards(c, q, r)
      <4>1. /\ r.pc = "loop" /\ ~r.done /\ c \in clients' /\ q.ch # <<>>
            /\ r.ch = Tail(q.ch) /\ r.wire = Append(q.wire, Head(q.ch))
        BY <3>1, <3>6 DEF Forwards
      <4>2. dropped[k] \/ Final(q) >= out
        BY <3>2, <3>6, <4>1 DEF Forwards, Brings
      <4>3. r.wire # <<>> /\ Final(r) = Final(q)
        BY <1>6, <4>1 DEF Final
      <4> QED
        BY <4>1, <4>2, <4>3 DEF Brings
    <3>7. CASE Retires(c, q, r)
      BY <3>1, <3>7 DEF Retires
    <3> QED
      BY <1>3, <3>4, <3>5, <3>6, <3>7 DEF q
  <2> QED
    BY <2>3, <2>4
<1>11. StreamsOwn' /\ StreamsNew'
  BY <1>10 DEF StreamsOwn, StreamsNew
<1> QED
  BY <1>8, <1>9, <1>11 DEF HooksOK

-----------------------------------------------------------------------------
(* The steps of the browser keep them new.                                 *)

LEMMA ConnectHooks ==
  ASSUME ServerOK, HooksOK, NEW k \in Consumers, Connect(k)
  PROVE  HooksOK'
<1>1. PICK c \in Conns : /\ conn[c] = Free /\ conn' = [conn EXCEPT ![c] = Accepted]
                         /\ es' = [es EXCEPT ![k] = c]
  BY DEF Connect
<1>2. /\ UNCHANGED <<serverVars, clients, meta, mounted, hookVars, late, moves, faults>>
      /\ dropped' = [dropped EXCEPT ![k] = FALSE]
  BY DEF Connect
<1>3. ServerTyped /\ HooksTyped /\ conn \in [Conns -> ConnType] /\ es \in [Consumers -> 0 .. MaxConns]
  BY DEF ServerOK, ServerTyped, HooksOK, HooksTyped
<1>4. /\ Accepted.pc = "start" /\ Accepted.ch = <<>> /\ Accepted.wire = <<>> /\ ~Accepted.done
      /\ Len(<<>>) = 0 /\ 0 <= Cap /\ 0 <= MaxWire /\ Free.pc = "free"
  BY ConstantsAssumption DEF ConstantsAssumption, Accepted, Free
<1>5. HooksTyped'
  <2>1. c \in 0 .. MaxConns
    BY ConstantsAssumption DEF Conns, ConstantsAssumption
  <2> QED
    BY <1>1, <1>2, <1>3, <2>1 DEF HooksTyped, serverVars, hookVars, Times
<1>6. Capacities'
  BY <1>1, <1>3, <1>4 DEF HooksOK, Capacities
<1>7. Ordered'
  BY <1>2 DEF HooksOK, Ordered, serverVars
<1>8. ASSUME NEW j \in Consumers, j # k, es'[j] # 0
      PROVE  /\ es[j] # 0 /\ es'[j] = es[j] /\ es[j] # c
             /\ conn'[es[j]] = conn[es[j]] /\ dropped'[j] = dropped[j]
             /\ Place(j) /\ Brings(j, conn[es[j]])
  <2>1. es[j] # 0 /\ es'[j] = es[j] /\ dropped'[j] = dropped[j]
    BY <1>1, <1>2, <1>3, <1>8 DEF HooksTyped
  <2>2. Place(j) /\ Brings(j, conn[es[j]])
    BY <2>1 DEF HooksOK, StreamsOwn, StreamsNew
  <2>3. es[j] # c
    BY <1>1, <1>4, <2>2 DEF Place
  <2>4. es[j] \in Conns
    BY <1>3, <2>1, StreamOfHook
  <2> QED
    BY <1>1, <1>3, <2>1, <2>2, <2>3, <2>4
<1>9. es'[k] = c /\ conn'[c] = Accepted /\ c # 0
  BY <1>1, <1>3 DEF Conns
<1>10. ASSUME NEW j \in Consumers, es'[j] # 0
       PROVE  Place(j)' /\ Brings(j, conn[es[j]])'
  <2>1. CASE j = k
    <3>1. \A i \in Consumers : i # k => es'[i] # c
      BY <1>8, <1>9
    <3>2. Place(j)'
      BY <1>4, <1>9, <2>1, <3>1 DEF Place
    <3> QED
      BY <1>4, <1>9, <2>1, <3>2 DEF Brings
  <2>2. CASE j # k
    <3>1. /\ es'[j] = es[j] /\ es[j] # c /\ conn'[es[j]] = conn[es[j]] /\ dropped'[j] = dropped[j]
          /\ Place(j) /\ Brings(j, conn[es[j]])
      BY <1>8, <1>10, <2>2
    <3>2. \A i \in Consumers : i # j => es'[i] # es'[j]
      <4>1. ASSUME NEW i \in Consumers, i # j PROVE es'[i] # es'[j]
        <5>1. CASE i = k
          BY <5>1, <3>1, <1>9
        <5>2. CASE i # k
          BY <5>2, <4>1, <3>1, <1>1, <1>3 DEF Place
        <5> QED
          BY <5>1, <5>2
      <4> QED
        BY <4>1
    <3>3. Place(j)'
      BY <1>2, <3>1, <3>2 DEF Place
    <3> QED
      BY <1>2, <3>1, <3>3 DEF Brings, Final, serverVars, hookVars
  <2> QED
    BY <2>1, <2>2
<1>11. StreamsOwn' /\ StreamsNew'
  BY <1>10 DEF StreamsOwn, StreamsNew
<1> QED
  BY <1>5, <1>6, <1>7, <1>11 DEF HooksOK

\* The event that leaves the stream is what the hook shows from then on.
LEMMA EventHooks ==
  ASSUME ServerOK, HooksOK, NEW k \in Consumers, Event(k)
  PROVE  HooksOK'
<1>1. /\ ServerTyped /\ HooksTyped /\ conn \in [Conns -> ConnType]
      /\ es \in [Consumers -> 0 .. MaxConns] /\ snapshot \in [Consumers -> Times]
      /\ out \in Nat /\ MaxWire \in Nat
  BY ConstantsAssumption DEF ServerOK, ServerTyped, HooksOK, HooksTyped, Times, ConstantsAssumption
<1> DEFINE q == conn[es[k]]
           r == [q EXCEPT !.wire = Tail(q.wire)]
<1>2. /\ es[k] # 0 /\ q.wire # <<>> /\ conn' = [conn EXCEPT ![es[k]] = r]
      /\ snapshot' = [snapshot EXCEPT ![k] = Head(q.wire)]
      /\ live' = [live EXCEPT ![k] = TRUE] /\ late' = [late EXCEPT ![k] = FALSE]
      /\ UNCHANGED <<serverVars, clients, meta, mounted, get, es, dropped, moves, faults>>
  BY DEF Event
<1>3. es[k] \in Conns /\ q \in ConnType /\ q.ch \in Seq(Times) /\ q.wire \in Seq(Times)
  BY <1>1, <1>2, StreamOfHook
<1>4. /\ Head(q.wire) \in Times /\ Tail(q.wire) \in Seq(Times) /\ Len(Tail(q.wire)) = Len(q.wire) - 1
      /\ Len(q.wire) \in Nat
      /\ Tail(q.wire) # <<>> => Tail(q.wire)[Len(Tail(q.wire))] = q.wire[Len(q.wire)]
      /\ Tail(q.wire) = <<>> => Head(q.wire) = q.wire[Len(q.wire)]
  BY <1>2, <1>3, LastOfTail
<1>5. r.pc = q.pc /\ r.done = q.done /\ r.ch = q.ch /\ r.wire = Tail(q.wire)
  BY <1>3 DEF ConnType
<1>6. conn'[es[k]] = r /\ \A c \in Conns : c # es[k] => conn'[c] = conn[c]
  BY <1>1, <1>2, <1>3
<1>7. Place(k) /\ Brings(k, q)
  BY <1>2 DEF HooksOK, StreamsOwn, StreamsNew
<1>8. Len(q.ch) <= Cap /\ Len(q.wire) <= MaxWire
  BY <1>3 DEF HooksOK, Capacities
<1> HIDE DEF q, r
<1>9. HooksTyped'
  BY <1>1, <1>2, <1>4 DEF HooksTyped, serverVars, Times
<1>10. Capacities'
  <2>1. Len(r.ch) <= Cap /\ Len(r.wire) <= MaxWire
    BY <1>1, <1>4, <1>5, <1>8
  <2> QED
    BY <1>6, <2>1 DEF HooksOK, Capacities
<1>11. Ordered'
  BY <1>2 DEF HooksOK, Ordered, serverVars
<1>12. ASSUME NEW j \in Consumers, es'[j] # 0
       PROVE  Place(j)' /\ Brings(j, conn[es[j]])'
  <2>1. /\ es' = es /\ es[j] # 0 /\ clients' = clients /\ out' = out /\ dropped' = dropped
        /\ Place(j) /\ Brings(j, conn[es[j]]) /\ es[j] \in Conns
    BY <1>1, <1>2, <1>12, StreamOfHook DEF HooksOK, StreamsOwn, StreamsNew, serverVars
  <2>2. CASE j # k
    <3>1. es[j] # es[k] /\ snapshot'[j] = snapshot[j] /\ late'[j] = late[j]
      BY <1>1, <1>2, <1>7, <2>2 DEF Place, HooksTyped
    <3> QED
      BY <1>6, <2>1, <3>1 DEF Place, Brings, Final
  <2>3. CASE j = k
    <3>1. Place(j)'
      BY <1>5, <1>6, <2>1, <2>3 DEF Place, q
    <3>2. snapshot'[k] = Head(q.wire)
      BY <1>1, <1>2
    <3>3. Brings(k, conn[es[k]])'
      <4>1. /\ conn'[es'[k]].pc = q.pc /\ conn'[es'[k]].ch = q.ch /\ conn'[es'[k]].wire = Tail(q.wire)
            /\ q.pc # "start" /\ late'[k] = FALSE
        BY <1>1, <1>2, <1>5, <1>6, <1>7, <2>1 DEF Brings, HooksTyped
      <4>2. CASE q.ch # <<>>
        BY <1>7, <2>1, <4>1, <4>2 DEF Brings, Final
      <4>3. CASE q.ch = <<>> /\ Tail(q.wire) # <<>>
        BY <1>2, <1>4, <1>7, <2>1, <4>1, <4>3 DEF Brings, Final
      <4>4. CASE q.ch = <<>> /\ Tail(q.wire) = <<>>
        BY <1>2, <1>4, <1>7, <2>1, <3>2, <4>1, <4>4 DEF Brings, Final
      <4> QED
        BY <4>2, <4>3, <4>4
    <3> QED
      BY <2>3, <3>1, <3>3
  <2> QED
    BY <2>2, <2>3
<1>13. StreamsOwn' /\ StreamsNew'
  BY <1>12 DEF StreamsOwn, StreamsNew
<1> QED
  BY <1>9, <1>10, <1>11, <1>13 DEF HooksOK

\* The answer of GET, or its failure, comes late or changes nothing.
LEMMA CurrentHooks ==
  ASSUME ServerOK, HooksOK, NEW k \in Consumers, Current(k)
  PROVE  HooksOK'
<1>1. HooksTyped'
  <2>1. latest \in Times /\ get \in [Consumers -> {Idle, Asked} \cup Answers]
    BY DEF ServerOK, ServerTyped, HooksOK, HooksTyped
  <2>2. [phase |-> "answered", got |-> latest] \in Answers
    BY <2>1 DEF Answers
  <2>3. get' \in [Consumers -> {Idle, Asked} \cup Answers]
    BY <2>1, <2>2 DEF Current
  <2> QED
    BY <2>3 DEF Current, HooksOK, HooksTyped, serverVars, Answers, Times
<1>2. Capacities' /\ Ordered'
  BY DEF Current, HooksOK, Capacities, Ordered, serverVars
<1>3. \A j \in Consumers : Kept(j)
  BY DEF Current, Kept, serverVars
<1> QED
  BY <1>1, <1>2, <1>3, KeptStreams DEF HooksOK

LEMMA GotHooks ==
  ASSUME ServerOK, HooksOK, NEW k \in Consumers, Got(k)
  PROVE  HooksOK'
<1>1. /\ HooksTyped /\ ServerTyped /\ faults \in 0 .. MaxFaults /\ MaxFaults \in Nat
      /\ get \in [Consumers -> {Idle, Asked} \cup Answers]
      /\ snapshot \in [Consumers -> Times] /\ late \in [Consumers -> BOOLEAN]
      /\ live \in [Consumers -> BOOLEAN]
  BY ConstantsAssumption DEF ServerOK, HooksOK, HooksTyped, ConstantsAssumption
<1>2. /\ get' = [get EXCEPT ![k] = Idle]
      /\ UNCHANGED <<serverVars, clients, conn, meta, mounted, es, dropped, moves>>
  BY DEF Got
<1>3. /\ snapshot' \in [Consumers -> Times] /\ live' \in [Consumers -> BOOLEAN]
      /\ late' \in [Consumers -> BOOLEAN] /\ faults' \in 0 .. MaxFaults
      /\ \A j \in Consumers \ {k} : snapshot'[j] = snapshot[j] /\ late'[j] = late[j]
      /\ late'[k] \/ (snapshot'[k] = snapshot[k] /\ late'[k] = late[k])
  <2>1. CASE get[k].phase = "answered" /\ get[k].got = 0 /\ UNCHANGED <<snapshot, live, late, faults>>
    BY <1>1, <2>1
  <2>2. CASE /\ get[k].phase = "answered" /\ UNCHANGED faults
             /\ snapshot' = [snapshot EXCEPT ![k] = get[k].got]
             /\ live' = [live EXCEPT ![k] = TRUE] /\ late' = [late EXCEPT ![k] = TRUE]
    <3>1. get[k].got \in Times
      BY <1>1, <2>2 DEF Answers, Idle, Asked
    <3>2. snapshot' \in [Consumers -> Times] /\ faults' \in 0 .. MaxFaults
      BY <1>1, <2>2, <3>1
    <3>3. /\ live' \in [Consumers -> BOOLEAN] /\ late' \in [Consumers -> BOOLEAN] /\ late'[k]
          /\ \A j \in Consumers \ {k} : snapshot'[j] = snapshot[j] /\ late'[j] = late[j]
      BY <1>1, <2>2
    <3> QED
      BY <3>2, <3>3
  <2>3. CASE /\ faults < MaxFaults /\ faults' = faults + 1
             /\ live' = [live EXCEPT ![k] = FALSE] /\ late' = [late EXCEPT ![k] = TRUE]
             /\ UNCHANGED snapshot
    <3>1. faults' \in 0 .. MaxFaults
      BY <1>1, <2>3
    <3>2. /\ live' \in [Consumers -> BOOLEAN] /\ late' \in [Consumers -> BOOLEAN] /\ late'[k]
          /\ \A j \in Consumers \ {k} : snapshot'[j] = snapshot[j] /\ late'[j] = late[j]
      BY <1>1, <2>3
    <3> QED
      BY <1>1, <2>3, <3>1, <3>2
  <2> QED
    BY <2>1, <2>2, <2>3 DEF Got
<1>4. HooksTyped'
  <2>1. get' \in [Consumers -> {Idle, Asked} \cup Answers]
    BY <1>1, <1>2
  <2> QED
    BY <1>1, <1>2, <1>3, <2>1 DEF HooksTyped, serverVars, Answers, Times
<1>5. Capacities' /\ Ordered'
  BY <1>2 DEF HooksOK, Capacities, Ordered, serverVars
<1>6. ASSUME NEW j \in Consumers, es'[j] # 0
      PROVE  Place(j)' /\ Brings(j, conn[es[j]])'
  <2>1. es' = es /\ Place(j) /\ Brings(j, conn[es[j]]) /\ out' = out
    BY <1>2, <1>6 DEF HooksOK, StreamsOwn, StreamsNew, serverVars
  <2>2. late'[j] \/ (snapshot'[j] = snapshot[j] /\ late'[j] = late[j])
    BY <1>3
  <2> QED
    BY <1>2, <2>1, <2>2 DEF Place, Brings, Final
<1>7. StreamsOwn' /\ StreamsNew'
  BY <1>6 DEF StreamsOwn, StreamsNew
<1> QED
  BY <1>4, <1>5, <1>7 DEF HooksOK

LEMMA BreakHooks ==
  ASSUME ServerOK, HooksOK, NEW k \in Consumers, Break(k)
  PROVE  HooksOK'
<1>1. /\ ServerTyped /\ HooksTyped /\ Capacities /\ StreamsOwn /\ {k} \in SUBSET Consumers
      /\ es \in [Consumers -> 0 .. MaxConns] /\ MaxFaults \in Nat /\ MaxConns \in Nat
  BY ConstantsAssumption DEF ServerOK, HooksOK, HooksTyped, ConstantsAssumption
<1>2. /\ faults < MaxFaults /\ faults' = faults + 1
      /\ conn' = Abandoned({k}) /\ es' = [es EXCEPT ![k] = 0]
      /\ live' = [live EXCEPT ![k] = FALSE] /\ late' = [late EXCEPT ![k] = FALSE]
      /\ UNCHANGED <<serverVars, clients, meta, mounted, snapshot, get, dropped, moves>>
  BY DEF Break
<1>3. Capacities' /\ \A j \in Consumers \ {k} : es[j] # 0 => conn'[es[j]] = conn[es[j]]
  BY <1>1, <1>2, AbandonKeeps
<1>4. HooksTyped'
  BY <1>1, <1>2 DEF HooksTyped, serverVars, Answers, Times
<1>5. Ordered'
  BY <1>2 DEF HooksOK, Ordered, serverVars
<1>6. \A j \in Consumers : Kept(j)
  BY <1>1, <1>2, <1>3 DEF Kept, HooksTyped, serverVars
<1>7. StreamsOwn' /\ StreamsNew'
  BY <1>6, KeptStreams DEF HooksOK
<1> QED
  BY <1>3, <1>4, <1>5, <1>7 DEF HooksOK

\* The hooks of a page that goes, or comes, have no stream.
LEMMA RemountHooks ==
  ASSUME ServerOK, HooksOK, NEW K \in SUBSET Consumers, NEW L \in SUBSET Consumers, Remount(K, L),
         UNCHANGED <<serverVars, clients>>, meta' \in {"loading", "known", "failed"},
         moves' \in 0 .. MaxMoves, faults' = faults
  PROVE  HooksOK'
<1>1. /\ ServerTyped /\ HooksTyped /\ Capacities /\ StreamsOwn
      /\ 0 \in Times /\ 0 \in 0 .. MaxConns /\ conn' = Abandoned(K)
  BY ConstantsAssumption DEF ServerOK, HooksOK, Remount, ConstantsAssumption, Times
<1>2. Capacities' /\ \A j \in Consumers \ K : es[j] # 0 => conn'[es[j]] = conn[es[j]]
  BY <1>1, AbandonKeeps
<1>3. HooksTyped'
  <2>1. \A k \in Consumers :
          /\ snapshot[k] \in Times /\ es[k] \in 0 .. MaxConns /\ live[k] \in BOOLEAN
          /\ dropped[k] \in BOOLEAN /\ late[k] \in BOOLEAN
          /\ get[k] \in {Idle, Asked} \cup Answers
    BY <1>1 DEF HooksTyped
  <2>2. snapshot' \in [Consumers -> Times] /\ es' \in [Consumers -> 0 .. MaxConns]
    BY <1>1, <2>1 DEF Remount
  <2>3. /\ live' \in [Consumers -> BOOLEAN] /\ dropped' \in [Consumers -> BOOLEAN]
        /\ late' \in [Consumers -> BOOLEAN]
    BY <2>1 DEF Remount
  <2>4. get' \in [Consumers -> {Idle, Asked} \cup Answers]
    BY <2>1 DEF Remount
  <2>5. mounted' \subseteq Consumers /\ mode' = mode /\ (0 .. MaxFaults)' = 0 .. MaxFaults
    BY <1>1 DEF Remount, HooksTyped, serverVars
  <2> QED
    BY <1>1, <2>2, <2>3, <2>4, <2>5 DEF HooksTyped, Answers, Times
<1>4. Ordered'
  BY DEF HooksOK, Ordered, serverVars
<1>5. \A j \in Consumers : Kept(j)
  <2>1. ASSUME NEW j \in Consumers, es'[j] # 0
        PROVE  /\ j \notin K \cup L /\ es'[j] = es[j] /\ snapshot'[j] = snapshot[j]
               /\ dropped'[j] = dropped[j] /\ late'[j] = late[j]
    <3>1. j \notin K \cup L /\ es'[j] = es[j] /\ snapshot'[j] = snapshot[j]
      BY <2>1 DEF Remount
    <3>2. dropped[j] \in BOOLEAN /\ late[j] \in BOOLEAN
      BY <1>1 DEF HooksTyped
    <3>3. dropped'[j] = (j \notin K \cup L /\ dropped[j]) /\ late'[j] = (j \notin K \cup L /\ late[j])
      BY DEF Remount
    <3> QED
      BY <3>1, <3>2, <3>3
  <2> QED
    BY <1>2, <2>1 DEF Kept, serverVars
<1>6. StreamsOwn' /\ StreamsNew'
  BY <1>5, KeptStreams DEF HooksOK
<1> QED
  BY <1>2, <1>3, <1>4, <1>6 DEF HooksOK

LEMMA RestartHooks ==
  ASSUME ServerOK, HooksOK, Restart
  PROVE  HooksOK'
<1>1. /\ HooksTyped /\ time \in Nat /\ MaxFaults \in Nat /\ 0 \in 0 .. MaxConns
      /\ Len(<<>>) = 0 /\ 0 <= Cap /\ 0 <= MaxWire /\ Free.ch = <<>> /\ Free.wire = <<>>
  BY ConstantsAssumption DEF ServerOK, ServerTyped, HooksOK, ConstantsAssumption, Times, Free
<1>2. HooksTyped'
  <2>1. \A k \in Consumers : (es[k] = 0 /\ live[k]) \in BOOLEAN /\ (es[k] = 0 /\ late[k]) \in BOOLEAN
    BY <1>1 DEF HooksTyped
  <2>2. live' \in [Consumers -> BOOLEAN] /\ late' \in [Consumers -> BOOLEAN]
    BY <2>1 DEF Restart
  <2>3. es' \in [Consumers -> 0 .. MaxConns]
    BY <1>1 DEF Restart
  <2>4. faults' \in 0 .. MaxFaults
    BY <1>1 DEF Restart, HooksTyped
  <2> QED
    BY <1>1, <2>2, <2>3, <2>4 DEF Restart, HooksTyped, Answers, Times
<1>3. Capacities' /\ Ordered'
  BY <1>1 DEF Restart, Capacities, Ordered
<1>4. StreamsOwn' /\ StreamsNew'
  BY DEF Restart, StreamsOwn, StreamsNew
<1> QED
  BY <1>2, <1>3, <1>4 DEF HooksOK

\* What changes neither the server nor the streams.
LEMMA QuietHooks ==
  ASSUME HooksOK, MetaFails \/ UNCHANGED vars
  PROVE  HooksOK'
<1>1. UNCHANGED <<serverVars, clients, conn, mounted, hookVars, es, dropped, late, moves>>
  BY DEF MetaFails, vars
<1>2. HooksTyped'
  <2>1. faults' \in 0 .. MaxFaults /\ meta' \in {"loading", "known", "failed"}
    BY ConstantsAssumption DEF MetaFails, vars, HooksOK, HooksTyped, ConstantsAssumption
  <2> QED
    BY <1>1, <2>1 DEF HooksOK, HooksTyped, serverVars, hookVars, Answers, Times
<1>3. Capacities' /\ Ordered'
  BY <1>1 DEF HooksOK, Capacities, Ordered, serverVars
<1>4. \A j \in Consumers : Kept(j)
  BY <1>1 DEF Kept, serverVars, hookVars
<1> QED
  BY <1>2, <1>3, <1>4, KeptStreams DEF HooksOK

LEMMA NextHooks ==
  ASSUME ServerOK, HooksOK, [Next]_vars
  PROVE  HooksOK'
<1>1. CASE Push
  BY <1>1, PushHooks DEF ServerOK
<1>2. CASE Broadcast
  BY <1>2, BroadcastHooks
<1>3. ASSUME NEW c \in Conns, Handler(c) PROVE HooksOK'
  BY <1>3, HandlerHooks
<1>4. ASSUME NEW k \in Consumers, Connect(k) \/ Event(k) \/ Current(k) \/ Got(k) \/ Break(k)
      PROVE  HooksOK'
  BY <1>4, ConnectHooks, EventHooks, CurrentHooks, GotHooks, BreakHooks
<1>5. CASE MetaFails \/ UNCHANGED vars
  BY <1>5, QuietHooks
<1>6. CASE MetaArrives \/ OpenPage \/ Reload
  <2>1. \E K, L \in SUBSET Consumers : Remount(K, L)
    <3>1. /\ {} \in SUBSET Consumers /\ {"page"} \in SUBSET Consumers
          /\ {"header"} \in SUBSET Consumers /\ {"header", "page"} \in SUBSET Consumers
      BY DEF Consumers
    <3> QED
      BY <1>6, <3>1 DEF MetaArrives, OpenPage, Reload
  <2>2. UNCHANGED <<serverVars, clients, faults>> /\ meta' \in {"loading", "known", "failed"}
    BY <1>6 DEF MetaArrives, OpenPage, Reload, HooksOK, HooksTyped
  <2>3. moves' \in 0 .. MaxMoves
    BY <1>6, ConstantsAssumption
       DEF MetaArrives, OpenPage, Reload, HooksOK, HooksTyped, ConstantsAssumption
  <2> QED
    BY <2>1, <2>2, <2>3, RemountHooks
<1>7. CASE Restart
  BY <1>7, RestartHooks
<1> QED
  BY <1>1, <1>2, <1>3, <1>4, <1>5, <1>6, <1>7 DEF Next

-----------------------------------------------------------------------------
(* The theorems.                                                           *)

\* The inductive invariant: types, where a registered handler is, whose each
\* stream is, and how new what it brings last is.
THEOREM Invariance == Spec => []IInv
<1>1. Init => IInv
  BY InitServer, InitHooks, ConstantsAssumption DEF IInv, HooksOK
<1>2. IInv /\ [Next]_vars => IInv'
  BY NextServer, NextHooks, ConstantsAssumption DEF IInv, HooksOK
<1> QED
  BY <1>1, <1>2, PTL DEF Spec

\* Every variable of the server, of the handlers and of the hooks has its
\* type: no channel holds more than its capacity.
THEOREM TypeCorrect == Spec => []TypeOK
<1>1. IInv => TypeOK
  <2>1. ASSUME IInv, NEW c \in Conns
        PROVE  /\ conn[c].pc \in {"free", "start", "first", "loop", "leave", "close"}
               /\ conn[c].open \in BOOLEAN /\ conn[c].done \in BOOLEAN
               /\ Len(conn[c].ch) <= Cap /\ Len(conn[c].wire) <= MaxWire
    BY <2>1 DEF IInv, ServerOK, ServerTyped, Capacities, ConnType, Places
  <2>2. ASSUME IInv, NEW k \in Consumers
        PROVE  get[k].phase \in {"idle", "sent", "answered"}
    <3>1. get[k] \in {Idle, Asked} \cup Answers
      BY <2>2 DEF IInv, HooksTyped
    <3> QED
      BY <3>1 DEF Idle, Asked, Answers
  <2>3. ASSUME IInv
        PROVE  /\ mode \in {"agent", "hub"} /\ {time, latest, pushing, out} \subseteq Times
               /\ clients \subseteq Conns
               /\ meta \in {"loading", "known", "failed"} /\ mounted \subseteq Consumers
               /\ snapshot \in [Consumers -> Times] /\ es \in [Consumers -> 0 .. MaxConns]
               /\ {live, dropped, late} \subseteq [Consumers -> BOOLEAN]
               /\ moves \in 0 .. MaxMoves /\ faults \in 0 .. MaxFaults
    BY <2>3 DEF IInv, ServerOK, ServerTyped, HooksTyped
  <2> QED
    BY <2>1, <2>2, <2>3 DEF TypeOK
<1> QED
  BY <1>1, Invariance, PTL

\* broadcast (server.go) sends to no channel that serve has closed, however
\* the connections come, break and go: the agent is not brought down by a
\* browser that leaves.
THEOREM SendsAreSafe == Spec => []NoSendOnClosed
<1>1. IInv => NoSendOnClosed
  BY DEF IInv, ServerOK, RegisteredOpen, NoSendOnClosed
<1> QED
  BY <1>1, Invariance, PTL

\* serve registers the channel before it writes the first event: no snapshot
\* falls between the two.  What a hook shows, or has on its way, is as new as
\* the last broadcast unless the channel was full or GET was answered later.
THEOREM NothingHeldBack == Spec => []NoneHeldBack
<1>1. ASSUME IInv, NEW k \in mounted, es[k] # 0, conn[es[k]].pc = "loop", ~dropped[k], ~late[k]
      PROVE  \E t \in Pending(k) : t >= out
  <2>1. /\ k \in Consumers /\ es[k] \in Conns /\ conn[es[k]] \in ConnType
        /\ conn[es[k]].ch \in Seq(Times) /\ conn[es[k]].wire \in Seq(Times)
    BY <1>1, StreamOfHook DEF IInv, ServerOK, HooksTyped
  <2>2. Brings(k, conn[es[k]])
    BY <1>1, <2>1 DEF IInv, StreamsNew
  <2> DEFINE ch   == conn[es[k]].ch
             wire == conn[es[k]].wire
  <2>3. ch # <<>> => ch[Len(ch)] \in Pending(k)
    BY <2>1 DEF Pending, ToSet
  <2>4. wire # <<>> => wire[Len(wire)] \in Pending(k)
    BY <2>1 DEF Pending, ToSet
  <2>5. snapshot[k] \in Pending(k)
    BY DEF Pending
  <2> QED
    BY <1>1, <2>2, <2>3, <2>4, <2>5 DEF Brings, Final
<1>2. IInv => NoneHeldBack
  BY <1>1 DEF NoneHeldBack
<1> QED
  BY <1>2, Invariance, PTL
=============================================================================
