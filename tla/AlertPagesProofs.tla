-------------------------- MODULE AlertPagesProofs --------------------------
(***************************************************************************)
(* Safety theorems of AlertPages, for any agents, alerts, fields and       *)
(* bounds.                                                                 *)
(*                                                                         *)
(* The two halves of the module share no state that matters: AckInv is     *)
(* about the alerts and the requests that list and acknowledge them,       *)
(* DiskInv about the configuration and the requests that save it.  FormInv *)
(* is about what the form shows of it, and rests on DiskInv for the types. *)
(* Each has its step lemma, in which the steps of the others are quiet.    *)
(***************************************************************************)
EXTENDS AlertPages, TLAPS

ReloadType == {Idle} \cup [phase : {"sent", "rejected"}, of : Agents]
                     \cup [phase : {"answered"}, got : Rows]
PostType   == {Idle} \cup [phase : {"sent", "selected", "answered", "rejected"},
                           kind : {"ack", "silence"}, id : Alerts, mounted : BOOLEAN]

AckTyped ==
    /\ agent \in Agents \cup {NoAgent}
    /\ status \in Rows /\ rows \in Rows
    /\ reloads \in [1 .. MaxReloads -> ReloadType]
    /\ posts \in [1 .. MaxPosts -> PostType]

\* An answer on its way says nothing that the history does not hold.
ListsStored ==
    \A s \in 1 .. MaxReloads : reloads[s].phase = "answered" =>
        \A id \in Alerts : reloads[s].got[id] = "ACK" => status[id] = "ACK"
PostsStored ==
    \A s \in 1 .. MaxPosts : posts[s].phase = "answered" /\ posts[s].kind = "ack" =>
        status[posts[s].id] = "ACK"

AckInv == AckTyped /\ ListsStored /\ PostsStored /\ AckShownStored

ackVars == <<agent, status, rows, reloads, posts>>

-----------------------------------------------------------------------------
(* The requests of useAlerts.                                              *)

LEMMA IdleFacts ==
  /\ Idle \in ReloadType /\ Idle \in PostType
  /\ Idle.phase = "idle"
BY DEF ReloadType, PostType, Idle

LEMMA ReloadKinds ==
  ASSUME NEW x \in ReloadType
  PROVE  \/ x = Idle /\ x.phase = "idle"
         \/ x \in [phase : {"sent", "rejected"}, of : Agents] /\ x # Idle /\ x.phase \in {"sent", "rejected"}
         \/ x \in [phase : {"answered"}, got : Rows] /\ x # Idle /\ x.phase = "answered" /\ x.got \in Rows
BY DEF ReloadType, Idle

LEMMA PostKinds ==
  ASSUME NEW x \in PostType
  PROVE  \/ x = Idle /\ x.phase = "idle"
         \/ /\ x \in [phase : {"sent", "selected", "answered", "rejected"},
                      kind : {"ack", "silence"}, id : Alerts, mounted : BOOLEAN]
            /\ x # Idle /\ x.phase \in {"sent", "selected", "answered", "rejected"}
            /\ x.id \in Alerts
BY DEF PostType, Idle

LEMMA PostPhase ==
  ASSUME NEW x \in PostType, x # Idle, NEW p \in {"sent", "selected", "answered", "rejected"}
  PROVE  /\ [x EXCEPT !.phase = p] \in PostType
         /\ [x EXCEPT !.phase = p].phase = p
         /\ [x EXCEPT !.phase = p].id = x.id /\ [x EXCEPT !.phase = p].kind = x.kind
BY PostKinds DEF PostType

LEMMA RejectReload ==
  ASSUME NEW x \in ReloadType, x.phase \in {"sent", "rejected"}
  PROVE  /\ [x EXCEPT !.phase = "rejected"] \in ReloadType
         /\ [x EXCEPT !.phase = "rejected"].phase = "rejected"
<1>1. x \in [phase : {"sent", "rejected"}, of : Agents]
  BY ReloadKinds
<1> QED
  BY <1>1 DEF ReloadType

\* A post that is orphaned stays the post it was.
LEMMA OrphanFacts ==
  ASSUME NEW f \in [1 .. MaxPosts -> PostType]
  PROVE  /\ Orphaned(f) \in [1 .. MaxPosts -> PostType]
         /\ \A s \in 1 .. MaxPosts : /\ Orphaned(f)[s].phase = f[s].phase
                                     /\ f[s] # Idle => /\ Orphaned(f)[s].kind = f[s].kind
                                                       /\ Orphaned(f)[s].id = f[s].id
<1>1. ASSUME NEW s \in 1 .. MaxPosts
      PROVE  /\ Orphaned(f)[s] \in PostType /\ Orphaned(f)[s].phase = f[s].phase
             /\ f[s] # Idle => Orphaned(f)[s].kind = f[s].kind /\ Orphaned(f)[s].id = f[s].id
  <2>1. Orphaned(f)[s] = IF f[s] = Idle THEN Idle ELSE [f[s] EXCEPT !.mounted = FALSE]
    BY DEF Orphaned
  <2>2. CASE f[s] = Idle
    BY <2>1, <2>2, IdleFacts
  <2>3. CASE f[s] # Idle
    <3>1. f[s] \in [phase : {"sent", "selected", "answered", "rejected"},
                    kind : {"ack", "silence"}, id : Alerts, mounted : BOOLEAN]
      BY <2>3, PostKinds
    <3> QED
      BY <2>1, <2>3, <3>1 DEF PostType
  <2> QED
    BY <2>2, <2>3
<1> QED
  BY <1>1 DEF Orphaned

LEMMA FailedFacts ==
  ASSUME AckTyped
  PROVE  /\ Failed(reloads) \in [1 .. MaxReloads -> ReloadType]
         /\ \A s \in 1 .. MaxReloads : Failed(reloads)[s].phase = "answered" => Failed(reloads)[s] = reloads[s]
         /\ Failed(posts) \in [1 .. MaxPosts -> PostType]
         /\ \A s \in 1 .. MaxPosts : Failed(posts)[s].phase = "answered" => Failed(posts)[s] = posts[s]
<1>1. ASSUME NEW s \in 1 .. MaxReloads
      PROVE  /\ Failed(reloads)[s] \in ReloadType
             /\ Failed(reloads)[s].phase = "answered" => Failed(reloads)[s] = reloads[s]
  <2>1. reloads[s] \in ReloadType
    BY DEF AckTyped
  <2>2. Failed(reloads)[s] = IF reloads[s].phase \in {"idle", "answered"} THEN reloads[s]
                             ELSE [reloads[s] EXCEPT !.phase = "rejected"]
    BY DEF Failed, AckTyped
  <2> QED
    BY <2>1, <2>2, ReloadKinds, RejectReload
<1>2. ASSUME NEW s \in 1 .. MaxPosts
      PROVE  /\ Failed(posts)[s] \in PostType
             /\ Failed(posts)[s].phase = "answered" => Failed(posts)[s] = posts[s]
  <2>1. posts[s] \in PostType
    BY DEF AckTyped
  <2>2. Failed(posts)[s] = IF posts[s].phase \in {"idle", "answered"} THEN posts[s]
                           ELSE [posts[s] EXCEPT !.phase = "rejected"]
    BY DEF Failed, AckTyped
  <2>3. CASE posts[s].phase \in {"idle", "answered"}
    BY <2>1, <2>2, <2>3
  <2>4. CASE posts[s].phase \notin {"idle", "answered"}
    <3>1. posts[s] # Idle
      BY <2>4, IdleFacts
    <3>2. /\ [posts[s] EXCEPT !.phase = "rejected"] \in PostType
          /\ [posts[s] EXCEPT !.phase = "rejected"].phase = "rejected"
      BY <2>1, <3>1, PostPhase
    <3> QED
      BY <2>2, <2>4, <3>2
  <2> QED
    BY <2>3, <2>4
<1> QED
  BY <1>1, <1>2 DEF Failed, AckTyped

-----------------------------------------------------------------------------
(* The steps, for the alerts.                                              *)

LEMMA AckInit ==
  ASSUME ConstantsAssumption, Init
  PROVE  AckInv
<1>1. NoRows \in Rows /\ \A id \in Alerts : NoRows[id] # "ACK"
  BY DEF NoRows, Rows, Statuses
<1>2. reloads \in [1 .. MaxReloads -> ReloadType] /\ \A s \in 1 .. MaxReloads : reloads[s].phase # "answered"
  BY DEF Init, ReloadType, Idle
<1>3. posts \in [1 .. MaxPosts -> PostType] /\ \A s \in 1 .. MaxPosts : posts[s].phase # "answered"
  BY IdleFacts DEF Init
<1> QED
  BY <1>1, <1>2, <1>3 DEF Init, AckInv, AckTyped, ListsStored, PostsStored, AckShownStored

LEMMA AckQuiet ==
  ASSUME AckInv, UNCHANGED ackVars
  PROVE  AckInv'
BY DEF AckInv, AckTyped, ListsStored, PostsStored, AckShownStored, ackVars

\* A page is left: what it showed and listed is gone, its posts go on.
LEMMA AckUnmount ==
  ASSUME AckInv, status' = status, agent' \in Agents \cup {NoAgent}, rows' = NoRows,
         reloads' \in [1 .. MaxReloads -> ReloadType],
         \A s \in 1 .. MaxReloads : reloads'[s].phase # "answered",
         posts' = Orphaned(posts)
  PROVE  AckInv'
<1>1. NoRows \in Rows /\ \A id \in Alerts : NoRows[id] # "ACK"
  BY DEF NoRows, Rows, Statuses
<1>2. posts \in [1 .. MaxPosts -> PostType] /\ \A s \in 1 .. MaxPosts : posts[s].phase = "answered" => posts[s] # Idle
  BY IdleFacts DEF AckInv, AckTyped
<1>3. /\ posts' \in [1 .. MaxPosts -> PostType]
      /\ \A s \in 1 .. MaxPosts : /\ posts'[s].phase = posts[s].phase
                                  /\ posts[s] # Idle => posts'[s].kind = posts[s].kind /\ posts'[s].id = posts[s].id
  BY <1>2, OrphanFacts
<1>4. PostsStored'
  BY <1>2, <1>3 DEF AckInv, PostsStored
<1> QED
  BY <1>1, <1>3, <1>4 DEF AckInv, AckTyped, ListsStored, AckShownStored

LEMMA MountFacts ==
  ASSUME NEW b \in Agents, MountDesk(b)
  PROVE  /\ reloads' \in [1 .. MaxReloads -> ReloadType]
         /\ \A s \in 1 .. MaxReloads : reloads'[s].phase # "answered"
         /\ rows' = NoRows /\ posts' = Orphaned(posts)
BY DEF MountDesk, ReloadType, Idle

LEMMA AckPages ==
  ASSUME AckInv, BackToHub \/ (\E b \in Agents : OpenAgent(b)) \/ (\E q \in Pages : OpenPage(q))
  PROVE  AckInv'
<1>1. ASSUME NEW b \in Agents, OpenAgent(b) PROVE AckInv'
  BY <1>1, MountFacts, AckUnmount DEF OpenAgent, hubVars
<1>2. ASSUME NEW q \in Pages, OpenPage(q) PROVE AckInv'
  <2>1. agent \in Agents
    BY <1>2 DEF OpenPage, AckInv, AckTyped
  <2> QED
    BY <1>2, <2>1, MountFacts, AckUnmount DEF OpenPage, hubVars
<1>3. CASE BackToHub
  <2>1. reloads' \in [1 .. MaxReloads -> ReloadType] /\ \A s \in 1 .. MaxReloads : reloads'[s].phase # "answered"
    BY <1>3 DEF BackToHub, UnmountDesk, ReloadType, Idle
  <2> QED
    BY <1>3, <2>1, AckUnmount DEF BackToHub, UnmountDesk, hubVars
<1> QED
  BY <1>1, <1>2, <1>3

\* A reload is sent, or another one ends: the rest stays.
LEMMA AckReloads ==
  ASSUME AckInv, UNCHANGED <<status, rows, posts>>, agent' \in Agents \cup {NoAgent},
         NEW s \in 1 .. MaxReloads, NEW x \in ReloadType, reloads' = [reloads EXCEPT ![s] = x],
         x.phase = "answered" => \A id \in Alerts : x.got[id] = "ACK" => status[id] = "ACK"
  PROVE  AckInv'
BY DEF AckInv, AckTyped, ListsStored, PostsStored, AckShownStored

LEMMA AckSends ==
  ASSUME AckInv, UNCHANGED <<status, rows, posts>>, NEW b \in Agents, agent' \in Agents,
         \E s \in Free(reloads) : reloads' = [reloads EXCEPT ![s] = [phase |-> "sent", of |-> b]]
  PROVE  AckInv'
<1> DEFINE x == [phase |-> "sent", of |-> b]
<1>1. x \in ReloadType /\ x.phase # "answered"
  BY DEF ReloadType
<1>2. PICK s \in 1 .. MaxReloads : reloads' = [reloads EXCEPT ![s] = x]
  BY DEF Free, AckInv, AckTyped
<1> HIDE DEF x
<1> QED
  BY <1>1, <1>2, AckReloads

LEMMA AckSwitch ==
  ASSUME AckInv, NEW b \in Agents, SwitchAgent(b)
  PROVE  AckInv'
<1>1. CASE page = "overview"
  BY <1>1, AckSends DEF SwitchAgent, hubVars
<1>2. CASE page # "overview"
  BY <1>2, MountFacts, AckUnmount DEF SwitchAgent, hubVars
<1> QED
  BY <1>1, <1>2

LEMMA AckPoll ==
  ASSUME AckInv, Poll
  PROVE  AckInv'
<1>1. agent \in Agents
  BY DEF Poll, AckInv, AckTyped
<1> QED
  BY <1>1, AckSends DEF Poll, hubVars

LEMMA AckServeReload ==
  ASSUME ConstantsAssumption, AckInv, NEW s \in 1 .. MaxReloads, ServeReload(s)
  PROVE  AckInv'
<1> DEFINE x == [phase |-> "answered", got |-> ListAlerts(reloads[s].of)]
<1>1. /\ ListAlerts(reloads[s].of) \in Rows
      /\ \A id \in Alerts : ListAlerts(reloads[s].of)[id] = "ACK" => status[id] = "ACK"
  BY DEF ListAlerts, Rows, Statuses, AckInv, AckTyped
<1>2. x \in ReloadType /\ (x.phase = "answered" => \A id \in Alerts : x.got[id] = "ACK" => status[id] = "ACK")
  BY <1>1 DEF ReloadType
<1>3. reloads' = [reloads EXCEPT ![s] = x]
  BY DEF ServeReload
<1> HIDE DEF x
<1> QED
  BY <1>2, <1>3, AckReloads DEF ServeReload, hubVars, AckInv, AckTyped

LEMMA AckReload ==
  ASSUME AckInv, NEW s \in 1 .. MaxReloads, Reload(s)
  PROVE  AckInv'
<1>1. rows' \in Rows /\ \A id \in Alerts : rows'[id] = "ACK" => status[id] = "ACK"
  <2>1. CASE reloads[s].phase = "answered" /\ rows' = reloads[s].got
    <3>1. reloads[s].got \in Rows
      BY <2>1, ReloadKinds DEF AckInv, AckTyped
    <3> QED
      BY <2>1, <3>1 DEF AckInv, ListsStored
  <2>2. CASE rows' = NoRows
    BY <2>2 DEF NoRows, Rows, Statuses
  <2> QED
    BY <2>1, <2>2 DEF Reload
<1>2. reloads' \in [1 .. MaxReloads -> ReloadType] /\ ListsStored'
  BY IdleFacts DEF Reload, hubVars, AckInv, AckTyped, ListsStored
<1> QED
  BY <1>1, <1>2 DEF Reload, hubVars, AckInv, AckTyped, PostsStored, AckShownStored

\* A post is sent, ends, or moves on: an alert it says to be acknowledged is.
LEMMA AckPosts ==
  ASSUME AckInv, UNCHANGED <<agent, rows, reloads>>,
         status' \in Rows, \A id \in Alerts : status[id] = "ACK" => status'[id] = "ACK",
         NEW s \in 1 .. MaxPosts, NEW x \in PostType, posts' = [posts EXCEPT ![s] = x],
         x.phase = "answered" /\ x.kind = "ack" => status'[x.id] = "ACK"
  PROVE  AckInv'
<1>1. \A t \in 1 .. MaxPosts : posts[t].phase = "answered" => posts[t].id \in Alerts
  BY PostKinds DEF AckInv, AckTyped
<1>2. PostsStored'
  BY <1>1 DEF AckInv, AckTyped, PostsStored
<1>3. ListsStored' /\ AckShownStored'
  BY DEF AckInv, AckTyped, ListsStored, AckShownStored
<1> QED
  BY <1>2, <1>3 DEF AckInv, AckTyped

LEMMA AckPostSent ==
  ASSUME AckInv, UNCHANGED <<agent, status, rows, reloads>>,
         NEW kind \in {"ack", "silence"}, NEW id \in Alerts, Post(kind, id)
  PROVE  AckInv'
<1> DEFINE x == [phase |-> "sent", kind |-> kind, id |-> id, mounted |-> TRUE]
<1>1. x \in PostType /\ x.phase # "answered"
  BY DEF PostType
<1>2. PICK s \in 1 .. MaxPosts : posts' = [posts EXCEPT ![s] = x]
  BY DEF Post, Free, AckInv, AckTyped
<1> HIDE DEF x
<1>3. status' \in Rows /\ \A i \in Alerts : status[i] = "ACK" => status'[i] = "ACK"
  BY DEF AckInv, AckTyped
<1> QED
  BY <1>1, <1>2, <1>3, AckPosts

LEMMA AckHandlers ==
  ASSUME AckInv, NEW s \in 1 .. MaxPosts, SelectAlert(s) \/ UpdateAlert(s) \/ AddSilence(s)
  PROVE  AckInv'
<1>1. posts[s] \in PostType /\ posts[s] # Idle /\ posts[s].id \in Alerts /\ status \in Rows
  BY PostKinds, IdleFacts DEF AckInv, AckTyped, SelectAlert, UpdateAlert, AddSilence
<1>2. UNCHANGED <<agent, rows, reloads>>
  BY DEF SelectAlert, UpdateAlert, AddSilence, deskVars
<1>3. CASE SelectAlert(s)
  <2>1. PICK p \in {"selected", "rejected"} : posts' = [posts EXCEPT ![s] = [posts[s] EXCEPT !.phase = p]]
    BY <1>1, <1>3 DEF SelectAlert, To, AckInv, AckTyped
  <2>2. status' = status
    BY <1>3 DEF SelectAlert, hubVars
  <2> QED
    BY <1>1, <1>2, <2>1, <2>2, PostPhase, AckPosts
<1>4. CASE UpdateAlert(s) /\ status' = [status EXCEPT ![posts[s].id] = "ACK"] /\ posts' = To(posts, s, "answered")
  <2>1. posts' = [posts EXCEPT ![s] = [posts[s] EXCEPT !.phase = "answered"]]
    BY <1>4 DEF To
  <2>2. status' \in Rows /\ \A i \in Alerts : status[i] = "ACK" => status'[i] = "ACK"
    BY <1>1, <1>4 DEF Rows, Statuses
  <2>3. status'[posts[s].id] = "ACK"
    BY <1>1, <1>4 DEF Rows
  <2> QED
    BY <1>1, <1>2, <2>1, <2>2, <2>3, PostPhase, AckPosts
<1>5. CASE UpdateAlert(s) /\ status' = status /\ posts' = To(posts, s, "rejected")
  <2>1. posts' = [posts EXCEPT ![s] = [posts[s] EXCEPT !.phase = "rejected"]]
    BY <1>5 DEF To
  <2> QED
    BY <1>1, <1>2, <1>5, <2>1, PostPhase, AckPosts
<1>6. CASE AddSilence(s)
  <2>1. posts' = [posts EXCEPT ![s] = [posts[s] EXCEPT !.phase = "answered"]] /\ posts[s].kind = "silence"
    BY <1>6 DEF AddSilence, To
  <2>2. status' = status
    BY <1>6 DEF AddSilence
  <2> QED
    BY <1>1, <1>2, <2>1, <2>2, PostPhase, AckPosts
<1> QED
  BY <1>3, <1>4, <1>5, <1>6 DEF UpdateAlert

LEMMA AckPosted ==
  ASSUME AckInv, NEW s \in 1 .. MaxPosts, Posted(s)
  PROVE  AckInv'
<1>1. posts[s] \in PostType /\ posts[s] # Idle /\ posts[s].id \in Alerts
  BY PostKinds, IdleFacts DEF AckInv, AckTyped, Posted
<1>2. \/ rows' = rows
      \/ /\ posts[s].phase = "answered" /\ posts[s].kind = "ack"
         /\ rows' = [rows EXCEPT ![posts[s].id] = "ACK"]
  <2>1. posts[s].kind \in {"ack", "silence"}
    BY <1>1 DEF PostType
  <2> QED
    BY <2>1 DEF Posted
<1>3. rows' \in Rows /\ AckShownStored'
  BY <1>1, <1>2 DEF Posted, hubVars, AckInv, AckTyped, PostsStored, AckShownStored, Rows, Statuses
<1>4. posts' \in [1 .. MaxPosts -> PostType] /\ PostsStored'
  BY IdleFacts DEF Posted, hubVars, AckInv, AckTyped, PostsStored
<1> QED
  BY <1>3, <1>4 DEF Posted, hubVars, AckInv, AckTyped, ListsStored

LEMMA AckStatus ==
  ASSUME AckInv, NEW id \in Alerts, Fire(id) \/ OtherAcks(id)
  PROVE  AckInv'
<1>1. status' \in Rows /\ \A i \in Alerts : status[i] = "ACK" => status'[i] = "ACK"
  BY DEF Fire, OtherAcks, AckInv, AckTyped, Rows, Statuses
<1>2. UNCHANGED <<agent, rows, reloads, posts>>
  BY DEF Fire, OtherAcks, deskVars
<1>3. \A t \in 1 .. MaxPosts : posts[t].phase = "answered" => posts[t].id \in Alerts
  BY PostKinds DEF AckInv, AckTyped
<1> QED
  BY <1>1, <1>2, <1>3 DEF AckInv, AckTyped, ListsStored, PostsStored, AckShownStored

LEMMA AckLose ==
  ASSUME AckInv, Lose
  PROVE  AckInv'
<1>1. UNCHANGED <<agent, status, rows>>
  BY DEF Lose, hubVars
<1>2. ASSUME NEW s \in DOMAIN reloads, reloads[s].phase = "sent", reloads' = To(reloads, s, "rejected"),
             posts' = posts
      PROVE  AckInv'
  <2>1. s \in 1 .. MaxReloads /\ reloads' = [reloads EXCEPT ![s] = [reloads[s] EXCEPT !.phase = "rejected"]]
    BY <1>2 DEF To, AckInv, AckTyped
  <2>2. /\ [reloads[s] EXCEPT !.phase = "rejected"] \in ReloadType
        /\ [reloads[s] EXCEPT !.phase = "rejected"].phase = "rejected"
    BY <1>2, <2>1, RejectReload DEF AckInv, AckTyped
  <2> QED
    BY <1>1, <1>2, <2>1, <2>2, AckReloads DEF AckInv, AckTyped
<1>3. ASSUME NEW s \in DOMAIN posts, posts[s].phase \in {"sent", "answered"}, posts' = To(posts, s, "rejected"),
             reloads' = reloads
      PROVE  AckInv'
  <2>1. s \in 1 .. MaxPosts /\ posts' = [posts EXCEPT ![s] = [posts[s] EXCEPT !.phase = "rejected"]]
    BY <1>3 DEF To, AckInv, AckTyped
  <2>2. posts[s] \in PostType /\ posts[s] # Idle /\ status' \in Rows
    BY <1>1, <1>3, <2>1, IdleFacts DEF AckInv, AckTyped
  <2> QED
    BY <1>1, <1>3, <2>1, <2>2, PostPhase, AckPosts
<1>4. CASE UNCHANGED <<reloads, posts>>
  BY <1>1, <1>4, AckQuiet DEF ackVars
<1> QED
  BY <1>2, <1>3, <1>4 DEF Lose

LEMMA AckRestart ==
  ASSUME AckInv, RestartHub
  PROVE  AckInv'
<1>1. UNCHANGED <<agent, status, rows>> /\ reloads' = Failed(reloads) /\ posts' = Failed(posts)
  BY DEF RestartHub
<1> QED
  BY <1>1, FailedFacts DEF AckInv, AckTyped, ListsStored, PostsStored, AckShownStored

LEMMA AckNext ==
  ASSUME ConstantsAssumption, AckInv, [Next]_vars
  PROVE  AckInv'
<1>1. ASSUME NEW b \in Agents, OpenAgent(b) \/ SwitchAgent(b) PROVE AckInv'
  BY <1>1, AckPages, AckSwitch
<1>2. CASE BackToHub \/ \E q \in Pages : OpenPage(q)
  BY <1>2, AckPages
<1>3. ASSUME NEW id \in Alerts, Acknowledge(id) PROVE AckInv'
  BY <1>3, AckPostSent DEF Acknowledge, hubVars
<1>4. ASSUME NEW id \in Alerts, Silence(id) PROVE AckInv'
  BY <1>4, AckPostSent DEF Silence, hubVars
<1>5. CASE HandleOpen \/ Cancel \/ HandleSave
  BY <1>5, AckQuiet DEF HandleOpen, Cancel, HandleSave, ackVars, hubVars, deskVars
<1>6. ASSUME NEW f \in Fields, NEW v \in {"default", "set", "bad"}, Patch(f, v) PROVE AckInv'
  BY <1>6, AckQuiet DEF Patch, ackVars, hubVars, deskVars
<1>7. ASSUME NEW id \in Alerts, Fire(id) \/ OtherAcks(id) PROVE AckInv'
  BY <1>7, AckStatus
<1>8. ASSUME NEW c \in Normal, OtherSaves(c) PROVE AckInv'
  BY <1>8, AckQuiet DEF OtherSaves, ackVars, hubVars, deskVars
<1>9. CASE Poll
  BY <1>9, AckPoll
<1>10. ASSUME NEW s \in 1 .. MaxReloads, ServeReload(s) \/ Reload(s) PROVE AckInv'
  BY <1>10, AckServeReload, AckReload
<1>11. ASSUME NEW s \in 1 .. MaxPosts, SelectAlert(s) \/ UpdateAlert(s) \/ AddSilence(s) \/ Posted(s) PROVE AckInv'
  BY <1>11, AckHandlers, AckPosted
<1>12. CASE ServeLoad \/ Loaded
  BY <1>12, AckQuiet DEF ServeLoad, Loaded, ackVars, hubVars, deskVars
<1>13. ASSUME NEW s \in 1 .. MaxPuts, Update(s) \/ PersistGets(s) \/ PersistSaves(s) \/ Saved(s) PROVE AckInv'
  BY <1>13, AckQuiet DEF Update, PersistGets, PersistSaves, Saved, ackVars, hubVars, deskVars
<1>14. CASE Lose
  BY <1>14, AckLose
<1>15. CASE RestartHub
  BY <1>15, AckRestart
<1>16. CASE UNCHANGED vars
  BY <1>16, AckQuiet DEF vars, ackVars, hubVars, deskVars
<1> QED
  BY <1>1, <1>2, <1>3, <1>4, <1>5, <1>6, <1>7, <1>8, <1>9, <1>10, <1>11, <1>12, <1>13, <1>14, <1>15, <1>16
     DEF Next, User, Others, Hub, Callbacks

-----------------------------------------------------------------------------
(* The configuration.                                                      *)

PutType == {Idle} \cup [phase : {"sent", "updated", "read", "answered", "rejected"},
                        body : Configs, read : Configs \cup {None}, mounted : BOOLEAN]
LoadType == {Idle} \cup [phase : {"sent"}] \cup [phase : {"answered"}, got : Configs]
                  \cup [phase : {"rejected"}]

ConfigTyped ==
    /\ mem \in Configs /\ disk \in Configs
    /\ config \in Configs /\ draft \in Configs
    /\ load \in LoadType
    /\ puts \in [1 .. MaxPuts -> PutType]

\* What a handler is about to save is the configuration of the hub.
ReadsCurrent == \A s \in 1 .. MaxPuts : puts[s].phase = "read" => puts[s].read = mem \/ raced

ReadsConfig  == \A s \in 1 .. MaxPuts : puts[s].phase = "read" => puts[s].read \in Configs

DiskInv == ConfigTyped /\ ReadsConfig /\ ReadsCurrent /\ DiskFollows

savedVars == <<mem, disk, config, draft, load, puts, raced, unsaved>>

LEMMA DefaultsType ==
  defaults \in Configs /\ \A c \in Configs : Normalize(c) \in Configs
BY DEF defaults, Configs, Normalize

LEMMA NormalType ==
  \A c \in Normal : c \in Configs
BY DEF Normal, Configs

LEMMA PutKinds ==
  ASSUME NEW x \in PutType
  PROVE  \/ x = Idle /\ x.phase = "idle"
         \/ /\ x \in [phase : {"sent", "updated", "read", "answered", "rejected"},
                      body : Configs, read : Configs \cup {None}, mounted : BOOLEAN]
            /\ x # Idle /\ x.phase \in {"sent", "updated", "read", "answered", "rejected"}
            /\ x.body \in Configs /\ x.read \in Configs \cup {None}
BY DEF PutType, Idle

LEMMA LoadKinds ==
  ASSUME NEW x \in LoadType
  PROVE  x.phase = "answered" => x.got \in Configs
BY DEF LoadType, Idle

LEMMA PutIdle ==
  Idle \in PutType /\ Idle.phase = "idle" /\ Idle \in LoadType
BY DEF PutType, LoadType, Idle

\* What a step may do to a request: its phase, what it carries and read.
LEMMA PutPhase ==
  ASSUME NEW x \in PutType, x # Idle, NEW p \in {"sent", "updated", "read", "answered", "rejected"}
  PROVE  [x EXCEPT !.phase = p] \in PutType /\ [x EXCEPT !.phase = p].phase = p
BY PutKinds DEF PutType

LEMMA PutBody ==
  ASSUME NEW x \in PutType, x # Idle, NEW b \in Configs
  PROVE  /\ [x EXCEPT !.phase = "updated", !.body = b] \in PutType
         /\ [x EXCEPT !.phase = "updated", !.body = b].phase = "updated"
BY PutKinds DEF PutType

LEMMA PutRead ==
  ASSUME NEW x \in PutType, x # Idle, NEW p \in {"read", "answered"}, NEW r \in Configs \cup {None}
  PROVE  /\ [x EXCEPT !.phase = p, !.read = r] \in PutType
         /\ [x EXCEPT !.phase = p, !.read = r].phase = p
         /\ [x EXCEPT !.phase = p, !.read = r].read = r
BY PutKinds DEF PutType

LEMMA PutOrphan ==
  ASSUME NEW x \in PutType, x # Idle
  PROVE  /\ [x EXCEPT !.mounted = FALSE] \in PutType
         /\ [x EXCEPT !.mounted = FALSE].phase = x.phase
         /\ [x EXCEPT !.mounted = FALSE].read = x.read
BY PutKinds DEF PutType

LEMMA DiskInit ==
  ASSUME ConstantsAssumption, Init
  PROVE  DiskInv
<1>1. ConfigTyped
  BY DefaultsType, PutIdle DEF Init, ConfigTyped, LoadType
<1> QED
  BY <1>1, PutIdle DEF Init, DiskInv, ReadsCurrent, ReadsConfig, DiskFollows

LEMMA DiskQuiet ==
  ASSUME DiskInv, UNCHANGED savedVars
  PROVE  DiskInv'
BY DEF DiskInv, ConfigTyped, ReadsCurrent, ReadsConfig, DiskFollows, savedVars

\* The form mounts, changes or goes, and requests that do not touch the
\* configuration of the hub move on.
LEMMA DiskForm ==
  ASSUME DiskInv, UNCHANGED <<mem, disk, raced, unsaved>>,
         config' \in Configs, draft' \in Configs, load' \in LoadType,
         puts' \in [1 .. MaxPuts -> PutType],
         \A s \in 1 .. MaxPuts : /\ puts[s].phase \in {"updated", "read"} => puts'[s].phase = puts[s].phase
                                 /\ puts'[s].phase = "read" => puts[s].phase = "read" /\ puts'[s].read = puts[s].read
  PROVE  DiskInv'
<1>1. DOMAIN puts = 1 .. MaxPuts /\ DOMAIN puts' = 1 .. MaxPuts
  BY DEF DiskInv, ConfigTyped
<1>2. DiskFollows'
  BY <1>1 DEF DiskInv, DiskFollows
<1>3. ReadsCurrent' /\ ReadsConfig'
  BY DEF DiskInv, ReadsCurrent, ReadsConfig
<1> QED
  BY <1>2, <1>3 DEF DiskInv, ConfigTyped

\* One request changes, and nothing is under way to the database.
LEMMA DiskOne ==
  ASSUME DiskInv, UNCHANGED <<mem, disk, raced, unsaved>>,
         config' \in Configs, draft' \in Configs, load' \in LoadType,
         NEW s \in 1 .. MaxPuts, puts[s].phase \notin {"updated", "read"},
         NEW x \in PutType, x.phase \notin {"updated", "read"}, puts' = [puts EXCEPT ![s] = x]
  PROVE  DiskInv'
BY DiskForm DEF DiskInv, ConfigTyped

LEMMA DiskOrphans ==
  ASSUME DiskInv, UNCHANGED <<mem, disk, raced, unsaved>>,
         config' \in Configs, draft' \in Configs, load' \in LoadType,
         puts' = Orphaned(puts)
  PROVE  DiskInv'
<1>1. ASSUME NEW s \in 1 .. MaxPuts
      PROVE  /\ puts'[s] \in PutType /\ puts'[s].phase = puts[s].phase
             /\ puts'[s].phase = "read" => puts'[s].read = puts[s].read
  <2>1. puts[s] \in PutType
    BY DEF DiskInv, ConfigTyped
  <2>2. puts'[s] = IF puts[s] = Idle THEN Idle ELSE [puts[s] EXCEPT !.mounted = FALSE]
    BY DEF Orphaned, DiskInv, ConfigTyped
  <2>3. CASE puts[s] = Idle
    BY <2>2, <2>3, PutIdle
  <2>4. CASE puts[s] # Idle
    BY <2>1, <2>2, <2>4, PutOrphan
  <2> QED
    BY <2>3, <2>4
<1>2. puts' \in [1 .. MaxPuts -> PutType]
  BY <1>1 DEF Orphaned, DiskInv, ConfigTyped
<1> QED
  BY <1>1, <1>2, DiskForm

LEMMA DiskPut ==
  ASSUME DiskInv, UNCHANGED <<mem, disk, raced, unsaved, config, draft, load>>,
         NEW c \in Configs, NEW m \in BOOLEAN, Put(c, m)
  PROVE  DiskInv'
<1> DEFINE x == [phase |-> "sent", body |-> c, read |-> None, mounted |-> m]
<1>1. x \in PutType /\ x.phase = "sent"
  BY DEF PutType
<1>2. PICK s \in 1 .. MaxPuts : puts[s] = Idle /\ puts' = [puts EXCEPT ![s] = x]
  BY DEF Put, Free, DiskInv, ConfigTyped
<1> HIDE DEF x
<1> QED
  BY <1>1, <1>2, PutIdle, DiskOne DEF DiskInv, ConfigTyped

LEMMA DiskPages ==
  ASSUME DiskInv, BackToHub \/ (\E b \in Agents : OpenAgent(b))
  PROVE  DiskInv'
<1>1. defaults \in Configs /\ [phase |-> "sent"] \in LoadType /\ Idle \in LoadType
  BY DefaultsType, PutIdle DEF LoadType
<1>2. CASE BackToHub
  <2>1. /\ UNCHANGED <<mem, disk, raced, unsaved, puts>>
        /\ config' \in Configs /\ draft' \in Configs /\ load' \in LoadType
    BY <1>1, <1>2 DEF BackToHub, MountForm, hubVars, notes
  <2> QED
    BY <2>1, DiskForm DEF DiskInv, ConfigTyped
<1>3. ASSUME NEW b \in Agents, OpenAgent(b) PROVE DiskInv'
  BY <1>1, <1>3, DiskOrphans DEF OpenAgent, UnmountForm, hubVars, notes
<1> QED
  BY <1>2, <1>3

LEMMA DiskUser ==
  ASSUME DiskInv, HandleOpen \/ Cancel \/ HandleSave \/ ServeLoad \/ Loaded
                  \/ (\E f \in Fields, v \in {"default", "set", "bad"} : Patch(f, v))
  PROVE  DiskInv'
<1>1. CASE HandleOpen \/ Cancel
  BY <1>1, DiskForm DEF HandleOpen, Cancel, DiskInv, ConfigTyped, hubVars, notes
<1>2. CASE HandleSave
  BY <1>2, DiskPut DEF HandleSave, DiskInv, ConfigTyped, hubVars, notes
<1>3. ASSUME NEW f \in Fields, NEW v \in {"default", "set", "bad"}, Patch(f, v) PROVE DiskInv'
  <2>1. draft' \in Configs
    BY <1>3 DEF Patch, Configs, DiskInv, ConfigTyped
  <2> QED
    BY <1>3, <2>1, DiskForm DEF Patch, DiskInv, ConfigTyped, hubVars, notes
<1>4. CASE ServeLoad
  <2>1. load' \in LoadType
    BY <1>4 DEF ServeLoad, LoadType, DiskInv, ConfigTyped
  <2> QED
    BY <1>4, <2>1, DiskForm DEF ServeLoad, DiskInv, ConfigTyped, hubVars
<1>5. CASE Loaded
  <2>1. config' \in Configs /\ load' \in LoadType
    BY <1>5, PutIdle, LoadKinds DEF Loaded, DiskInv, ConfigTyped
  <2> QED
    BY <1>5, <2>1, DiskForm DEF Loaded, DiskInv, ConfigTyped, hubVars, notes
<1> QED
  BY <1>1, <1>2, <1>3, <1>4, <1>5

\* The handler of PUT: Update, then Persist in two steps.
LEMMA DiskUpdate ==
  ASSUME DiskInv, NEW s \in 1 .. MaxPuts, Update(s)
  PROVE  DiskInv'
<1>1. puts[s] \in PutType /\ puts[s] # Idle /\ puts[s].body \in Configs
  BY PutKinds, PutIdle DEF DiskInv, ConfigTyped, Update
<1> DEFINE n == Normalize(puts[s].body)
           x == [puts[s] EXCEPT !.phase = "updated", !.body = n]
<1>2. n \in Configs
  BY <1>1, DefaultsType
<1>3. x \in PutType /\ x.phase = "updated"
  BY <1>1, <1>2, PutBody
<1>4. puts' = [puts EXCEPT ![s] = x] /\ mem' = n
  BY DEF Update, DiskInv, ConfigTyped
<1> HIDE DEF x, n
<1>5. ConfigTyped'
  BY <1>2, <1>3, <1>4 DEF Update, formVars, DiskInv, ConfigTyped
<1>6. DiskFollows'
  BY <1>3, <1>4 DEF DiskInv, ConfigTyped, DiskFollows
<1>7. ReadsCurrent'
  <2> SUFFICES ASSUME NEW t \in 1 .. MaxPuts, puts'[t].phase = "read"
               PROVE  raced'
    BY DEF ReadsCurrent
  <2>1. puts[t].phase = "read" /\ t \in DOMAIN puts
    BY <1>3, <1>4 DEF DiskInv, ConfigTyped
  <2> QED
    BY <2>1 DEF Update
<1>8. ReadsConfig'
  BY <1>3, <1>4 DEF DiskInv, ConfigTyped, ReadsConfig
<1> QED
  BY <1>5, <1>6, <1>7, <1>8 DEF DiskInv

LEMMA DiskGets ==
  ASSUME DiskInv, NEW s \in 1 .. MaxPuts, PersistGets(s)
  PROVE  DiskInv'
<1>1. puts[s] \in PutType /\ puts[s] # Idle /\ mem \in Configs
  BY PutIdle DEF DiskInv, ConfigTyped, PersistGets
<1> DEFINE x == [puts[s] EXCEPT !.phase = "read", !.read = mem]
<1>2. x \in PutType /\ x.phase = "read" /\ x.read = mem
  BY <1>1, PutRead
<1>3. puts' = [puts EXCEPT ![s] = x]
  BY DEF PersistGets, DiskInv, ConfigTyped
<1> HIDE DEF x
<1>4. UNCHANGED <<mem, disk, config, draft, load, raced, unsaved>>
  BY DEF PersistGets, hubVars, formVars, notes
<1> QED
  BY <1>2, <1>3, <1>4 DEF DiskInv, ConfigTyped, DiskFollows, ReadsCurrent, ReadsConfig

LEMMA DiskSaves ==
  ASSUME DiskInv, NEW s \in 1 .. MaxPuts, PersistSaves(s)
  PROVE  DiskInv'
<1>1. puts[s] \in PutType /\ puts[s] # Idle /\ mem \in Configs
  BY PutIdle DEF DiskInv, ConfigTyped, PersistSaves
<1> DEFINE x == [puts[s] EXCEPT !.phase = "answered", !.read = None]
<1>2. x \in PutType /\ x.phase = "answered"
  BY <1>1, PutRead
<1>3. puts' = [puts EXCEPT ![s] = x]
  BY DEF PersistSaves, DiskInv, ConfigTyped
<1> HIDE DEF x
<1>4. UNCHANGED <<mem, config, draft, load, raced>>
  BY DEF PersistSaves, formVars
<1>5. puts[s].read = mem \/ raced
  BY DEF PersistSaves, DiskInv, ReadsCurrent
<1>6. disk' = puts[s].read \/ (disk' = disk /\ unsaved' = TRUE)
  BY DEF PersistSaves
<1>7. disk' \in Configs
  <2>1. CASE disk' = disk
    BY <2>1 DEF DiskInv, ConfigTyped
  <2>2. CASE disk' = puts[s].read
    BY <2>2 DEF PersistSaves, DiskInv, ConfigTyped, ReadsConfig
  <2> QED
    BY <1>6, <2>1, <2>2
<1> QED
  BY <1>2, <1>3, <1>4, <1>5, <1>6, <1>7 DEF DiskInv, ConfigTyped, DiskFollows, ReadsCurrent, ReadsConfig

LEMMA DiskSaved ==
  ASSUME DiskInv, NEW s \in 1 .. MaxPuts, Saved(s)
  PROVE  DiskInv'
<1>1. puts[s].phase \in {"answered", "rejected"} /\ puts[s].body \in Configs
  BY PutKinds DEF DiskInv, ConfigTyped, Saved
<1>2. config' \in Configs /\ draft' \in Configs /\ load' \in LoadType
  BY <1>1 DEF Saved, formVars, DiskInv, ConfigTyped
<1>3. UNCHANGED <<mem, disk, raced, unsaved>> /\ puts' = [puts EXCEPT ![s] = Idle]
  BY DEF Saved, hubVars, notes
<1> QED
  BY <1>1, <1>2, <1>3, PutIdle, DiskOne

LEMMA DiskLose ==
  ASSUME DiskInv, Lose
  PROVE  DiskInv'
<1>1. UNCHANGED <<mem, disk, config, draft, raced, unsaved>>
  BY DEF Lose, hubVars, notes
<1>2. config' \in Configs /\ draft' \in Configs
  BY <1>1 DEF DiskInv, ConfigTyped
<1>3. ASSUME NEW s \in DOMAIN puts, puts[s].phase \in {"sent", "answered"}, puts' = To(puts, s, "rejected"),
             load' = load
      PROVE  DiskInv'
  <2>1. s \in 1 .. MaxPuts /\ puts' = [puts EXCEPT ![s] = [puts[s] EXCEPT !.phase = "rejected"]]
    BY <1>3 DEF To, DiskInv, ConfigTyped
  <2>2. puts[s] \in PutType /\ puts[s] # Idle /\ load' \in LoadType
    BY <1>3, <2>1, PutIdle DEF DiskInv, ConfigTyped
  <2>3. /\ [puts[s] EXCEPT !.phase = "rejected"] \in PutType
        /\ [puts[s] EXCEPT !.phase = "rejected"].phase = "rejected"
    BY <2>2, PutPhase
  <2> QED
    BY <1>1, <1>2, <1>3, <2>1, <2>2, <2>3, DiskOne
<1>4. CASE puts' = puts /\ (load' = load \/ load' = [phase |-> "rejected"])
  <2>1. load' \in LoadType
    BY <1>4 DEF LoadType, DiskInv, ConfigTyped
  <2> QED
    BY <1>1, <1>2, <1>4, <2>1, DiskForm DEF DiskInv, ConfigTyped
<1> QED
  BY <1>3, <1>4 DEF Lose

\* LoadConfigStore takes the settings: memory and database are the same.
LEMMA DiskRestart ==
  ASSUME DiskInv, RestartHub
  PROVE  DiskInv'
<1>1. mem' = disk /\ disk' = disk /\ UNCHANGED <<config, draft>> /\ puts' = Failed(puts)
  BY DEF RestartHub
<1>2. load' \in LoadType
  BY DEF RestartHub, LoadType, DiskInv, ConfigTyped
<1>3. ASSUME NEW s \in 1 .. MaxPuts
      PROVE  puts'[s] \in PutType /\ puts'[s].phase # "read"
  <2>1. puts[s] \in PutType
    BY DEF DiskInv, ConfigTyped
  <2>2. puts'[s] = IF puts[s].phase \in {"idle", "answered"} THEN puts[s]
                   ELSE [puts[s] EXCEPT !.phase = "rejected"]
    BY <1>1 DEF Failed, DiskInv, ConfigTyped
  <2>3. CASE puts[s].phase \in {"idle", "answered"}
    BY <2>1, <2>2, <2>3
  <2>4. CASE puts[s].phase \notin {"idle", "answered"}
    <3>1. puts[s] # Idle
      BY <2>4, PutIdle
    <3> QED
      BY <2>1, <2>2, <2>4, <3>1, PutPhase
  <2> QED
    BY <2>3, <2>4
<1>4. puts' \in [1 .. MaxPuts -> PutType]
  BY <1>1, <1>3 DEF Failed, DiskInv, ConfigTyped
<1> QED
  BY <1>1, <1>2, <1>3, <1>4 DEF DiskInv, ConfigTyped, ReadsCurrent, ReadsConfig, DiskFollows

LEMMA DiskNext ==
  ASSUME ConstantsAssumption, DiskInv, [Next]_vars
  PROVE  DiskInv'
<1>1. ASSUME NEW b \in Agents, OpenAgent(b) PROVE DiskInv'
  BY <1>1, DiskPages
<1>2. ASSUME NEW b \in Agents, SwitchAgent(b) PROVE DiskInv'
  BY <1>2, DiskQuiet DEF SwitchAgent, savedVars, hubVars, formVars, notes
<1>3. ASSUME NEW q \in Pages, OpenPage(q) PROVE DiskInv'
  BY <1>3, DiskQuiet DEF OpenPage, savedVars, hubVars, formVars, notes
<1>4. CASE BackToHub
  BY <1>4, DiskPages
<1>5. ASSUME NEW id \in Alerts, Acknowledge(id) \/ Silence(id) \/ Fire(id) \/ OtherAcks(id) PROVE DiskInv'
  BY <1>5, DiskQuiet DEF Acknowledge, Silence, Fire, OtherAcks, savedVars, hubVars, formVars, notes
<1>6. CASE HandleOpen \/ Cancel \/ HandleSave \/ ServeLoad \/ Loaded
  BY <1>6, DiskUser
<1>7. ASSUME NEW f \in Fields, NEW v \in {"default", "set", "bad"}, Patch(f, v) PROVE DiskInv'
  BY <1>7, DiskUser
<1>8. ASSUME NEW c \in Normal, OtherSaves(c) PROVE DiskInv'
  BY <1>8, DiskPut, NormalType DEF OtherSaves, hubVars, formVars, notes
<1>9. CASE Poll
  BY <1>9, DiskQuiet DEF Poll, savedVars, hubVars, formVars, notes
<1>10. ASSUME NEW s \in 1 .. MaxReloads, ServeReload(s) \/ Reload(s) PROVE DiskInv'
  BY <1>10, DiskQuiet DEF ServeReload, Reload, savedVars, hubVars, formVars, notes
<1>11. ASSUME NEW s \in 1 .. MaxPosts, SelectAlert(s) \/ UpdateAlert(s) \/ AddSilence(s) \/ Posted(s) PROVE DiskInv'
  BY <1>11, DiskQuiet DEF SelectAlert, UpdateAlert, AddSilence, Posted, savedVars, hubVars, formVars, notes
<1>12. ASSUME NEW s \in 1 .. MaxPuts, Update(s) \/ PersistGets(s) \/ PersistSaves(s) \/ Saved(s) PROVE DiskInv'
  BY <1>12, DiskUpdate, DiskGets, DiskSaves, DiskSaved
<1>13. CASE Lose
  BY <1>13, DiskLose
<1>14. CASE RestartHub
  BY <1>14, DiskRestart
<1>15. CASE UNCHANGED vars
  BY <1>15, DiskQuiet DEF vars, savedVars, hubVars, formVars, notes
<1> QED
  BY <1>1, <1>2, <1>3, <1>4, <1>5, <1>6, <1>7, <1>8, <1>9, <1>10, <1>11, <1>12, <1>13, <1>14, <1>15
     DEF Next, User, Others, Hub, Callbacks

-----------------------------------------------------------------------------
(* The form.                                                               *)

\* A request of the form that is on the page.
Own(p) == p # Idle /\ p.mounted

\* What the hub has taken is normal, and what it has taken of the form on
\* the page is still its configuration, unless somebody changed that.
PutCurrent(p) ==
    /\ p.phase \in {"updated", "read", "answered"} => p.body \in Normal /\ (p.mounted => p.body = mem \/ drift)
    /\ p.phase = "read" => p.read \in Normal

PutsCurrent == \A s \in 1 .. MaxPuts : PutCurrent(puts[s])

\* The form on the page has one request under way at most: while it saves.
SaveOwn == \A s \in 1 .. MaxPuts : Own(puts[s]) =>
               saving /\ ~loading /\ agent = NoAgent /\ \A t \in 1 .. MaxPuts : Own(puts[t]) => t = s

\* A load belongs to the form on the page, and its answer is current.
LoadOwn ==
    /\ load # Idle => loading /\ agent = NoAgent
    /\ load.phase = "answered" => load.got \in Normal /\ (load.got = mem \/ drift)

FormTyped ==
    /\ agent \in Agents \cup {NoAgent}
    /\ mem \in Normal /\ disk \in Normal /\ config \in Normal
    /\ loading \in BOOLEAN /\ saving \in BOOLEAN /\ saved \in BOOLEAN /\ open \in BOOLEAN
    /\ drift \in BOOLEAN /\ error \in {None, "load", "save"}

FormInv == FormTyped /\ PutsCurrent /\ SaveOwn /\ LoadOwn /\ FormCurrent


\* A put is what it was, or the requests of this form are less than before.
LEMMA OwnFacts ==
  ASSUME NEW x \in PutType, x # Idle
  PROVE  /\ x.mounted \in BOOLEAN /\ x.body \in Configs
         /\ x.phase \in {"sent", "updated", "read", "answered", "rejected"}
BY DEF PutType

LEMMA NormalFacts ==
  /\ defaults \in Normal /\ \A c \in Normal : c \in Configs
  /\ \A c \in Configs : Normalize(c) \in Normal
BY DEF defaults, Normal, Configs, Normalize

LEMMA IdleIsNobodys ==
  ~Own(Idle) /\ PutCurrent(Idle)
BY DEF Own, PutCurrent, Idle

LEMMA FormInit ==
  ASSUME ConstantsAssumption, Init
  PROVE  FormInv
<1>1. FormTyped
  BY NormalFacts DEF Init, FormTyped
<1>2. PutsCurrent /\ SaveOwn
  BY IdleIsNobodys DEF Init, PutsCurrent, SaveOwn
<1>3. LoadOwn
  BY DEF Init, LoadOwn, Idle
<1>4. FormCurrent
  BY DEF Init, FormCurrent
<1> QED
  BY <1>1, <1>2, <1>3, <1>4 DEF FormInv

\* Whether an agent is shown, or which, does not matter.
LEMMA FormQuiet ==
  ASSUME ConstantsAssumption, FormInv, UNCHANGED <<mem, disk, formVars, puts, drift>>,
         \/ agent' = agent
         \/ agent # NoAgent /\ agent' \in Agents
  PROVE  FormInv'
<1>1. FormTyped'
  BY DEF FormInv, FormTyped, formVars
<1>2. agent = NoAgent <=> agent' = NoAgent
  BY DEF ConstantsAssumption
<1>3. PutsCurrent' /\ SaveOwn' /\ LoadOwn' /\ FormCurrent'
  BY <1>2 DEF FormInv, PutsCurrent, PutCurrent, SaveOwn, Own, LoadOwn, FormCurrent, Shown, formVars
<1> QED
  BY <1>1, <1>3 DEF FormInv

\* The requests move on, and the form on the page has no new one.
LEMMA FormPuts ==
  ASSUME FormInv, UNCHANGED <<agent, mem, drift, loading, saving, config, error, load, saved, open>>,
         disk' \in Normal,
         \A s \in 1 .. MaxPuts : PutCurrent(puts'[s]) /\ (Own(puts'[s]) => Own(puts[s]))
  PROVE  FormInv'
<1>1. FormTyped'
  BY DEF FormInv, FormTyped
<1>2. PutsCurrent'
  BY DEF PutsCurrent, PutCurrent
<1>3. SaveOwn'
  BY DEF FormInv, SaveOwn, Own
<1>4. LoadOwn' /\ FormCurrent'
  BY DEF FormInv, LoadOwn, FormCurrent, Shown
<1> QED
  BY <1>1, <1>2, <1>3, <1>4 DEF FormInv

LEMMA FormOrphans ==
  ASSUME DiskInv, NEW s \in 1 .. MaxPuts, PutCurrent(puts[s])
  PROVE  /\ ~Own(Orphaned(puts)[s])
         /\ PutCurrent(Orphaned(puts)[s])
<1>1. Orphaned(puts)[s] = IF puts[s] = Idle THEN Idle ELSE [puts[s] EXCEPT !.mounted = FALSE]
  BY DEF Orphaned, DiskInv, ConfigTyped
<1>2. CASE puts[s] = Idle
  BY <1>1, <1>2, IdleIsNobodys
<1>3. CASE puts[s] # Idle
  <2> DEFINE x == [puts[s] EXCEPT !.mounted = FALSE]
  <2>1. puts[s] \in PutType
    BY DEF DiskInv, ConfigTyped
  <2>2. x.mounted = FALSE /\ x.phase = puts[s].phase /\ x.body = puts[s].body /\ x.read = puts[s].read
    BY <1>3, <2>1 DEF PutType
  <2> HIDE DEF x
  <2>3. ~Own(x) /\ PutCurrent(x)
    BY <2>2 DEF Own, PutCurrent
  <2> QED
    BY <1>1, <1>3, <2>3 DEF x
<1> QED
  BY <1>2, <1>3

LEMMA FormPages ==
  ASSUME ConstantsAssumption, DiskInv, FormInv, BackToHub \/ (\E b \in Agents : OpenAgent(b))
  PROVE  FormInv'
<1>1. /\ UNCHANGED <<mem, disk, drift>> /\ config' = defaults /\ loading' \in BOOLEAN
      /\ saving' = FALSE /\ error' = None /\ saved' = FALSE /\ open' = FALSE
  BY DEF BackToHub, OpenAgent, MountForm, UnmountForm, hubVars, notes
<1>2. CASE BackToHub
  <2>1. agent # NoAgent /\ agent' = NoAgent /\ puts' = puts /\ loading' = TRUE /\ load' = [phase |-> "sent"]
    BY <1>2 DEF BackToHub, MountForm
  <2>2. FormTyped'
    BY <1>1, <2>1, NormalFacts DEF FormInv, FormTyped
  <2>3. PutsCurrent' /\ SaveOwn'
    BY <1>1, <2>1 DEF FormInv, PutsCurrent, PutCurrent, SaveOwn, Own
  <2>4. LoadOwn' /\ FormCurrent'
    BY <2>1 DEF LoadOwn, FormCurrent, Shown
  <2> QED
    BY <2>2, <2>3, <2>4 DEF FormInv
<1>3. ASSUME NEW b \in Agents, OpenAgent(b) PROVE FormInv'
  <2>1. agent' = b /\ b # NoAgent /\ puts' = Orphaned(puts) /\ load' = Idle
    BY <1>3 DEF OpenAgent, UnmountForm, ConstantsAssumption
  <2>2. FormTyped'
    BY <1>1, <2>1, NormalFacts DEF FormInv, FormTyped
  <2>3. \A s \in 1 .. MaxPuts : ~Own(puts'[s]) /\ PutCurrent(puts'[s])
    BY <2>1, FormOrphans DEF FormInv, PutsCurrent
  <2>4. PutsCurrent' /\ SaveOwn'
    BY <1>1, <2>3 DEF PutsCurrent, PutCurrent, SaveOwn, Own
  <2>5. LoadOwn' /\ FormCurrent'
    BY <2>1 DEF LoadOwn, FormCurrent, Shown, Idle
  <2> QED
    BY <2>2, <2>4, <2>5 DEF FormInv
<1> QED
  BY <1>2, <1>3

\* Open, cancel, and what is typed.
LEMMA FormTouched ==
  ASSUME FormInv, UNCHANGED <<hubVars, agent, config, loading, saving, error, saved, load, puts, notes>>,
         open' \in BOOLEAN
  PROVE  FormInv'
BY DEF FormInv, FormTyped, PutsCurrent, PutCurrent, SaveOwn, Own, LoadOwn, FormCurrent, Shown, hubVars, notes

LEMMA FormSave ==
  ASSUME ConstantsAssumption, DiskInv, FormInv, HandleSave
  PROVE  FormInv'
<1> DEFINE x == [phase |-> "sent", body |-> draft, read |-> None, mounted |-> TRUE]
<1>1. PICK s \in 1 .. MaxPuts : puts' = [puts EXCEPT ![s] = x]
  BY DEF HandleSave, Put, Free, DiskInv, ConfigTyped
<1>2. PutCurrent(x)
  BY DEF PutCurrent
<1>3. /\ agent = NoAgent /\ ~loading /\ ~saving /\ saving' = TRUE /\ error' = None /\ saved' = FALSE
      /\ UNCHANGED <<hubVars, agent, config, loading, load, open, notes>>
  BY DEF HandleSave, Shown
<1>4. \A t \in 1 .. MaxPuts : ~Own(puts[t])
  BY <1>3 DEF FormInv, SaveOwn
<1>5. puts \in [1 .. MaxPuts -> PutType]
  BY DEF DiskInv, ConfigTyped
<1> HIDE DEF x
<1>6. puts'[s] = x /\ \A t \in 1 .. MaxPuts : t # s => puts'[t] = puts[t]
  BY <1>1, <1>5
<1>7. FormTyped'
  BY <1>3 DEF FormInv, FormTyped, hubVars, notes
<1>8. PutsCurrent'
  <2>1. \A t \in 1 .. MaxPuts : PutCurrent(puts'[t])
    BY <1>2, <1>6 DEF FormInv, PutsCurrent
  <2> QED
    BY <1>3, <2>1 DEF PutsCurrent, PutCurrent, hubVars, notes
<1>9. SaveOwn'
  BY <1>3, <1>4, <1>6 DEF SaveOwn, Own
<1>10. LoadOwn' /\ FormCurrent'
  BY <1>3 DEF FormInv, LoadOwn, FormCurrent, Shown, hubVars, notes
<1> QED
  BY <1>7, <1>8, <1>9, <1>10 DEF FormInv

LEMMA FormOther ==
  ASSUME ConstantsAssumption, DiskInv, FormInv, NEW c \in Normal, OtherSaves(c)
  PROVE  FormInv'
<1> DEFINE x == [phase |-> "sent", body |-> c, read |-> None, mounted |-> FALSE]
<1>1. PICK s \in 1 .. MaxPuts : puts' = [puts EXCEPT ![s] = x]
  BY DEF OtherSaves, Put, Free, DiskInv, ConfigTyped
<1>2. PutCurrent(x) /\ ~Own(x)
  BY DEF PutCurrent, Own
<1> HIDE DEF x
<1>3. \A t \in 1 .. MaxPuts : PutCurrent(puts'[t]) /\ (Own(puts'[t]) => Own(puts[t]))
  BY <1>1, <1>2 DEF FormInv, PutsCurrent, DiskInv, ConfigTyped
<1> QED
  BY <1>3, FormPuts DEF OtherSaves, hubVars, formVars, notes, FormInv, FormTyped

\* The answer of the load is the configuration at that time; the form it is
\* for has not saved yet.
LEMMA FormLoad ==
  ASSUME ConstantsAssumption, FormInv, ServeLoad \/ Loaded
  PROVE  FormInv'
<1>1. UNCHANGED <<hubVars, agent, puts, saving, saved, open>> /\ load # Idle
  BY DEF ServeLoad, Loaded, Idle
<1>2. loading /\ agent = NoAgent /\ \A s \in 1 .. MaxPuts : ~Own(puts[s])
  BY <1>1 DEF FormInv, LoadOwn, SaveOwn
<1>3. SaveOwn'
  BY <1>1, <1>2 DEF SaveOwn, Own
<1>4. CASE ServeLoad
  <2>1. /\ load' = [phase |-> "answered", got |-> mem] /\ drift' = FALSE /\ mem' = mem /\ mem \in Normal
        /\ UNCHANGED <<config, loading, error>>
    BY <1>4 DEF ServeLoad, hubVars, FormInv, FormTyped
  <2>2. FormTyped'
    BY <1>1, <2>1 DEF FormInv, FormTyped, hubVars
  <2>3. \A s \in 1 .. MaxPuts : PutCurrent(puts[s])'
    <3>1. ASSUME NEW s \in 1 .. MaxPuts PROVE PutCurrent(puts[s])'
      <4>1. PutCurrent(puts[s]) /\ puts'[s] = puts[s]
        BY <1>1 DEF FormInv, PutsCurrent
      <4>2. puts[s].phase \in {"updated", "read", "answered"} => puts[s] # Idle
        BY DEF Idle
      <4>3. puts[s] # Idle => ~puts[s].mounted
        BY <1>2 DEF Own
      <4> QED
        BY <4>1, <4>2, <4>3 DEF PutCurrent
    <3> QED
      BY <3>1
  <2>4. PutsCurrent'
    BY <2>3 DEF PutsCurrent
  <2>5. LoadOwn' /\ FormCurrent'
    BY <1>1, <1>2, <2>1 DEF LoadOwn, FormCurrent, Shown
  <2> QED
    BY <1>3, <2>2, <2>4, <2>5 DEF FormInv
<1>5. CASE Loaded
  <2>1. /\ load' = Idle /\ loading' = FALSE /\ UNCHANGED <<mem, disk, drift>>
        /\ \/ load.phase = "answered" /\ config' = load.got /\ error' = error
           \/ error' = "load" /\ config' = config
    BY <1>5 DEF Loaded, hubVars, notes
  <2>2. load.phase = "answered" => load.got \in Normal /\ (load.got = mem \/ drift)
    BY DEF FormInv, LoadOwn
  <2>3. FormTyped'
    BY <1>1, <2>1, <2>2 DEF FormInv, FormTyped
  <2>4. PutsCurrent'
    BY <1>1, <2>1 DEF FormInv, PutsCurrent, PutCurrent
  <2>5. LoadOwn'
    BY <2>1 DEF LoadOwn, Idle
  <2>6. FormCurrent'
    <3>1. CASE load.phase = "answered" /\ config' = load.got
      BY <2>1, <2>2, <3>1 DEF FormCurrent
    <3>2. CASE error' = "load"
      BY <3>2 DEF FormCurrent, ConstantsAssumption
    <3> QED
      BY <2>1, <3>1, <3>2
  <2> QED
    BY <1>3, <2>3, <2>4, <2>5, <2>6 DEF FormInv
<1> QED
  BY <1>4, <1>5

\* ConfigStore.Update: for the form on the page, memory is what it sent;
\* for any other request, memory has drifted away from the form.
LEMMA FormUpdate ==
  ASSUME DiskInv, FormInv, NEW s \in 1 .. MaxPuts, Update(s)
  PROVE  FormInv'
<1> DEFINE n == Normalize(puts[s].body)
           x == [puts[s] EXCEPT !.phase = "updated", !.body = n]
<1>1. puts \in [1 .. MaxPuts -> PutType] /\ puts[s] \in PutType /\ puts[s] # Idle
  BY PutIdle DEF DiskInv, ConfigTyped, Update
<1>2. n \in Normal
  BY <1>1, OwnFacts, NormalFacts
<1>3. x.phase = "updated" /\ x.body = n /\ x.mounted = puts[s].mounted /\ x # Idle /\ x.mounted \in BOOLEAN
  BY <1>1, OwnFacts DEF PutType, Idle
<1>4. /\ puts' = [puts EXCEPT ![s] = x] /\ mem' = n /\ drift' = ~puts[s].mounted
      /\ UNCHANGED <<disk, agent, formVars>>
  BY DEF Update
<1> HIDE DEF x, n
<1>5. puts'[s] = x /\ \A t \in 1 .. MaxPuts : t # s => puts'[t] = puts[t]
  BY <1>1, <1>4
<1>6. puts[s].mounted => Own(puts[s])
  BY <1>1 DEF Own
<1>7. FormTyped'
  BY <1>2, <1>3, <1>4 DEF FormInv, FormTyped, formVars
<1>8. ASSUME NEW t \in 1 .. MaxPuts PROVE PutCurrent(puts[t])'
  <2>1. CASE t = s
    <3>1. x.body \in Normal /\ x.body = mem' /\ x.phase # "read"
      BY <1>2, <1>3, <1>4
    <3>2. puts'[t] = x
      BY <1>5, <2>1
    <3> QED
      BY <3>1, <3>2 DEF PutCurrent
  <2>2. CASE t # s
    <3>1. PutCurrent(puts[t]) /\ puts'[t] = puts[t]
      BY <1>5, <2>2 DEF FormInv, PutsCurrent
    <3>2. puts[t].phase \in {"updated", "read", "answered"} => puts[t] # Idle
      BY DEF Idle
    <3>3. puts[s].mounted => ~Own(puts[t])
      BY <1>6, <2>2 DEF FormInv, SaveOwn
    <3>4. drift' \/ puts[s].mounted
      BY <1>3, <1>4
    <3> QED
      BY <3>1, <3>2, <3>3, <3>4 DEF PutCurrent, Own
  <2> QED
    BY <2>1, <2>2
<1>9. PutsCurrent'
  BY <1>8 DEF PutsCurrent
<1>10. \A t \in 1 .. MaxPuts : Own(puts[t])' <=> Own(puts[t])
  BY <1>1, <1>3, <1>5 DEF Own
<1>11. SaveOwn'
  BY <1>4, <1>10 DEF FormInv, SaveOwn, formVars
<1>12. drift' \/ (saving /\ ~loading /\ load = Idle)
  <2>1. CASE puts[s].mounted
    BY <1>6, <2>1 DEF FormInv, SaveOwn, LoadOwn
  <2>2. CASE ~puts[s].mounted
    BY <1>4, <2>2
  <2> QED
    BY <2>1, <2>2
<1>13. LoadOwn' /\ FormCurrent'
  BY <1>4, <1>12 DEF FormInv, LoadOwn, FormCurrent, Shown, Idle, formVars
<1> QED
  BY <1>7, <1>9, <1>11, <1>13 DEF FormInv

\* One request moves on in the hub, and memory stays.
LEMMA FormOne ==
  ASSUME DiskInv, FormInv, UNCHANGED <<agent, mem, drift, loading, saving, config, error, load, saved, open>>,
         disk' \in Normal, NEW s \in 1 .. MaxPuts, NEW x, puts' = [puts EXCEPT ![s] = x],
         PutCurrent(x), Own(x) => Own(puts[s])
  PROVE  FormInv'
<1>1. \A t \in 1 .. MaxPuts : PutCurrent(puts'[t]) /\ (Own(puts'[t]) => Own(puts[t]))
  BY DEF FormInv, PutsCurrent, DiskInv, ConfigTyped
<1> QED
  BY <1>1, FormPuts

LEMMA FormGets ==
  ASSUME DiskInv, FormInv, NEW s \in 1 .. MaxPuts, PersistGets(s)
  PROVE  FormInv'
<1> DEFINE x == [puts[s] EXCEPT !.phase = "read", !.read = mem]
<1>1. puts[s] \in PutType /\ puts[s] # Idle /\ PutCurrent(puts[s]) /\ puts[s].phase = "updated"
  BY PutIdle DEF DiskInv, ConfigTyped, PersistGets, FormInv, PutsCurrent
<1>2. x.phase = "read" /\ x.read = mem /\ x.body = puts[s].body /\ x.mounted = puts[s].mounted /\ x # Idle
  BY <1>1 DEF PutType, Idle
<1>3. puts' = [puts EXCEPT ![s] = x]
  BY DEF PersistGets
<1> HIDE DEF x
<1>4. PutCurrent(x) /\ (Own(x) => Own(puts[s]))
  BY <1>1, <1>2 DEF PutCurrent, Own, FormInv, FormTyped
<1> QED
  BY <1>3, <1>4, FormOne DEF PersistGets, hubVars, formVars, notes, FormInv, FormTyped

LEMMA FormSaves ==
  ASSUME DiskInv, FormInv, NEW s \in 1 .. MaxPuts, PersistSaves(s)
  PROVE  FormInv'
<1> DEFINE x == [puts[s] EXCEPT !.phase = "answered", !.read = None]
<1>1. puts[s] \in PutType /\ puts[s] # Idle /\ PutCurrent(puts[s]) /\ puts[s].phase = "read"
  BY PutIdle DEF DiskInv, ConfigTyped, PersistSaves, FormInv, PutsCurrent
<1>2. x.phase = "answered" /\ x.body = puts[s].body /\ x.mounted = puts[s].mounted /\ x # Idle
  BY <1>1 DEF PutType, Idle
<1>3. puts' = [puts EXCEPT ![s] = x]
  BY DEF PersistSaves
<1> HIDE DEF x
<1>4. PutCurrent(x) /\ (Own(x) => Own(puts[s]))
  BY <1>1, <1>2 DEF PutCurrent, Own
<1>5. disk' \in Normal
  BY <1>1 DEF PersistSaves, PutCurrent, FormInv, FormTyped
<1> QED
  BY <1>3, <1>4, <1>5, FormOne DEF PersistSaves, formVars

\* The answer: of the form on the page it is shown, of any other it is not.
LEMMA FormSaved ==
  ASSUME ConstantsAssumption, DiskInv, FormInv, NEW s \in 1 .. MaxPuts, Saved(s)
  PROVE  FormInv'
<1>1. puts[s] \in PutType /\ puts[s] # Idle /\ PutCurrent(puts[s]) /\ puts[s].mounted \in BOOLEAN
  BY PutIdle, OwnFacts DEF DiskInv, ConfigTyped, Saved, FormInv, PutsCurrent
<1>2. puts' = [puts EXCEPT ![s] = Idle] /\ UNCHANGED <<hubVars, agent, notes>>
  BY DEF Saved
<1>3. CASE ~puts[s].mounted
  <2>1. UNCHANGED <<formVars, mem, disk, drift>>
    BY <1>2, <1>3 DEF Saved, hubVars, notes
  <2> QED
    BY <1>2, <2>1, IdleIsNobodys, FormOne DEF formVars, FormInv, FormTyped
<1>4. CASE puts[s].mounted
  <2>1. Own(puts[s])
    BY <1>1, <1>4 DEF Own
  <2>2. /\ saving /\ ~loading /\ load = Idle
        /\ \A t \in 1 .. MaxPuts : Own(puts[t]) => t = s
    BY <2>1 DEF FormInv, SaveOwn, LoadOwn
  <2>3. /\ saving' = FALSE /\ open' = FALSE /\ UNCHANGED <<loading, load, mem, disk, drift>>
        /\ \/ puts[s].phase = "answered" /\ config' = puts[s].body /\ saved' = TRUE /\ error' = error
           \/ error' = "save" /\ UNCHANGED <<config, saved>>
    BY <1>4, <1>2 DEF Saved, hubVars, notes
  <2>4. puts[s].phase = "answered" => puts[s].body \in Normal /\ (puts[s].body = mem \/ drift)
    BY <1>1, <1>4 DEF PutCurrent
  <2>5. FormTyped'
    BY <1>2, <2>3, <2>4 DEF FormInv, FormTyped
  <2>6. \A t \in 1 .. MaxPuts : puts'[t] = IF t = s THEN Idle ELSE puts[t]
    BY <1>2 DEF DiskInv, ConfigTyped
  <2>7. \A t \in 1 .. MaxPuts : PutCurrent(puts'[t])
    BY <2>6, IdleIsNobodys DEF FormInv, PutsCurrent
  <2>8. PutsCurrent'
    BY <2>3, <2>7 DEF PutsCurrent, PutCurrent
  <2>9. \A t \in 1 .. MaxPuts : ~Own(puts'[t])
    BY <2>2, <2>6, IdleIsNobodys
  <2>10. SaveOwn' /\ LoadOwn'
    BY <2>2, <2>3, <2>9 DEF SaveOwn, Own, LoadOwn, Idle
  <2>11. FormCurrent'
    <3>1. CASE puts[s].phase = "answered" /\ config' = puts[s].body
      BY <2>3, <2>4, <3>1 DEF FormCurrent
    <3>2. CASE error' = "save"
      BY <3>2 DEF FormCurrent, ConstantsAssumption
    <3> QED
      BY <2>3, <3>1, <3>2
  <2> QED
    BY <2>5, <2>8, <2>10, <2>11 DEF FormInv
<1> QED
  BY <1>1, <1>3, <1>4

LEMMA FormLose ==
  ASSUME DiskInv, FormInv, Lose
  PROVE  FormInv'
<1>1. UNCHANGED <<agent, mem, disk, drift, loading, saving, config, error, saved, open>> /\ disk' \in Normal
  BY DEF Lose, hubVars, notes, FormInv, FormTyped
<1>2. ASSUME NEW s \in DOMAIN puts, puts[s].phase \in {"sent", "answered"}, puts' = To(puts, s, "rejected"),
             load' = load
      PROVE  FormInv'
  <2> DEFINE x == [puts[s] EXCEPT !.phase = "rejected"]
  <2>1. s \in 1 .. MaxPuts /\ puts[s] \in PutType /\ puts[s] # Idle
    BY <1>2, PutIdle DEF DiskInv, ConfigTyped
  <2>2. x.phase = "rejected" /\ x.mounted = puts[s].mounted
    BY <2>1 DEF PutType, Idle
  <2>3. puts' = [puts EXCEPT ![s] = x]
    BY <1>2 DEF To
  <2> HIDE DEF x
  <2>4. PutCurrent(x) /\ (Own(x) => Own(puts[s]))
    BY <2>1, <2>2 DEF PutCurrent, Own
  <2> QED
    BY <1>1, <1>2, <2>1, <2>3, <2>4, FormOne
<1>3. CASE UNCHANGED puts /\ (load' = load \/ (load.phase = "sent" /\ load' = [phase |-> "rejected"]))
  <2>1. load' # Idle => load # Idle
    BY <1>3 DEF Idle
  <2>2. LoadOwn'
    BY <1>1, <1>3, <2>1 DEF FormInv, LoadOwn
  <2> QED
    BY <1>1, <1>3, <2>2 DEF FormInv, FormTyped, PutsCurrent, PutCurrent, SaveOwn, Own, FormCurrent, Shown
<1> QED
  BY <1>2, <1>3 DEF Lose

\* The hub restarts with what is in the database: that is drift.
LEMMA FormRestart ==
  ASSUME DiskInv, FormInv, RestartHub
  PROVE  FormInv'
<1>1. /\ mem' = disk /\ drift' = TRUE /\ puts' = Failed(puts)
      /\ load' = (IF load.phase = "sent" THEN [phase |-> "rejected"] ELSE load)
      /\ UNCHANGED <<disk, agent, config, loading, saving, error, saved, open>>
  BY DEF RestartHub
<1>2. ASSUME NEW s \in 1 .. MaxPuts
      PROVE  PutCurrent(puts[s])' /\ (Own(puts[s])' => Own(puts[s]))
  <2>1. puts[s] \in PutType /\ PutCurrent(puts[s])
    BY DEF DiskInv, ConfigTyped, FormInv, PutsCurrent
  <2>2. puts'[s] = IF puts[s].phase \in {"idle", "answered"} THEN puts[s]
                   ELSE [puts[s] EXCEPT !.phase = "rejected"]
    BY <1>1 DEF Failed, DiskInv, ConfigTyped
  <2>3. CASE puts'[s] = puts[s]
    BY <1>1, <2>1, <2>3 DEF PutCurrent, Own
  <2>4. CASE puts[s].phase \notin {"idle", "answered"}
    <3> DEFINE x == [puts[s] EXCEPT !.phase = "rejected"]
    <3>1. puts[s] # Idle
      BY <2>4, PutIdle
    <3>2. x.phase = "rejected" /\ x.mounted = puts[s].mounted
      BY <2>1, <3>1 DEF PutType
    <3>3. puts'[s] = x
      BY <2>2, <2>4
    <3> HIDE DEF x
    <3> QED
      BY <3>1, <3>2, <3>3 DEF PutCurrent, Own
  <2> QED
    BY <2>2, <2>3, <2>4
<1>3. FormTyped'
  BY <1>1 DEF FormInv, FormTyped
<1>4. PutsCurrent' /\ SaveOwn'
  BY <1>1, <1>2 DEF FormInv, PutsCurrent, SaveOwn
<1>5. load' # Idle => load # Idle
  BY <1>1 DEF Idle
<1>6. LoadOwn' /\ FormCurrent'
  BY <1>1, <1>5 DEF FormInv, LoadOwn, FormCurrent
<1> QED
  BY <1>3, <1>4, <1>6 DEF FormInv

LEMMA FormNext ==
  ASSUME ConstantsAssumption, DiskInv, FormInv, [Next]_vars
  PROVE  FormInv'
<1>1. ASSUME NEW b \in Agents, OpenAgent(b) PROVE FormInv'
  BY <1>1, FormPages
<1>2. ASSUME NEW b \in Agents, SwitchAgent(b) PROVE FormInv'
  BY <1>2, FormQuiet DEF SwitchAgent, hubVars, notes
<1>3. ASSUME NEW q \in Pages, OpenPage(q) PROVE FormInv'
  BY <1>3, FormQuiet DEF OpenPage, hubVars, notes
<1>4. CASE BackToHub
  BY <1>4, FormPages
<1>5. ASSUME NEW id \in Alerts, Acknowledge(id) \/ Silence(id) \/ Fire(id) \/ OtherAcks(id) PROVE FormInv'
  BY <1>5, FormQuiet DEF Acknowledge, Silence, Fire, OtherAcks, hubVars, notes
<1>6. CASE HandleOpen \/ Cancel
  BY <1>6, FormTouched DEF HandleOpen, Cancel, notes
<1>7. ASSUME NEW f \in Fields, NEW v \in {"default", "set", "bad"}, Patch(f, v) PROVE FormInv'
  BY <1>7, FormTouched DEF Patch, notes, FormInv, FormTyped
<1>8. CASE HandleSave
  BY <1>8, FormSave
<1>9. ASSUME NEW c \in Normal, OtherSaves(c) PROVE FormInv'
  BY <1>9, FormOther
<1>10. CASE Poll
  BY <1>10, FormQuiet DEF Poll, hubVars, notes
<1>11. ASSUME NEW s \in 1 .. MaxReloads, ServeReload(s) \/ Reload(s) PROVE FormInv'
  BY <1>11, FormQuiet DEF ServeReload, Reload, hubVars, notes
<1>12. ASSUME NEW s \in 1 .. MaxPosts, SelectAlert(s) \/ UpdateAlert(s) \/ AddSilence(s) \/ Posted(s) PROVE FormInv'
  BY <1>12, FormQuiet DEF SelectAlert, UpdateAlert, AddSilence, Posted, hubVars, notes
<1>13. CASE ServeLoad \/ Loaded
  BY <1>13, FormLoad
<1>14. ASSUME NEW s \in 1 .. MaxPuts, Update(s) \/ PersistGets(s) \/ PersistSaves(s) \/ Saved(s) PROVE FormInv'
  BY <1>14, FormUpdate, FormGets, FormSaves, FormSaved
<1>15. CASE Lose
  BY <1>15, FormLose
<1>16. CASE RestartHub
  BY <1>16, FormRestart
<1>17. CASE UNCHANGED vars
  BY <1>17, FormQuiet DEF vars, hubVars, notes
<1> QED
  BY <1>1, <1>2, <1>3, <1>4, <1>5, <1>6, <1>7, <1>8, <1>9, <1>10, <1>11, <1>12, <1>13, <1>14, <1>15, <1>16, <1>17
     DEF Next, User, Others, Hub, Callbacks

-----------------------------------------------------------------------------
(* The types that no other invariant needs.                                *)

Bounded == moves \in 0 .. MaxMoves /\ others \in 0 .. MaxOthers /\ faults \in 0 .. MaxFaults

DeskTyped ==
    /\ silenced \subseteq SilenceKeys /\ page \in Pages
    /\ ackingId \in Alerts \cup {None} /\ silencingKey \in SilenceKeys \cup {None}
    /\ raced \in BOOLEAN /\ unsaved \in BOOLEAN

LEMMA BoundedNext ==
  ASSUME ConstantsAssumption, Bounded, [Next]_vars
  PROVE  Bounded'
<1>1. MaxMoves \in Nat /\ MaxOthers \in Nat /\ MaxFaults \in Nat
  BY DEF ConstantsAssumption
<1>2. \/ UNCHANGED counters \/ Click \/ Fault
      \/ others < MaxOthers /\ others' = others + 1 /\ UNCHANGED <<moves, faults>>
  <2>1. CASE User
    BY <2>1 DEF User, OpenAgent, SwitchAgent, BackToHub, OpenPage, Acknowledge, Silence, HandleOpen, Cancel,
                HandleSave, Patch
  <2>2. CASE Others
    BY <2>2 DEF Others, Fire, OtherAcks, OtherSaves
  <2>3. CASE Hub
    BY <2>3 DEF Hub, ServeReload, SelectAlert, UpdateAlert, AddSilence, ServeLoad, Update, PersistGets,
                PersistSaves
  <2>4. CASE Callbacks \/ Poll
    BY <2>4 DEF Callbacks, Reload, Posted, Loaded, Saved, Poll
  <2>5. CASE Lose \/ RestartHub
    BY <2>5 DEF Lose, RestartHub
  <2>6. CASE UNCHANGED vars
    BY <2>6 DEF vars
  <2> QED
    BY <2>1, <2>2, <2>3, <2>4, <2>5, <2>6 DEF Next
<1> QED
  BY <1>1, <1>2 DEF Bounded, counters, Click, Fault

LEMMA DeskNext ==
  ASSUME AckInv, DeskTyped, [Next]_vars
  PROVE  DeskTyped'
<1>1. \A id \in Alerts : SilenceKey(id) \in SilenceKeys
  BY DEF SilenceKeys
<1>2. CASE User
  <2>1. silenced' = silenced /\ UNCHANGED <<raced, unsaved>>
    BY <1>2 DEF User, OpenAgent, SwitchAgent, BackToHub, OpenPage, Acknowledge, Silence, HandleOpen, Cancel,
                HandleSave, Patch, hubVars, notes
  <2>2. page' \in Pages
    BY <1>2 DEF User, OpenAgent, SwitchAgent, BackToHub, OpenPage, Acknowledge, Silence, HandleOpen, Cancel,
                HandleSave, Patch, DeskTyped, Pages
  <2>3. ackingId' \in Alerts \cup {None} /\ silencingKey' \in SilenceKeys \cup {None}
    BY <1>1, <1>2 DEF User, OpenAgent, SwitchAgent, BackToHub, OpenPage, Acknowledge, Silence, HandleOpen,
                      Cancel, HandleSave, Patch, DeskTyped, MountDesk, UnmountDesk, deskVars
  <2> QED
    BY <2>1, <2>2, <2>3 DEF DeskTyped
<1>3. CASE Others \/ Poll
  BY <1>3 DEF Others, Poll, Fire, OtherAcks, OtherSaves, DeskTyped, hubVars, deskVars, notes
<1>4. CASE Hub
  <2>1. ASSUME NEW s \in 1 .. MaxPosts, AddSilence(s) PROVE DeskTyped'
    <3>1. posts[s].id \in Alerts
      BY <2>1, PostKinds, IdleFacts DEF AckInv, AckTyped, AddSilence
    <3> QED
      BY <1>1, <2>1, <3>1 DEF AddSilence, DeskTyped, deskVars, notes
  <2>2. ASSUME NEW s \in 1 .. MaxPuts, Update(s) \/ PersistGets(s) \/ PersistSaves(s) PROVE DeskTyped'
    <3>1. UNCHANGED <<silenced, page, ackingId, silencingKey>>
      BY <2>2 DEF Update, PersistGets, PersistSaves, hubVars, deskVars
    <3>2. raced' \in BOOLEAN
      BY <2>2 DEF Update, PersistGets, PersistSaves, notes, DeskTyped
    <3>3. unsaved' \in BOOLEAN
      BY <2>2 DEF Update, PersistGets, PersistSaves, notes, DeskTyped
    <3> QED
      BY <3>1, <3>2, <3>3 DEF DeskTyped
  <2>3. ASSUME NEW s \in 1 .. MaxPosts, SelectAlert(s) \/ UpdateAlert(s) PROVE DeskTyped'
    BY <2>3 DEF SelectAlert, UpdateAlert, DeskTyped, hubVars, deskVars, notes
  <2>4. ASSUME NEW s \in 1 .. MaxReloads, ServeReload(s) PROVE DeskTyped'
    BY <2>4 DEF ServeReload, DeskTyped, hubVars, notes
  <2>5. CASE ServeLoad
    BY <2>5 DEF ServeLoad, DeskTyped, hubVars, deskVars
  <2> QED
    BY <1>4, <2>1, <2>2, <2>3, <2>4, <2>5 DEF Hub
<1>5. CASE Callbacks
  BY <1>5 DEF Callbacks, Reload, Posted, Loaded, Saved, DeskTyped, hubVars, deskVars, notes
<1>6. CASE Lose
  BY <1>6 DEF Lose, DeskTyped, hubVars, notes
<1>7. CASE RestartHub
  BY <1>7 DEF RestartHub, DeskTyped
<1>8. CASE UNCHANGED vars
  BY <1>8 DEF vars, DeskTyped, hubVars, deskVars, notes
<1> QED
  BY <1>2, <1>3, <1>4, <1>5, <1>6, <1>7, <1>8 DEF Next

LEMMA RestInit ==
  ASSUME ConstantsAssumption, Init
  PROVE  Bounded /\ DeskTyped
<1>1. Bounded
  <2>1. MaxMoves \in Nat /\ MaxOthers \in Nat /\ MaxFaults \in Nat
    BY DEF ConstantsAssumption
  <2> QED
    BY <2>1 DEF Init, Bounded
<1>2. DeskTyped
  BY DEF Init, DeskTyped, Pages
<1> QED
  BY <1>1, <1>2

LEMMA TypesTogether ==
  ASSUME AckInv, DiskInv, FormInv, DeskTyped, Bounded
  PROVE  TypeOK
<1>1. load.phase \in {"idle", "sent", "answered", "rejected"}
  BY DEF DiskInv, ConfigTyped, LoadType, Idle
<1>2. \A s \in DOMAIN reloads : reloads[s].phase \in {"idle", "sent", "answered", "rejected"}
  BY ReloadKinds DEF AckInv, AckTyped
<1>3. \A s \in DOMAIN posts : posts[s].phase \in {"idle", "sent", "selected", "answered", "rejected"}
  BY PostKinds DEF AckInv, AckTyped
<1>4. \A s \in DOMAIN puts : puts[s].phase \in {"idle", "sent", "updated", "read", "answered", "rejected"}
  BY PutKinds DEF DiskInv, ConfigTyped
<1>5. status \in Rows /\ rows \in Rows /\ draft \in Configs
  BY DEF AckInv, AckTyped, DiskInv, ConfigTyped
<1>6. {loading, saving, saved, open, drift, raced, unsaved} \subseteq BOOLEAN
  BY DEF FormInv, FormTyped, DeskTyped
<1> QED
  BY <1>1, <1>2, <1>3, <1>4, <1>5, <1>6 DEF TypeOK, FormInv, FormTyped, DeskTyped, Bounded

-----------------------------------------------------------------------------
(* The theorems.                                                           *)

\* A row that useAlerts shows as acknowledged is acknowledged in the history,
\* whatever answers are late, lost or overtaken.
THEOREM AcksAreStored == Spec => []AckShownStored
<1>1. Init => AckInv
  BY AckInit, ConstantsAssumption
<1>2. AckInv /\ [Next]_vars => AckInv'
  BY AckNext, ConstantsAssumption
<1>3. AckInv => AckShownStored
  BY DEF AckInv
<1> QED
  BY <1>1, <1>2, <1>3, PTL DEF Spec

\* PUT /hub/alert-config: once no handler is at work the settings table holds
\* the configuration in memory, unless two handlers overtook each other or
\* the last save failed.
THEOREM SettingsFollow == Spec => []DiskFollows
<1>1. Init => DiskInv
  BY DiskInit, ConstantsAssumption
<1>2. DiskInv /\ [Next]_vars => DiskInv'
  BY DiskNext, ConstantsAssumption
<1>3. DiskInv => DiskFollows
  BY DEF DiskInv
<1> QED
  BY <1>1, <1>2, <1>3, PTL DEF Spec

\* The types of the whole state: whatever is typed into the form, the hub and
\* the form that is closed hold only numbers in range.
THEOREM TypeCorrect == Spec => []TypeOK
<1>1. Init => AckInv /\ DiskInv /\ FormInv /\ DeskTyped /\ Bounded
  BY AckInit, DiskInit, FormInit, RestInit, ConstantsAssumption
<1>2. AckInv /\ DiskInv /\ FormInv /\ DeskTyped /\ Bounded /\ [Next]_vars
        => AckInv' /\ DiskInv' /\ FormInv' /\ DeskTyped' /\ Bounded'
  BY AckNext, DiskNext, FormNext, DeskNext, BoundedNext, ConstantsAssumption
<1>3. AckInv /\ DiskInv /\ FormInv /\ DeskTyped /\ Bounded => TypeOK
  BY TypesTogether
<1> QED
  BY <1>1, <1>2, <1>3, PTL DEF Spec

\* The form of the alert configuration shows, without an error, what the hub
\* holds, unless a request that is not of this form, or a restart, changed
\* that after the form's last: no late answer shows an older configuration.
THEOREM FormShowsHub == Spec => []FormCurrent
<1>1. Init => DiskInv /\ FormInv
  BY DiskInit, FormInit, ConstantsAssumption
<1>2. DiskInv /\ FormInv /\ [Next]_vars => DiskInv' /\ FormInv'
  BY DiskNext, FormNext, ConstantsAssumption
<1>3. FormInv => FormCurrent
  BY DEF FormInv
<1> QED
  BY <1>1, <1>2, <1>3, PTL DEF Spec
=============================================================================
