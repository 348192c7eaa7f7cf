-------------------------- MODULE HistoryPaneProofs --------------------------
(***************************************************************************)
(* Safety theorems of HistoryPane, for any agents, ranges and readings,    *)
(* and every limit and bound the assumptions allow.                        *)
(*                                                                         *)
(* SamplesOwn is not inductive: an answer may only be shown because the    *)
(* load it belongs to is one for the current selection.  IInv adds         *)
(* LoadsOwn, which says so of every load that is not cancelled, and the    *)
(* types of what LoadsOwn speaks of: an answer fits when it is finite,     *)
(* within the limit, and has one sample of a time.  InFrame rests on that: *)
(* the ranks of n such samples are the numbers below n, and so few points  *)
(* never share a place in the frame.                                       *)
(***************************************************************************)
EXTENDS HistoryPane, FiniteSetTheorems, TLAPS

\* What a server answers: finitely many samples, within the limit of the
\* request, and no two of the same time.
Fitting == {S \in SUBSET Samples : /\ IsFiniteSet(S) /\ Cardinality(S) <= Limit
                                   /\ \A s, t \in S : s.at = t.at => s = t}

SentLoad     == [phase : {"sent"}, key : Keys, cancelled : BOOLEAN]
AnsweredLoad == [phase : {"answered"}, key : Keys, cancelled : BOOLEAN, got : Fitting]
LoadType     == {Idle} \cup SentLoad \cup AnsweredLoad

\* The types of the selection and of the loads.
Typed ==
    /\ kept \in [Agents \cup {Local} -> 0 .. MaxSamples]
    /\ agent \in Agents \cup {Local} /\ range \in Ranges
    /\ loads \in [Loads -> LoadType]

IInv == Typed /\ LoadsOwn /\ SamplesOwn

\* LoadsOwn, of the loads f and the key k.
OwnLoads(f, k) == \A l \in Loads : f[l] # Idle /\ ~f[l].cancelled => f[l].key = k

-----------------------------------------------------------------------------
(* The operators of the hook.                                              *)

LEMMA LoadKinds ==
  ASSUME NEW x \in LoadType
  PROVE  \/ x = Idle
         \/ x \in SentLoad /\ x # Idle /\ x.phase = "sent"
         \/ x \in AnsweredLoad /\ x # Idle /\ x.phase = "answered"
BY DEF LoadType, SentLoad, AnsweredLoad, Idle

LEMMA KeyType ==
  ASSUME NEW m, NEW a \in Agents \cup {Local}, NEW r \in Ranges
  PROVE  Key(m, a, r) \in Keys
BY DEF Key, Keys

\* The held samples are those of the last Limit times.
LEMMA HeldType ==
  ASSUME Typed, ConstantsAssumption, NEW k \in Keys
  PROVE  Held(k) \in Fitting
<1> DEFINE n == kept[k.of]
           U == {u \in 1 .. n : n < u + Width[k.range] /\ n < u + Limit}
           s(t) == Row(k, t)
<1>1. k.of \in Agents \cup {Local}
  BY DEF Keys
<1>2. n \in 0 .. MaxSamples /\ n \in Nat /\ MaxSamples \in Nat /\ Limit \in Nat \ {0}
  BY <1>1 DEF Typed, ConstantsAssumption
<1> HIDE DEF n
<1>3. \A t \in U : t \in Times /\ t \in Nat
  BY <1>2 DEF Times
<1>4. \A t \in U : s(t) \in Samples /\ s(t).at = t
  <2> SUFFICES ASSUME NEW t \in U PROVE s(t) \in Samples /\ s(t).at = t
    OBVIOUS
  <2> DEFINE lists == IF Rollup(k) THEN {} ELSE Reading[t].lists
  <2>1. lists \in SUBSET Lists
    BY <1>3 DEF ConstantsAssumption
  <2>2. s(t) = [of |-> k.of, at |-> t, lists |-> lists] /\ t \in Times
    BY <1>3 DEF Row
  <2> HIDE DEF lists, s
  <2> QED
    BY <1>1, <2>1, <2>2 DEF Samples
<1>5. Held(k) = {s(t) : t \in U}
  BY DEF Held, n
<1>6. IsFiniteSet(U) /\ Cardinality(U) <= Limit
  <2> DEFINE lo == IF n < Limit THEN 1 ELSE n + 1 - Limit
  <2>1. lo \in Int /\ n \in Int /\ U \in SUBSET (lo .. n)
    BY <1>2
  <2>2. IsFiniteSet(lo .. n) /\ Cardinality(lo .. n) <= Limit
    <3>1. IsFiniteSet(lo .. n) /\ Cardinality(lo .. n) = IF lo > n THEN 0 ELSE n - lo + 1
      BY <2>1, FS_Interval
    <3> QED
      BY <1>2, <3>1
  <2> HIDE DEF lo, U
  <2>3. IsFiniteSet(U) /\ Cardinality(U) <= Cardinality(lo .. n)
    BY <2>1, <2>2, FS_Subset
  <2>4. Cardinality(U) \in Nat /\ Cardinality(lo .. n) \in Nat
    BY <2>2, <2>3, FS_CardinalityType
  <2> QED
    BY <1>2, <2>2, <2>3, <2>4
<1> DEFINE f == [t \in U |-> s(t)]
<1>7. f \in Surjection(U, Held(k))
  <2>1. f \in [U -> Held(k)]
    BY <1>5
  <2>2. \A x \in Held(k) : \E t \in U : f[t] = x
    BY <1>5
  <2> QED
    BY <2>1, <2>2 DEF Surjection
<1> HIDE DEF U
<1>8. IsFiniteSet(Held(k)) /\ Cardinality(Held(k)) <= Cardinality(U)
  BY <1>6, <1>7, FS_Surjection
<1>9. Cardinality(Held(k)) \in Nat /\ Cardinality(U) \in Nat
  BY <1>6, <1>8, FS_CardinalityType
<1>10. \A x, y \in Held(k) : x.at = y.at => x = y
  BY <1>4, <1>5
<1>11. Held(k) \in SUBSET Samples
  BY <1>4, <1>5
<1> QED
  BY <1>2, <1>6, <1>8, <1>9, <1>10, <1>11 DEF Fitting

\* The clean-up of the effect leaves no load that could be shown.
LEMMA CancelledFacts ==
  ASSUME NEW f \in [Loads -> LoadType]
  PROVE  /\ Cancelled(f) \in [Loads -> LoadType]
         /\ \A l \in Loads : Cancelled(f)[l] # Idle => Cancelled(f)[l].cancelled
<1>1. ASSUME NEW l \in Loads
      PROVE  /\ Cancelled(f)[l] \in LoadType
             /\ Cancelled(f)[l] # Idle => Cancelled(f)[l].cancelled
  <2>1. Cancelled(f)[l] = IF f[l] = Idle THEN Idle ELSE [f[l] EXCEPT !.cancelled = TRUE]
    BY DEF Cancelled
  <2>2. CASE f[l] = Idle
    BY <2>1, <2>2 DEF LoadType
  <2>3. CASE f[l] \in SentLoad /\ f[l] # Idle
    <3>1. /\ [f[l] EXCEPT !.cancelled = TRUE] \in SentLoad
          /\ [f[l] EXCEPT !.cancelled = TRUE].cancelled
      BY <2>3 DEF SentLoad
    <3> QED
      BY <2>1, <2>3, <3>1 DEF LoadType
  <2>4. CASE f[l] \in AnsweredLoad /\ f[l] # Idle
    <3>1. /\ [f[l] EXCEPT !.cancelled = TRUE] \in AnsweredLoad
          /\ [f[l] EXCEPT !.cancelled = TRUE].cancelled
      BY <2>4 DEF AnsweredLoad
    <3> QED
      BY <2>1, <2>4, <3>1 DEF LoadType
  <2> QED
    BY <2>2, <2>3, <2>4, LoadKinds
<1> QED
  BY <1>1 DEF Cancelled

LEMMA SendFacts ==
  ASSUME NEW f \in [Loads -> LoadType], NEW k \in Keys, OwnLoads(f, k), NEW g \in Send(f, k)
  PROVE  g \in [Loads -> LoadType] /\ OwnLoads(g, k)
<1> DEFINE x == [phase |-> "sent", key |-> k, cancelled |-> FALSE]
<1>1. x \in LoadType /\ x.key = k
  BY DEF LoadType, SentLoad
<1>2. PICK l \in Loads : g = [f EXCEPT ![l] = x]
  BY DEF Send
<1> HIDE DEF x
<1> QED
  BY <1>1, <1>2 DEF OwnLoads

LEMMA CancelledOwn ==
  ASSUME NEW f \in [Loads -> LoadType], NEW k
  PROVE  OwnLoads(Cancelled(f), k)
BY CancelledFacts DEF OwnLoads

LEMMA EffectFacts ==
  ASSUME NEW m, NEW a \in Agents \cup {Local}, NEW r \in Ranges, NEW v,
         loads \in [Loads -> LoadType], Effect(m, a, r, v, loads)
  PROVE  /\ loads' \in [Loads -> LoadType]
         /\ OwnLoads(loads', Key(m, a, r))
         /\ loading' = TRUE \/ samples' = Nothing
<1>1. Cancelled(loads) \in [Loads -> LoadType] /\ OwnLoads(Cancelled(loads), Key(m, a, r))
  BY CancelledFacts, CancelledOwn
<1>2. CASE v = "history"
  <2>1. loads' \in Send(Cancelled(loads), Key(m, a, r)) /\ loading' = TRUE
    BY <1>2 DEF Effect
  <2> QED
    BY <1>1, <2>1, KeyType, SendFacts
<1>3. CASE v # "history"
  BY <1>1, <1>3 DEF Effect
<1> QED
  BY <1>2, <1>3

LEMMA NothingShown ==
  Nothing.set = {}
BY DEF Nothing

\* A step of the effect: the key is that of the new selection.
LEMMA EffectIInv ==
  ASSUME IInv, UNCHANGED <<kept, mode>>, agent' \in Agents \cup {Local}, range' \in Ranges,
         NEW v, Effect(meta', agent', range', v, loads)
  PROVE  IInv'
<1>1. /\ loads' \in [Loads -> LoadType]
      /\ OwnLoads(loads', Key(meta', agent', range'))
      /\ loading' = TRUE \/ samples' = Nothing
  BY EffectFacts DEF IInv, Typed
<1>2. Current' = Key(meta', agent', range')
  BY DEF Current, Key
<1> QED
  BY <1>1, <1>2, NothingShown DEF IInv, Typed, LoadsOwn, OwnLoads, SamplesOwn

\* A step that leaves the selection and the samples, and may end loads.
LEMMA SameKey ==
  ASSUME UNCHANGED <<mode, agent, range>>, meta' = meta \/ (meta # "known" /\ meta' # "known")
  PROVE  Current' = Current
BY DEF Current, Key

-----------------------------------------------------------------------------
(* The steps.                                                              *)

LEMMA InitIInv ==
  ASSUME ConstantsAssumption, Init
  PROVE  IInv
<1>1. Typed
  BY DEF ConstantsAssumption, Init, Typed, LoadType
<1> QED
  BY <1>1, NothingShown DEF Init, IInv, LoadsOwn, SamplesOwn

LEMMA CollectIInv ==
  ASSUME ConstantsAssumption, IInv, NEW a \in Agents \cup {Local}, Collect(a)
  PROVE  IInv'
<1>1. Current' = Current
  BY SameKey DEF Collect, routeVars
<1>2. Typed'
  BY DEF ConstantsAssumption, IInv, Typed, Collect, routeVars
<1> QED
  BY <1>1, <1>2 DEF Collect, IInv, LoadsOwn, SamplesOwn

LEMMA MetaIInv ==
  ASSUME IInv, MetaArrives \/ MetaFails
  PROVE  IInv'
<1>1. CASE MetaArrives /\ mode = "hub"
  <2>1. Effect(meta', agent', range', viewMode, loads)
    BY <1>1 DEF MetaArrives, routeVars
  <2>2. agent' \in Agents \cup {Local} /\ range' \in Ranges /\ UNCHANGED <<kept, mode>>
    BY <1>1 DEF MetaArrives, IInv, Typed, routeVars, serverVars
  <2> QED
    BY <2>1, <2>2, EffectIInv
<1>2. CASE MetaArrives /\ mode # "hub"
  <2>1. Current' = Current
    BY <1>2 DEF MetaArrives, Current, Key, routeVars, serverVars
  <2>2. ~crashed
    BY <1>2 DEF MetaArrives, Asking
  <2> QED
    BY <1>2, <2>1, <2>2 DEF MetaArrives, IInv, Typed, LoadsOwn, SamplesOwn, routeVars, serverVars
<1>3. CASE MetaFails
  <2>1. Current' = Current
    BY <1>3, SameKey DEF MetaFails, Asking, routeVars, serverVars
  <2> QED
    BY <1>3, <2>1 DEF MetaFails, IInv, Typed, LoadsOwn, SamplesOwn, routeVars, serverVars
<1> QED
  BY <1>1, <1>2, <1>3

LEMMA UserIInv ==
  ASSUME ConstantsAssumption, IInv, User
  PROVE  IInv'
<1>1. CASE Toggle
  <2>1. Effect(meta', agent', range', viewMode', loads)
    BY <1>1 DEF Toggle, routeVars
  <2>2. agent' \in Agents \cup {Local} /\ range' \in Ranges /\ UNCHANGED <<kept, mode>>
    BY <1>1 DEF Toggle, IInv, Typed, routeVars, serverVars
  <2> QED
    BY <2>1, <2>2, EffectIInv
<1>2. ASSUME NEW r \in Ranges, PickRange(r)
      PROVE  IInv'
  <2>1. Effect(meta', agent', range', viewMode, loads)
    BY <1>2 DEF PickRange, routeVars
  <2>2. agent' \in Agents \cup {Local} /\ range' \in Ranges /\ UNCHANGED <<kept, mode>>
    BY <1>2 DEF PickRange, IInv, Typed, routeVars, serverVars
  <2> QED
    BY <2>1, <2>2, EffectIInv
<1>3. ASSUME NEW b \in Agents, SwitchAgent(b)
      PROVE  IInv'
  <2>1. Effect(meta', agent', range', viewMode, loads)
    BY <1>3 DEF SwitchAgent
  <2>2. agent' \in Agents \cup {Local} /\ range' \in Ranges /\ UNCHANGED <<kept, mode>>
    BY <1>3 DEF SwitchAgent, IInv, Typed, serverVars
  <2> QED
    BY <2>1, <2>2, EffectIInv
<1>4. ASSUME NEW v \in Views, OpenPage(v)
      PROVE  IInv'
  <2>1. loads \in [Loads -> LoadType] /\ agent \in Agents \cup {Local} /\ range \in Ranges
    BY DEF IInv, Typed
  <2>2. Current' = Key("unknown", agent, range) /\ Current' \in Keys
    BY <1>4, <2>1, KeyType DEF OpenPage, Current, Key, serverVars
  <2>3. Cancelled(loads) \in [Loads -> LoadType] /\ OwnLoads(Cancelled(loads), Current')
    BY <2>1, CancelledFacts, CancelledOwn
  <2>4. loads' \in [Loads -> LoadType] /\ OwnLoads(loads', Current')
    <3>1. CASE viewMode = "history"
      <4>1. loads' \in Send(Cancelled(loads), Current')
        BY <1>4, <2>2, <3>1 DEF OpenPage
      <4> QED
        BY <2>2, <2>3, <4>1, SendFacts
    <3>2. CASE viewMode # "history"
      BY <1>4, <2>3, <3>2 DEF OpenPage
    <3> QED
      BY <3>1, <3>2
  <2>5. Typed' /\ LoadsOwn'
    BY <1>4, <2>4 DEF OpenPage, IInv, Typed, LoadsOwn, OwnLoads, serverVars
  <2>6. SamplesOwn'
    BY <1>4, NothingShown DEF OpenPage, SamplesOwn
  <2> QED
    BY <2>5, <2>6 DEF IInv
<1>5. ASSUME NEW i \in 0 .. MaxSamples, Scrub(i)
      PROVE  IInv'
  <2>1. Current' = Current
    BY <1>5, SameKey DEF Scrub, routeVars, serverVars
  <2>2. ~crashed
    BY <1>5 DEF Scrub, Click
  <2> QED
    BY <1>5, <2>1, <2>2 DEF Scrub, IInv, Typed, LoadsOwn, SamplesOwn, routeVars, serverVars
<1>6. CASE Reload
  <2>1. Typed'
    BY <1>6 DEF Reload, ConstantsAssumption, IInv, Typed, LoadType, routeVars, serverVars
  <2> QED
    BY <1>6, <2>1, NothingShown DEF Reload, IInv, LoadsOwn, SamplesOwn
<1>7. CASE SelectRow
  <2>1. Current' = Current
    BY <1>7, SameKey DEF SelectRow, routeVars, serverVars
  <2> QED
    BY <1>7, <2>1 DEF SelectRow, IInv, Typed, LoadsOwn, SamplesOwn, routeVars, serverVars
<1> QED
  BY <1>1, <1>2, <1>3, <1>4, <1>5, <1>6, <1>7 DEF User

LEMMA PollIInv ==
  ASSUME IInv, Poll
  PROVE  IInv'
<1>1. Current' = Current
  BY SameKey DEF Poll, routeVars, serverVars
<1>2. Current \in Keys
  BY KeyType DEF IInv, Typed, Current
<1>3. loads' \in [Loads -> LoadType] /\ OwnLoads(loads', Current)
  BY <1>2, SendFacts DEF Poll, IInv, Typed, LoadsOwn, OwnLoads
<1> QED
  BY <1>1, <1>3 DEF Poll, IInv, Typed, LoadsOwn, OwnLoads, SamplesOwn, routeVars, serverVars

LEMMA ServeIInv ==
  ASSUME ConstantsAssumption, IInv, NEW l \in Loads, Serve(l)
  PROVE  IInv'
<1> DEFINE x == [phase |-> "answered", key |-> loads[l].key, cancelled |-> loads[l].cancelled,
                 got |-> Held(loads[l].key)]
<1>1. loads' = [loads EXCEPT ![l] = x]
  BY DEF Serve
<1>2. loads[l] \in SentLoad /\ loads[l] # Idle
  <2>1. loads[l] \in LoadType /\ loads[l].phase = "sent"
    BY DEF Serve, IInv, Typed
  <2> QED
    BY <2>1, LoadKinds DEF Idle
<1>3. x \in LoadType /\ x.key = loads[l].key /\ x.cancelled = loads[l].cancelled
  <2>1. loads[l].key \in Keys /\ loads[l].cancelled \in BOOLEAN
    BY <1>2 DEF SentLoad
  <2>2. Held(loads[l].key) \in Fitting
    BY <2>1, HeldType DEF IInv
  <2> QED
    BY <2>1, <2>2 DEF LoadType, AnsweredLoad
<1>4. Current' = Current
  BY SameKey DEF Serve, routeVars, serverVars
<1> HIDE DEF x
<1>5. Typed'
  BY <1>1, <1>3 DEF Serve, IInv, Typed, routeVars, serverVars
<1>6. LoadsOwn'
  BY <1>1, <1>2, <1>3, <1>4 DEF IInv, Typed, LoadsOwn
<1>7. SamplesOwn'
  BY <1>4 DEF Serve, IInv, SamplesOwn
<1> QED
  BY <1>5, <1>6, <1>7 DEF IInv

LEMMA FinishIInv ==
  ASSUME IInv, NEW l \in Loads, Finish(l)
  PROVE  IInv'
<1>1. Current' = Current
  BY SameKey DEF Finish, routeVars, serverVars
<1>2. Typed'
  BY DEF Finish, IInv, Typed, LoadType, routeVars, serverVars
<1>3. LoadsOwn'
  BY <1>1 DEF Finish, IInv, Typed, LoadsOwn
<1>4. loads[l] # Idle /\ (~loads[l].cancelled => loads[l].key = Current) /\ ~crashed
  BY DEF Finish, Then, Catch, Idle, IInv, LoadsOwn
<1>5. SamplesOwn'
  <2>1. CASE Then(l)
    BY <1>1, <1>4, <2>1 DEF Then, IInv, SamplesOwn
  <2>2. CASE Catch(l)
    BY <1>1, <1>4, <2>2, NothingShown DEF Catch, IInv, SamplesOwn
  <2> QED
    BY <2>1, <2>2 DEF Finish
<1> QED
  BY <1>2, <1>3, <1>5 DEF IInv

LEMMA NextIInv ==
  ASSUME ConstantsAssumption, IInv, [Next]_vars
  PROVE  IInv'
<1>1. ASSUME NEW a \in Agents \cup {Local}, Collect(a) PROVE IInv'
  BY <1>1, CollectIInv
<1>2. CASE MetaArrives \/ MetaFails
  BY <1>2, MetaIInv
<1>3. CASE User
  BY <1>3, UserIInv
<1>4. CASE Poll
  BY <1>4, PollIInv
<1>5. ASSUME NEW l \in Loads, Serve(l) PROVE IInv'
  BY <1>5, ServeIInv
<1>6. ASSUME NEW l \in Loads, Finish(l) PROVE IInv'
  BY <1>6, FinishIInv
<1>7. CASE UNCHANGED vars
  <2>1. Current' = Current
    BY <1>7, SameKey DEF vars, routeVars, serverVars
  <2> QED
    BY <1>7, <2>1 DEF vars, IInv, Typed, LoadsOwn, SamplesOwn, routeVars, serverVars
<1>8. ASSUME NEW t \in Times, LiveShows(t) PROVE IInv'
  <2>1. Current' = Current /\ ~crashed
    BY <1>8, SameKey DEF LiveShows, routeVars, serverVars
  <2> QED
    BY <1>8, <2>1 DEF LiveShows, IInv, Typed, LoadsOwn, SamplesOwn, routeVars, serverVars
<1> QED
  BY <1>1, <1>2, <1>3, <1>4, <1>5, <1>6, <1>7, <1>8 DEF Next

-----------------------------------------------------------------------------
(* The types of the rest.                                                  *)

ViewTyped ==
    /\ mode \in {"hub", "agent"} /\ view \in Views
    /\ meta \in {"unknown", "known", "failed"} /\ viewMode \in {"live", "history"}
    /\ samples \in [key : Keys, set : Fitting]
    /\ loading \in BOOLEAN /\ error \in BOOLEAN /\ crashed \in BOOLEAN
    /\ sampleIndex \in 0 .. MaxSamples
    /\ moves \in 0 .. MaxMoves /\ faults \in 0 .. MaxFaults

LEMMA NothingType ==
  ASSUME ConstantsAssumption
  PROVE  Nothing \in [key : Keys, set : Fitting]
<1>1. {} \in Fitting
  BY FS_EmptySet DEF Fitting, ConstantsAssumption
<1>2. [of |-> Local, range |-> "24h"] \in Keys
  BY DEF Keys, ConstantsAssumption
<1> QED
  BY <1>1, <1>2 DEF Nothing

LEMMA EffectTypes ==
  ASSUME ConstantsAssumption, ViewTyped, NEW m, NEW a, NEW r, NEW v, NEW f, Effect(m, a, r, v, f)
  PROVE  samples' \in [key : Keys, set : Fitting] /\ loading' \in BOOLEAN /\ error' \in BOOLEAN
BY NothingType DEF Effect, ViewTyped

\* Nothing counts the moves and the faults over their bounds.
LEMMA BoundTypes ==
  ASSUME ConstantsAssumption, ViewTyped
  PROVE  /\ moves < MaxMoves => moves + 1 \in 0 .. MaxMoves
         /\ faults < MaxFaults => faults + 1 \in 0 .. MaxFaults
         /\ 0 \in 0 .. MaxSamples
BY DEF ConstantsAssumption, ViewTyped

LEMMA ResetTypes ==
  ASSUME ConstantsAssumption, ViewTyped, ResetIndex
  PROVE  sampleIndex' \in 0 .. MaxSamples
BY BoundTypes DEF ResetIndex, ViewTyped

LEMMA RenderTypes ==
  ASSUME Renders
  PROVE  crashed' \in BOOLEAN
BY DEF Renders

LEMMA ViewTypes ==
  ASSUME ConstantsAssumption, IInv, ViewTyped, [Next]_vars
  PROVE  ViewTyped'
<1>1. ASSUME NEW a \in Agents \cup {Local}, Collect(a) PROVE ViewTyped'
  BY <1>1 DEF Collect, ViewTyped, routeVars
<1>2. CASE MetaArrives
  <2>1. sampleIndex' \in 0 .. MaxSamples /\ crashed' \in BOOLEAN
    BY <1>2, ResetTypes, RenderTypes DEF MetaArrives
  <2>2. samples' \in [key : Keys, set : Fitting] /\ loading' \in BOOLEAN /\ error' \in BOOLEAN
    BY <1>2, EffectTypes DEF MetaArrives, ViewTyped
  <2> QED
    BY <1>2, <2>1, <2>2 DEF MetaArrives, ViewTyped, serverVars, routeVars
<1>3. CASE MetaFails
  <2>1. faults' \in 0 .. MaxFaults
    BY <1>3, BoundTypes DEF MetaFails
  <2> QED
    BY <1>3, <2>1 DEF MetaFails, ViewTyped, serverVars, routeVars
<1>4. CASE Toggle
  <2>1. sampleIndex' \in 0 .. MaxSamples /\ crashed' \in BOOLEAN
    BY <1>4, ResetTypes, RenderTypes DEF Toggle
  <2>2. samples' \in [key : Keys, set : Fitting] /\ loading' \in BOOLEAN /\ error' \in BOOLEAN
    BY <1>4, EffectTypes DEF Toggle
  <2>3. moves' \in 0 .. MaxMoves
    BY <1>4, BoundTypes DEF Toggle, Click
  <2> QED
    BY <1>4, <2>1, <2>2, <2>3 DEF Toggle, ViewTyped, serverVars, routeVars
<1>5. ASSUME NEW r \in Ranges, PickRange(r) PROVE ViewTyped'
  <2>1. sampleIndex' \in 0 .. MaxSamples /\ crashed' \in BOOLEAN
    BY <1>5, ResetTypes, RenderTypes DEF PickRange
  <2>2. samples' \in [key : Keys, set : Fitting] /\ loading' \in BOOLEAN /\ error' \in BOOLEAN
    BY <1>5, EffectTypes DEF PickRange
  <2>3. moves' \in 0 .. MaxMoves
    BY <1>5, BoundTypes DEF PickRange, Click
  <2> QED
    BY <1>5, <2>1, <2>2, <2>3 DEF PickRange, ViewTyped, serverVars, routeVars
<1>6. ASSUME NEW b \in Agents, SwitchAgent(b) PROVE ViewTyped'
  <2>1. sampleIndex' \in 0 .. MaxSamples /\ crashed' \in BOOLEAN
    BY <1>6, ResetTypes, RenderTypes DEF SwitchAgent
  <2>2. samples' \in [key : Keys, set : Fitting] /\ loading' \in BOOLEAN /\ error' \in BOOLEAN
    BY <1>6, EffectTypes DEF SwitchAgent
  <2>3. moves' \in 0 .. MaxMoves
    BY <1>6, BoundTypes DEF SwitchAgent, Click
  <2> QED
    BY <1>6, <2>1, <2>2, <2>3 DEF SwitchAgent, ViewTyped, serverVars
<1>7. ASSUME NEW v \in Views, OpenPage(v) PROVE ViewTyped'
  <2>1. moves' \in 0 .. MaxMoves /\ sampleIndex' \in 0 .. MaxSamples
    BY <1>7, BoundTypes DEF OpenPage, Click
  <2>2. samples' \in [key : Keys, set : Fitting] /\ loading' \in BOOLEAN
    BY <1>7, NothingType DEF OpenPage
  <2> QED
    BY <1>7, <2>1, <2>2 DEF OpenPage, ViewTyped, serverVars
<1>8. ASSUME NEW i \in 0 .. MaxSamples, Scrub(i) PROVE ViewTyped'
  <2>1. moves' \in 0 .. MaxMoves
    BY <1>8, BoundTypes DEF Scrub, Click
  <2>2. crashed' \in BOOLEAN
    BY <1>8, RenderTypes DEF Scrub
  <2> QED
    BY <1>8, <2>1, <2>2 DEF Scrub, ViewTyped, serverVars, routeVars
<1>9. CASE Reload
  <2>1. moves' \in 0 .. MaxMoves /\ sampleIndex' \in 0 .. MaxSamples
    BY <1>9, BoundTypes DEF Reload
  <2>2. samples' \in [key : Keys, set : Fitting]
    BY <1>9, NothingType DEF Reload
  <2> QED
    BY <1>9, <2>1, <2>2 DEF Reload, ViewTyped, serverVars, routeVars
<1>10. CASE Poll
  BY <1>10 DEF Poll, ViewTyped, serverVars, routeVars
<1>11. ASSUME NEW l \in Loads, Serve(l) PROVE ViewTyped'
  BY <1>11 DEF Serve, ViewTyped, serverVars, routeVars
<1>12. ASSUME NEW l \in Loads, Finish(l) PROVE ViewTyped'
  <2>1. sampleIndex' \in 0 .. MaxSamples /\ crashed' \in BOOLEAN
    BY <1>12, ResetTypes, RenderTypes DEF Finish
  <2>2. /\ samples' \in [key : Keys, set : Fitting] /\ loading' \in BOOLEAN
        /\ error' \in BOOLEAN /\ faults' \in 0 .. MaxFaults
    <3>1. CASE Then(l)
      <4>1. loads[l] \in AnsweredLoad
        <5>1. loads[l] \in LoadType /\ loads[l].phase = "answered"
          BY <3>1 DEF Then, IInv, Typed
        <5> QED
          BY <5>1, LoadKinds DEF Idle
      <4>2. loads[l].key \in Keys /\ loads[l].got \in Fitting
        BY <4>1 DEF AnsweredLoad
      <4>3. samples' \in [key : Keys, set : Fitting] /\ loading' \in BOOLEAN
        <5>1. CASE loads[l].cancelled
          BY <3>1, <5>1 DEF Then, ViewTyped
        <5>2. CASE ~loads[l].cancelled
          <6>1. samples' = [key |-> loads[l].key, set |-> loads[l].got] /\ loading' = FALSE
            BY <3>1, <5>2 DEF Then
          <6> QED
            BY <4>2, <6>1
        <5> QED
          BY <5>1, <5>2
      <4> QED
        BY <3>1, <4>3 DEF Then, ViewTyped
    <3>2. CASE Catch(l)
      BY <3>2, NothingType, BoundTypes DEF Catch, ViewTyped
    <3> QED
      BY <1>12, <3>1, <3>2 DEF Finish
  <2> QED
    BY <1>12, <2>1, <2>2 DEF Finish, ViewTyped, serverVars, routeVars
<1>13. CASE UNCHANGED vars
  BY <1>13 DEF vars, ViewTyped, serverVars, routeVars
<1>14. ASSUME NEW t \in Times, LiveShows(t) PROVE ViewTyped'
  <2>1. crashed' \in BOOLEAN
    BY <1>14 DEF LiveShows
  <2> QED
    BY <1>14, <2>1 DEF LiveShows, ViewTyped, serverVars, routeVars
<1>15. CASE SelectRow
  <2>1. crashed' \in BOOLEAN
    BY <1>15, RenderTypes DEF SelectRow
  <2> QED
    BY <1>15, <2>1 DEF SelectRow, ViewTyped, serverVars, routeVars
<1> QED
  BY <1>1, <1>2, <1>3, <1>4, <1>5, <1>6, <1>7, <1>8, <1>9, <1>10, <1>11, <1>12, <1>13, <1>14, <1>15 DEF Next, User

-----------------------------------------------------------------------------
(* The rank of a sample, or of a point, among its like.                    *)

\* Records with different times.
Timed(S) == /\ IsFiniteSet(S) /\ \A s \in S : s.at \in Nat
            /\ \A s, t \in S : s.at = t.at => s = t

LEMMA RankFacts ==
  ASSUME NEW S, Timed(S)
  PROVE  /\ \A s \in S : Rank(s, S) \in Nat /\ Rank(s, S) < Cardinality(S)
         /\ \A s, t \in S : s.at < t.at => Rank(s, S) < Rank(t, S)
<1> DEFINE Before(s) == {u \in S : u.at < s.at}
<1>1. Cardinality(S) \in Nat
  BY FS_CardinalityType DEF Timed
<1>2. \A s : Before(s) \in SUBSET S /\ IsFiniteSet(Before(s)) /\ Cardinality(Before(s)) \in Nat
  <2>1. ASSUME NEW s PROVE Before(s) \in SUBSET S
    OBVIOUS
  <2> QED
    BY <2>1, FS_Subset, FS_CardinalityType DEF Timed
<1>3. ASSUME NEW s \in S PROVE Cardinality(Before(s)) < Cardinality(S)
  <2>1. s \notin Before(s)
    BY DEF Timed
  <2>2. Before(s) # S
    BY <2>1
  <2>3. Cardinality(Before(s)) <= Cardinality(S) /\ Cardinality(Before(s)) # Cardinality(S)
    BY <1>2, <2>2, FS_Subset DEF Timed
  <2> QED
    BY <1>1, <1>2, <2>3
<1>4. ASSUME NEW s \in S, NEW t \in S, s.at < t.at
      PROVE  Cardinality(Before(s)) < Cardinality(Before(t))
  <2>1. s \in Before(t) /\ s \notin Before(s) /\ Before(s) \in SUBSET Before(t)
    BY <1>4 DEF Timed
  <2>2. Before(s) # Before(t)
    BY <2>1
  <2> HIDE DEF Before
  <2>3. Cardinality(Before(s)) <= Cardinality(Before(t)) /\ Cardinality(Before(s)) # Cardinality(Before(t))
    BY <1>2, <2>1, <2>2, FS_Subset
  <2> QED
    BY <1>2, <2>3
<1>5. \A s : Rank(s, S) = Cardinality(Before(s))
  BY DEF Rank
<1> HIDE DEF Before
<1> QED
  BY <1>1, <1>2, <1>3, <1>4, <1>5

\* Every rank below the number of the samples is that of one of them.
LEMMA RankOnto ==
  ASSUME NEW S, Timed(S), NEW n \in Nat, n < Cardinality(S)
  PROVE  /\ IsFiniteSet({s \in S : Rank(s, S) = n})
         /\ Cardinality({s \in S : Rank(s, S) = n}) = 1
<1> DEFINE T == 0 .. Cardinality(S) - 1
           f == [s \in S |-> Rank(s, S)]
<1>1. Cardinality(S) \in Nat
  BY FS_CardinalityType DEF Timed
<1>2. IsFiniteSet(T) /\ Cardinality(T) = Cardinality(S)
  <2>1. 0 \in Int /\ Cardinality(S) - 1 \in Int
    BY <1>1
  <2>2. IsFiniteSet(T) /\ Cardinality(T) = IF 0 > Cardinality(S) - 1 THEN 0 ELSE Cardinality(S) - 1 - 0 + 1
    BY <2>1, FS_Interval
  <2> QED
    BY <1>1, <2>2
<1>3. \A s, t \in S : Rank(s, S) = Rank(t, S) => s = t
  <2>1. ASSUME NEW s \in S, NEW t \in S, Rank(s, S) = Rank(t, S) PROVE s = t
    <3>1. s.at \in Nat /\ t.at \in Nat
      BY DEF Timed
    <3>2. ~(s.at < t.at) /\ ~(t.at < s.at)
      BY <2>1, RankFacts
    <3> QED
      BY <3>1, <3>2 DEF Timed
  <2> QED
    BY <2>1
<1>4. f \in Injection(S, T)
  <2>1. \A s \in S : Rank(s, S) \in T
    BY <1>1, RankFacts
  <2>2. f \in [S -> T]
    BY <2>1
  <2>3. IsInjective(f)
    BY <1>3 DEF IsInjective
  <2> QED
    BY <2>2, <2>3 DEF Injection
<1> HIDE DEF T
<1>5. f \in Surjection(S, T)
  <2> HIDE DEF f
  <2> QED
    BY <1>2, <1>4, FS_Injection
<1>6. PICK s \in S : Rank(s, S) = n
  <2>1. n \in T
    BY <1>1 DEF T
  <2> QED
    BY <1>5, <2>1 DEF Surjection
<1>7. {t \in S : Rank(t, S) = n} = {s}
  BY <1>3, <1>6
<1> QED
  BY <1>7, FS_Singleton

\* The scrubber is on one of the samples, whatever its index was.
LEMMA ShownOne ==
  ASSUME ConstantsAssumption, NEW S \in Fitting, S # {}, NEW i \in Nat
  PROVE  Shown(i, S) # {} /\ Cardinality(Shown(i, S)) = 1
<1>1. Timed(S)
  BY DEF Fitting, Timed, Samples, Times, ConstantsAssumption
<1>2. Cardinality(S) \in Nat /\ Cardinality(S) # 0
  BY <1>1, FS_CardinalityType, FS_EmptySet DEF Timed
<1>3. SafeIndex(i, S) \in Nat /\ SafeIndex(i, S) < Cardinality(S)
  BY <1>2 DEF SafeIndex
<1>4. Cardinality(Shown(i, S)) = 1
  BY <1>1, <1>3, RankOnto DEF Shown
<1>5. Shown(i, S) # {}
  BY <1>4, FS_EmptySet
<1> QED
  BY <1>4, <1>5

\* A finite set that is not empty has a largest number: the smallest set
\* without one would have one when an element is taken away.
LEMMA LargestFacts ==
  ASSUME NEW S \in SUBSET Nat, IsFiniteSet(S), S # {}
  PROVE  Largest(S) \in S /\ \A y \in S : y <= Largest(S)
<1> DEFINE HasMax(T) == \E x \in T : \A y \in T : y <= x
           Bad == {T \in FiniteSubsetsOf(Nat) : T # {} /\ ~HasMax(T)}
<1>1. Bad = {}
  <2> SUFFICES ASSUME Bad # {} PROVE FALSE
    OBVIOUS
  <2>1. IsWellFoundedOn(StrictSubsetOrdering(Nat), FiniteSubsetsOf(Nat)) /\ Bad \subseteq FiniteSubsetsOf(Nat)
    BY FS_StrictSubsetOrderingWellFounded
  <2> HIDE DEF Bad
  <2>2. PICK T \in Bad : \A U \in Bad : ~(<<U, T>> \in StrictSubsetOrdering(Nat))
    BY <2>1, WFMin
  <2>3. T \in SUBSET Nat /\ IsFiniteSet(T) /\ T # {} /\ ~HasMax(T)
    BY DEF Bad, FiniteSubsetsOf
  <2>4. PICK x \in T : TRUE
    BY <2>3
  <2> DEFINE U == T \ {x}
  <2>5. U \in SUBSET Nat /\ IsFiniteSet(U) /\ U \subseteq T /\ U # T
    BY <2>3, <2>4, FS_RemoveElement
  <2>6. U \notin Bad
    BY <2>2, <2>3, <2>5 DEF StrictSubsetOrdering
  <2>7. U = {} \/ HasMax(U)
    BY <2>5, <2>6 DEF Bad, FiniteSubsetsOf
  <2>8. CASE U = {}
    <3>1. T = {x}
      BY <2>4, <2>8
    <3> QED
      BY <2>3, <3>1
  <2>9. CASE HasMax(U)
    <3>1. PICK m \in U : \A y \in U : y <= m
      BY <2>9
    <3>2. m \in Nat /\ x \in Nat /\ \A y \in T : y \in Nat
      BY <2>3, <2>4, <3>1
    <3>3. CASE m <= x
      BY <2>3, <2>4, <3>1, <3>2, <3>3
    <3>4. CASE x <= m
      BY <2>3, <2>5, <3>1, <3>2, <3>4
    <3> QED
      BY <3>2, <3>3, <3>4
  <2> QED
    BY <2>7, <2>8, <2>9
<1>2. HasMax(S)
  BY <1>1 DEF FiniteSubsetsOf
<1> QED
  BY <1>2 DEF Largest

-----------------------------------------------------------------------------
(* The charts.                                                             *)

\* The points of a line.
Points(P, n) == /\ Timed(P) /\ Cardinality(P) <= n
                /\ \A p \in P : p.value \in Nat

\* A point for each of some samples.
LEMMA SeriesPoints ==
  ASSUME ConstantsAssumption, NEW S \in Fitting, NEW v \in [Times -> Nat]
  PROVE  Points({[at |-> s.at, value |-> v[s.at]] : s \in S}, Limit)
<1> DEFINE point(s) == [at |-> s.at, value |-> v[s.at]]
           P == {point(s) : s \in S}
           f == [s \in S |-> point(s)]
<1>1. \A s \in S : s.at \in Times /\ s.at \in Nat /\ v[s.at] \in Nat
  <2>1. \A s \in S : s.at \in Times
    BY DEF Fitting, Samples
  <2>2. \A t \in Times : t \in Nat /\ v[t] \in Nat
    BY DEF Times, ConstantsAssumption
  <2> QED
    BY <2>1, <2>2
<1>2. IsFiniteSet(S) /\ Cardinality(S) <= Limit /\ \A s, t \in S : s.at = t.at => s = t
  BY DEF Fitting
<1>3. f \in Surjection(S, P)
  <2>1. f \in [S -> P] /\ \A p \in P : \E s \in S : f[s] = p
    OBVIOUS
  <2> QED
    BY <2>1 DEF Surjection
<1>4. \A p \in P : p.at \in Nat /\ p.value \in Nat
  BY <1>1
<1>5. \A p, q \in P : p.at = q.at => p = q
  OBVIOUS
<1> HIDE DEF P, f
<1>6. IsFiniteSet(P) /\ Cardinality(P) <= Cardinality(S)
  BY <1>2, <1>3, FS_Surjection
<1>7. Cardinality(P) \in Nat /\ Cardinality(S) \in Nat /\ Limit \in Nat
  BY <1>2, <1>6, FS_CardinalityType DEF ConstantsAssumption
<1>8. Points(P, Limit)
  BY <1>2, <1>4, <1>5, <1>6, <1>7 DEF Points, Timed
<1> QED
  BY <1>8 DEF P

\* Some of the points of a line.
LEMMA FewerPoints ==
  ASSUME ConstantsAssumption, NEW P, Points(P, Limit), NEW Q \in SUBSET P
  PROVE  Points(Q, Limit)
<1>1. IsFiniteSet(P) /\ IsFiniteSet(Q) /\ Cardinality(Q) <= Cardinality(P) /\ Cardinality(P) <= Limit
  BY FS_Subset DEF Points, Timed
<1>2. Cardinality(P) \in Nat /\ Cardinality(Q) \in Nat /\ Limit \in Nat
  BY <1>1, FS_CardinalityType DEF ConstantsAssumption
<1> QED
  BY <1>1, <1>2 DEF Points, Timed

LEMMA AllSeries ==
  ASSUME ConstantsAssumption, NEW S \in Fitting
  PROVE  /\ Points(cpuSeries(S), Limit) /\ Points(memorySeries(S), Limit)
         /\ Points(diskSeries(S), Limit) /\ Points(containerSeries(S), Limit)
<1>1. \A t \in Times : /\ Reading[t].cpu \in Nat /\ Reading[t].used \in Nat /\ Reading[t].total \in Nat
                       /\ Reading[t].disk \in Nat /\ Reading[t].containers \in Nat
  BY DEF ConstantsAssumption
<1>2. \A s \in S : s.at \in Times
  BY DEF Fitting, Samples
<1>3. Points(cpuSeries(S), Limit)
  <2> DEFINE v == [t \in Times |-> Reading[t].cpu]
  <2>1. v \in [Times -> Nat] /\ cpuSeries(S) = {[at |-> s.at, value |-> v[s.at]] : s \in S}
    BY <1>1, <1>2 DEF cpuSeries
  <2> HIDE DEF v
  <2> QED
    BY <2>1, SeriesPoints
<1>4. Points(memorySeries(S), Limit)
  <2> DEFINE share(t) == IF Reading[t].total > 0 THEN (Reading[t].used * 100) \div Reading[t].total ELSE 0
             v == [t \in Times |-> share(t)]
  <2>1. \A t \in Times : share(t) \in Nat
    <3>1. \A u, n \in Nat : n > 0 => (u * 100) \div n \in Nat
      OBVIOUS
    <3> QED
      BY <1>1, <3>1
  <2>2. v \in [Times -> Nat]
    BY <2>1
  <2>3. memorySeries(S) = {[at |-> s.at, value |-> share(s.at)] : s \in S}
    BY DEF memorySeries
  <2> HIDE DEF share
  <2>4. memorySeries(S) = {[at |-> s.at, value |-> v[s.at]] : s \in S}
    BY <1>2, <2>3
  <2> HIDE DEF v
  <2> QED
    BY <2>2, <2>4, SeriesPoints
<1>5. Points(diskSeries(S), Limit)
  <2> DEFINE v == [t \in Times |-> Reading[t].disk]
             P == {[at |-> s.at, value |-> v[s.at]] : s \in S}
  <2>1. v \in [Times -> Nat] /\ diskSeries(S) = {p \in P : p.value > 0}
    BY <1>1, <1>2 DEF diskSeries
  <2> HIDE DEF v
  <2>2. Points(P, Limit)
    BY <2>1, SeriesPoints
  <2> HIDE DEF P
  <2> QED
    BY <2>1, <2>2, FewerPoints
<1>6. Points(containerSeries(S), Limit)
  <2> DEFINE v == [t \in Times |-> Reading[t].containers]
  <2>1. v \in [Times -> Nat] /\ containerSeries(S) = {[at |-> s.at, value |-> v[s.at]] : s \in S}
    BY <1>1, <1>2 DEF containerSeries
  <2> HIDE DEF v
  <2> QED
    BY <2>1, SeriesPoints
<1> QED
  BY <1>3, <1>4, <1>5, <1>6

\* Where a rank r of 0 .. g, and a value v of 0 .. m, are drawn.
Along(r, g) == (10 * r * 584) \div g
Above(v, m) == (10 * v * 100) \div m

LEMMA AlongRange ==
  ASSUME NEW g \in Nat \ {0}, NEW r \in Nat, r <= g
  PROVE  Along(r, g) \in Nat /\ Along(r, g) <= 5840
<1> DEFINE a == 10 * r * 584
<1>1. a \in Nat /\ a <= 5840 * g
  OBVIOUS
<1> HIDE DEF a
<1>2. a \div g \in 0 .. 5840
  BY <1>1
<1> QED
  BY <1>2 DEF Along, a

LEMMA AboveRange ==
  ASSUME NEW m \in Nat \ {0}, NEW v \in Nat, v <= m
  PROVE  Above(v, m) \in Nat /\ Above(v, m) <= 1000
<1> DEFINE a == 10 * v * 100
<1>1. a \in Nat /\ a <= 1000 * m
  OBVIOUS
<1> HIDE DEF a
<1>2. a \div m \in 0 .. 1000
  BY <1>1
<1> QED
  BY <1>2 DEF Above, a

LEMMA AlongGrows ==
  ASSUME NEW g \in Nat \ {0}, g <= 500, NEW r \in Nat, NEW s \in Nat, r < s
  PROVE  Along(r, g) < Along(s, g)
<1> DEFINE a == 10 * r * 584
           c == 10 * s * 584
<1>1. a \in Nat /\ c \in Nat /\ a + g <= c
  OBVIOUS
<1> HIDE DEF a, c
<1>2. a \div g < c \div g
  BY <1>1
<1> QED
  BY <1>2 DEF Along, a, c

\* A line keeps in its frame and runs from left to right: there are fewer
\* points than the frame has tenths of a pixel.
LEMMA ChartInFrame ==
  ASSUME ConstantsAssumption, NEW P, Points(P, Limit), NEW max \in Nat \ {0}
  PROVE  \A p, q \in Chart(P, max) :
           /\ p.x \in 10 * PAD.left .. 10 * (WIDTH - PAD.right)
           /\ p.y \in 10 * PAD.top .. 10 * (HEIGHT - PAD.bottom)
           /\ p.at < q.at => p.x < q.x
<1> DEFINE n    == Cardinality(P)
           gaps == Largest({n - 1, 1})
           yMax == Largest({max, 1} \cup {p.value : p \in P})
           X(p) == 10 * PAD.left + (10 * Rank(p, P) * (WIDTH - PAD.left - PAD.right)) \div gaps
           Y(p) == 10 * (PAD.top + (HEIGHT - PAD.top - PAD.bottom))
                     - (10 * p.value * (HEIGHT - PAD.top - PAD.bottom)) \div yMax
<1>1. Timed(P) /\ n \in Nat /\ n <= 500 /\ \A p \in P : p.value \in Nat
  BY FS_CardinalityType DEF Points, Timed, ConstantsAssumption
<1>2. Chart(P, max) = {[at |-> p.at, x |-> X(p), y |-> Y(p)] : p \in P}
  BY DEF Chart
<1>3. P # {} => gaps \in Nat \ {0} /\ gaps <= 500 /\ n - 1 <= gaps
  <2>1. P # {} => n # 0
    BY <1>1, FS_EmptySet DEF Timed
  <2>2. P # {} => {n - 1, 1} \in SUBSET Nat
    BY <1>1, <2>1
  <2>3. IsFiniteSet({n - 1, 1})
    <3>1. IsFiniteSet({n - 1}) /\ {n - 1, 1} = {n - 1} \cup {1}
      BY FS_Singleton
    <3> QED
      BY <3>1, FS_AddElement
  <2>4. P # {} => gaps \in {n - 1, 1} /\ \A y \in {n - 1, 1} : y <= gaps
    BY <2>2, <2>3, LargestFacts
  <2> HIDE DEF gaps
  <2> QED
    BY <1>1, <2>1, <2>4
<1>4. yMax \in Nat \ {0} /\ \A p \in P : p.value <= yMax
  <2> DEFINE V == {p.value : p \in P}
             f == [p \in P |-> p.value]
  <2>1. V \in SUBSET Nat
    BY <1>1
  <2>2. IsFiniteSet(V)
    <3>1. f \in [P -> V] /\ \A w \in V : \E p \in P : f[p] = w
      OBVIOUS
    <3>2. f \in Surjection(P, V)
      BY <3>1 DEF Surjection
    <3> HIDE DEF f, V
    <3> QED
      BY <1>1, <3>2, FS_Surjection DEF Timed
  <2>3. \A p \in P : p.value \in V
    OBVIOUS
  <2>4. yMax = Largest({max, 1} \cup V)
    OBVIOUS
  <2> HIDE DEF V, yMax
  <2>5. IsFiniteSet({max, 1} \cup V)
    <3>1. {max, 1} \cup V = (V \cup {1}) \cup {max}
      OBVIOUS
    <3>2. IsFiniteSet(V \cup {1})
      BY <2>2, FS_AddElement
    <3> QED
      BY <3>1, <3>2, FS_AddElement
  <2>6. {max, 1} \cup V \in SUBSET Nat /\ {max, 1} \cup V # {}
    BY <2>1
  <2>7. yMax \in {max, 1} \cup V /\ \A y \in {max, 1} \cup V : y <= yMax
    BY <2>4, <2>5, <2>6, LargestFacts
  <2> QED
    BY <2>3, <2>6, <2>7
<1> HIDE DEF gaps, yMax, n
<1>5. WIDTH - PAD.left - PAD.right = 584 /\ HEIGHT - PAD.top - PAD.bottom = 100
  BY DEF WIDTH, HEIGHT, PAD
<1>6. \A p \in P : Rank(p, P) \in Nat /\ Rank(p, P) <= gaps
  BY <1>1, <1>3, RankFacts DEF n
<1>7. \A p \in P : /\ X(p) = 440 + Along(Rank(p, P), gaps)
                   /\ Y(p) = 1120 - Above(p.value, yMax)
  BY <1>5 DEF WIDTH, HEIGHT, PAD, Along, Above
<1> HIDE DEF X, Y
<1>8. ASSUME NEW p \in P
      PROVE  /\ X(p) \in 10 * PAD.left .. 10 * (WIDTH - PAD.right)
             /\ Y(p) \in 10 * PAD.top .. 10 * (HEIGHT - PAD.bottom)
  <2>1. /\ Rank(p, P) \in Nat /\ Rank(p, P) <= gaps /\ gaps \in Nat \ {0}
        /\ p.value \in Nat /\ p.value <= yMax /\ yMax \in Nat \ {0}
    BY <1>1, <1>3, <1>4, <1>6
  <2>2. /\ Along(Rank(p, P), gaps) \in Nat /\ Along(Rank(p, P), gaps) <= 5840
        /\ Above(p.value, yMax) \in Nat /\ Above(p.value, yMax) <= 1000
    BY <2>1, AlongRange, AboveRange
  <2>3. /\ X(p) \in Nat /\ 440 <= X(p) /\ X(p) <= 6280
        /\ Y(p) \in Nat /\ 120 <= Y(p) /\ Y(p) <= 1120
    BY <1>7, <2>2
  <2> QED
    BY <2>3 DEF WIDTH, HEIGHT, PAD
<1>9. ASSUME NEW p \in P, NEW q \in P, p.at < q.at
      PROVE  X(p) < X(q)
  <2>1. /\ Rank(p, P) < Rank(q, P) /\ gaps \in Nat \ {0} /\ gaps <= 500
        /\ Rank(p, P) \in Nat /\ Rank(q, P) \in Nat /\ Rank(p, P) <= gaps /\ Rank(q, P) <= gaps
    BY <1>1, <1>3, <1>6, <1>9, RankFacts
  <2>2. /\ Along(Rank(p, P), gaps) < Along(Rank(q, P), gaps)
        /\ Along(Rank(p, P), gaps) \in Nat /\ Along(Rank(q, P), gaps) \in Nat
    BY <2>1, AlongGrows, AlongRange
  <2> QED
    BY <1>7, <2>2
<1> QED
  BY <1>2, <1>8, <1>9

-----------------------------------------------------------------------------
(* What makes a render throw.                                              *)

\* A row has the lists of its reading, but in a rollup none.
RowsOf(k, S) == \A s \in S : s.lists = IF Rollup(k) THEN {} ELSE Reading[s.at].lists
RowLoads(f)  == \A l \in Loads : f[l] # Idle /\ f[l].phase = "answered" => RowsOf(f[l].key, f[l].got)

AllCancelled(f) == \A l \in Loads : f[l] # Idle => f[l].cancelled

RowsShown     == RowsOf(samples.key, samples.set)
LiveEmpty     == viewMode = "live" => samples.set = {} /\ AllCancelled(loads)
NoRollupDrawn == ~crashed /\ view # "containers" /\ samples.set # {} => ~Rollup(samples.key)

CrashInv == RowLoads(loads) /\ RowsShown /\ LiveEmpty /\ NoRollupDrawn /\ CrashExplained

LEMMA HeldRows ==
  ASSUME NEW k
  PROVE  RowsOf(k, Held(k))
<1> SUFFICES ASSUME NEW s \in Held(k)
             PROVE  s.lists = IF Rollup(k) THEN {} ELSE Reading[s.at].lists
  BY DEF RowsOf
<1>1. PICK t : s = Row(k, t)
  BY DEF Held
<1> DEFINE lists == IF Rollup(k) THEN {} ELSE Reading[t].lists
<1>2. s = [of |-> k.of, at |-> t, lists |-> lists]
  BY <1>1 DEF Row
<1>3. s.at = t /\ s.lists = lists
  BY <1>2
<1> QED
  BY <1>3

LEMMA CancelledRows ==
  ASSUME NEW f \in [Loads -> LoadType], RowLoads(f)
  PROVE  RowLoads(Cancelled(f)) /\ AllCancelled(Cancelled(f))
<1>1. ASSUME NEW l \in Loads, Cancelled(f)[l] # Idle, Cancelled(f)[l].phase = "answered"
      PROVE  /\ f[l] # Idle /\ f[l].phase = "answered"
             /\ Cancelled(f)[l].got = f[l].got /\ Cancelled(f)[l].key = f[l].key
  <2>1. f[l] # Idle /\ Cancelled(f)[l] = [f[l] EXCEPT !.cancelled = TRUE]
    BY <1>1 DEF Cancelled
  <2>2. CASE f[l] \in SentLoad
    BY <1>1, <2>1, <2>2 DEF SentLoad
  <2>3. CASE f[l] \in AnsweredLoad
    BY <2>1, <2>3 DEF AnsweredLoad
  <2> QED
    BY <2>1, <2>2, <2>3, LoadKinds
<1>2. RowLoads(Cancelled(f))
  BY <1>1 DEF RowLoads
<1> QED
  BY <1>2, CancelledFacts DEF AllCancelled

LEMMA SendRows ==
  ASSUME NEW f \in [Loads -> LoadType], RowLoads(f), NEW k, NEW g \in Send(f, k)
  PROVE  RowLoads(g)
<1> DEFINE x == [phase |-> "sent", key |-> k, cancelled |-> FALSE]
<1>1. x.phase # "answered"
  OBVIOUS
<1>2. PICK l \in Loads : g = [f EXCEPT ![l] = x]
  BY DEF Send
<1> HIDE DEF x
<1>3. \A i \in Loads : g[i] = IF i = l THEN x ELSE f[i]
  BY <1>2
<1> QED
  BY <1>1, <1>3 DEF RowLoads

LEMMA EffectRows ==
  ASSUME loads \in [Loads -> LoadType], RowLoads(loads), NEW m, NEW a, NEW r, NEW v,
         Effect(m, a, r, v, loads)
  PROVE  /\ RowLoads(loads')
         /\ v = "history" => samples' = samples
         /\ v # "history" => samples' = Nothing /\ AllCancelled(loads')
<1>1. /\ RowLoads(Cancelled(loads)) /\ AllCancelled(Cancelled(loads))
      /\ Cancelled(loads) \in [Loads -> LoadType]
  BY CancelledRows, CancelledFacts
<1> QED
  BY <1>1, SendRows DEF Effect

\* A page that throws with no panel throws with one.
LEMMA PanelThrows ==
  ASSUME NEW v, NEW m, NEW open \in BOOLEAN, NEW lists, ~Draws(v, m, open, lists)
  PROVE  ~Draws(v, m, TRUE, lists)
<1>1. Walked(v, m, open) \subseteq Walked(v, m, TRUE)
  <2>1. CASE open
    BY <2>1
  <2>2. CASE ~open
    BY <2>2 DEF Walked
  <2> QED
    BY <2>1, <2>2
<1> QED
  BY <1>1 DEF Draws

\* A render that throws draws a row without a list it walks: of the reading,
\* or of a rollup on a page that walks one.
LEMMA ThrownBy ==
  ASSUME RowsShown', Renders, crashed'
  PROVE  /\ viewMode' = "history"
         /\ \/ \E s \in samples'.set : ~Draws(view', "history", TRUE, Reading[s.at].lists)
            \/ view' # "containers" /\ samples'.set # {} /\ Rollup(samples'.key)
<1>1. viewMode' = "history" /\ \E open \in BOOLEAN, s \in Drawn : ~Draws(view', "history", open, s.lists)
  BY DEF Renders
<1>2. PICK s \in Drawn : ~Draws(view', "history", TRUE, s.lists)
  BY <1>1, PanelThrows
<1>3. s \in samples'.set
  BY DEF Drawn, Shown
<1>4. s.lists = IF Rollup(samples'.key) THEN {} ELSE Reading[s.at].lists
  <2>1. RowsOf(samples'.key, samples'.set)
    BY DEF RowsShown, RowsOf, Rollup, Resolution
  <2> QED
    BY <1>3, <2>1 DEF RowsOf
<1>5. Draws("containers", "history", TRUE, {})
  BY DEF Draws, Walked
<1> QED
  BY <1>1, <1>2, <1>3, <1>4, <1>5

\* A page that walks a list cannot draw a rollup.
LEMMA RollupThrows ==
  ASSUME NEW v \in Views, v # "containers", NEW open \in BOOLEAN
  PROVE  ~Draws(v, "history", open, {})
<1>1. Walked(v, "history", open) # {}
  BY DEF Walked, Views
<1> QED
  BY <1>1 DEF Draws

\* A render of the samples that are there, or of none.
LEMMA RenderCrash ==
  ASSUME CrashInv, ~crashed, view' = view, RowLoads(loads'), LiveEmpty',
         samples' = samples \/ samples' = Nothing, Renders
  PROVE  CrashInv'
<1>1. RowsShown'
  <2>1. CASE samples' = samples
    BY <2>1 DEF CrashInv, RowsShown, RowsOf, Rollup, Resolution
  <2>2. CASE samples' = Nothing
    BY <2>2, NothingShown DEF RowsShown, RowsOf
  <2> QED
    BY <2>1, <2>2
<1>2. view' # "containers" /\ samples'.set # {} => ~Rollup(samples'.key)
  <2>1. samples'.set # {} => samples' = samples
    BY NothingShown
  <2> QED
    BY <2>1 DEF CrashInv, NoRollupDrawn
<1>3. CrashExplained'
  BY <1>1, <1>2, ThrownBy DEF CrashExplained
<1>4. NoRollupDrawn'
  BY <1>2 DEF NoRollupDrawn, Rollup, Resolution
<1> QED
  BY <1>1, <1>3, <1>4 DEF CrashInv, RowLoads

\* A step of the effect shows nothing new.
LEMMA EffectCrash ==
  ASSUME IInv, CrashInv, ~crashed, view' = view, viewMode' \in {"live", "history"},
         Effect(meta', agent', range', viewMode', loads), Renders
  PROVE  CrashInv'
<1>1. /\ RowLoads(loads')
      /\ viewMode' = "history" => samples' = samples
      /\ viewMode' # "history" => samples' = Nothing /\ AllCancelled(loads')
  BY EffectRows DEF IInv, Typed, CrashInv
<1>2. LiveEmpty'
  BY <1>1, NothingShown DEF LiveEmpty, AllCancelled
<1> QED
  BY <1>1, <1>2, RenderCrash

\* A step that neither renders nor answers.
LEMMA QuietCrash ==
  ASSUME CrashInv, RowLoads(loads'), LiveEmpty',
         UNCHANGED <<view, samples, crashed>>,
         UNCHANGED <<mode, kept, agent, meta, viewMode, range>> \/ ~crashed
  PROVE  CrashInv'
<1>1. RowsShown' /\ NoRollupDrawn'
  BY DEF CrashInv, RowsShown, RowsOf, NoRollupDrawn, Rollup, Resolution
<1>2. CrashExplained'
  BY DEF CrashInv, CrashExplained, Resolution
<1> QED
  BY <1>1, <1>2 DEF CrashInv, RowLoads

\* A lost page stays explained: what was collected is kept.
LEMMA CollectCrash ==
  ASSUME ConstantsAssumption, IInv, CrashInv, NEW a \in Agents \cup {Local}, Collect(a)
  PROVE  CrashInv'
<1>1. UNCHANGED <<mode, agent, view, meta, viewMode, range, samples, loads, crashed>>
  BY DEF Collect, routeVars
<1>2. RowsShown' /\ NoRollupDrawn' /\ LiveEmpty' /\ RowLoads(loads')
  BY <1>1 DEF CrashInv, RowsShown, RowsOf, NoRollupDrawn, LiveEmpty, AllCancelled, Rollup, Resolution
<1>3. kept[agent] \in Nat /\ kept'[agent] \in Nat /\ kept[agent] <= kept'[agent]
  BY <1>1 DEF Collect, IInv, Typed, ConstantsAssumption
<1>4. \A t \in 1 .. kept[agent] : t \in 1 .. kept'[agent]
  BY <1>3
<1>5. CrashExplained'
  BY <1>1, <1>4 DEF CrashInv, CrashExplained, Resolution
<1> QED
  BY <1>2, <1>5 DEF CrashInv, RowLoads

LEMMA LiveCrash ==
  ASSUME IInv, CrashInv, NEW t \in Times, LiveShows(t)
  PROVE  CrashInv'
<1>1. /\ UNCHANGED <<mode, kept, agent, view, meta, viewMode, range, samples, loads>>
      /\ ~crashed /\ viewMode = "live" /\ t \in 1 .. kept[agent]
      /\ crashed' => ~Draws(view, "live", TRUE, Reading[t].lists)
  BY PanelThrows DEF LiveShows, serverVars, routeVars
<1>2. RowsShown' /\ NoRollupDrawn' /\ LiveEmpty' /\ RowLoads(loads')
  BY <1>1 DEF CrashInv, RowsShown, RowsOf, NoRollupDrawn, LiveEmpty, AllCancelled, Rollup, Resolution
<1>3. CrashExplained'
  BY <1>1 DEF CrashExplained
<1> QED
  BY <1>2, <1>3 DEF CrashInv, RowLoads

LEMMA ServeCrash ==
  ASSUME IInv, CrashInv, NEW l \in Loads, Serve(l)
  PROVE  CrashInv'
<1> DEFINE k == loads[l].key
           x == [phase |-> "answered", key |-> k, cancelled |-> loads[l].cancelled, got |-> Held(k)]
<1>1. /\ loads' = [loads EXCEPT ![l] = x] /\ loads[l].phase = "sent"
      /\ UNCHANGED <<mode, kept, agent, meta, viewMode, range, view, samples, crashed>>
  BY DEF Serve, serverVars, routeVars
<1>2. RowsOf(k, Held(k))
  BY HeldRows
<1>3. x.key = k /\ x.got = Held(k) /\ x.cancelled = loads[l].cancelled
  OBVIOUS
<1>4. loads[l] # Idle
  BY <1>1 DEF Idle
<1> HIDE DEF x, k
<1>5. \A i \in Loads : loads'[i] = IF i = l THEN x ELSE loads[i]
  BY <1>1 DEF IInv, Typed
<1>6. RowLoads(loads')
  BY <1>2, <1>3, <1>5 DEF RowLoads, CrashInv
<1>7. LiveEmpty'
  BY <1>1, <1>3, <1>4, <1>5 DEF LiveEmpty, AllCancelled, CrashInv
<1> QED
  BY <1>1, <1>6, <1>7, QuietCrash

\* What is shown anew is an answer to the current selection: rows of a rollup
\* are those of a hub's agent, in a range that the hub answers from them, and
\* a page that walks a list draws one of them.
LEMMA FinishCrash ==
  ASSUME ConstantsAssumption, IInv, ViewTyped, CrashInv, NEW l \in Loads, Finish(l)
  PROVE  CrashInv'
<1>1. /\ loads' = [loads EXCEPT ![l] = Idle] /\ Renders
      /\ UNCHANGED <<mode, meta, viewMode, range, view, agent>>
  BY DEF Finish, serverVars, routeVars
<1>2. \A i \in Loads : loads'[i] = IF i = l THEN Idle ELSE loads[i]
  BY <1>1 DEF IInv, Typed
<1>3. loads[l] # Idle /\ ~crashed
  BY DEF Finish, Then, Catch, Idle
<1>4. RowLoads(loads')
  BY <1>2 DEF RowLoads, CrashInv
<1>5. \/ samples' = samples
      \/ samples' = Nothing
      \/ /\ ~loads[l].cancelled /\ loads[l].phase = "answered"
         /\ samples' = [key |-> loads[l].key, set |-> loads[l].got]
  BY DEF Finish, Then, Catch
<1>6. LiveEmpty'
  BY <1>1, <1>2, <1>3, <1>5, NothingShown DEF LiveEmpty, AllCancelled, CrashInv
<1>7. CASE samples' = samples \/ samples' = Nothing
  BY <1>1, <1>3, <1>4, <1>6, <1>7, RenderCrash
<1>8. CASE /\ ~loads[l].cancelled /\ loads[l].phase = "answered"
           /\ samples' = [key |-> loads[l].key, set |-> loads[l].got]
  <2>1. samples'.key = loads[l].key /\ samples'.set = loads[l].got
    BY <1>8
  <2>2. RowsOf(samples'.key, samples'.set)
    BY <1>3, <1>8, <2>1 DEF CrashInv, RowLoads
  <2>3. RowsShown'
    BY <2>2 DEF RowsShown, RowsOf, Rollup, Resolution
  <2>4. samples'.key = Current
    BY <1>3, <1>8, <2>1 DEF IInv, LoadsOwn
  <2>5. Rollup(samples'.key) => mode = "hub" /\ meta = "known" /\ Resolution(range) = "hourly"
    BY <2>4 DEF Current, Key, Rollup
  <2>6. CrashExplained'
    BY <1>1, <2>3, <2>5, ThrownBy DEF CrashExplained, Resolution
  <2>7. ASSUME view # "containers", samples'.set # {}, Rollup(samples'.key) PROVE crashed'
    <3>1. viewMode' = "history"
      BY <1>1, <1>6, <2>7 DEF LiveEmpty, ViewTyped
    <3>2. samples'.set \in Fitting /\ sampleIndex \in Nat
      <4>1. loads[l] \in AnsweredLoad
        BY <1>3, <1>8, LoadKinds DEF IInv, Typed
      <4> QED
        BY <2>1, <4>1 DEF AnsweredLoad, ViewTyped, ConstantsAssumption
    <3>3. PICK s \in Drawn : TRUE
      <4>1. Shown(sampleIndex, samples'.set) # {}
        BY <2>7, <3>2, ShownOne
      <4> QED
        BY <2>7, <4>1 DEF Drawn
    <3>4. s \in samples'.set
      BY DEF Drawn, Shown
    <3>5. s.lists = {}
      BY <2>2, <2>7, <3>4 DEF RowsOf
    <3>6. \A open \in BOOLEAN : ~Draws(view', "history", open, s.lists)
      BY <1>1, <2>7, <3>5, RollupThrows DEF ViewTyped
    <3> QED
      BY <1>1, <3>1, <3>3, <3>6 DEF Renders
  <2>8. NoRollupDrawn'
    BY <1>1, <2>7 DEF NoRollupDrawn, Rollup, Resolution
  <2> QED
    BY <1>4, <1>6, <2>3, <2>6, <2>8 DEF CrashInv, RowLoads
<1> QED
  BY <1>5, <1>7, <1>8

LEMMA UserCrash ==
  ASSUME IInv, ViewTyped, CrashInv, User
  PROVE  CrashInv'
<1>1. viewMode \in {"live", "history"} /\ loads \in [Loads -> LoadType]
  BY DEF ViewTyped, IInv, Typed
<1>2. ASSUME Toggle PROVE CrashInv'
  BY <1>1, <1>2, EffectCrash DEF Toggle, Click, routeVars
<1>3. ASSUME NEW r \in Ranges, PickRange(r) PROVE CrashInv'
  BY <1>1, <1>3, EffectCrash DEF PickRange, Click, routeVars
<1>4. ASSUME NEW b \in Agents, SwitchAgent(b) PROVE CrashInv'
  BY <1>1, <1>4, EffectCrash DEF SwitchAgent, Click
<1>5. ASSUME NEW v \in Views, OpenPage(v) PROVE CrashInv'
  <2>1. ~crashed' /\ samples' = Nothing /\ viewMode' = viewMode
    BY <1>5 DEF OpenPage, Click
  <2>2. /\ RowLoads(Cancelled(loads)) /\ AllCancelled(Cancelled(loads))
        /\ Cancelled(loads) \in [Loads -> LoadType]
    BY <1>1, CancelledRows, CancelledFacts DEF CrashInv
  <2>3. RowLoads(loads') /\ (viewMode = "live" => AllCancelled(loads'))
    BY <1>5, <2>2, SendRows DEF OpenPage
  <2>4. RowLoads(loads)' /\ LiveEmpty' /\ RowsShown'
    BY <2>1, <2>3, NothingShown DEF RowLoads, LiveEmpty, AllCancelled, RowsShown, RowsOf
  <2> QED
    BY <2>1, <2>4, NothingShown DEF CrashInv, NoRollupDrawn, CrashExplained
<1>6. ASSUME NEW i \in 0 .. MaxSamples, Scrub(i) PROVE CrashInv'
  <2>1. UNCHANGED <<mode, meta, viewMode, range, view, samples, loads>> /\ ~crashed /\ Renders
    BY <1>6 DEF Scrub, Click, serverVars, routeVars
  <2>2. RowLoads(loads') /\ LiveEmpty'
    BY <2>1 DEF CrashInv, LiveEmpty, AllCancelled
  <2> QED
    BY <2>1, <2>2, RenderCrash
<1>7. ASSUME Reload PROVE CrashInv'
  <2>1. ~crashed' /\ samples' = Nothing /\ \A l \in Loads : loads'[l] = Idle
    BY <1>7 DEF Reload
  <2>2. RowLoads(loads)' /\ LiveEmpty' /\ RowsShown'
    BY <2>1, NothingShown DEF RowLoads, LiveEmpty, AllCancelled, RowsShown, RowsOf
  <2> QED
    BY <2>1, <2>2, NothingShown DEF CrashInv, NoRollupDrawn, CrashExplained
<1>8. ASSUME SelectRow PROVE CrashInv'
  <2>1. UNCHANGED <<mode, meta, viewMode, range, view, samples, loads>> /\ ~crashed /\ Renders
    BY <1>8 DEF SelectRow, serverVars, routeVars
  <2>2. RowLoads(loads') /\ LiveEmpty'
    BY <2>1 DEF CrashInv, LiveEmpty, AllCancelled
  <2> QED
    BY <2>1, <2>2, RenderCrash
<1> QED
  BY <1>2, <1>3, <1>4, <1>5, <1>6, <1>7, <1>8 DEF User

LEMMA NextCrash ==
  ASSUME ConstantsAssumption, IInv, ViewTyped, CrashInv, [Next]_vars
  PROVE  CrashInv'
<1>1. ASSUME UNCHANGED <<view, samples, crashed, loads, viewMode>>,
             UNCHANGED <<mode, kept, agent, meta, range>> \/ ~crashed
      PROVE  CrashInv'
  BY <1>1, QuietCrash DEF CrashInv, LiveEmpty, AllCancelled
<1>2. ASSUME NEW a \in Agents \cup {Local}, Collect(a) PROVE CrashInv'
  BY <1>2, CollectCrash
<1>3. ASSUME MetaFails PROVE CrashInv'
  BY <1>1, <1>3 DEF MetaFails, Asking, routeVars
<1>4. ASSUME MetaArrives PROVE CrashInv'
  <2>1. /\ ~crashed /\ viewMode' = viewMode /\ view' = view /\ Renders
        /\ viewMode \in {"live", "history"}
    BY <1>4 DEF MetaArrives, Asking, routeVars, ViewTyped
  <2>2. CASE mode = "hub"
    <3>1. Effect(meta', agent', range', viewMode', loads)
      BY <1>4, <2>2 DEF MetaArrives, routeVars
    <3> QED
      BY <2>1, <3>1, EffectCrash
  <2>3. CASE mode # "hub"
    <3>1. samples' = samples /\ loads' = loads
      BY <1>4, <2>3 DEF MetaArrives
    <3>2. RowLoads(loads') /\ LiveEmpty'
      BY <2>1, <3>1 DEF CrashInv, LiveEmpty, AllCancelled
    <3> QED
      BY <2>1, <3>1, <3>2, RenderCrash
  <2> QED
    BY <2>2, <2>3
<1>5. ASSUME Poll PROVE CrashInv'
  <2>1. /\ ~crashed /\ viewMode = "history" /\ loads' \in Send(loads, Current)
        /\ UNCHANGED <<view, samples, crashed, viewMode>>
    BY <1>5 DEF Poll, routeVars
  <2>2. RowLoads(loads') /\ LiveEmpty'
    BY <2>1, SendRows DEF CrashInv, LiveEmpty, IInv, Typed
  <2> QED
    BY <2>1, <2>2, QuietCrash
<1>6. ASSUME UNCHANGED vars PROVE CrashInv'
  BY <1>1, <1>6 DEF vars, serverVars, routeVars
<1>7. ASSUME NEW t \in Times, LiveShows(t) PROVE CrashInv'
  BY <1>7, LiveCrash
<1> QED
  BY <1>2, <1>3, <1>4, <1>5, <1>6, <1>7, UserCrash, ServeCrash, FinishCrash DEF Next

-----------------------------------------------------------------------------
(* The theorems.                                                           *)

\* The inductive invariant: every load that the clean-up of the effect has
\* not cancelled is one for the current selection.
THEOREM Invariance == Spec => []IInv
<1>1. Init => IInv
  BY InitIInv, ConstantsAssumption
<1>2. IInv /\ [Next]_vars => IInv'
  BY NextIInv, ConstantsAssumption
<1> QED
  BY <1>1, <1>2, PTL DEF Spec

\* A late answer of useHistorySamples to an earlier agent or time range
\* never comes to stay on the page.
THEOREM ShownAreOwn == Spec => []SamplesOwn
<1>1. IInv => SamplesOwn
  BY DEF IInv
<1> QED
  BY <1>1, Invariance, PTL

LEMMA ViewInvariance == Spec => [](IInv /\ ViewTyped)
<1>1. Init => ViewTyped
  <2> SUFFICES ASSUME Init PROVE ViewTyped
    OBVIOUS
  <2>1. 0 \in 0 .. MaxSamples /\ 0 \in 0 .. MaxMoves /\ 0 \in 0 .. MaxFaults
    BY ConstantsAssumption DEF ConstantsAssumption
  <2>2. sampleIndex \in 0 .. MaxSamples /\ moves \in 0 .. MaxMoves /\ faults \in 0 .. MaxFaults
    BY <2>1 DEF Init
  <2>3. samples \in [key : Keys, set : Fitting]
    BY NothingType, ConstantsAssumption DEF Init
  <2>4. /\ mode \in {"hub", "agent"} /\ view \in Views
        /\ meta \in {"unknown", "known", "failed"} /\ viewMode \in {"live", "history"}
        /\ loading \in BOOLEAN /\ error \in BOOLEAN /\ crashed \in BOOLEAN
    BY DEF Init, Views
  <2> QED
    BY <2>2, <2>3, <2>4 DEF ViewTyped
<1>2. IInv /\ ViewTyped /\ [Next]_vars => ViewTyped'
  BY ViewTypes, ConstantsAssumption
<1> QED
  BY <1>1, <1>2, Invariance, PTL DEF Spec

\* Every variable has its type, and no page holds more samples than the
\* limit of the request.
THEOREM TypeCorrect == Spec => []TypeOK
<1>1. ASSUME IInv, NEW l \in Loads, loads[l] # Idle
      PROVE  /\ loads[l].phase \in {"sent", "answered"}
             /\ loads[l].key \in Keys /\ loads[l].cancelled \in BOOLEAN
             /\ loads[l].phase = "answered" => loads[l].got \subseteq Samples
  <2>1. loads[l] \in SentLoad \/ loads[l] \in AnsweredLoad
    BY <1>1 DEF IInv, Typed, LoadType
  <2> QED
    BY <2>1 DEF SentLoad, AnsweredLoad, Fitting
<1>2. ASSUME ViewTyped
      PROVE  samples.key \in Keys /\ samples.set \subseteq Samples /\ Cardinality(samples.set) <= Limit
  BY <1>2 DEF ViewTyped, Fitting
<1>3. IInv /\ ViewTyped => TypeOK
  BY <1>1, <1>2 DEF IInv, Typed, ViewTyped, TypeOK
<1> QED
  BY <1>3, ViewInvariance, PTL

\* useSelectedHistorySnapshot puts the scrubber on one sample, whatever the
\* samples became under it, and TrendChart draws every line from left to
\* right inside its frame, whatever the readings.
THEOREM LinesInFrame == Spec => []InFrame
<1>1. ASSUME ViewTyped
      PROVE  InFrame
  <2> DEFINE S == samples.set
  <2>1. S \in Fitting /\ sampleIndex \in Nat
    BY <1>1, ConstantsAssumption DEF ViewTyped, ConstantsAssumption
  <2>2. ASSUME S # {} PROVE Cardinality(Selected) = 1
    <3>1. Cardinality(Shown(sampleIndex, S)) = 1
      BY <2>1, <2>2, ShownOne, ConstantsAssumption
    <3> QED
      BY <3>1 DEF Selected
  <2>3. ASSUME NEW C \in Charts(S), NEW p \in C, NEW q \in C
        PROVE  /\ p.x \in 10 * PAD.left .. 10 * (WIDTH - PAD.right)
               /\ p.y \in 10 * PAD.top .. 10 * (HEIGHT - PAD.bottom)
               /\ p.at < q.at => p.x < q.x
    <3> HIDE DEF S
    <3>1. /\ Points(cpuSeries(S), Limit) /\ Points(memorySeries(S), Limit)
          /\ Points(diskSeries(S), Limit) /\ Points(containerSeries(S), Limit)
      BY <2>1, AllSeries, ConstantsAssumption
    <3>2. PICK P, max : Points(P, Limit) /\ max \in {100, 1} /\ C = Chart(P, max)
      BY <3>1 DEF Charts
    <3> QED
      BY <3>2, ChartInFrame, ConstantsAssumption
  <2> QED
    BY <2>2, <2>3 DEF InFrame
<1> QED
  BY <1>1, ViewInvariance, PTL

\* Whatever is clicked and in whatever order snapshots, samples and failures
\* come: a page is lost only to a null list that it or the panel of a row
\* walks, in a reading it draws or in the hourly rows of a hub; a single server that reads every
\* list never loses a page, and the containers page draws the rows of a hub.
\* DashboardPage, historySeries.ts, the split views, ContainersPage.
THEOREM LossExplained == Spec => []CrashExplained
<1>1. Init => CrashInv
  BY NothingShown DEF Init, CrashInv, RowLoads, AllCancelled, LiveEmpty, RowsShown, RowsOf,
                      NoRollupDrawn, CrashExplained
<1>2. IInv /\ ViewTyped /\ CrashInv /\ [Next]_vars => CrashInv'
  BY NextCrash, ConstantsAssumption
<1>3. CrashInv => CrashExplained
  BY DEF CrashInv
<1> QED
  BY <1>1, <1>2, <1>3, ViewInvariance, PTL DEF Spec
==============================================================================
