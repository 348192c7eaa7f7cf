----------------------------- MODULE BrowserProofs -----------------------------
(***************************************************************************)
(* Safety theorems of the pages of the browser: of Workbench, for any      *)
(* payloads, searches, ids, insights and bounds, and of DrillDown for any  *)
(* agents, requests under way and bounds.                                  *)
(*                                                                         *)
(* Workbench.  BrowserInv says of the hook of a container's metrics that   *)
(* it has asked for the container shown at the place (HookFits), of the    *)
(* hooks that know that the page is one of a hub's agent that they are     *)
(* mounted there, and of the page a related link led to that it is as the  *)
(* link left it.  A render changes the place and, in the same step, hooks  *)
(* and list: one lemma about Show serves every step that renders.  The     *)
(* properties of the diagnoses and of the tree are about what the pages    *)
(* compute; the folds they compute with (Array.filter, sort and the Map of *)
(* dedupeInsights) are unfolded position by position, with the least       *)
(* counterexample where a text would use induction.                        *)
(*                                                                         *)
(* DrillDown.  OfflineShownInHistory is inductive as it stands: a step     *)
(* either shows the status it showed before, and leaves the mode alone, or *)
(* runs the effect of the layout; a mode that the user picks is on record. *)
(* TypeOK is inductive too; what it rests on is that a hook that is not    *)
(* mounted asks for nothing, so that no request is without its agent.      *)
(***************************************************************************)
EXTENDS Workbench, DrillDown, WellFoundedInduction, FiniteSetTheorems, TLAPS

-----------------------------------------------------------------------------
(* Sequences, position by position, and the functions that folds are of.   *)

\* What holds of 0 and of the successor of what it holds of, holds of all.
LEMMA Counting ==
  ASSUME NEW S \in SUBSET Nat, 0 \in S, \A n \in S : n + 1 \in S
  PROVE  S = Nat
<1> DEFINE Less == {ss \in Nat \X Nat : ss[1] < ss[2]}
           rest == Nat \ S
<1>1. IsWellFoundedOn(Less, Nat)
  BY NatLessThanWellFounded DEF OpToRel
<1>2. \A x, y \in Nat : y < x => <<y, x>> \in Less
  OBVIOUS
<1> HIDE DEF Less
<1>3. ASSUME rest # {} PROVE FALSE
  <2>0. rest \in SUBSET Nat
    OBVIOUS
  <2>1. PICK x \in rest : \A y \in rest : ~(<<y, x>> \in Less)
    BY <1>1, <1>3, <2>0, WFMin
  <2>2. x \in Nat /\ x \notin S /\ x # 0
    OBVIOUS
  <2>3. x - 1 \in Nat /\ x - 1 < x /\ (x - 1) + 1 = x
    BY <2>2
  <2>4. x - 1 \in S
    BY <1>2, <2>1, <2>2, <2>3
  <2> QED
    BY <2>2, <2>3, <2>4
<1> QED
  BY <1>3

\* A set of positions has a last one.
LEMMA LastPosition ==
  ASSUME NEW n \in Nat, NEW S \in SUBSET (1 .. n), S # {}
  PROVE  Max(S) \in S /\ \A y \in S : Max(S) >= y
<1> DEFINE Good(m) == \A T \in SUBSET (1 .. m) : T # {} => \E x \in T : \A y \in T : x >= y
           N == {m \in Nat : Good(m)}
<1>1. 0 \in N
  <2>1. 1 .. 0 = {}
    OBVIOUS
  <2> QED
    BY <2>1
<1>2. ASSUME NEW m \in N PROVE m + 1 \in N
  <2> SUFFICES ASSUME NEW T \in SUBSET (1 .. m + 1), T # {}
               PROVE  \E x \in T : \A y \in T : x >= y
    OBVIOUS
  <2>1. CASE m + 1 \in T
    BY <2>1
  <2>2. CASE m + 1 \notin T
    <3>1. T \in SUBSET (1 .. m)
      BY <2>2
    <3> QED
      BY <3>1
  <2> QED
    BY <2>1, <2>2
<1>3. N = Nat
  <2> HIDE DEF Good
  <2> QED
    BY <1>1, <1>2, Counting
<1>4. \E x \in S : \A y \in S : x >= y
  BY <1>3
<1> QED
  BY <1>4 DEF Max

\* What MapThenFoldSet recurses on: the folds of the positions of a sequence,
\* the last of them first.
StepFcns(T, R)  == [T \X R -> T]
FoldFcns(s, T)  == [SUBSET (1 .. Len(s)) -> T]

FoldSteps(it, base, g, s) ==
    it = [S \in SUBSET (1 .. Len(s)) |->
             IF S = {} THEN base ELSE g[<<it[S \ {Max(S)}], s[Max(S)]>>]]

\* The recursive function that a fold is taken of exists, for every sequence.
LEMMA FoldExists ==
  ASSUME NEW R, NEW T, NEW base \in T, NEW g \in StepFcns(T, R), NEW s \in Seq(R)
  PROVE  \E it \in FoldFcns(s, T) : FoldSteps(it, base, g, s)
<1> USE DEF StepFcns
<1> DEFINE Steps(n, it) == it = [S \in SUBSET (1 .. n) |->
                    IF S = {} THEN base ELSE g[<<it[S \ {Max(S)}], s[Max(S)]>>]]
           Good(n) == n <= Len(s) => \E it \in [SUBSET (1 .. n) -> T] : Steps(n, it)
           N == {n \in Nat : Good(n)}
<1>1. 0 \in N
  <2> DEFINE it == [S \in {{}} |-> base]
  <2>1. SUBSET (1 .. 0) = {{}}
    OBVIOUS
  <2>2. it \in [SUBSET (1 .. 0) -> T]
    BY <2>1
  <2>3. Steps(0, it)
    BY <2>1
  <2> QED
    BY <2>2, <2>3
<1>2. ASSUME NEW n \in N PROVE n + 1 \in N
  <2> HIDE DEF Steps
  <2>0. n + 1 \in Nat
    OBVIOUS
  <2> SUFFICES ASSUME n + 1 <= Len(s)
               PROVE  \E it \in [SUBSET (1 .. n + 1) -> T] : Steps(n + 1, it)
    BY <2>0
  <2> USE DEF Steps
  <2>1. n \in Nat /\ n <= Len(s) /\ n + 1 \in 1 .. Len(s)
    OBVIOUS
  <2>2. PICK f \in [SUBSET (1 .. n) -> T] : Steps(n, f)
    BY <2>1
  <2> DEFINE it == [S \in SUBSET (1 .. n + 1) |->
                      IF n + 1 \in S THEN g[<<f[S \ {n + 1}], s[n + 1]>>] ELSE f[S]]
  <2>3. ASSUME NEW S \in SUBSET (1 .. n + 1)
        PROVE  /\ it[S] \in T
               /\ it[S] = IF S = {} THEN base ELSE g[<<it[S \ {Max(S)}], s[Max(S)]>>]
    <3>1. CASE n + 1 \in S
      <4>1. S \ {n + 1} \in SUBSET (1 .. n) /\ S \ {n + 1} \in SUBSET (1 .. n + 1) /\ n + 1 \notin S \ {n + 1}
        BY <2>1
      <4>2. Max(S) = n + 1
        <5> HIDE DEF it, Steps
        <5>1. n + 1 \in Nat /\ S # {}
          BY <2>1, <3>1
        <5>2. Max(S) \in S /\ \A y \in S : Max(S) >= y
          BY <5>1, LastPosition
        <5>3. Max(S) \in 1 .. n + 1 /\ Max(S) >= n + 1
          BY <3>1, <5>2
        <5> QED
          BY <2>1, <5>3
      <4>3. it[S \ {n + 1}] = f[S \ {n + 1}] /\ f[S \ {n + 1}] \in T
        BY <4>1
      <4>4. s[n + 1] \in R
        BY <2>1
      <4>5. it[S] = g[<<f[S \ {n + 1}], s[n + 1]>>]
        BY <3>1
      <4>6. g[<<f[S \ {n + 1}], s[n + 1]>>] \in T
        BY <4>3, <4>4
      <4> QED
        BY <3>1, <4>2, <4>3, <4>5, <4>6
    <3>2. CASE n + 1 \notin S
      <4>1. S \in SUBSET (1 .. n) /\ it[S] = f[S]
        BY <2>1, <3>2
      <4>2. CASE S = {}
        BY <2>2, <4>1, <4>2
      <4>3. CASE S # {}
        <5>1. Max(S) \in S
          BY <2>1, <4>1, <4>3, LastPosition
        <5>2. S \ {Max(S)} \in SUBSET (1 .. n) /\ it[S \ {Max(S)}] = f[S \ {Max(S)}]
          BY <2>1, <3>2, <4>1
        <5>3. f[S] = g[<<f[S \ {Max(S)}], s[Max(S)]>>]
          BY <2>2, <4>1, <4>3
        <5> QED
          BY <4>1, <4>3, <5>2, <5>3
      <4> QED
        BY <4>2, <4>3
    <3> QED
      BY <3>1, <3>2
  <2>4. it \in [SUBSET (1 .. n + 1) -> T]
    BY <2>3
  <2>5. Steps(n + 1, it)
    BY <2>3
  <2> HIDE DEF it, Steps
  <2> QED
    BY <2>4, <2>5
<1>3. N = Nat
  <2> HIDE DEF Good
  <2> QED
    BY <1>1, <1>2, Counting
<1>4. Good(Len(s))
  <2> HIDE DEF Good
  <2>1. Len(s) \in N
    BY <1>3
  <2> QED
    BY <2>1
<1> QED
  <2> HIDE DEF Steps
  <2>1. PICK it \in [SUBSET (1 .. Len(s)) -> T] : Steps(Len(s), it)
    <3>1. Len(s) \in Nat
      OBVIOUS
    <3>2. Len(s) <= Len(s)
      BY <3>1
    <3> QED
      BY <1>4, <3>2
  <2> QED
    BY <2>1 DEF Steps, FoldFcns, FoldSteps

\* A set of positions has a first one.
LEMMA FirstPosition ==
  ASSUME NEW S \in SUBSET Nat, S # {}
  PROVE  Min(S) \in S /\ \A y \in S : Min(S) <= y
<1> DEFINE Less == {ss \in Nat \X Nat : ss[1] < ss[2]}
<1>1. IsWellFoundedOn(Less, Nat)
  BY NatLessThanWellFounded DEF OpToRel
<1>2. \A x, y \in Nat : <<y, x>> \notin Less => x <= y
  OBVIOUS
<1> HIDE DEF Less
<1>3. \E x \in S : \A y \in S : ~(<<y, x>> \in Less)
  BY <1>1, WFMin
<1>4. \E x \in S : \A y \in S : x <= y
  BY <1>2, <1>3
<1> QED
  BY <1>4 DEF Min

\* Select keeps the rows of a set A: what the fold is that it stands for.
SelectSteps(it, rows, A) ==
    it = [S \in SUBSET (DOMAIN rows) |->
             IF S = {} THEN <<>>
             ELSE IF rows[Max(S)] \in A THEN Append(it[S \ {Max(S)}], rows[Max(S)])
             ELSE it[S \ {Max(S)}]]

\* Array.filter is the fold of a function that exists.
LEMMA SelectExists ==
  ASSUME NEW R, NEW rows \in Seq(R), NEW A
  PROVE  \E it : SelectSteps(it, rows, A)
<1> DEFINE g == [x \in Seq(R) \X R |-> IF x[2] \in A THEN Append(x[1], x[2]) ELSE x[1]]
<1>1. <<>> \in Seq(R) /\ DOMAIN rows = 1 .. Len(rows) /\ Len(rows) \in Nat
      /\ \A n \in 1 .. Len(rows) : rows[n] \in R
  OBVIOUS
<1>2. g \in StepFcns(Seq(R), R)
  BY DEF StepFcns
<1> HIDE DEF g
<1>3. PICK it \in FoldFcns(rows, Seq(R)) : FoldSteps(it, <<>>, g, rows)
  BY <1>1, <1>2, FoldExists
<1>4. ASSUME NEW S \in SUBSET (1 .. Len(rows)), S # {}
      PROVE  g[<<it[S \ {Max(S)}], rows[Max(S)]>>]
               = IF rows[Max(S)] \in A THEN Append(it[S \ {Max(S)}], rows[Max(S)]) ELSE it[S \ {Max(S)}]
  <2>1. Max(S) \in S
    BY <1>1, <1>4, LastPosition
  <2>2. it[S \ {Max(S)}] \in Seq(R) /\ rows[Max(S)] \in R
    BY <1>1, <1>3, <2>1 DEF FoldFcns
  <2> QED
    BY <2>2 DEF g
<1>5. it = [S \in SUBSET (1 .. Len(rows)) |->
               IF S = {} THEN <<>> ELSE g[<<it[S \ {Max(S)}], rows[Max(S)]>>]]
  BY <1>3 DEF FoldSteps
<1>6. SelectSteps(it, rows, A)
  BY <1>1, <1>4, <1>5 DEF SelectSteps
<1> QED
  BY <1>6

\* The folds of the first n positions, one after the other.
LEMMA LastOfInterval ==
  ASSUME NEW n \in Nat \ {0}
  PROVE  Max(1 .. n) = n /\ (1 .. n) \ {n} = 1 .. n - 1 /\ 1 .. n # {}
<1>1. n \in 1 .. n /\ 1 .. n # {} /\ (1 .. n) \ {n} = 1 .. n - 1
  OBVIOUS
<1>2. Max(1 .. n) \in 1 .. n /\ Max(1 .. n) >= n
  BY <1>1, LastPosition
<1> QED
  BY <1>1, <1>2

\* It keeps the rows of a set A, and nothing else.
LEMMA SelectKeeps ==
  ASSUME NEW R, NEW rows \in Seq(R), NEW A, NEW it, SelectSteps(it, rows, A)
  PROVE  it[DOMAIN rows] \in Seq(R) /\ Elements(it[DOMAIN rows]) = Elements(rows) \cap A
<1> DEFINE Good(n) == n <= Len(rows) =>
               /\ it[1 .. n] \in Seq(R)
               /\ Elements(it[1 .. n]) = {rows[i] : i \in 1 .. n} \cap A
           N == {n \in Nat : Good(n)}
<1>1. DOMAIN rows = 1 .. Len(rows) /\ Len(rows) \in Nat
  OBVIOUS
<1>2. 0 \in N
  <2>1. 1 .. 0 = {}
    OBVIOUS
  <2>2. it[{}] = <<>>
    BY DEF SelectSteps
  <2>3. Elements(<<>>) = {} /\ <<>> \in Seq(R)
    BY DEF Elements
  <2> QED
    BY <2>1, <2>2, <2>3
<1>3. ASSUME NEW n \in N PROVE n + 1 \in N
  <2>0. n \in Nat /\ n + 1 \in Nat \ {0} /\ (n + 1) - 1 = n
    OBVIOUS
  <2> SUFFICES ASSUME n + 1 <= Len(rows)
               PROVE  /\ it[1 .. n + 1] \in Seq(R)
                      /\ Elements(it[1 .. n + 1]) = {rows[i] : i \in 1 .. n + 1} \cap A
    BY <2>0
  <2> DEFINE r == rows[n + 1]
             s == it[1 .. n]
  <2>1. s \in Seq(R) /\ Elements(s) = {rows[i] : i \in 1 .. n} \cap A
    BY <2>0, <1>1
  <2>2. 1 .. n + 1 \in SUBSET (DOMAIN rows) /\ r \in R
    BY <2>0, <1>1
  <2>3. it[1 .. n + 1] = IF r \in A THEN Append(s, r) ELSE s
    <3>1. Max(1 .. n + 1) = n + 1 /\ (1 .. n + 1) \ {n + 1} = 1 .. n /\ 1 .. n + 1 # {}
      BY <2>0, LastOfInterval
    <3> DEFINE S == 1 .. n + 1
    <3>2. it[S] = IF S = {} THEN <<>>
                  ELSE IF rows[Max(S)] \in A THEN Append(it[S \ {Max(S)}], rows[Max(S)])
                  ELSE it[S \ {Max(S)}]
      <4> HIDE DEF S
      <4> QED
        BY <2>2 DEF SelectSteps, S
    <3> QED
      BY <3>1, <3>2
  <2>4. {rows[i] : i \in 1 .. n + 1} = {rows[i] : i \in 1 .. n} \cup {r}
    <3>1. 1 .. n + 1 = (1 .. n) \cup {n + 1}
      BY <2>0
    <3> QED
      BY <3>1
  <2> HIDE DEF r, s
  <2>5. Elements(Append(s, r)) = Elements(s) \cup {r} /\ Append(s, r) \in Seq(R)
    <3>1. DOMAIN Append(s, r) = DOMAIN s \cup {Len(s) + 1} /\ Append(s, r)[Len(s) + 1] = r
      BY <2>1
    <3>2. \A i \in DOMAIN s : Append(s, r)[i] = s[i]
      BY <2>1
    <3> QED
      BY <2>1, <2>2, <3>1, <3>2 DEF Elements
  <2>6. CASE r \in A
    BY <2>1, <2>3, <2>4, <2>5, <2>6
  <2>7. CASE r \notin A
    BY <2>1, <2>3, <2>4, <2>7
  <2> QED
    BY <2>6, <2>7
<1>4. Good(Len(rows))
  <2> HIDE DEF Good
  <2>1. N = Nat
    BY <1>2, <1>3, Counting
  <2> QED
    BY <1>1, <2>1
<1>5. it[1 .. Len(rows)] \in Seq(R) /\ Elements(it[1 .. Len(rows)]) = {rows[i] : i \in 1 .. Len(rows)} \cap A
  <2>1. Len(rows) <= Len(rows)
    BY <1>1
  <2> QED
    BY <1>4, <2>1
<1> QED
  BY <1>1, <1>5 DEF Elements

\* What Select stands for, given one test.
LEMMA FilterKeeps ==
  ASSUME NEW R, NEW rows \in Seq(R), NEW q
  PROVE  /\ Filter(rows, q) \in Seq(R)
         /\ Elements(Filter(rows, q)) = IF q = NoQuery THEN Elements(rows) ELSE {r \in Elements(rows) : q \in r.hits}
<1> DEFINE A == {r \in R : q \in r.hits}
           Steps(it) == it = [S \in SUBSET (DOMAIN rows) |->
                    IF S = {} THEN <<>> ELSE IF q \in rows[Max(S)].hits THEN Append(it[S \ {Max(S)}], rows[Max(S)]) ELSE it[S \ {Max(S)}]]
<1>1. Select(rows, LAMBDA r : q \in r.hits) = (CHOOSE it : Steps(it))[DOMAIN rows]
  BY DEF Select, FoldLeft, MapThenFoldSet
<1>2. ASSUME NEW it PROVE Steps(it) <=> SelectSteps(it, rows, A)
  <2>1. ASSUME NEW S \in SUBSET (DOMAIN rows), S # {} PROVE q \in rows[Max(S)].hits <=> rows[Max(S)] \in A
    <3>1. Max(S) \in S
      <4>1. Len(rows) \in Nat /\ S \in SUBSET (1 .. Len(rows))
        OBVIOUS
      <4> QED
        BY <2>1, <4>1, LastPosition
    <3> QED
      BY <3>1
  <2> QED
    BY <2>1 DEF SelectSteps
<1> HIDE DEF Steps
<1> DEFINE fold == CHOOSE it : Steps(it)
<1>3. SelectSteps(fold, rows, A)
  <2>1. \E it : Steps(it)
    BY <1>2, SelectExists
  <2>2. Steps(fold)
    BY <2>1
  <2> QED
    BY <1>2, <2>2
<1>4. /\ Select(rows, LAMBDA r : q \in r.hits) = fold[DOMAIN rows]
      /\ fold[DOMAIN rows] \in Seq(R) /\ Elements(fold[DOMAIN rows]) = Elements(rows) \cap A
  <2>1. fold[DOMAIN rows] \in Seq(R) /\ Elements(fold[DOMAIN rows]) = Elements(rows) \cap A
    <3> HIDE DEF fold, A
    <3> QED
      BY <1>3, SelectKeeps
  <2> QED
    BY <1>1, <2>1
<1>5. Elements(rows) \cap A = {r \in Elements(rows) : q \in r.hits}
  BY DEF Elements
<1> QED
  BY <1>4, <1>5 DEF Filter

-----------------------------------------------------------------------------
(* Rows in order.                                                          *)

\* As many positions as P has come before the place of a new row.
LEMMA Places ==
  ASSUME NEW n \in Nat, NEW P \in SUBSET (1 .. n)
  PROVE  Cardinality(P) \in 0 .. n
<1>1. IsFiniteSet(1 .. n) /\ Cardinality(1 .. n) = n
  BY FS_Interval
<1>2. IsFiniteSet(P) /\ Cardinality(P) <= n
  BY <1>1, FS_Subset
<1> QED
  BY <1>2, FS_CardinalityType

\* InsertAt, place by place.
LEMMA Inserted ==
  ASSUME NEW R, NEW s \in Seq(R), NEW r \in R, NEW k \in 1 .. Len(s) + 1
  PROVE  /\ InsertAt(s, k, r) \in Seq(R)
         /\ Len(InsertAt(s, k, r)) = Len(s) + 1
         /\ InsertAt(s, k, r)[k] = r
         /\ \A i \in 1 .. k - 1 : InsertAt(s, k, r)[i] = s[i]
         /\ \A i \in k .. Len(s) : InsertAt(s, k, r)[i + 1] = s[i]
<1> DEFINE before == SubSeq(s, 1, k - 1)
           after  == SubSeq(s, k, Len(s))
<1>1. Len(s) \in Nat /\ k \in Nat
  OBVIOUS
<1>2. /\ before \in Seq(R) /\ Len(before) = k - 1 /\ \A i \in 1 .. k - 1 : before[i] = s[i]
      /\ after \in Seq(R) /\ Len(after) = Len(s) - k + 1 /\ \A i \in 1 .. Len(s) - k + 1 : after[i] = s[k + i - 1]
  BY <1>1
<1> HIDE DEF before, after
<1> DEFINE t == before \o <<r>> \o after
<1>3. /\ t \in Seq(R) /\ Len(t) = Len(s) + 1 /\ t[k] = r
      /\ \A i \in 1 .. k - 1 : t[i] = before[i]
      /\ \A i \in k + 1 .. Len(s) + 1 : t[i] = after[i - k]
  BY <1>1, <1>2
<1>4. \A i \in k .. Len(s) : t[i + 1] = s[i]
  <2> SUFFICES ASSUME NEW i \in k .. Len(s) PROVE t[i + 1] = s[i]
    OBVIOUS
  <2>1. i + 1 \in k + 1 .. Len(s) + 1 /\ (i + 1) - k \in 1 .. Len(s) - k + 1 /\ k + ((i + 1) - k) - 1 = i
    BY <1>1
  <2> QED
    BY <1>2, <1>3, <2>1
<1>5. InsertAt(s, k, r) = t
  BY DEF InsertAt, before, after
<1> HIDE DEF t
<1> QED
  BY <1>2, <1>3, <1>4, <1>5

\* An insertion adds one element.
LEMMA InsertedElements ==
  ASSUME NEW R, NEW s \in Seq(R), NEW r \in R, NEW k \in 1 .. Len(s) + 1
  PROVE  Elements(InsertAt(s, k, r)) = Elements(s) \cup {r}
<1> DEFINE t == InsertAt(s, k, r)
<1>1. /\ t \in Seq(R) /\ Len(t) = Len(s) + 1 /\ t[k] = r
      /\ \A i \in 1 .. k - 1 : t[i] = s[i]
      /\ \A i \in k .. Len(s) : t[i + 1] = s[i]
  BY Inserted
<1> HIDE DEF t
<1>2. /\ DOMAIN t = 1 .. Len(s) + 1 /\ DOMAIN s = 1 .. Len(s) /\ k \in DOMAIN t
      /\ Len(s) \in Nat
  BY <1>1
<1>3. ASSUME NEW i \in DOMAIN t PROVE t[i] \in Elements(s) \cup {r}
  <2>1. CASE i < k
    <3>1. t[i] = s[i] /\ i \in DOMAIN s
      BY <1>1, <1>2, <2>1
    <3> QED
      BY <3>1 DEF Elements
  <2>2. CASE i = k
    BY <1>1, <2>2
  <2>3. CASE i > k
    <3>1. i - 1 \in k .. Len(s) /\ (i - 1) + 1 = i /\ i - 1 \in DOMAIN s
      BY <1>2, <2>3
    <3>2. t[i] = s[i - 1]
      BY <1>1, <3>1
    <3> QED
      BY <3>1, <3>2 DEF Elements
  <2> QED
    BY <1>2, <2>1, <2>2, <2>3
<1>4. ASSUME NEW i \in DOMAIN s PROVE s[i] \in Elements(t)
  <2>1. CASE i < k
    <3>1. t[i] = s[i] /\ i \in DOMAIN t
      BY <1>1, <1>2, <2>1
    <3> QED
      BY <3>1 DEF Elements
  <2>2. CASE i >= k
    <3>1. t[i + 1] = s[i] /\ i + 1 \in DOMAIN t
      BY <1>1, <1>2, <2>2
    <3> QED
      BY <3>1 DEF Elements
  <2> QED
    BY <1>2, <2>1, <2>2
<1>5. r \in Elements(t)
  BY <1>1, <1>2 DEF Elements
<1> QED
  BY <1>3, <1>4, <1>5 DEF Elements, t

\* The order of the cards: the newest first.
DateSteps(it, rows) ==
    it = [S \in SUBSET (DOMAIN rows) |->
             IF S = {} THEN <<>>
             ELSE InsertAt(it[S \ {Max(S)}],
                           1 + Cardinality({i \in DOMAIN it[S \ {Max(S)}] :
                                  ~(rows[Max(S)].detectedAt > it[S \ {Max(S)}][i].detectedAt)}),
                           rows[Max(S)])]

\* The order of the cards.
ByDate(rows) == SortBy(rows, LAMBDA i, j : i.detectedAt > j.detectedAt)

\* The cards are sorted by a fold of a function that exists.
LEMMA DateExists ==
  ASSUME NEW R, NEW rows \in Seq(R)
  PROVE  \E it : DateSteps(it, rows)
<1> DEFINE place1(s, r) == 1 + Cardinality({i \in DOMAIN s : ~(r.detectedAt > s[i].detectedAt)})
           g == [x \in Seq(R) \X R |-> InsertAt(x[1], place1(x[1], x[2]), x[2])]
<1>1. <<>> \in Seq(R) /\ DOMAIN rows = 1 .. Len(rows) /\ Len(rows) \in Nat
      /\ \A n \in 1 .. Len(rows) : rows[n] \in R
  OBVIOUS
<1>2. g \in StepFcns(Seq(R), R)
  <2>1. ASSUME NEW s \in Seq(R), NEW r \in R PROVE InsertAt(s, place1(s, r), r) \in Seq(R)
    <3> DEFINE P == {i \in DOMAIN s : ~(r.detectedAt > s[i].detectedAt)}
    <3>1. P \in SUBSET (1 .. Len(s)) /\ Len(s) \in Nat
      OBVIOUS
    <3> HIDE DEF P
    <3>2. 1 + Cardinality(P) \in 1 .. Len(s) + 1
      BY <3>1, Places
    <3>3. place1(s, r) = 1 + Cardinality(P)
      BY DEF P
    <3> HIDE DEF place1
    <3> QED
      BY <3>2, <3>3, Inserted
  <2> HIDE DEF place1
  <2> QED
    BY <2>1 DEF StepFcns
<1> HIDE DEF g, place1
<1>3. PICK it \in FoldFcns(rows, Seq(R)) : FoldSteps(it, <<>>, g, rows)
  BY <1>1, <1>2, FoldExists
<1>4. ASSUME NEW S \in SUBSET (1 .. Len(rows)), S # {}
      PROVE  g[<<it[S \ {Max(S)}], rows[Max(S)]>>]
               = InsertAt(it[S \ {Max(S)}], place1(it[S \ {Max(S)}], rows[Max(S)]), rows[Max(S)])
  <2>1. Max(S) \in S
    BY <1>1, <1>4, LastPosition
  <2>2. it[S \ {Max(S)}] \in Seq(R) /\ rows[Max(S)] \in R
    BY <1>1, <1>3, <2>1 DEF FoldFcns
  <2> QED
    BY <2>2 DEF g
<1>5. it = [S \in SUBSET (1 .. Len(rows)) |->
               IF S = {} THEN <<>> ELSE g[<<it[S \ {Max(S)}], rows[Max(S)]>>]]
  BY <1>3 DEF FoldSteps
<1>6. it = [S \in SUBSET (DOMAIN rows) |->
               IF S = {} THEN <<>>
               ELSE InsertAt(it[S \ {Max(S)}], place1(it[S \ {Max(S)}], rows[Max(S)]), rows[Max(S)])]
  BY <1>1, <1>4, <1>5
<1>7. DateSteps(it, rows)
  BY <1>6 DEF DateSteps, place1
<1> QED
  BY <1>7

\* ByDate is such a fold.
LEMMA DateUnfolds ==
  ASSUME NEW R, NEW rows \in Seq(R)
  PROVE  \E it : DateSteps(it, rows) /\ ByDate(rows) = it[DOMAIN rows]
<1> DEFINE Steps(it) == DateSteps(it, rows)
           fold == CHOOSE it : Steps(it)
<1>1. ByDate(rows) = fold[DOMAIN rows]
  BY DEF ByDate, SortBy, FoldLeft, MapThenFoldSet, DateSteps
<1>2. Steps(fold)
  <2> HIDE DEF Steps
  <2>1. \E it : Steps(it)
    BY DateExists DEF Steps
  <2> QED
    BY <2>1
<1> HIDE DEF fold
<1> QED
  BY <1>1, <1>2

\* A set of positions with every position before one of its own.
LEMMA FirstPositions ==
  ASSUME NEW n \in Nat, NEW P \in SUBSET (1 .. n), \A i \in P : \A j \in 1 .. i : j \in P
  PROVE  P = 1 .. Cardinality(P) /\ Cardinality(P) \in 0 .. n
<1>1. CASE P = {}
  <2>1. Cardinality(P) = 0 /\ 1 .. 0 = {}
    BY <1>1, FS_EmptySet
  <2> QED
    BY <1>1, <2>1
<1>2. CASE P # {}
  <2> DEFINE m == Max(P)
  <2>1. m \in P /\ \A y \in P : m >= y
    BY <1>2, LastPosition
  <2> HIDE DEF m
  <2>2. P = 1 .. m /\ m \in Nat \ {0} /\ m <= n
    <3>1. m \in Nat \ {0} /\ m <= n
      BY <2>1
    <3>2. \A j \in 1 .. m : j \in P
      BY <2>1
    <3>3. \A y \in P : y \in 1 .. m
      BY <2>1, <3>1
    <3> QED
      BY <3>1, <3>2, <3>3
  <2>3. Cardinality(1 .. m) = m
    BY <2>2, FS_Interval
  <2> QED
    BY <2>2, <2>3
<1> QED
  BY <1>1, <1>2

\* What a list of cards is: dated, the newest first, one for a cause.
Falling(s) == \A j, k \in DOMAIN s : j < k => s[j].detectedAt >= s[k].detectedAt
OnePerCause(s) == \A j, k \in DOMAIN s : j # k => Cause(s[j]) # Cause(s[k])

\* A stable insertion leaves falling dates falling.
LEMMA InsertedFalls ==
  ASSUME NEW R, \A i \in R : i.detectedAt \in Nat, NEW s \in Seq(R), NEW r \in R, Falling(s)
  PROVE  LET k == 1 + Cardinality({i \in DOMAIN s : ~(r.detectedAt > s[i].detectedAt)})
         IN  Falling(InsertAt(s, k, r)) /\ k \in 1 .. Len(s) + 1
<1> DEFINE P == {i \in DOMAIN s : ~(r.detectedAt > s[i].detectedAt)}
           k == 1 + Cardinality(P)
           t == InsertAt(s, k, r)
<1>1. Len(s) \in Nat /\ DOMAIN s = 1 .. Len(s) /\ \A i \in 1 .. Len(s) : s[i] \in R /\ s[i].detectedAt \in Nat
  OBVIOUS
<1>2. \A i \in P : \A j \in 1 .. i : j \in P
  <2> SUFFICES ASSUME NEW i \in P, NEW j \in 1 .. i PROVE j \in P
    OBVIOUS
  <2>1. i \in 1 .. Len(s) /\ j \in 1 .. Len(s)
    BY <1>1
  <2>2. s[j].detectedAt >= s[i].detectedAt
    <3>1. CASE j = i
      BY <1>1, <2>1, <3>1
    <3>2. CASE j # i
      BY <1>1, <2>1, <3>2 DEF Falling
    <3> QED
      BY <3>1, <3>2
  <2>3. s[i].detectedAt \in Nat /\ s[j].detectedAt \in Nat /\ r.detectedAt \in Nat
    BY <1>1, <2>1
  <2>4. s[i].detectedAt >= r.detectedAt
    BY <2>3
  <2> QED
    BY <1>1, <2>1, <2>2, <2>3, <2>4
<1>3. P \in SUBSET (1 .. Len(s))
  BY <1>1
<1>4. \A i \in 1 .. Len(s) : i \in P <=> s[i].detectedAt >= r.detectedAt
  BY <1>1
<1> HIDE DEF P
<1>5. P = 1 .. Cardinality(P) /\ Cardinality(P) \in 0 .. Len(s)
  BY <1>1, <1>2, <1>3, FirstPositions
<1>6. k \in 1 .. Len(s) + 1 /\ P = 1 .. k - 1
  BY <1>1, <1>5
<1> HIDE DEF k
<1>7. /\ t \in Seq(R) /\ Len(t) = Len(s) + 1 /\ t[k] = r
      /\ \A i \in 1 .. k - 1 : t[i] = s[i]
      /\ \A i \in k .. Len(s) : t[i + 1] = s[i]
  BY <1>6, Inserted
<1> HIDE DEF t
<1>8. ASSUME NEW i \in DOMAIN t
      PROVE  \/ i < k /\ i \in DOMAIN s /\ t[i] = s[i] /\ s[i].detectedAt >= r.detectedAt
             \/ i = k /\ t[i] = r
             \/ i > k /\ i - 1 \in DOMAIN s /\ t[i] = s[i - 1] /\ r.detectedAt >= s[i - 1].detectedAt
  <2>1. i \in 1 .. Len(s) + 1 /\ k \in Nat
    BY <1>1, <1>6, <1>7
  <2>2. CASE i < k
    <3>1. i \in P /\ i \in 1 .. Len(s) /\ i \in 1 .. k - 1
      BY <1>6, <2>1, <2>2, <1>1
    <3> QED
      BY <1>1, <1>4, <1>7, <2>2, <3>1
  <2>3. CASE i > k
    <3>1. i - 1 \in k .. Len(s) /\ (i - 1) + 1 = i /\ i - 1 \in 1 .. Len(s) /\ i - 1 \notin P
      BY <1>6, <2>1, <2>3, <1>1
    <3>2. t[i] = s[i - 1]
      BY <1>7, <3>1
    <3>3. s[i - 1].detectedAt \in Nat /\ r.detectedAt \in Nat /\ ~(s[i - 1].detectedAt >= r.detectedAt)
      BY <1>1, <1>4, <3>1
    <3>4. r.detectedAt >= s[i - 1].detectedAt
      BY <3>3
    <3> QED
      BY <1>1, <2>3, <3>1, <3>2, <3>4
  <2> QED
    BY <1>7, <2>1, <2>2, <2>3
<1>9. ASSUME NEW i \in DOMAIN t, NEW j \in DOMAIN t, i < j PROVE t[i].detectedAt >= t[j].detectedAt
  <2>1. i \in Nat /\ j \in Nat /\ k \in Nat /\ r.detectedAt \in Nat
    BY <1>1, <1>6, <1>7
  <2>2. CASE j < k
    <3>1. i < k /\ ~(i = k) /\ ~(i > k) /\ ~(j = k) /\ ~(j > k)
      BY <1>9, <2>1, <2>2
    <3> QED
      BY <1>8, <1>9, <3>1 DEF Falling
  <2>3. CASE j = k
    <3>1. i < k /\ ~(i = k) /\ ~(i > k)
      BY <1>9, <2>1, <2>3
    <3> QED
      BY <1>7, <1>8, <2>3, <3>1
  <2>4. CASE j > k
    <3>1. j - 1 \in DOMAIN s /\ t[j] = s[j - 1] /\ r.detectedAt >= s[j - 1].detectedAt
      BY <1>8, <2>1, <2>4
    <3>2. s[j - 1].detectedAt \in Nat
      BY <1>1, <3>1
    <3>3. CASE i < k
      <4>1. i \in DOMAIN s /\ t[i] = s[i] /\ s[i].detectedAt >= r.detectedAt /\ s[i].detectedAt \in Nat
        BY <1>1, <1>8, <2>1, <3>3
      <4> QED
        BY <2>1, <3>1, <3>2, <4>1
    <3>4. CASE i = k
      BY <1>7, <3>1, <3>4
    <3>5. CASE i > k
      <4>1. i - 1 \in DOMAIN s /\ t[i] = s[i - 1] /\ i - 1 < j - 1
        BY <1>8, <1>9, <2>1, <3>5
      <4> QED
        BY <3>1, <4>1 DEF Falling
    <3> QED
      BY <2>1, <3>3, <3>4, <3>5
  <2> QED
    BY <2>1, <2>2, <2>3, <2>4
<1>10. Falling(t)
  BY <1>9 DEF Falling
<1> QED
  BY <1>6, <1>10 DEF k, t, P

\* Sorted, a list of cards has the same cards, the newest first.
LEMMA CardsInOrder ==
  ASSUME NEW R, \A i \in R : i.detectedAt \in Nat, NEW rows \in Seq(R), OnePerCause(rows)
  PROVE  /\ ByDate(rows) \in Seq(R) /\ Elements(ByDate(rows)) = Elements(rows)
         /\ Falling(ByDate(rows)) /\ OnePerCause(ByDate(rows))
<1>1. DOMAIN rows = 1 .. Len(rows) /\ Len(rows) \in Nat
  OBVIOUS
<1>2. PICK it : DateSteps(it, rows) /\ ByDate(rows) = it[DOMAIN rows]
  BY DateUnfolds
<1> DEFINE Sorted(s, n) == /\ s \in Seq(R) /\ Elements(s) = {rows[i] : i \in 1 .. n}
                           /\ Falling(s) /\ OnePerCause(s)
           Good(n) == n <= Len(rows) => Sorted(it[1 .. n], n)
           N == {n \in Nat : Good(n)}
<1>3. 0 \in N
  <2>1. 1 .. 0 = {}
    OBVIOUS
  <2>2. it[{}] = <<>>
    BY <1>2 DEF DateSteps
  <2>3. Elements(<<>>) = {} /\ <<>> \in Seq(R) /\ Falling(<<>>) /\ OnePerCause(<<>>)
    BY DEF Elements, Falling, OnePerCause
  <2> QED
    BY <2>1, <2>2, <2>3
<1>4. ASSUME NEW n \in N PROVE n + 1 \in N
  <2>0. n \in Nat /\ n + 1 \in Nat \ {0} /\ (n + 1) - 1 = n
    OBVIOUS
  <2> SUFFICES ASSUME n + 1 <= Len(rows) PROVE Sorted(it[1 .. n + 1], n + 1)
    <3> HIDE DEF Sorted
    <3> QED
      BY <2>0
  <2> DEFINE r == rows[n + 1]
             s == it[1 .. n]
             k == 1 + Cardinality({i \in DOMAIN s : ~(r.detectedAt > s[i].detectedAt)})
             t == InsertAt(s, k, r)
  <2>1. s \in Seq(R) /\ Elements(s) = {rows[i] : i \in 1 .. n} /\ Falling(s) /\ OnePerCause(s)
    BY <2>0, <1>1
  <2>2. 1 .. n + 1 \in SUBSET (DOMAIN rows) /\ r \in R
    BY <2>0, <1>1
  <2>3. it[1 .. n + 1] = t
    <3>1. Max(1 .. n + 1) = n + 1 /\ (1 .. n + 1) \ {n + 1} = 1 .. n /\ 1 .. n + 1 # {}
      BY <2>0, LastOfInterval
    <3> DEFINE S == 1 .. n + 1
    <3>2. it[S] = IF S = {} THEN <<>>
                  ELSE InsertAt(it[S \ {Max(S)}],
                           1 + Cardinality({i \in DOMAIN it[S \ {Max(S)}] :
                                  ~(rows[Max(S)].detectedAt > it[S \ {Max(S)}][i].detectedAt)}),
                           rows[Max(S)])
      <4> HIDE DEF S
      <4> QED
        BY <1>2, <2>2 DEF DateSteps, S
    <3> QED
      BY <3>1, <3>2
  <2>4. {rows[i] : i \in 1 .. n + 1} = {rows[i] : i \in 1 .. n} \cup {r}
    <3>1. 1 .. n + 1 = (1 .. n) \cup {n + 1}
      BY <2>0
    <3> QED
      BY <3>1
  <2>5. \A j \in DOMAIN s : Cause(s[j]) # Cause(r)
    <3> SUFFICES ASSUME NEW j \in DOMAIN s PROVE Cause(s[j]) # Cause(r)
      OBVIOUS
    <3>1. s[j] \in Elements(s)
      BY DEF Elements
    <3>2. PICK i \in 1 .. n : s[j] = rows[i]
      BY <2>1, <3>1
    <3>3. i \in DOMAIN rows /\ n + 1 \in DOMAIN rows /\ i # n + 1
      BY <1>1, <2>0
    <3> QED
      BY <3>2, <3>3 DEF OnePerCause
  <2> HIDE DEF r, s, Sorted
  <2>6. Falling(t) /\ k \in 1 .. Len(s) + 1
    BY <2>1, <2>2, InsertedFalls
  <2> HIDE DEF k
  <2>7. /\ t \in Seq(R) /\ Len(t) = Len(s) + 1 /\ t[k] = r /\ Elements(t) = Elements(s) \cup {r}
        /\ \A i \in 1 .. k - 1 : t[i] = s[i]
        /\ \A i \in k .. Len(s) : t[i + 1] = s[i]
    BY <2>1, <2>2, <2>6, Inserted, InsertedElements
  <2> HIDE DEF t
  <2>8. ASSUME NEW i \in DOMAIN t
        PROVE  \/ i < k /\ i \in DOMAIN s /\ t[i] = s[i]
               \/ i = k /\ t[i] = r
               \/ i > k /\ i - 1 \in DOMAIN s /\ t[i] = s[i - 1]
    <3>1. i \in 1 .. Len(s) + 1 /\ k \in Nat /\ DOMAIN s = 1 .. Len(s) /\ Len(s) \in Nat
      BY <2>1, <2>6, <2>7
    <3>2. CASE i < k
      <4>1. i \in 1 .. k - 1 /\ i \in DOMAIN s
        BY <2>6, <3>1, <3>2
      <4> QED
        BY <2>7, <3>2, <4>1
    <3>3. CASE i > k
      <4>1. i - 1 \in k .. Len(s) /\ (i - 1) + 1 = i /\ i - 1 \in DOMAIN s
        BY <2>6, <3>1, <3>3
      <4>2. t[i] = s[i - 1]
        BY <2>7, <4>1
      <4> QED
        BY <3>3, <4>1, <4>2
    <3> QED
      BY <2>7, <3>1, <3>2, <3>3
  <2>9. OnePerCause(t)
    <3> SUFFICES ASSUME NEW i \in DOMAIN t, NEW j \in DOMAIN t, i # j PROVE Cause(t[i]) # Cause(t[j])
      BY DEF OnePerCause
    <3>1. i \in Nat /\ j \in Nat /\ k \in Nat
      BY <2>6, <2>7
    <3>2. \/ i < k /\ i \in DOMAIN s /\ t[i] = s[i]
          \/ i = k /\ t[i] = r
          \/ i > k /\ i - 1 \in DOMAIN s /\ t[i] = s[i - 1]
      BY <2>8
    <3>3. \/ j < k /\ j \in DOMAIN s /\ t[j] = s[j]
          \/ j = k /\ t[j] = r
          \/ j > k /\ j - 1 \in DOMAIN s /\ t[j] = s[j - 1]
      BY <2>8
    <3>4. CASE i = k \/ j = k
      BY <2>5, <3>1, <3>2, <3>3, <3>4
    <3>5. CASE i # k /\ j # k
      <4>1. PICK a \in DOMAIN s : t[i] = s[a] /\ a = IF i < k THEN i ELSE i - 1
        BY <3>1, <3>2, <3>5
      <4>2. PICK b \in DOMAIN s : t[j] = s[b] /\ b = IF j < k THEN j ELSE j - 1
        BY <3>1, <3>3, <3>5
      <4>3. a # b
        BY <3>1, <3>5, <4>1, <4>2
      <4> QED
        BY <2>1, <4>1, <4>2, <4>3 DEF OnePerCause
    <3> QED
      BY <3>4, <3>5
  <2>10. Sorted(t, n + 1)
    BY <2>1, <2>4, <2>6, <2>7, <2>9 DEF Sorted
  <2> QED
    BY <2>3, <2>10
<1> HIDE DEF Sorted
<1>5. Good(Len(rows))
  <2> HIDE DEF Good
  <2>1. N = Nat
    BY <1>3, <1>4, Counting
  <2> QED
    BY <1>1, <2>1
<1>6. Sorted(it[1 .. Len(rows)], Len(rows))
  <2>1. Len(rows) <= Len(rows)
    BY <1>1
  <2> QED
    BY <1>5, <2>1
<1>7. Sorted(ByDate(rows), Len(rows))
  BY <1>1, <1>2, <1>6
<1> QED
  BY <1>1, <1>7 DEF Elements, Sorted

\* The Map of dedupeInsights: what an insight makes of it.
Noted(seen, i) ==
    IF \E k \in DOMAIN seen : Cause(seen[k]) = Cause(i)
    THEN [k \in DOMAIN seen |->
            IF Cause(seen[k]) = Cause(i) /\ i.detectedAt > seen[k].detectedAt THEN i ELSE seen[k]]
    ELSE Append(seen, i)

NotedSteps(it, list) ==
    it = [S \in SUBSET (DOMAIN list) |->
             IF S = {} THEN <<>> ELSE Noted(it[S \ {Max(S)}], list[Max(S)])]

Newest(list) ==
    FoldLeft(LAMBDA seen, i :
                IF \E k \in DOMAIN seen : Cause(seen[k]) = Cause(i)
                THEN [k \in DOMAIN seen |->
                        IF Cause(seen[k]) = Cause(i) /\ i.detectedAt > seen[k].detectedAt THEN i ELSE seen[k]]
                ELSE Append(seen, i),
             <<>>, list)

\* A list of seen insights with one more is a list of insights.
LEMMA NotedTyped ==
  ASSUME NEW R, NEW s \in Seq(R), NEW i \in R
  PROVE  Noted(s, i) \in Seq(R)
<1>1. CASE \E k \in DOMAIN s : Cause(s[k]) = Cause(i)
  <2> DEFINE t == [k \in DOMAIN s |->
            IF Cause(s[k]) = Cause(i) /\ i.detectedAt > s[k].detectedAt THEN i ELSE s[k]]
  <2>1. DOMAIN s = 1 .. Len(s) /\ Len(s) \in Nat
    OBVIOUS
  <2>2. t \in [1 .. Len(s) -> R]
    BY <2>1
  <2>3. t \in Seq(R)
    <3> HIDE DEF t
    <3> QED
      BY <2>1, <2>2
  <2> QED
    BY <1>1, <2>3 DEF Noted
<1>2. CASE ~ \E k \in DOMAIN s : Cause(s[k]) = Cause(i)
  BY <1>2 DEF Noted
<1> QED
  BY <1>1, <1>2

\* Newest is the fold of Noted, which exists.
LEMMA NotedUnfolds ==
  ASSUME NEW R, NEW list \in Seq(R)
  PROVE  \E it : NotedSteps(it, list) /\ Newest(list) = it[DOMAIN list]
<1> DEFINE g == [x \in Seq(R) \X R |-> Noted(x[1], x[2])]
           Steps(it) == NotedSteps(it, list)
           fold == CHOOSE it : Steps(it)
<1>1. <<>> \in Seq(R) /\ DOMAIN list = 1 .. Len(list) /\ Len(list) \in Nat
      /\ \A n \in 1 .. Len(list) : list[n] \in R
  OBVIOUS
<1>2. g \in StepFcns(Seq(R), R)
  BY NotedTyped DEF StepFcns
<1> HIDE DEF g
<1>3. PICK it \in FoldFcns(list, Seq(R)) : FoldSteps(it, <<>>, g, list)
  BY <1>1, <1>2, FoldExists
<1>4. ASSUME NEW S \in SUBSET (1 .. Len(list)), S # {}
      PROVE  g[<<it[S \ {Max(S)}], list[Max(S)]>>] = Noted(it[S \ {Max(S)}], list[Max(S)])
  <2>1. Max(S) \in S
    BY <1>1, <1>4, LastPosition
  <2>2. it[S \ {Max(S)}] \in Seq(R) /\ list[Max(S)] \in R
    BY <1>1, <1>3, <2>1 DEF FoldFcns
  <2> QED
    BY <2>2 DEF g
<1>5. it = [S \in SUBSET (1 .. Len(list)) |->
               IF S = {} THEN <<>> ELSE g[<<it[S \ {Max(S)}], list[Max(S)]>>]]
  BY <1>3 DEF FoldSteps
<1>6. NotedSteps(it, list)
  BY <1>1, <1>4, <1>5 DEF NotedSteps
<1>7. Newest(list) = fold[DOMAIN list]
  BY DEF Newest, FoldLeft, MapThenFoldSet, NotedSteps, Noted
<1>8. Steps(fold)
  <2> HIDE DEF Steps
  <2>1. \E f : Steps(f)
    BY <1>6 DEF Steps
  <2> QED
    BY <2>1
<1> HIDE DEF fold
<1> QED
  BY <1>7, <1>8

\* The map holds the newest insight of every cause that it was given.
LEMMA NewestKept ==
  ASSUME NEW R, \A i \in R : i.detectedAt \in Nat, NEW list \in Seq(R)
  PROVE  /\ Newest(list) \in Seq(R) /\ OnePerCause(Newest(list))
         /\ Elements(Newest(list)) \subseteq Elements(list)
         /\ \A i \in Elements(list) : \E c \in Elements(Newest(list)) :
               Cause(c) = Cause(i) /\ c.detectedAt >= i.detectedAt
<1>1. DOMAIN list = 1 .. Len(list) /\ Len(list) \in Nat
  OBVIOUS
<1>2. PICK it : NotedSteps(it, list) /\ Newest(list) = it[DOMAIN list]
  BY NotedUnfolds
<1> DEFINE Covers(s, n) ==
               \A m \in 1 .. n : \E k \in DOMAIN s : Cause(s[k]) = Cause(list[m]) /\ s[k].detectedAt >= list[m].detectedAt
           Holds(s, n) == /\ s \in Seq(R) /\ OnePerCause(s)
                          /\ \A k \in DOMAIN s : \E m \in 1 .. n : s[k] = list[m]
                          /\ Covers(s, n)
           Good(n) == n <= Len(list) => Holds(it[1 .. n], n)
           N == {n \in Nat : Good(n)}
<1>3. 0 \in N
  <2>1. 1 .. 0 = {}
    OBVIOUS
  <2>2. it[{}] = <<>>
    BY <1>2 DEF NotedSteps
  <2>3. <<>> \in Seq(R) /\ OnePerCause(<<>>) /\ DOMAIN <<>> = {}
    BY DEF OnePerCause
  <2>4. Holds(<<>>, 0)
    BY <2>1, <2>3
  <2> HIDE DEF Holds
  <2> QED
    BY <2>1, <2>2, <2>4
<1>4. ASSUME NEW n \in N PROVE n + 1 \in N
  <2>0. n \in Nat /\ n + 1 \in Nat \ {0} /\ (n + 1) - 1 = n
    OBVIOUS
  <2> SUFFICES ASSUME n + 1 <= Len(list) PROVE Holds(it[1 .. n + 1], n + 1)
    <3> HIDE DEF Holds
    <3> QED
      BY <2>0
  <2> DEFINE r == list[n + 1]
             s == it[1 .. n]
             t == Noted(s, r)
  <2>1. /\ s \in Seq(R) /\ OnePerCause(s)
        /\ \A k \in DOMAIN s : \E m \in 1 .. n : s[k] = list[m]
        /\ Covers(s, n)
    BY <2>0, <1>1
  <2>2. 1 .. n + 1 \in SUBSET (DOMAIN list) /\ r \in R /\ r.detectedAt \in Nat
    BY <2>0, <1>1
  <2>3. it[1 .. n + 1] = t
    <3>1. Max(1 .. n + 1) = n + 1 /\ (1 .. n + 1) \ {n + 1} = 1 .. n /\ 1 .. n + 1 # {}
      BY <2>0, LastOfInterval
    <3> DEFINE S == 1 .. n + 1
    <3>2. it[S] = IF S = {} THEN <<>> ELSE Noted(it[S \ {Max(S)}], list[Max(S)])
      <4> HIDE DEF S
      <4> QED
        BY <1>2, <2>2 DEF NotedSteps, S
    <3> QED
      BY <3>1, <3>2
  <2>4. 1 .. n + 1 = (1 .. n) \cup {n + 1} /\ n + 1 \in 1 .. n + 1
    BY <2>0
  <2>5. /\ Len(s) \in Nat /\ DOMAIN s = 1 .. Len(s)
        /\ \A k \in DOMAIN s : s[k] \in R /\ s[k].detectedAt \in Nat
        /\ \A m \in 1 .. n : list[m] \in R /\ list[m].detectedAt \in Nat
    BY <2>0, <2>1, <1>1
  <2>6. t \in Seq(R)
    BY <2>1, <2>2, NotedTyped
  <2>7. r = list[n + 1]
    OBVIOUS
  <2> HIDE DEF r, s
  <2>8. CASE \E k \in DOMAIN s : Cause(s[k]) = Cause(r)
    <3>1. /\ DOMAIN t = DOMAIN s
          /\ \A k \in DOMAIN s :
                t[k] = IF Cause(s[k]) = Cause(r) /\ r.detectedAt > s[k].detectedAt THEN r ELSE s[k]
      BY <2>8 DEF Noted
    <3> HIDE DEF t
    <3>2. \A k \in DOMAIN t : Cause(t[k]) = Cause(s[k])
      BY <3>1
    <3>3. OnePerCause(t)
      BY <2>1, <3>1, <3>2 DEF OnePerCause
    <3>4. \A k \in DOMAIN t : \E m \in 1 .. n + 1 : t[k] = list[m]
      <4> SUFFICES ASSUME NEW k \in DOMAIN t PROVE \E m \in 1 .. n + 1 : t[k] = list[m]
        OBVIOUS
      <4>1. CASE t[k] = r
        BY <2>4, <2>7, <4>1
      <4>2. CASE t[k] = s[k]
        <5>1. PICK m \in 1 .. n : s[k] = list[m]
          BY <2>1, <3>1
        <5> QED
          BY <2>4, <4>2, <5>1
      <4> QED
        BY <3>1, <4>1, <4>2
    <3>5. \A k \in DOMAIN t : t[k].detectedAt >= s[k].detectedAt /\ t[k].detectedAt \in Nat
                              /\ (Cause(s[k]) = Cause(r) => t[k].detectedAt >= r.detectedAt)
      <4> SUFFICES ASSUME NEW k \in DOMAIN t
                   PROVE  t[k].detectedAt >= s[k].detectedAt /\ t[k].detectedAt \in Nat
                          /\ (Cause(s[k]) = Cause(r) => t[k].detectedAt >= r.detectedAt)
        OBVIOUS
      <4>1. s[k].detectedAt \in Nat
        BY <2>5, <3>1
      <4>2. CASE Cause(s[k]) = Cause(r) /\ r.detectedAt > s[k].detectedAt
        <5>1. t[k] = r
          BY <3>1, <4>2
        <5> QED
          BY <2>2, <4>1, <4>2, <5>1
      <4>3. CASE ~(Cause(s[k]) = Cause(r) /\ r.detectedAt > s[k].detectedAt)
        <5>1. t[k] = s[k]
          BY <3>1, <4>3
        <5> QED
          BY <2>2, <4>1, <4>3, <5>1
      <4> QED
        BY <4>2, <4>3
    <3>6. Covers(t, n + 1)
      <4> SUFFICES ASSUME NEW m \in 1 .. n + 1
                   PROVE  \E k \in DOMAIN t : Cause(t[k]) = Cause(list[m]) /\ t[k].detectedAt >= list[m].detectedAt
        OBVIOUS
      <4>1. CASE m = n + 1
        BY <2>7, <2>8, <3>1, <3>2, <3>5, <4>1
      <4>2. CASE m \in 1 .. n
        <5>1. PICK k \in DOMAIN s : Cause(s[k]) = Cause(list[m]) /\ s[k].detectedAt >= list[m].detectedAt
          BY <2>1, <4>2
        <5>2. /\ s[k].detectedAt \in Nat /\ list[m].detectedAt \in Nat /\ t[k].detectedAt \in Nat
              /\ t[k].detectedAt >= s[k].detectedAt /\ Cause(t[k]) = Cause(s[k]) /\ k \in DOMAIN t
          BY <2>5, <3>1, <3>2, <3>5, <4>2, <5>1
        <5>3. t[k].detectedAt >= list[m].detectedAt
          BY <5>1, <5>2
        <5> QED
          BY <5>1, <5>2, <5>3
      <4> QED
        BY <2>4, <4>1, <4>2
    <3> QED
      BY <2>3, <2>6, <3>3, <3>4, <3>6 DEF t
  <2>9. CASE ~ \E k \in DOMAIN s : Cause(s[k]) = Cause(r)
    <3>1. t = Append(s, r)
      BY <2>9 DEF Noted
    <3> HIDE DEF t
    <3>2. /\ DOMAIN t = DOMAIN s \cup {Len(s) + 1} /\ t[Len(s) + 1] = r /\ Len(s) + 1 \notin DOMAIN s
          /\ \A k \in DOMAIN s : t[k] = s[k]
      BY <2>1, <2>5, <3>1
    <3>3. OnePerCause(t)
      BY <2>1, <2>9, <3>2 DEF OnePerCause
    <3>4. \A k \in DOMAIN t : \E m \in 1 .. n + 1 : t[k] = list[m]
      BY <2>1, <2>4, <2>7, <3>2
    <3>5. Covers(t, n + 1)
      <4> SUFFICES ASSUME NEW m \in 1 .. n + 1
                   PROVE  \E k \in DOMAIN t : Cause(t[k]) = Cause(list[m]) /\ t[k].detectedAt >= list[m].detectedAt
        OBVIOUS
      <4>1. CASE m = n + 1
        <5>1. r.detectedAt >= r.detectedAt
          BY <2>2
        <5> QED
          BY <2>7, <3>2, <4>1, <5>1
      <4>2. CASE m \in 1 .. n
        BY <2>1, <3>2, <4>2
      <4> QED
        BY <2>4, <4>1, <4>2
    <3> QED
      BY <2>3, <2>6, <3>3, <3>4, <3>5 DEF t
  <2> QED
    BY <2>8, <2>9
<1> HIDE DEF Holds
<1>5. Good(Len(list))
  <2> HIDE DEF Good
  <2>1. N = Nat
    BY <1>3, <1>4, Counting
  <2> QED
    BY <1>1, <2>1
<1>6. Holds(it[1 .. Len(list)], Len(list))
  <2>1. Len(list) <= Len(list)
    BY <1>1
  <2> QED
    BY <1>5, <2>1
<1>7. Holds(Newest(list), Len(list))
  BY <1>1, <1>2, <1>6
<1> DEFINE s == Newest(list)
<1>8. /\ s \in Seq(R) /\ OnePerCause(s)
      /\ \A k \in DOMAIN s : \E m \in DOMAIN list : s[k] = list[m]
      /\ \A m \in DOMAIN list : \E k \in DOMAIN s : Cause(s[k]) = Cause(list[m]) /\ s[k].detectedAt >= list[m].detectedAt
  BY <1>1, <1>7 DEF Holds
<1> HIDE DEF s
<1>9. Elements(s) \subseteq Elements(list)
  BY <1>8 DEF Elements
<1>10. \A i \in Elements(list) : \E c \in Elements(s) : Cause(c) = Cause(i) /\ c.detectedAt >= i.detectedAt
  <2> SUFFICES ASSUME NEW i \in Elements(list)
               PROVE  \E c \in Elements(s) : Cause(c) = Cause(i) /\ c.detectedAt >= i.detectedAt
    OBVIOUS
  <2>1. PICK m \in DOMAIN list : i = list[m]
    BY DEF Elements
  <2>2. PICK k \in DOMAIN s : Cause(s[k]) = Cause(list[m]) /\ s[k].detectedAt >= list[m].detectedAt
    BY <1>8
  <2>3. s[k] \in Elements(s)
    BY DEF Elements
  <2> QED
    BY <2>1, <2>2, <2>3
<1> QED
  BY <1>8, <1>9, <1>10 DEF s

\* dedupeInsights: one card for a cause, of its newest insight, newest first.
LEMMA CardsOfCauses ==
  ASSUME NEW R, \A i \in R : i.detectedAt \in Nat, NEW list \in Seq(R)
  PROVE  LET cards == Dedupe(list)
         IN  /\ \A i \in Elements(list) :
                   Cardinality({k \in DOMAIN cards :
                                  Cause(cards[k]) = Cause(i) /\ cards[k].detectedAt >= i.detectedAt}) = 1
             /\ Elements(cards) \subseteq Elements(list)
             /\ Len(cards) = Cardinality({Cause(c) : c \in Elements(cards)})
             /\ Falling(cards)
<1> DEFINE cards == Dedupe(list)
<1>1. cards = ByDate(Newest(list))
  BY DEF Dedupe, ByDate, Newest
<1>2. /\ Newest(list) \in Seq(R) /\ OnePerCause(Newest(list))
      /\ Elements(Newest(list)) \subseteq Elements(list)
      /\ \A i \in Elements(list) : \E c \in Elements(Newest(list)) :
            Cause(c) = Cause(i) /\ c.detectedAt >= i.detectedAt
  BY NewestKept
<1>3. /\ cards \in Seq(R) /\ Elements(cards) = Elements(Newest(list))
      /\ Falling(cards) /\ OnePerCause(cards)
  BY <1>1, <1>2, CardsInOrder
<1> HIDE DEF cards
<1>4. ASSUME NEW i \in Elements(list)
      PROVE  Cardinality({k \in DOMAIN cards :
                 Cause(cards[k]) = Cause(i) /\ cards[k].detectedAt >= i.detectedAt}) = 1
  <2> DEFINE K == {k \in DOMAIN cards : Cause(cards[k]) = Cause(i) /\ cards[k].detectedAt >= i.detectedAt}
  <2>1. PICK c \in Elements(cards) : Cause(c) = Cause(i) /\ c.detectedAt >= i.detectedAt
    BY <1>2, <1>3
  <2>2. PICK k \in DOMAIN cards : c = cards[k]
    BY DEF Elements
  <2>3. K = {k}
    BY <1>3, <2>1, <2>2 DEF OnePerCause
  <2>4. Cardinality({k}) = 1
    BY FS_Singleton
  <2> QED
    BY <2>3, <2>4
<1>5. Len(cards) = Cardinality({Cause(c) : c \in Elements(cards)})
  <2> DEFINE C == {Cause(c) : c \in Elements(cards)}
             f == [k \in 1 .. Len(cards) |-> Cause(cards[k])]
  <2>1. DOMAIN cards = 1 .. Len(cards) /\ Len(cards) \in Nat
    BY <1>3
  <2>2. f \in Bijection(1 .. Len(cards), C)
    <3>1. \A k \in 1 .. Len(cards) : f[k] = Cause(cards[k]) /\ f[k] \in C
      BY <2>1 DEF Elements
    <3>2. \A y \in C : \E k \in 1 .. Len(cards) : f[k] = y
      BY <2>1 DEF Elements
    <3>3. f \in [1 .. Len(cards) -> C]
      BY <3>1
    <3>4. \A j, k \in 1 .. Len(cards) : f[j] = f[k] => j = k
      BY <1>3, <2>1, <3>1 DEF OnePerCause
    <3> HIDE DEF f, C
    <3> QED
      BY <3>2, <3>3, <3>4 DEF Bijection, Injection, Surjection, IsInjective
  <2>3. IsFiniteSet(1 .. Len(cards)) /\ Cardinality(1 .. Len(cards)) = Len(cards)
    <3> DEFINE n == Len(cards)
    <3>1. n \in Nat
      BY <2>1
    <3> HIDE DEF n
    <3>2. IsFiniteSet(1 .. n) /\ Cardinality(1 .. n) = n
      BY <3>1, FS_Interval
    <3> QED
      BY <3>2 DEF n
  <2>4. ExistsBijection(1 .. Len(cards), C)
    BY <2>2 DEF ExistsBijection
  <2> QED
    BY <2>3, <2>4, FS_Bijection
<1> QED
  BY <1>2, <1>3, <1>4, <1>5 DEF cards

-----------------------------------------------------------------------------
(* The state.                                                              *)

\* The lists of a payload.
RowFields == Lists \cup {"containers"}

\* The types of the parts of the state.
BoxType  == [search : Queries \cup {NoQuery}, selectedId : Ids \cup {NoId}, tab : Tabs]
ViewType == [search : Queries \cup {NoQuery}, key : Keys, asc : BOOLEAN,
             toggled : SUBSET UNION {Prefixes(n) : n \in Names}, mode : {"tree", "list"}]
HookType == [asked : Ids \cup {NoId}, awaited : BOOLEAN, older : Nat,
             metrics : Payloads \cup {NoSnapshot},
             unavailable : BOOLEAN]
PlaceType == [site : Sites, page : Pages, url : Params,
              snapshot : Payloads \cup {NoSnapshot}, known : SUBSET BaseHooks, box : BoxType]

\* The hook of a container's metrics asks for the container that is shown, and
\* for none where a hub's agent is known or the container is a plain one.
HookFits(h, at) == IF Mounted(at) THEN h.asked = Asked(at) ELSE h = NoHook

\* A request under way is for a container; one that is asked for has figures, a
\* notice, or its own request.
HookSound(h) ==
    /\ h.awaited => h.asked # NoId
    /\ h.asked # NoId => h.awaited \/ h.metrics # NoSnapshot \/ h.unavailable

\* The inductive invariant: types; the hooks, which are those of the components
\* at the place; the list, which has no state when it is not mounted; the page
\* a related link led to, which is as the link left it.
TypeInv ==
    /\ place \in PlaceType /\ view \in ViewType /\ hook \in HookType
    /\ HookSound(hook)
    /\ items \in BoundedSeq(Insights, MaxItems)

HookInv == HookFits(hook, place) /\ known \subseteq MetaHooks(place)

ListInv == List = NoList => view = FreshView(NoList)

NamedInv ==
    named # NoDetail =>
        /\ view.search = NoQuery
        /\ \/ named.kind = "processes" /\ page = "processes" /\ url.pid = named.key
           \/ named.kind = "services" /\ page = "services" /\ url.service = named.key

PageInv    == TypeInv /\ HookInv /\ ListInv
BrowserInv == PageInv /\ NamedInv

\* What a payload lists, and what a search leaves of it.
LEMMA RowsListed ==
  ASSUME NEW p \in Payloads, NEW kind \in RowFields, NEW q
  PROVE  /\ p[kind] \in Seq(Elements(p[kind]))
         /\ Elements(p[kind]) \subseteq AllOf(kind)
         /\ Elements(Filter(p[kind], q)) \subseteq Elements(p[kind])
         /\ Filter(p[kind], q) \in Seq(Elements(p[kind]))
<1>1. p[kind] \in Seq(Elements(p[kind]))
  BY DataAssumption DEF RowFields
<1>2. Elements(p[kind]) \subseteq AllOf(kind)
  BY DEF AllOf
<1> QED
  BY <1>1, <1>2, FilterKeeps

\* The containers of a place are those of a payload, or none.
LEMMA ContainersListed ==
  ASSUME NEW at \in PlaceType, NEW q
  PROVE  /\ Containers(at) \in Seq(Elements(Containers(at)))
         /\ Elements(Containers(at)) \subseteq AllOf("containers")
         /\ Elements(Filter(Containers(at), q)) \subseteq Elements(Containers(at))
         /\ Filter(Containers(at), q) \in Seq(Elements(Containers(at)))
<1>1. CASE at.snapshot = NoSnapshot
  <2>1. Containers(at) = <<>> /\ Elements(<<>>) = {}
    BY <1>1 DEF Containers, Elements
  <2>2. <<>> \in Seq({})
    OBVIOUS
  <2> QED
    BY <2>1, <2>2, FilterKeeps
<1>2. CASE at.snapshot # NoSnapshot
  <2>1. at.snapshot \in Payloads
    BY <1>2 DEF PlaceType
  <2>2. Containers(at) = at.snapshot["containers"]
    BY <1>2 DEF Containers
  <2> QED
    BY <2>1, <2>2, RowsListed DEF RowFields
<1> QED
  BY <1>1, <1>2

\* What is selected is listed.
LEMMA SelectedListed ==
  ASSUME NEW at \in PlaceType, Selected(at) # NoDetail
  PROVE  Selected(at) \in Elements(Containers(at)) /\ Selected(at).id \in Ids
<1> DEFINE rows == Filter(Containers(at), at.box.search)
           hits == {i \in 1 .. Len(rows) : rows[i].id = at.box.selectedId}
           hit  == Find(rows, LAMBDA c : c.id = at.box.selectedId)
<1>1. /\ rows \in Seq(Elements(Containers(at))) /\ Elements(Containers(at)) \subseteq AllOf("containers")
  BY ContainersListed
<1>2. hit = IF hits # {} THEN IF Min(hits) = 0 THEN NoDetail ELSE rows[Min(hits)] ELSE NoDetail
  BY DEF Find, SelectInSeq
<1>3. Selected(at) = IF hit # NoDetail \/ rows = <<>> THEN hit ELSE rows[1]
  BY DEF Selected
<1>4. hits \in SUBSET Nat
  OBVIOUS
<1>5. CASE hit # NoDetail
  <2>1. hits # {}
    BY <1>2, <1>5
  <2>2. Min(hits) \in hits
    <3> HIDE DEF hits
    <3> QED
      BY <1>4, <2>1, FirstPosition
  <2>3. Selected(at) = rows[Min(hits)]
    BY <1>2, <1>3, <1>5
  <2>4. Min(hits) \in 1 .. Len(rows)
    BY <2>2
  <2>5. Selected(at) \in Elements(Containers(at))
    <3> HIDE DEF rows, hits, hit
    <3> QED
      BY <1>1, <2>3, <2>4
  <2> QED
    BY <1>1, <2>5 DEF Ids
<1>6. CASE hit = NoDetail
  <2>1. rows # <<>> /\ Selected(at) = rows[1]
    BY <1>3, <1>6
  <2>2. Selected(at) \in Elements(Containers(at))
    <3> HIDE DEF rows, hits, hit
    <3> QED
      BY <1>1, <2>1
  <2> QED
    BY <1>1, <2>2 DEF Ids
<1> QED
  BY <1>5, <1>6

\* The hook asks for a container that is known, and from the list for an
\* agent container that is listed.
LEMMA AskedTyped ==
  ASSUME NEW at \in PlaceType, Mounted(at)
  PROVE  /\ Asked(at) \in Ids \cup {NoId}
         /\ at.page = "containers" =>
               Asked(at) \in {NoId} \cup {c.id : c \in {x \in Elements(Containers(at)) : x.agent}}
<1>1. at.url.id \in Ids \cup {NoId}
  BY DEF PlaceType, Params
<1>2. CASE at.page = "containers" /\ Asked(at) # NoId
  <2>1. Selected(at) # NoDetail
    BY <1>2 DEF Mounted
  <2>2. Asked(at) = Selected(at).id /\ Selected(at).agent
    BY <1>2 DEF Asked
  <2> QED
    BY <2>1, <2>2, SelectedListed
<1>3. CASE at.page # "containers"
  BY <1>1, <1>3 DEF Asked
<1> QED
  BY <1>2, <1>3

-----------------------------------------------------------------------------
(* The hook.                                                               *)

\* The hook before its first effect.
LEMMA NoHookTyped ==
  /\ NoHook \in HookType /\ HookSound(NoHook)
  /\ NoHook.asked = NoId /\ NoHook.awaited = FALSE
  BY DEF NoHook, HookType, HookSound

\* A request takes the place of the one under way.
LEMMA AskTyped ==
  ASSUME NEW h \in HookType, NEW id \in Ids \cup {NoId}
  PROVE  /\ Ask(h, id) \in HookType /\ Ask(h, id).asked = id
         /\ Ask(h, id).awaited = TRUE
         /\ id # NoId => HookSound(Ask(h, id))
<1> DEFINE n == IF h.awaited THEN h.older + 1 ELSE h.older
<1>1. h.older \in Nat /\ n \in Nat
  BY DEF HookType
<1>2. Ask(h, id) = [h EXCEPT !.asked = id, !.awaited = TRUE, !.older = n]
  BY DEF Ask
<1> HIDE DEF n
<1>3. Ask(h, id) \in HookType /\ Ask(h, id).asked = id /\ Ask(h, id).awaited = TRUE
  BY <1>1, <1>2 DEF HookType
<1> QED
  BY <1>3 DEF HookSound

\* A render leaves a hook that asks for what is shown.
LEMMA HookAtFits ==
  ASSUME TypeInv, HookInv, NEW at \in PlaceType
  PROVE  /\ HookAt(at) \in HookType /\ HookSound(HookAt(at))
         /\ HookFits(HookAt(at), at)
<1> DEFINE held == IF Stays(at) /\ Mounted(place) THEN hook ELSE NoHook
           none == [Ask(held, NoId) EXCEPT !.awaited = FALSE, !.metrics = NoSnapshot, !.unavailable = FALSE]
<1>1. held \in HookType /\ HookSound(held)
  BY NoHookTyped DEF TypeInv
<1>2. HookAt(at) = IF ~Mounted(at) THEN NoHook
                   ELSE IF Asked(at) = held.asked THEN held
                   ELSE IF Asked(at) # NoId THEN Ask(held, Asked(at))
                   ELSE none
  BY DEF HookAt
<1> HIDE DEF held
<1>3. CASE ~Mounted(at)
  BY <1>2, <1>3, NoHookTyped DEF HookFits
<1>4. CASE Mounted(at) /\ Asked(at) = held.asked
  BY <1>1, <1>2, <1>4 DEF HookFits
<1>5. CASE Mounted(at) /\ Asked(at) # held.asked
  <2>1. Asked(at) \in Ids \cup {NoId}
    BY <1>5, AskedTyped
  <2>2. CASE Asked(at) # NoId
    <3>1. /\ Ask(held, Asked(at)) \in HookType /\ Ask(held, Asked(at)).asked = Asked(at)
          /\ HookSound(Ask(held, Asked(at)))
      BY <1>1, <2>1, <2>2, AskTyped
    <3> QED
      BY <1>2, <1>5, <2>2, <3>1 DEF HookFits
  <2>3. CASE Asked(at) = NoId
    <3> DEFINE new == Ask(held, NoId)
    <3>1. new \in HookType /\ new.asked = NoId
      BY <1>1, AskTyped
    <3>2. HookAt(at) = [new EXCEPT !.awaited = FALSE, !.metrics = NoSnapshot, !.unavailable = FALSE]
      BY <1>2, <1>5, <2>3
    <3> HIDE DEF new
    <3>3. HookAt(at) \in HookType /\ HookAt(at).asked = NoId /\ HookAt(at).awaited = FALSE
      BY <3>1, <3>2 DEF HookType
    <3> QED
      BY <1>5, <2>3, <3>3 DEF HookFits, HookSound
  <2> QED
    BY <2>2, <2>3
<1> QED
  BY <1>3, <1>4, <1>5

\* An answer leaves a snapshot or the notice.
LEMMA AnsweredTyped ==
  ASSUME NEW h \in HookType, NEW got \in Payloads \cup {NoSnapshot}
  PROVE  /\ Answered(h, got) \in HookType
         /\ Answered(h, got).asked = h.asked /\ Answered(h, got).awaited = h.awaited
         /\ Answered(h, got).older = h.older
         /\ Answered(h, got).metrics # NoSnapshot \/ Answered(h, got).unavailable
<1>1. CASE got = NoSnapshot
  BY <1>1 DEF Answered, HookType
<1>2. CASE got # NoSnapshot
  BY <1>2 DEF Answered, HookType
<1> QED
  BY <1>1, <1>2

\* The answer for the container asked for.
LEMMA AnswerFits ==
  ASSUME TypeInv, NEW got \in Payloads \cup {NoSnapshot}, Answer(got)
  PROVE  /\ hook' \in HookType /\ HookSound(hook')
         /\ hook'.asked = hook.asked /\ hook # NoHook
         /\ view' = ViewAt(place, hook') /\ UNCHANGED <<placeVars, items, named>>
<1> DEFINE new == Answered(hook, got)
<1>1. hook \in HookType /\ hook.awaited /\ hook # NoHook
  BY NoHookTyped DEF TypeInv, Answer
<1>2. /\ new \in HookType /\ new.asked = hook.asked
      /\ new.metrics # NoSnapshot \/ new.unavailable
  BY <1>1, AnsweredTyped
<1>3. hook' = [new EXCEPT !.awaited = FALSE] /\ view' = ViewAt(place, hook')
      /\ UNCHANGED <<placeVars, items, named>>
  BY DEF Answer, TakeAnswer
<1> HIDE DEF new
<1>4. /\ hook' \in HookType /\ hook'.awaited = FALSE /\ hook'.asked = new.asked
      /\ hook'.metrics = new.metrics /\ hook'.unavailable = new.unavailable
  BY <1>2, <1>3 DEF HookType
<1>5. HookSound(hook')
  BY <1>2, <1>4 DEF HookSound
<1> QED
  BY <1>1, <1>2, <1>3, <1>4, <1>5

\* The answer to a request that another one has followed.
LEMMA OlderFits ==
  ASSUME TypeInv, NEW got \in Payloads \cup {NoSnapshot}, OlderAnswer(got)
  PROVE  /\ hook' \in HookType /\ HookSound(hook')
         /\ hook'.asked = hook.asked /\ hook # NoHook
         /\ view' = ViewAt(place, hook') /\ UNCHANGED <<placeVars, items, named>>
<1> DEFINE new == Answered(hook, got)
<1>1. hook \in HookType /\ hook.older > 0 /\ HookSound(hook) /\ hook # NoHook
  BY DEF TypeInv, OlderAnswer, NoHook
<1>2. /\ new \in HookType /\ new.asked = hook.asked /\ new.awaited = hook.awaited
      /\ new.older = hook.older /\ (new.metrics # NoSnapshot \/ new.unavailable)
  BY <1>1, AnsweredTyped
<1>3. /\ hook' = [new EXCEPT !.older = new.older - 1]
      /\ view' = ViewAt(place, hook') /\ UNCHANGED <<placeVars, items, named>>
  BY DEF OlderAnswer, TakeAnswer
<1>4. hook.older \in Nat /\ hook.older - 1 \in Nat
  BY <1>1 DEF HookType
<1> HIDE DEF new
<1>5. /\ hook' \in HookType /\ hook'.awaited = hook.awaited /\ hook'.asked = hook.asked
      /\ hook'.metrics = new.metrics /\ hook'.unavailable = new.unavailable
  BY <1>2, <1>3, <1>4 DEF HookType
<1>6. HookSound(hook')
  BY <1>1, <1>2, <1>5 DEF HookSound
<1> QED
  BY <1>1, <1>3, <1>5, <1>6

\* The tab that goes with the detail leaves a place a place.
LEMMA SettleTyped ==
  ASSUME DataAssumption, NEW at \in PlaceType
  PROVE  Settle(at) \in PlaceType
<1>1. FreshBox(NoParams) \in BoxType
  BY DEF FreshBox, NoParams, BoxType, Tabs
<1>2. at.box \in BoxType
  BY DEF PlaceType
<1>3. [at.box EXCEPT !.tab = "overview"] \in BoxType
  BY <1>2 DEF BoxType, Tabs
<1>4. MetaHooks(at) \subseteq BaseHooks
  BY DEF MetaHooks, BaseHooks
<1>5. PICK k \in SUBSET BaseHooks : k = IF Stays(at) THEN at.known \cap MetaHooks(at) ELSE {}
  BY <1>4
<1>6. PICK b \in BoxType : Settle(at) = [at EXCEPT !.box = b, !.known = k]
  <2>1. CASE at.page # "containers"
    BY <1>1, <1>5, <2>1 DEF Settle
  <2>2. CASE at.page = "containers" /\ Selected(at) = NoDetail
    BY <1>3, <1>5, <2>2 DEF Settle
  <2>3. CASE at.page = "containers" /\ Selected(at) # NoDetail
    BY <1>2, <1>5, <2>3 DEF Settle
  <2> QED
    BY <2>1, <2>2, <2>3
<1> QED
  BY <1>6 DEF PlaceType

\* Settle changes the box and the hooks that know; what it leaves of these are
\* hooks of the components that are mounted.
LEMMA SettledFields ==
  ASSUME NEW at \in PlaceType
  PROVE  /\ Settle(at).site = at.site /\ Settle(at).page = at.page /\ Settle(at).url = at.url
         /\ Settle(at).snapshot = at.snapshot
         /\ Settle(at).known \subseteq MetaHooks(Settle(at))
<1> DEFINE s == Settle(at)
<1>1. /\ s.site = at.site /\ s.page = at.page /\ s.url = at.url /\ s.snapshot = at.snapshot
      /\ s.known \subseteq MetaHooks(at)
      /\ s.page = "containers" => s.box.search = at.box.search /\ s.box.selectedId = at.box.selectedId
  BY DEF Settle, PlaceType, BoxType
<1> HIDE DEF s
<1>2. CASE at.page # "containers"
  BY <1>1, <1>2 DEF MetaHooks, s
<1>3. CASE at.page = "containers"
  <2>1. Containers(s) = Containers(at)
    BY <1>1 DEF Containers
  <2>2. Selected(s) = Selected(at)
    <3> DEFINE First(rows, id) == LET hit == Find(rows, LAMBDA c : c.id = id)
                                  IN  IF hit # NoDetail \/ rows = <<>> THEN hit ELSE rows[1]
               Of(x) == First(Filter(Containers(x), x.box.search), x.box.selectedId)
    <3>1. Selected(s) = Of(s) /\ Selected(at) = Of(at)
      BY DEF Selected
    <3> HIDE DEF First
    <3> QED
      BY <1>1, <1>3, <2>1, <3>1
  <2> QED
    BY <1>1, <2>2 DEF MetaHooks, s
<1> QED
  BY <1>2, <1>3

\* A list that is mounted anew.
LEMMA FreshViewTyped ==
  ASSUME NEW list
  PROVE  FreshView(list) \in ViewType
BY DEF FreshView, ViewType, Keys

\* Every render keeps the invariant, wherever it leads.
LEMMA ShowKeeps ==
  ASSUME PageInv, NEW at \in PlaceType, Show(at)
  PROVE  PageInv'
<1> DEFINE s == Settle(at)
<1>1. s \in PlaceType
  BY SettleTyped, DataAssumption
<1>2. /\ site' = s.site /\ page' = s.page /\ url' = s.url /\ snapshot' = s.snapshot
      /\ known' = s.known /\ box' = s.box
      /\ hook' = HookAt(s) /\ view' = ViewAt(s, hook')
      /\ items' = IF s.page = "diagnostics" THEN items ELSE <<>>
  BY DEF Show
<1> HIDE DEF s
<1>3. place' = s
  BY <1>1, <1>2 DEF place, PlaceType
<1>4. /\ hook' \in HookType /\ HookSound(hook')
      /\ HookFits(hook', s)
  BY <1>1, <1>2, HookAtFits DEF PageInv
<1>5. view' \in ViewType
  BY <1>2, FreshViewTyped DEF ViewAt, PageInv, TypeInv
<1>6. items' \in BoundedSeq(Insights, MaxItems)
  <2>1. <<>> \in BoundedSeq(Insights, MaxItems)
    <3>1. 0 \in 0 .. MaxItems
      BY BoundsAssumption
    <3>2. <<>> \in [1 .. 0 -> Insights]
      OBVIOUS
    <3> QED
      BY <3>1, <3>2 DEF BoundedSeq, SeqOf
  <2> QED
    BY <1>2, <2>1 DEF PageInv, TypeInv
<1>7. TypeInv'
  BY <1>1, <1>3, <1>4, <1>5, <1>6 DEF TypeInv
<1>8. HookInv'
  <2>1. s.known \subseteq MetaHooks(s)
    BY SettledFields DEF s
  <2> QED
    BY <1>2, <1>3, <1>4, <2>1 DEF HookInv
<1>9. List' = ListAt(s, hook')
  BY <1>3 DEF List
<1>10. ListInv'
  <2> SUFFICES ASSUME List' = NoList PROVE view' = FreshView(NoList)
    BY DEF ListInv, NoList, FreshView
  <2>1. CASE ListAt(s, hook') = List /\ Stays(s)
    BY <1>2, <1>9, <2>1 DEF ViewAt, PageInv, ListInv
  <2>2. CASE ~(ListAt(s, hook') = List /\ Stays(s))
    BY <1>2, <1>9, <2>2 DEF ViewAt
  <2> QED
    BY <2>1, <2>2
<1> QED
  BY <1>7, <1>8, <1>10 DEF PageInv

-----------------------------------------------------------------------------
(* The steps of the user.                                                  *)

\* The place a link leads to.
LEMMA LeaveTyped ==
  ASSUME TypeInv, NEW st \in Sites, NEW p \in Pages, NEW u \in Params
  PROVE  Leave(st, p, u) \in PlaceType
<1>1. snapshot \in Payloads \cup {NoSnapshot} /\ box \in BoxType /\ known \in SUBSET BaseHooks
  BY DEF TypeInv, PlaceType, place
<1>2. FreshBox(u) \in BoxType
  BY DEF FreshBox, BoxType, Tabs, Params
<1> QED
  BY <1>1, <1>2 DEF Leave, PlaceType

\* A link, and what it leaves behind.
LEMMA FollowKeeps ==
  ASSUME PageInv, NEW st \in Sites, NEW p \in Pages, NEW u \in Params, Follow(st, p, u)
  PROVE  PageInv'
<1>1. Show(Leave(st, p, u))
  BY DEF Follow
<1>2. Leave(st, p, u) \in PlaceType
  BY LeaveTyped DEF PageInv
<1> QED
  BY <1>1, <1>2, ShowKeeps

\* What is left of the address, with one parameter.
LEMMA ParamsTyped ==
  /\ NoParams \in Params
  /\ \A id \in Ids : [NoParams EXCEPT !.id = id] \in Params
  /\ \A id \in Ids, t \in Tabs : [NoParams EXCEPT !.id = id, !.tab = t] \in Params
  /\ \A n \in Names : [NoParams EXCEPT !.service = n] \in Params
  /\ \A n \in Pids : [NoParams EXCEPT !.pid = n] \in Params
BY DEF NoParams, Params, Tabs

\* Array.slice takes rows that were there.
LEMMA TakeElements ==
  ASSUME NEW R, NEW rows \in Seq(R), NEW n \in Nat
  PROVE  Elements(Take(rows, n)) \subseteq Elements(rows)
<1> DEFINE m == IF Len(rows) < n THEN Len(rows) ELSE n
<1>1. m \in Nat /\ m <= Len(rows) /\ Take(rows, n) = SubSeq(rows, 1, m)
  BY DEF Take
<1> HIDE DEF m
<1>2. DOMAIN SubSeq(rows, 1, m) = 1 .. m /\ \A i \in 1 .. m : SubSeq(rows, 1, m)[i] = rows[i] /\ i \in DOMAIN rows
  BY <1>1
<1> QED
  BY <1>1, <1>2 DEF Elements

\* The peers of a container are containers of a payload.
LEMMA PeersKeep ==
  ASSUME NEW at \in PlaceType, at.snapshot # NoSnapshot, NEW c
  PROVE  Peers(at, c) \subseteq AllOf("containers")
<1>1. Overviews(at) \subseteq Payloads
  BY DEF Overviews, PlaceType
<1> QED
  BY <1>1 DEF Peers, AllOf

\* What is selected is listed in a snapshot.
LEMMA SelectedShown ==
  ASSUME NEW at \in PlaceType, Selected(at) # NoDetail
  PROVE  at.snapshot # NoSnapshot
<1>1. Selected(at) \in Elements(Containers(at))
  BY SelectedListed
<1>2. Elements(<<>>) = {}
  BY DEF Elements
<1> QED
  BY <1>1, <1>2 DEF Containers

\* The links of cards and containers.
LEMMA OpenKeeps ==
  ASSUME PageInv, OpenCard \/ OpenInnerCard \/ OpenMetrics \/ SwitchContainer
  PROVE  PageInv'
<1>1. place \in PlaceType /\ place.site = site /\ place.page = page /\ place.url = url /\ url \in Params
      /\ site \in Sites /\ page \in Pages /\ "containers" \in Pages /\ "container-metrics" \in Pages
      /\ Base("href") \in Sites /\ Base("base") \in Sites
  BY DEF PageInv, TypeInv, place, PlaceType, Pages, Base, Sites
<1>2. Elements(Containers(place)) \subseteq AllOf("containers") /\ Containers(place) \in Seq(Elements(Containers(place)))
  BY <1>1, ContainersListed
<1>3. \A c \in AllOf("containers") : c.id \in Ids
  BY DEF Ids
<1>4. MaxCards \in Nat
  BY BoundsAssumption
<1>5. CASE OpenCard
  <2>1. PICK c \in Elements(Take(Containers(place), MaxCards)) :
               Follow(Base("href"), "containers", [NoParams EXCEPT !.id = c.id])
    BY <1>5 DEF OpenCard
  <2>2. c.id \in Ids
    BY <1>2, <1>3, <1>4, <2>1, TakeElements
  <2> QED
    BY <1>1, <2>1, <2>2, ParamsTyped, FollowKeeps
<1>6. CASE OpenInnerCard
  <2>1. hook.metrics # NoSnapshot
    BY <1>6 DEF OpenInnerCard
  <2>2. PICK c \in Elements(Take(hook.metrics.containers, MaxCards)) :
               Follow(site, "container-metrics", [NoParams EXCEPT !.id = c.id])
    BY <1>6 DEF OpenInnerCard
  <2>3. hook.metrics \in Payloads
    BY <2>1 DEF PageInv, TypeInv, HookType
  <2> DEFINE rows == hook.metrics["containers"]
  <2>4. rows \in Seq(Elements(rows)) /\ Elements(rows) \subseteq AllOf("containers")
    BY <2>3, RowsListed DEF RowFields
  <2>5. c \in Elements(Take(rows, MaxCards))
    BY <2>2
  <2> HIDE DEF rows
  <2>6. c.id \in Ids
    BY <1>3, <1>4, <2>4, <2>5, TakeElements
  <2> QED
    BY <1>1, <2>2, <2>6, ParamsTyped, FollowKeeps
<1>7. CASE OpenMetrics
  <2>1. Selected(place).id \in Ids
    BY <1>1, <1>7, SelectedListed DEF OpenMetrics, MetricsLink
  <2>2. Follow(Base("href"), "container-metrics", [NoParams EXCEPT !.id = Selected(place).id])
    BY <1>7 DEF OpenMetrics
  <2> QED
    BY <1>1, <2>1, <2>2, ParamsTyped, FollowKeeps
<1>8. CASE SwitchContainer
  <2>1. CASE Follow(Base("href"), "containers", NoParams)
    BY <1>1, <2>1, ParamsTyped, FollowKeeps
  <2>2. CASE \E c \in Elements(Containers(place)) :
                c.agent /\ Follow(Base("base"), page, [NoParams EXCEPT !.id = c.id, !.tab = url.tab])
    <3>1. PICK c \in Elements(Containers(place)) : Follow(Base("base"), page, [NoParams EXCEPT !.id = c.id, !.tab = url.tab])
      BY <2>2
    <3>2. c.id \in Ids /\ url.tab \in Tabs
      BY <1>1, <1>2, <1>3 DEF Params
    <3> QED
      BY <1>1, <3>1, <3>2, ParamsTyped, FollowKeeps
  <2> QED
    BY <1>8, <2>1, <2>2 DEF SwitchContainer
<1> QED
  BY <1>5, <1>6, <1>7, <1>8

\* The steps that stay on the page and change one field of the place.
LEMMA StayKeeps ==
  ASSUME PageInv, \/ \E p \in Payloads : HostSnapshot(p)
                  \/ \E h \in BaseHooks : MetaArrives(h)
                  \/ SelectContainer
                  \/ \E q \in Queries \cup {NoQuery} : SearchContainers(q)
                  \/ \E t \in Tabs : SetTab(t) \/ SetMetricsTab(t)
                  \/ \E p \in AllOf("processes") : SelectProcess(p)
                  \/ \E s \in AllOf("services") : SelectService(s)
  PROVE  PageInv'
<1>1. place \in PlaceType
  BY DEF PageInv, TypeInv
<1>2. /\ \A p \in Payloads : [place EXCEPT !.snapshot = p] \in PlaceType
      /\ \A h \in BaseHooks : [place EXCEPT !.known = known \cup {h}] \in PlaceType
      /\ \A id \in Ids : [place EXCEPT !.box.selectedId = id] \in PlaceType
      /\ \A q \in Queries \cup {NoQuery} : [place EXCEPT !.box.search = q] \in PlaceType
      /\ \A t \in Tabs : [place EXCEPT !.box.tab = t] \in PlaceType /\ [place EXCEPT !.url.tab = t] \in PlaceType
      /\ \A n \in Pids : [place EXCEPT !.url.pid = n] \in PlaceType
      /\ \A n \in Names : [place EXCEPT !.url.service = n] \in PlaceType
  BY <1>1 DEF PlaceType, BoxType, Params, place
<1>3. ASSUME NEW p \in Payloads, HostSnapshot(p) PROVE PageInv'
  BY <1>2, <1>3, ShowKeeps DEF HostSnapshot
<1>4. CASE SelectContainer
  <2>1. /\ Selected(place) # NoDetail
        /\ \E c \in Elements(Filter(Containers(place), box.search))
                      \cup IF box.tab = "overview" THEN Peers(place, Selected(place)) ELSE {} :
              Show([place EXCEPT !.box.selectedId = c.id])
    BY <1>4 DEF SelectContainer
  <2>2. PICK c \in Elements(Filter(Containers(place), box.search)) \cup Peers(place, Selected(place)) :
                 Show([place EXCEPT !.box.selectedId = c.id])
    BY <2>1
  <2>3. c \in AllOf("containers")
    BY <1>1, <2>1, ContainersListed, PeersKeep, SelectedShown
  <2>4. c.id \in Ids
    BY <2>3 DEF Ids
  <2> QED
    BY <1>2, <2>2, <2>4, ShowKeeps
<1>5. ASSUME NEW q \in Queries \cup {NoQuery}, SearchContainers(q) PROVE PageInv'
  BY <1>2, <1>5, ShowKeeps DEF SearchContainers
<1>6. ASSUME NEW t \in Tabs, SetTab(t) \/ SetMetricsTab(t) PROVE PageInv'
  BY <1>2, <1>6, ShowKeeps DEF SetTab, SetMetricsTab
<1>7. ASSUME NEW p \in AllOf("processes"), SelectProcess(p) PROVE PageInv'
  BY <1>2, <1>7, ShowKeeps DEF SelectProcess, Pids
<1>8. ASSUME NEW s \in AllOf("services"), SelectService(s) PROVE PageInv'
  BY <1>2, <1>8, ShowKeeps DEF SelectService, Names
<1>9. ASSUME NEW h \in BaseHooks, MetaArrives(h) PROVE PageInv'
  <2>1. Show([place EXCEPT !.known = known \cup {h}])
    BY <1>9 DEF MetaArrives, place
  <2> QED
    BY <1>2, <2>1, ShowKeeps
<1> QED
  BY <1>3, <1>4, <1>5, <1>6, <1>7, <1>8, <1>9

\* A list that is mounted has a payload.
LEMMA SourceListed ==
  ASSUME TypeInv, List # NoList
  PROVE  /\ Source \in Payloads /\ List.kind \in Lists
         /\ page \in Lists => Source = snapshot /\ List = [kind |-> page, surface |-> "page"]
         /\ page = "containers" => List.surface = "containerDetail"
<1>1. /\ place.page = page /\ place.snapshot = snapshot /\ place.box = box /\ place.url = url
      /\ snapshot \in Payloads \cup {NoSnapshot} /\ box.tab \in Tabs /\ url.tab \in Tabs
      /\ hook.metrics \in Payloads \cup {NoSnapshot}
  BY DEF TypeInv, place, PlaceType, BoxType, Params, HookType
<1>2. \/ /\ page \in Lists /\ snapshot # NoSnapshot
         /\ List = [kind |-> page, surface |-> "page"]
      \/ /\ page = "containers" /\ box.tab # "overview" /\ hook.metrics # NoSnapshot
         /\ List = [kind |-> box.tab, surface |-> "containerDetail"]
      \/ /\ page = "container-metrics" /\ url.tab # "overview" /\ hook.metrics # NoSnapshot
         /\ List = [kind |-> url.tab, surface |-> "page"]
  BY <1>1 DEF List, ListAt, MetricsPage, NoList
<1>3. Tabs = Lists \cup {"overview"} /\ "containers" \notin Lists /\ "container-metrics" \notin Lists
  BY DEF Tabs, Lists
<1>4. CASE page \in Lists /\ snapshot # NoSnapshot /\ List = [kind |-> page, surface |-> "page"]
  BY <1>1, <1>3, <1>4 DEF Source
<1>5. CASE /\ page = "containers" /\ box.tab # "overview" /\ hook.metrics # NoSnapshot
           /\ List = [kind |-> box.tab, surface |-> "containerDetail"]
  BY <1>1, <1>3, <1>5 DEF Source
<1>6. CASE /\ page = "container-metrics" /\ url.tab # "overview" /\ hook.metrics # NoSnapshot
           /\ List = [kind |-> url.tab, surface |-> "page"]
  BY <1>1, <1>3, <1>6 DEF Source
<1> QED
  BY <1>2, <1>4, <1>5, <1>6

\* The fields of the mounted list: no other part changes.
LEMMA AdjustKeeps ==
  ASSUME PageInv, List # NoList, NEW v \in ViewType, Adjust(v)
  PROVE  PageInv'
<1>1. view' = v /\ UNCHANGED <<placeVars, hook, items>>
  BY DEF Adjust
<1>2. place' = place /\ List' = List
  BY <1>1 DEF placeVars, place, List
<1>3. TypeInv' /\ HookInv'
  BY <1>1, <1>2 DEF PageInv, TypeInv, HookInv, placeVars
<1>4. ListInv'
  BY <1>2 DEF ListInv, NoList, FreshView
<1> QED
  BY <1>3, <1>4 DEF PageInv

\* What the user sets in the mounted list.
LEMMA FieldsKeep ==
  ASSUME PageInv, \/ \E q \in Queries \cup {NoQuery} : SearchRows(q)
                  \/ \E k \in Keys : ToggleSort(k)
                  \/ \E m \in {"tree", "list"} : SetMode(m)
                  \/ ToggleBranch
  PROVE  PageInv'
<1>1. view \in ViewType
  BY DEF PageInv, TypeInv
<1>2. List.kind \in Lists => List # NoList
  BY DEF NoList, Lists
<1>3. ASSUME NEW q \in Queries \cup {NoQuery}, SearchRows(q) PROVE PageInv'
  <2>1. [view EXCEPT !.search = q] \in ViewType
    BY <1>1 DEF ViewType
  <2> QED
    BY <1>3, <2>1, AdjustKeeps DEF SearchRows
<1>4. ASSUME NEW k \in Keys, ToggleSort(k) PROVE PageInv'
  <2> DEFINE v == [view EXCEPT !.key = k, !.asc = view.key = k /\ ~view.asc]
  <2>1. v \in ViewType
    <3>1. (view.key = k /\ ~view.asc) \in BOOLEAN
      OBVIOUS
    <3> QED
      BY <1>1, <3>1 DEF ViewType
  <2>2. Adjust(v) /\ List # NoList
    BY <1>2, <1>4 DEF ToggleSort, Lists
  <2> HIDE DEF v
  <2> QED
    BY <2>1, <2>2, AdjustKeeps
<1>5. ASSUME NEW m \in {"tree", "list"}, SetMode(m) PROVE PageInv'
  <2>1. [view EXCEPT !.mode = m] \in ViewType
    BY <1>1 DEF ViewType
  <2> QED
    BY <1>2, <1>5, <2>1, AdjustKeeps DEF SetMode, Lists
<1>6. CASE ToggleBranch
  <2>1. List.kind = "services" /\ List # NoList
    BY <1>2, <1>6 DEF ToggleBranch, Lists
  <2>2. PICK n \in Nodes(Matching) : Adjust([view EXCEPT !.toggled = IF n \in @ THEN @ \ {n} ELSE @ \cup {n}])
    BY <1>6 DEF ToggleBranch
  <2>3. Source \in Payloads
    BY <2>1, SourceListed DEF PageInv, TypeInv
  <2> DEFINE listed == Filter(Source["services"], view.search)
  <2>4. listed \in Seq(Elements(Source["services"])) /\ Elements(Source["services"]) \subseteq AllOf("services")
    BY <2>3, RowsListed DEF RowFields, Lists
  <2>5. Matching = listed
    BY <2>1 DEF Matching
  <2> HIDE DEF listed
  <2>6. n \in UNION {Prefixes(m) : m \in Names}
    <3>1. PICK i \in DOMAIN listed : n \in Prefixes(listed[i].name)
      BY <2>2, <2>5 DEF Nodes
    <3>2. listed[i] \in AllOf("services")
      BY <2>4
    <3>3. listed[i].name \in Names
      BY <3>2 DEF Names
    <3> QED
      BY <3>1, <3>3
  <2> DEFINE toggled == IF n \in view.toggled THEN view.toggled \ {n} ELSE view.toggled \cup {n}
             v == [view EXCEPT !.toggled = toggled]
  <2>7. toggled \in SUBSET UNION {Prefixes(m) : m \in Names}
    BY <1>1, <2>6 DEF ViewType
  <2>8. Adjust(v)
    BY <2>2
  <2> HIDE DEF toggled
  <2>9. v \in ViewType
    BY <1>1, <2>7 DEF ViewType
  <2> HIDE DEF v
  <2> QED
    BY <2>1, <2>8, <2>9, AdjustKeeps
<1> QED
  BY <1>3, <1>4, <1>5, <1>6

\* The sidebar and the related links.
LEMMA LinkKeeps ==
  ASSUME PageInv, \/ \E p \in Pages : Navigate(p)
                  \/ \E p \in AllOf("processes") : FollowProcess(p)
                  \/ \E s \in AllOf("services") : FollowService(s)
  PROVE  PageInv'
<1>1. {"agent", "drillDown", "hubRoot"} = Sites /\ "services" \in Pages /\ "processes" \in Pages
  BY DEF Sites, Pages, Lists
<1>2. ASSUME NEW p \in Pages, Navigate(p) PROVE PageInv'
  <2> DEFINE st == IF site = "agent" THEN "agent" ELSE "drillDown"
  <2>1. Follow(st, p, NoParams) /\ st \in Sites
    BY <1>1, <1>2 DEF Navigate
  <2> HIDE DEF st
  <2> QED
    BY <2>1, ParamsTyped, FollowKeeps
<1>3. Root \in Sites
  BY <1>1 DEF Root
<1>4. ASSUME NEW p \in AllOf("processes"), FollowProcess(p) PROVE PageInv'
  <2>1. p.pid \in Pids
    BY DEF Pids
  <2> QED
    BY <1>1, <1>3, <1>4, <2>1, ParamsTyped, FollowKeeps DEF FollowProcess
<1>5. ASSUME NEW s \in AllOf("services"), FollowService(s) PROVE PageInv'
  <2>1. s.name \in Names
    BY DEF Names
  <2> QED
    BY <1>1, <1>3, <1>5, <2>1, ParamsTyped, FollowKeeps DEF FollowService
<1> QED
  BY <1>2, <1>4, <1>5

\* An answer changes the hook, and with it the list of a container's metrics.
LEMMA AnswerKeeps ==
  ASSUME PageInv, NEW got \in Payloads \cup {NoSnapshot}, Answer(got) \/ OlderAnswer(got)
  PROVE  PageInv'
<1>1. /\ hook' \in HookType /\ HookSound(hook')
      /\ hook'.asked = hook.asked /\ hook # NoHook
      /\ view' = ViewAt(place, hook') /\ UNCHANGED <<placeVars, items, named>>
  BY AnswerFits, OlderFits DEF PageInv
<1>2. place' = place /\ List' = ListAt(place, hook')
  BY <1>1 DEF placeVars, place, List
<1>3. view' \in ViewType
  BY <1>1, FreshViewTyped DEF ViewAt, PageInv, TypeInv
<1>4. TypeInv'
  BY <1>1, <1>2, <1>3 DEF TypeInv, PageInv
<1>5. HookInv'
  BY <1>1, <1>2 DEF HookInv, HookFits, PageInv, placeVars
<1>6. ListInv'
  <2> SUFFICES ASSUME List' = NoList PROVE view' = FreshView(NoList)
    BY DEF ListInv, NoList, FreshView
  <2>1. CASE ListAt(place, hook') = List /\ Stays(place)
    BY <1>1, <1>2, <2>1 DEF ViewAt, PageInv, ListInv
  <2>2. CASE ~(ListAt(place, hook') = List /\ Stays(place))
    BY <1>1, <1>2, <2>2 DEF ViewAt
  <2> QED
    BY <2>1, <2>2
<1> QED
  BY <1>4, <1>5, <1>6 DEF PageInv

\* The diagnoses are no part of the other pages.
LEMMA QuietStep ==
  ASSUME PageInv, UNCHANGED <<placeVars, view, hook>>, items' \in BoundedSeq(Insights, MaxItems)
  PROVE  PageInv'
<1>1. place' = place /\ List' = List
  BY DEF placeVars, place, List
<1> QED
  BY <1>1 DEF PageInv, TypeInv, HookInv, ListInv, NoList, FreshView, placeVars

\* What a related link named stays named while the page stays as it is.
LEMMA StaysNamed ==
  ASSUME NamedInv, UNCHANGED <<page, url, named>>,
         view' = view \/ \E list : view' = FreshView(list)
  PROVE  NamedInv'
BY DEF NamedInv, FreshView

\* A render of the page that is shown.
LEMMA RenderNamed ==
  ASSUME NamedInv, NEW at \in PlaceType, at.page = page, at.url = url, Show(at), UNCHANGED named
  PROVE  NamedInv'
<1>1. page' = page /\ url' = url
  BY SettledFields DEF Show
<1>2. view' = view \/ \E list : view' = FreshView(list)
  BY DEF Show, ViewAt
<1> QED
  BY <1>1, <1>2, StaysNamed

\* A related link leads to a list that is not the one it is in, and leaves it
\* without a search.
LEMMA FollowNamed ==
  ASSUME PageInv, NEW p \in Lists, NEW u \in Params, page # p, Follow(Root, p, u)
  PROVE  page' = p /\ url' = u /\ view'.search = NoQuery
<1> DEFINE at == Leave(Root, p, u)
<1>1. Root \in Sites /\ p \in Pages
  BY DEF Root, Sites, Pages
<1>2. at \in PlaceType
  BY <1>1, LeaveTyped DEF PageInv
<1>3. at.page = p /\ at.url = u
  BY DEF Leave
<1>4. Show(at)
  BY DEF Follow
<1> HIDE DEF at
<1>5. Settle(at).page = p /\ Settle(at).url = u
  BY <1>2, <1>3, SettledFields
<1>6. page' = p /\ url' = u /\ view' = ViewAt(Settle(at), hook')
  BY <1>4, <1>5 DEF Show
<1>7. view' = FreshView(ListAt(Settle(at), hook'))
  BY <1>5, <1>6 DEF ViewAt, Stays
<1> QED
  BY <1>6, <1>7 DEF FreshView

\* Every step keeps what a related link named.
LEMMA NamedNext ==
  ASSUME BrowserInv, [Next]_vars
  PROVE  NamedInv'
<1>1. place \in PlaceType /\ place.page = page /\ place.url = url
  BY DEF BrowserInv, PageInv, TypeInv, place
<1>2. List.kind \in Lists /\ page \in Lists => List.kind = page
  <2>1. List.kind \in Lists => List # NoList
    BY DEF NoList, Lists
  <2> QED
    BY <2>1, SourceListed DEF BrowserInv, PageInv
<1>3. ASSUME named' = NoDetail PROVE NamedInv'
  BY <1>3 DEF NamedInv
<1>4. ASSUME NEW p \in Payloads, HostSnapshot(p) PROVE NamedInv'
  <2> DEFINE at == [place EXCEPT !.snapshot = p]
  <2>1. at \in PlaceType /\ at.page = page /\ at.url = url
    BY <1>1 DEF PlaceType
  <2>2. Show(at) /\ UNCHANGED named
    BY <1>4 DEF HostSnapshot
  <2> HIDE DEF at
  <2> QED
    BY <2>1, <2>2, RenderNamed DEF BrowserInv
<1>5. ASSUME NEW h \in BaseHooks, MetaArrives(h) PROVE NamedInv'
  <2> DEFINE at == [place EXCEPT !.known = known \cup {h}]
  <2>1. at \in PlaceType /\ at.page = page /\ at.url = url
    BY <1>1 DEF PlaceType, place
  <2>2. Show(at) /\ UNCHANGED named
    BY <1>5 DEF MetaArrives, place
  <2> HIDE DEF at
  <2> QED
    BY <2>1, <2>2, RenderNamed DEF BrowserInv
<1>6. ASSUME NEW got \in Payloads \cup {NoSnapshot},
             Answer(got) \/ OlderAnswer(got)
      PROVE  NamedInv'
  <2>1. view' = ViewAt(place, hook') /\ UNCHANGED <<placeVars, items, named>>
    BY <1>6, AnswerFits, OlderFits DEF BrowserInv, PageInv
  <2>2. view' = view \/ \E list : view' = FreshView(list)
    BY <2>1 DEF ViewAt
  <2> QED
    BY <2>1, <2>2, StaysNamed DEF BrowserInv, placeVars
<1>7. ASSUME Diagnosed \/ UNCHANGED vars PROVE NamedInv'
  BY <1>7, StaysNamed DEF Diagnosed, vars, placeVars, BrowserInv
<1>8. ASSUME NEW p \in AllOf("processes"), FollowProcess(p) PROVE NamedInv'
  <2> DEFINE u == [NoParams EXCEPT !.pid = p.pid]
  <2>1. page # "processes" /\ "processes" \in Lists
    BY <1>2, <1>8 DEF FollowProcess, Lists
  <2>2. u \in Params /\ u.pid = p.pid
    BY ParamsTyped DEF Pids, NoParams
  <2>3. Follow(Root, "processes", u) /\ named' = [kind |-> "processes", key |-> p.pid]
    BY <1>8 DEF FollowProcess
  <2> HIDE DEF u
  <2>4. page' = "processes" /\ url' = u /\ view'.search = NoQuery
    BY <2>1, <2>2, <2>3, FollowNamed DEF BrowserInv
  <2> QED
    BY <2>2, <2>3, <2>4 DEF NamedInv
<1>9. ASSUME NEW s \in AllOf("services"), FollowService(s) PROVE NamedInv'
  <2> DEFINE u == [NoParams EXCEPT !.service = s.name]
  <2>1. page # "services" /\ "services" \in Lists
    BY <1>2, <1>9 DEF FollowService, Lists
  <2>2. u \in Params /\ u.service = s.name
    BY ParamsTyped DEF Names, NoParams
  <2>3. Follow(Root, "services", u) /\ named' = [kind |-> "services", key |-> s.name]
    BY <1>9 DEF FollowService
  <2> HIDE DEF u
  <2>4. page' = "services" /\ url' = u /\ view'.search = NoQuery
    BY <2>1, <2>2, <2>3, FollowNamed DEF BrowserInv
  <2> QED
    BY <2>2, <2>3, <2>4 DEF NamedInv
<1>10. ASSUME \/ \E p \in Pages : Navigate(p)
              \/ OpenCard \/ OpenInnerCard \/ OpenMetrics \/ SwitchContainer \/ SelectContainer
              \/ \E q \in Queries \cup {NoQuery} : SearchContainers(q) \/ SearchRows(q)
              \/ \E t \in Tabs : SetTab(t) \/ SetMetricsTab(t)
              \/ \E k \in Keys : ToggleSort(k)
              \/ \E m \in {"tree", "list"} : SetMode(m)
              \/ ToggleBranch
              \/ \E p \in AllOf("processes") : SelectProcess(p)
              \/ \E s \in AllOf("services") : SelectService(s)
       PROVE  named' = NoDetail
  BY <1>10 DEF Navigate, OpenCard, OpenInnerCard, OpenMetrics, SwitchContainer, SelectContainer,
               SearchContainers, SearchRows, SetTab, SetMetricsTab, ToggleSort, SetMode, ToggleBranch,
               SelectProcess, SelectService, Click
<1> QED
  BY <1>3, <1>4, <1>5, <1>6, <1>7, <1>8, <1>9, <1>10 DEF Next

\* The invariant is inductive.
LEMMA BrowserNext ==
  ASSUME BrowserInv, [Next]_vars
  PROVE  BrowserInv'
<1>1. PageInv
  BY DEF BrowserInv
<1>2. CASE UNCHANGED vars
  <2>1. UNCHANGED <<placeVars, view, hook>> /\ items' \in BoundedSeq(Insights, MaxItems)
    BY <1>1, <1>2 DEF vars, PageInv, TypeInv
  <2> QED
    BY <1>1, <2>1, QuietStep, NamedNext DEF BrowserInv
<1>3. ASSUME Diagnosed PROVE PageInv'
  BY <1>1, <1>3, QuietStep DEF Diagnosed
<1>4. ASSUME Next PROVE PageInv'
  BY <1>1, <1>3, <1>4, StayKeeps, OpenKeeps, FieldsKeep, LinkKeeps, AnswerKeeps DEF Next
<1> QED
  BY <1>2, <1>4, NamedNext DEF BrowserInv

\* It holds on the page the browser opens.
LEMMA BrowserInit ==
  ASSUME Init
  PROVE  BrowserInv
<1>1. /\ site \in {"agent", "drillDown"} /\ page \in {"dashboard", "containers", "container-metrics"}
      /\ snapshot = NoSnapshot /\ known = {} /\ named = NoDetail /\ items = <<>> /\ view = FreshView(NoList)
      /\ url \in {NoParams} \cup {[NoParams EXCEPT !.id = id] : id \in TypedIds}
      /\ box = IF page = "containers" THEN FreshBox(url) ELSE FreshBox(NoParams)
      /\ hook = IF page = "container-metrics" /\ url.id # NoId THEN Ask(NoHook, url.id) ELSE NoHook
  BY DEF Init
<1>2. url \in Params /\ url.id \in Ids \cup {NoId}
  <2>1. TypedIds \subseteq Ids
    BY DEF Ids
  <2> QED
    BY <1>1, <2>1, ParamsTyped DEF Params
<1>3. FreshBox(url) \in BoxType /\ FreshBox(NoParams) \in BoxType
  BY <1>2, ParamsTyped DEF FreshBox, BoxType, Tabs, Params
<1>4. place \in PlaceType
  BY <1>1, <1>2, <1>3 DEF place, PlaceType, Sites, Pages
<1>5. /\ hook \in HookType /\ HookSound(hook)
      /\ hook # NoHook => page = "container-metrics"
      /\ page = "container-metrics" => hook.asked = url.id
  <2>1. CASE page = "container-metrics" /\ url.id # NoId
    <3>1. hook = Ask(NoHook, url.id)
      BY <1>1, <2>1
    <3>2. hook \in HookType /\ HookSound(hook) /\ hook.asked = url.id
      BY <1>2, <2>1, <3>1, NoHookTyped, AskTyped
    <3> QED
      BY <2>1, <3>2
  <2>2. CASE ~(page = "container-metrics" /\ url.id # NoId)
    BY <1>1, <2>2, NoHookTyped
  <2> QED
    BY <2>1, <2>2
<1>6. Selected(place) = NoDetail \/ page # "containers"
  <2> SUFFICES ASSUME page = "containers" PROVE Selected(place) = NoDetail
    OBVIOUS
  <2>1. Containers(place) = <<>> /\ place.box.search = NoQuery
    BY <1>1 DEF Containers, place, FreshBox
  <2>2. Filter(Containers(place), place.box.search) = <<>>
    BY <2>1 DEF Filter
  <2>3. Find(<<>>, LAMBDA c : c.id = place.box.selectedId) = NoDetail
    <3>1. {i \in 1 .. Len(<<>>) : <<>>[i].id = place.box.selectedId} = {}
      OBVIOUS
    <3> QED
      BY <3>1 DEF Find, SelectInSeq
  <2> QED
    BY <2>2, <2>3 DEF Selected
<1>7. HookFits(hook, place)
  <2>1. place.site = site /\ place.page = page /\ place.url = url
    BY DEF place
  <2>2. ~Mounted(place) => hook = NoHook
    BY <1>5, <2>1 DEF Mounted
  <2>3. ASSUME Mounted(place) PROVE hook.asked = Asked(place)
    <3>1. page = "container-metrics"
      BY <1>6, <2>1, <2>3 DEF Mounted
    <3>2. ~InHub(place)
      BY <1>1 DEF InHub, place
    <3> QED
      BY <1>5, <2>1, <3>1, <3>2 DEF Asked
  <2> QED
    BY <2>2, <2>3 DEF HookFits
<1>8. items \in BoundedSeq(Insights, MaxItems)
  <2>1. 0 \in 0 .. MaxItems
    BY BoundsAssumption
  <2>2. <<>> \in [1 .. 0 -> Insights]
    OBVIOUS
  <2> QED
    BY <1>1, <2>1, <2>2 DEF BoundedSeq, SeqOf
<1>9. TypeInv
  BY <1>1, <1>4, <1>5, <1>8, FreshViewTyped DEF TypeInv
<1> QED
  BY <1>1, <1>7, <1>9 DEF BrowserInv, PageInv, HookInv, ListInv, NamedInv

-----------------------------------------------------------------------------
(* Where the links lead.                                                   *)

\* What the detail panels look up.
ServiceNamed(rows, n) == Find(rows, LAMBDA s : s.name = n)
ProcessNamed(rows, n) == Find(rows, LAMBDA p : p.pid = n)

\* A name finds a service that bears it, a pid a process, if one is listed.
LEMMA NameFound ==
  ASSUME NEW R, NEW rows \in Seq(R), NEW n
  PROVE  IF \E r \in Elements(rows) : r.name = n
         THEN ServiceNamed(rows, n) \in {r \in Elements(rows) : r.name = n}
         ELSE ServiceNamed(rows, n) = NoDetail
<1> DEFINE hits == {i \in 1 .. Len(rows) : rows[i].name = n}
<1>1. ServiceNamed(rows, n)
        = IF hits # {} THEN IF Min(hits) = 0 THEN NoDetail ELSE rows[Min(hits)] ELSE NoDetail
  BY DEF ServiceNamed, Find, SelectInSeq
<1>2. Len(rows) \in Nat /\ DOMAIN rows = 1 .. Len(rows)
  OBVIOUS
<1>3. (hits # {} <=> \E r \in Elements(rows) : r.name = n) /\ hits \in SUBSET Nat
  BY <1>2 DEF Elements
<1>4. ASSUME hits # {} PROVE Min(hits) \in hits
  <2> HIDE DEF hits
  <2> QED
    BY <1>3, <1>4, FirstPosition
<1>5. ASSUME hits # {} PROVE Min(hits) \in 1 .. Len(rows) /\ rows[Min(hits)].name = n
  BY <1>4, <1>5
<1> HIDE DEF hits
<1>6. ASSUME hits # {} PROVE rows[Min(hits)] \in Elements(rows) /\ Min(hits) # 0
  BY <1>2, <1>5, <1>6 DEF Elements
<1> QED
  BY <1>1, <1>3, <1>5, <1>6

LEMMA PidFound ==
  ASSUME NEW R, NEW rows \in Seq(R), NEW n
  PROVE  IF \E r \in Elements(rows) : r.pid = n
         THEN ProcessNamed(rows, n) \in {r \in Elements(rows) : r.pid = n}
         ELSE ProcessNamed(rows, n) = NoDetail
<1> DEFINE hits == {i \in 1 .. Len(rows) : rows[i].pid = n}
<1>1. ProcessNamed(rows, n)
        = IF hits # {} THEN IF Min(hits) = 0 THEN NoDetail ELSE rows[Min(hits)] ELSE NoDetail
  BY DEF ProcessNamed, Find, SelectInSeq
<1>2. Len(rows) \in Nat /\ DOMAIN rows = 1 .. Len(rows)
  OBVIOUS
<1>3. (hits # {} <=> \E r \in Elements(rows) : r.pid = n) /\ hits \in SUBSET Nat
  BY <1>2 DEF Elements
<1>4. ASSUME hits # {} PROVE Min(hits) \in hits
  <2> HIDE DEF hits
  <2> QED
    BY <1>3, <1>4, FirstPosition
<1>5. ASSUME hits # {} PROVE Min(hits) \in 1 .. Len(rows) /\ rows[Min(hits)].pid = n
  BY <1>4, <1>5
<1> HIDE DEF hits
<1>6. ASSUME hits # {} PROVE rows[Min(hits)] \in Elements(rows) /\ Min(hits) # 0
  BY <1>2, <1>5, <1>6 DEF Elements
<1> QED
  BY <1>1, <1>3, <1>5, <1>6

\* The page a link has led to shows, in every snapshot, what the link named.
LEMMA NamedShown ==
  ASSUME BrowserInv, named # NoDetail, List # NoList
  PROVE  LET hits == {r \in Elements(Source[named.kind]) : r[RowKey[named.kind]] = named.key}
         IN  /\ List = [kind |-> named.kind, surface |-> "page"]
             /\ IF hits = {} THEN Detail = NoDetail ELSE Detail \in hits
<1> DEFINE kind == named.kind
           rows == Source[kind]
<1>1. kind \in Lists /\ page = kind /\ view.search = NoQuery
  BY DEF BrowserInv, NamedInv, Lists
<1>2. Source \in Payloads /\ List = [kind |-> kind, surface |-> "page"]
  BY <1>1, SourceListed DEF BrowserInv, PageInv
<1>3. rows \in Seq(Elements(rows))
  BY <1>1, <1>2, RowsListed DEF RowFields
<1>4. Matching = rows
  BY <1>1, <1>2 DEF Matching, Filter
<1>5. CASE kind = "processes"
  <2>1. url.pid = named.key /\ RowKey[kind] = "pid"
    BY <1>1, <1>5 DEF BrowserInv, NamedInv, RowKey
  <2>2. Detail = ProcessNamed(Matching, url.pid)
    BY <1>2, <1>5 DEF Detail, ProcessNamed, Find, SelectInSeq
  <2> HIDE DEF rows
  <2>3. IF \E r \in Elements(rows) : r.pid = named.key
        THEN Detail \in {r \in Elements(rows) : r.pid = named.key} ELSE Detail = NoDetail
    BY <1>3, <1>4, <2>1, <2>2, PidFound
  <2> QED
    BY <1>2, <2>1, <2>3 DEF rows
<1>6. CASE kind = "services"
  <2>1. url.service = named.key /\ RowKey[kind] = "name"
    BY <1>1, <1>6 DEF BrowserInv, NamedInv, RowKey
  <2>2. Detail = ServiceNamed(Matching, url.service)
    BY <1>2, <1>6 DEF Detail, ServiceNamed, Find, SelectInSeq
  <2> HIDE DEF rows
  <2>3. IF \E r \in Elements(rows) : r.name = named.key
        THEN Detail \in {r \in Elements(rows) : r.name = named.key} ELSE Detail = NoDetail
    BY <1>3, <1>4, <2>1, <2>2, NameFound
  <2> QED
    BY <1>2, <2>1, <2>3 DEF rows
<1> QED
  BY <1>1, <1>5, <1>6 DEF Lists

-----------------------------------------------------------------------------
(* How often a row is listed.                                              *)

Times(rows, s) == Cardinality({i \in DOMAIN rows : rows[i] = s})

\* A sequence that is read to its end lists a row some number of times.
LEMMA TimesCount ==
  ASSUME NEW R, NEW rows \in Seq(R), NEW s
  PROVE  /\ IsFiniteSet({i \in DOMAIN rows : rows[i] = s}) /\ Times(rows, s) \in Nat
         /\ s \notin Elements(rows) => Times(rows, s) = 0
<1> DEFINE P == {i \in DOMAIN rows : rows[i] = s}
           n == Len(rows)
<1>1. n \in Nat /\ P \in SUBSET (1 .. n)
  OBVIOUS
<1>2. IsFiniteSet(P)
  <2> HIDE DEF P, n
  <2>1. IsFiniteSet(1 .. n)
    BY <1>1, FS_Interval
  <2> QED
    BY <1>1, <2>1, FS_Subset
<1>3. Cardinality(P) \in Nat
  <2> HIDE DEF P
  <2> QED
    BY <1>2, FS_CardinalityType
<1>4. ASSUME s \notin Elements(rows) PROVE P = {}
  BY <1>4 DEF Elements
<1>5. s \notin Elements(rows) => Cardinality(P) = 0
  <2> HIDE DEF P
  <2> QED
    BY <1>4, FS_EmptySet
<1> QED
  BY <1>2, <1>3, <1>5 DEF Times

LEMMA TimesJoined ==
  ASSUME NEW R, NEW a \in Seq(R), NEW b \in Seq(R), NEW s
  PROVE  a \o b \in Seq(R) /\ Times(a \o b, s) = Times(a, s) + Times(b, s)
<1> DEFINE m == Len(a)
           c == a \o b
           P == {i \in DOMAIN a : a[i] = s}
           Q == {i \in DOMAIN b : b[i] = s}
           V == {i \in DOMAIN c : c[i] = s}
           moved == {i \in V : i > m}
           shift == [i \in Q |-> m + i]
<1>1. /\ m \in Nat /\ Len(b) \in Nat /\ c \in Seq(R) /\ Len(c) = m + Len(b)
      /\ DOMAIN a = 1 .. m /\ DOMAIN b = 1 .. Len(b) /\ DOMAIN c = 1 .. m + Len(b)
  OBVIOUS
<1>2. /\ \A i \in 1 .. m : c[i] = a[i]
      /\ \A i \in 1 .. Len(b) : c[m + i] = b[i]
  OBVIOUS
<1>3. IsFiniteSet(P) /\ IsFiniteSet(Q) /\ Cardinality(P) \in Nat /\ Cardinality(Q) \in Nat
  BY TimesCount DEF Times
<1>4. V = P \cup moved /\ P \cap moved = {}
  <2> HIDE DEF c, m
  <2>1. ASSUME NEW i \in V PROVE i \in P \cup moved
    BY <1>1, <1>2
  <2>2. ASSUME NEW i \in P PROVE i \in V /\ i \notin moved
    BY <1>1, <1>2
  <2> QED
    BY <2>1, <2>2
<1>5. shift \in Bijection(Q, moved)
  <2> HIDE DEF c, m
  <2>1. ASSUME NEW i \in Q PROVE m + i \in moved
    BY <1>1, <1>2
  <2>2. ASSUME NEW j \in moved PROVE j - m \in Q /\ m + (j - m) = j
    <3>1. j \in 1 .. m + Len(b) /\ j > m /\ c[j] = s
      BY <1>1
    <3>2. j - m \in 1 .. Len(b) /\ m + (j - m) = j
      BY <1>1, <3>1
    <3> QED
      BY <1>1, <1>2, <3>1, <3>2
  <2>3. \A i, k \in Q : m + i = m + k => i = k
    BY <1>1
  <2> HIDE DEF moved, Q
  <2>4. shift \in [Q -> moved] /\ \A i, k \in Q : shift[i] = shift[k] => i = k
    BY <2>1, <2>3
  <2>5. \A j \in moved : \E i \in Q : shift[i] = j
    BY <2>2
  <2> QED
    BY <2>4, <2>5 DEF Bijection, Injection, Surjection, IsInjective
<1> HIDE DEF P, Q, V, moved, shift
<1>6. IsFiniteSet(moved) /\ Cardinality(moved) = Cardinality(Q)
  BY <1>3, <1>5, FS_Bijection DEF ExistsBijection
<1>7. Cardinality(V) = Cardinality(P) + Cardinality(Q)
  <2>1. Cardinality(P \cup moved) = Cardinality(P) + Cardinality(moved) - Cardinality(P \cap moved)
    BY <1>3, <1>6, FS_Union
  <2>2. Cardinality(P \cap moved) = 0
    BY <1>4, FS_EmptySet
  <2> QED
    BY <1>3, <1>4, <1>6, <2>1, <2>2
<1> QED
  BY <1>1, <1>7 DEF Times, P, Q, V

LEMMA TimesOne ==
  ASSUME NEW r, NEW s
  PROVE  Times(<<r>>, s) = IF r = s THEN 1 ELSE 0
<1> DEFINE P == {i \in DOMAIN <<r>> : <<r>>[i] = s}
<1>1. P = IF r = s THEN {1} ELSE {}
  OBVIOUS
<1> HIDE DEF P
<1>2. Cardinality(P) = IF r = s THEN 1 ELSE 0
  BY <1>1, FS_Singleton, FS_EmptySet
<1> QED
  BY <1>2 DEF Times, P

\* A filter keeps each row that passes as often as it was there.
LEMMA SelectTimes ==
  ASSUME NEW R, NEW rows \in Seq(R), NEW A, NEW it, SelectSteps(it, rows, A), NEW s
  PROVE  Times(it[DOMAIN rows], s) = IF s \in A THEN Times(rows, s) ELSE 0
<1> DEFINE first(n) == SubSeq(rows, 1, n)
           Good(n) == n <= Len(rows) =>
               /\ it[1 .. n] \in Seq(R)
               /\ Times(it[1 .. n], s) = IF s \in A THEN Times(first(n), s) ELSE 0
           N == {n \in Nat : Good(n)}
<1>1. DOMAIN rows = 1 .. Len(rows) /\ Len(rows) \in Nat
  OBVIOUS
<1>2. 0 \in N
  <2>1. 1 .. 0 = {} /\ first(0) = <<>>
    OBVIOUS
  <2>2. it[{}] = <<>>
    BY DEF SelectSteps
  <2>3. Times(<<>>, s) = 0 /\ <<>> \in Seq(R)
    <3>1. s \notin Elements(<<>>) /\ <<>> \in Seq(R)
      BY DEF Elements
    <3> QED
      BY <3>1, TimesCount
  <2> HIDE DEF first
  <2> QED
    BY <2>1, <2>2, <2>3
<1>3. ASSUME NEW n \in N PROVE n + 1 \in N
  <2>0. n \in Nat /\ n + 1 \in Nat \ {0} /\ (n + 1) - 1 = n
    OBVIOUS
  <2> SUFFICES ASSUME n + 1 <= Len(rows)
               PROVE  /\ it[1 .. n + 1] \in Seq(R)
                      /\ Times(it[1 .. n + 1], s) = IF s \in A THEN Times(first(n + 1), s) ELSE 0
    BY <2>0
  <2> DEFINE r == rows[n + 1]
             t == it[1 .. n]
  <2>1. t \in Seq(R) /\ Times(t, s) = IF s \in A THEN Times(first(n), s) ELSE 0
    BY <2>0, <1>1
  <2>2. 1 .. n + 1 \in SUBSET (DOMAIN rows) /\ r \in R
    BY <2>0, <1>1
  <2>3. it[1 .. n + 1] = IF r \in A THEN Append(t, r) ELSE t
    <3>1. Max(1 .. n + 1) = n + 1 /\ (1 .. n + 1) \ {n + 1} = 1 .. n /\ 1 .. n + 1 # {}
      BY <2>0, LastOfInterval
    <3> DEFINE S == 1 .. n + 1
    <3>2. it[S] = IF S = {} THEN <<>>
                  ELSE IF rows[Max(S)] \in A THEN Append(it[S \ {Max(S)}], rows[Max(S)])
                  ELSE it[S \ {Max(S)}]
      <4> HIDE DEF S
      <4> QED
        BY <2>2 DEF SelectSteps, S
    <3> QED
      BY <3>1, <3>2
  <2>4. first(n) \in Seq(R) /\ first(n + 1) = first(n) \o <<r>>
    BY <1>1, <2>0
  <2> HIDE DEF r, t, first
  <2>5. Append(t, r) = t \o <<r>> /\ <<r>> \in Seq(R)
    BY <2>1, <2>2
  <2> DEFINE u == <<r>>
  <2>6. Times(u, s) = IF r = s THEN 1 ELSE 0
    BY TimesOne
  <2> HIDE DEF u
  <2>7. /\ Times(t \o u, s) = Times(t, s) + Times(u, s) /\ t \o u \in Seq(R)
        /\ Times(first(n + 1), s) = Times(first(n), s) + Times(u, s)
    <3>1. u \in Seq(R) /\ first(n + 1) = first(n) \o u
      BY <2>4, <2>5 DEF u
    <3>2. Times(t \o u, s) = Times(t, s) + Times(u, s) /\ t \o u \in Seq(R)
      BY <2>1, <3>1, TimesJoined
    <3>3. Times(first(n) \o u, s) = Times(first(n), s) + Times(u, s)
      BY <2>4, <3>1, TimesJoined
    <3> QED
      BY <3>1, <3>2, <3>3
  <2>8. Times(first(n), s) \in Nat /\ Times(t, s) \in Nat
    BY <2>1, <2>4, TimesCount
  <2>9. CASE r \in A
    BY <2>1, <2>3, <2>5, <2>6, <2>7, <2>8, <2>9 DEF u
  <2>10. CASE r \notin A
    BY <2>1, <2>3, <2>6, <2>7, <2>8, <2>10
  <2> QED
    BY <2>9, <2>10
<1>4. Good(Len(rows))
  <2> HIDE DEF Good
  <2>1. N = Nat
    BY <1>2, <1>3, Counting
  <2> QED
    BY <1>1, <2>1
<1>5. first(Len(rows)) = rows
  OBVIOUS
<1> HIDE DEF first
<1> QED
  BY <1>1, <1>4, <1>5

\* The services of a name.
LEMMA ServicesAtTimes ==
  ASSUME NEW R, NEW rows \in Seq(R), NEW n, NEW s \in R
  PROVE  /\ ServicesAt(rows, n) \in Seq(R)
         /\ Times(ServicesAt(rows, n), s) = IF s.name = n THEN Times(rows, s) ELSE 0
<1> DEFINE A == {r \in R : r.name = n}
           Steps(it) == it = [S \in SUBSET (DOMAIN rows) |->
                    IF S = {} THEN <<>>
                    ELSE IF rows[Max(S)].name = n THEN Append(it[S \ {Max(S)}], rows[Max(S)])
                    ELSE it[S \ {Max(S)}]]
           fold == CHOOSE it : Steps(it)
<1>1. ServicesAt(rows, n) = fold[DOMAIN rows]
  BY DEF ServicesAt, Select, FoldLeft, MapThenFoldSet
<1>2. ASSUME NEW it PROVE Steps(it) <=> SelectSteps(it, rows, A)
  <2>1. ASSUME NEW S \in SUBSET (DOMAIN rows), S # {} PROVE rows[Max(S)].name = n <=> rows[Max(S)] \in A
    <3>1. Max(S) \in S
      <4>1. Len(rows) \in Nat /\ S \in SUBSET (1 .. Len(rows))
        OBVIOUS
      <4> QED
        BY <2>1, <4>1, LastPosition
    <3> QED
      BY <3>1
  <2> QED
    BY <2>1 DEF SelectSteps
<1>3. s \in A <=> s.name = n
  OBVIOUS
<1> HIDE DEF Steps, A
<1>4. SelectSteps(fold, rows, A)
  <2>1. \E it : Steps(it)
    BY <1>2, SelectExists
  <2>2. Steps(fold)
    BY <2>1
  <2> QED
    BY <1>2, <2>2
<1> HIDE DEF fold
<1>5. fold[DOMAIN rows] \in Seq(R) /\ Times(fold[DOMAIN rows], s) = IF s \in A THEN Times(rows, s) ELSE 0
  BY <1>4, SelectKeeps, SelectTimes
<1> QED
  BY <1>1, <1>3, <1>5

-----------------------------------------------------------------------------
(* Sequences of rows one after another.                                    *)

Joins(it, seqs, n) ==
    it = [i \in 1 .. n |-> IF i = 1 THEN seqs[i] ELSE it[i - 1] \o seqs[i]]

\* FlattenSeq is the last value of a function that exists.
LEMMA JoinsExist ==
  ASSUME NEW R, NEW seqs \in Seq(Seq(R))
  PROVE  \E it : Joins(it, seqs, Len(seqs))
<1> DEFINE N == {n \in Nat : \E it : Joins(it, seqs, n)}
<1>1. 0 \in N
  <2> DEFINE it == [i \in 1 .. 0 |-> seqs[i]]
  <2>1. \A i \in 1 .. 0 : FALSE
    OBVIOUS
  <2>2. Joins(it, seqs, 0)
    BY <2>1 DEF Joins
  <2> QED
    BY <2>2
<1>2. ASSUME NEW n \in N PROVE n + 1 \in N
  <2>1. PICK it : Joins(it, seqs, n)
    OBVIOUS
  <2> DEFINE new == [i \in 1 .. n + 1 |-> IF i = 1 THEN seqs[i] ELSE it[i - 1] \o seqs[i]]
  <2>2. n \in Nat /\ n + 1 \in Nat
    OBVIOUS
  <2>3. \A i \in 1 .. n : new[i] = it[i]
    <3>1. ASSUME NEW i \in 1 .. n PROVE i \in 1 .. n + 1
      BY <2>2
    <3>2. \A i \in 1 .. n : it[i] = IF i = 1 THEN seqs[i] ELSE it[i - 1] \o seqs[i]
      BY <2>1 DEF Joins
    <3> QED
      BY <3>1, <3>2
  <2>4. \A i \in 1 .. n + 1 : i # 1 => i - 1 \in 1 .. n
    BY <2>2
  <2>5. new = [i \in 1 .. n + 1 |-> IF i = 1 THEN seqs[i] ELSE new[i - 1] \o seqs[i]]
    <3>1. ASSUME NEW i \in 1 .. n + 1
          PROVE  (IF i = 1 THEN seqs[i] ELSE it[i - 1] \o seqs[i])
                   = (IF i = 1 THEN seqs[i] ELSE new[i - 1] \o seqs[i])
      <4> HIDE DEF new
      <4> QED
        BY <2>3, <2>4
    <3>2. new = [i \in 1 .. n + 1 |-> IF i = 1 THEN seqs[i] ELSE it[i - 1] \o seqs[i]]
      OBVIOUS
    <3> HIDE DEF new
    <3> QED
      BY <3>1, <3>2
  <2> HIDE DEF new
  <2>6. Joins(new, seqs, n + 1)
    BY <2>5 DEF Joins
  <2> QED
    BY <2>2, <2>6
<1>3. Len(seqs) \in Nat /\ N \in SUBSET Nat
  OBVIOUS
<1>4. N = Nat
  <2> HIDE DEF N
  <2> QED
    BY <1>1, <1>2, <1>3, Counting
<1> QED
  BY <1>3, <1>4

\* It lists a row as often as all of them together; one is enough when the
\* others do not list it.
LEMMA FlattenTimes ==
  ASSUME NEW R, NEW seqs \in Seq(Seq(R)), NEW s
  PROVE  /\ FlattenSeq(seqs) \in Seq(R)
         /\ (\A j \in DOMAIN seqs : Times(seqs[j], s) = 0) => Times(FlattenSeq(seqs), s) = 0
         /\ \A k \in DOMAIN seqs :
               (\A j \in DOMAIN seqs : j # k => Times(seqs[j], s) = 0)
                  => Times(FlattenSeq(seqs), s) = Times(seqs[k], s)
<1> DEFINE fold == CHOOSE it : Joins(it, seqs, Len(seqs))
<1>1. Len(seqs) \in Nat /\ DOMAIN seqs = 1 .. Len(seqs) /\ \A i \in 1 .. Len(seqs) : seqs[i] \in Seq(R)
  OBVIOUS
<1>2. FlattenSeq(seqs) = IF Len(seqs) = 0 THEN seqs ELSE fold[Len(seqs)]
  BY DEF FlattenSeq, Joins
<1>3. Joins(fold, seqs, Len(seqs))
  <2>1. \E it : Joins(it, seqs, Len(seqs))
    BY JoinsExist
  <2> QED
    BY <2>1
<1> HIDE DEF fold
<1>4. CASE Len(seqs) = 0
  <2>1. seqs = <<>> /\ <<>> \in Seq(R) /\ DOMAIN seqs = {} /\ FlattenSeq(seqs) = <<>>
    BY <1>1, <1>2, <1>4
  <2>2. Times(<<>>, s) = 0
    <3>1. s \notin Elements(<<>>)
      BY DEF Elements
    <3> QED
      BY <2>1, <3>1, TimesCount
  <2> QED
    BY <2>1, <2>2
<1>5. CASE Len(seqs) # 0
  <2> DEFINE Nowhere(n) == (\A j \in 1 .. n : Times(seqs[j], s) = 0) => Times(fold[n], s) = 0
             Single(n)  == \A k \in 1 .. n :
                           (\A j \in 1 .. n : j # k => Times(seqs[j], s) = 0)
                              => Times(fold[n], s) = Times(seqs[k], s)
             Good(n) == n \in 1 .. Len(seqs) => fold[n] \in Seq(R) /\ Nowhere(n) /\ Single(n)
             N == {n \in Nat : Good(n)}
  <2>1. 0 \in N
    <3>1. 0 \notin 1 .. Len(seqs)
      BY <1>1
    <3> QED
      BY <3>1
  <2>2. ASSUME NEW n \in N PROVE n + 1 \in N
    <3>0. n \in Nat /\ n + 1 \in Nat /\ Good(n)
      <4> HIDE DEF Good
      <4> QED
        OBVIOUS
    <3> SUFFICES ASSUME n + 1 \in 1 .. Len(seqs)
                 PROVE  fold[n + 1] \in Seq(R) /\ Nowhere(n + 1) /\ Single(n + 1)
      BY <3>0
    <3>1. seqs[n + 1] \in Seq(R) /\ Times(seqs[n + 1], s) \in Nat
      BY <1>1, TimesCount
    <3>2. CASE n = 0
      <4>1. fold[1] = seqs[1] /\ n + 1 = 1 /\ 1 .. 1 = {1}
        BY <1>3, <3>2 DEF Joins
      <4> QED
        BY <3>1, <4>1
    <3>3. CASE n # 0
      <4>1. n \in 1 .. Len(seqs) /\ n + 1 # 1 /\ (n + 1) - 1 = n /\ n + 1 \in 1 .. Len(seqs)
        BY <1>1, <3>0, <3>3
      <4>2. fold[n + 1] = fold[n] \o seqs[n + 1]
        BY <1>3, <4>1 DEF Joins
      <4>3. fold[n] \in Seq(R) /\ Nowhere(n) /\ Single(n)
        BY <3>0, <4>1
      <4>4. fold[n + 1] \in Seq(R) /\ Times(fold[n + 1], s) = Times(fold[n], s) + Times(seqs[n + 1], s)
        <5> HIDE DEF Nowhere, Single
        <5>1. fold[n] \in Seq(R)
          BY <4>3
        <5> QED
          BY <3>1, <4>2, <5>1, TimesJoined
      <4>5. Times(fold[n], s) \in Nat
        <5>1. fold[n] \in Seq(R)
          BY <4>3
        <5> QED
          BY <5>1, TimesCount
      <4>6. \A j \in 1 .. n : j \in 1 .. n + 1 /\ j # n + 1
        BY <3>0
      <4>7. n + 1 \in 1 .. n + 1 /\ \A k \in 1 .. n + 1 : k = n + 1 \/ k \in 1 .. n
        BY <3>0
      <4>8. Nowhere(n + 1)
        BY <3>1, <4>3, <4>4, <4>6, <4>7
      <4>9. ASSUME NEW k \in 1 .. n + 1, \A j \in 1 .. n + 1 : j # k => Times(seqs[j], s) = 0
            PROVE  Times(fold[n + 1], s) = Times(seqs[k], s)
        <5>1. CASE k = n + 1
          <6>1. \A j \in 1 .. n : Times(seqs[j], s) = 0
            BY <4>6, <4>9, <5>1
          <6>2. Times(fold[n], s) = 0
            BY <4>3, <6>1
          <6> QED
            BY <3>1, <4>4, <5>1, <6>2
        <5>2. CASE k \in 1 .. n
          <6>1. (\A j \in 1 .. n : j # k => Times(seqs[j], s) = 0) /\ Times(seqs[n + 1], s) = 0
            BY <4>6, <4>7, <4>9, <5>2
          <6>2. Times(fold[n], s) = Times(seqs[k], s)
            BY <4>3, <5>2, <6>1
          <6> QED
            BY <4>4, <4>5, <6>1, <6>2
        <5> QED
          BY <4>7, <5>1, <5>2
      <4> QED
        BY <4>4, <4>8, <4>9
    <3> QED
      BY <3>2, <3>3
  <2>3. Good(Len(seqs))
    <3>1. N \in SUBSET Nat
      OBVIOUS
    <3>2. N = Nat
      <4> HIDE DEF N
      <4> QED
        BY <2>1, <2>2, <3>1, Counting
    <3> HIDE DEF Good
    <3> QED
      BY <1>1, <3>2
  <2>4. fold[Len(seqs)] \in Seq(R) /\ Nowhere(Len(seqs)) /\ Single(Len(seqs))
    BY <1>1, <1>5, <2>3
  <2>5. FlattenSeq(seqs) = fold[Len(seqs)]
    BY <1>2, <1>5
  <2> QED
    BY <1>1, <2>4, <2>5
<1> QED
  BY <1>4, <1>5

\* The order in which siblings are listed: each of a finite set once.
LEMMA Ordered ==
  ASSUME NEW S, IsFiniteSet(S)
  PROVE  /\ SetToSeq(S) \in Seq(S) /\ Len(SetToSeq(S)) = Cardinality(S)
         /\ \A x \in S : \E i \in DOMAIN SetToSeq(S) : SetToSeq(S)[i] = x
         /\ \A i, j \in DOMAIN SetToSeq(S) : SetToSeq(S)[i] = SetToSeq(S)[j] => i = j
<1> DEFINE c == Cardinality(S)
           f == SetToSeq(S)
<1>1. c \in Nat /\ ExistsBijection(1 .. c, S)
  BY FS_CardinalityType
<1>2. f \in [1 .. c -> S] /\ IsInjective(f)
  <2>1. \E g \in [1 .. c -> S] : IsInjective(g)
    BY <1>1 DEF ExistsBijection, Bijection, Injection
  <2> QED
    BY <2>1 DEF SetToSeq
<1> HIDE DEF f, c
<1>3. IsFiniteSet(1 .. c) /\ Cardinality(1 .. c) = c
  BY <1>1, FS_Interval
<1>4. f \in Surjection(1 .. c, S)
  <2>1. f \in Injection(1 .. c, S)
    BY <1>2 DEF Injection
  <2>2. Cardinality(1 .. c) = Cardinality(S)
    BY <1>3 DEF c
  <2> QED
    BY <2>1, <2>2, FS_Injection
<1>5. f \in Seq(S) /\ Len(f) = c /\ DOMAIN f = 1 .. c
  BY <1>1, <1>2
<1> QED
  BY <1>2, <1>4, <1>5 DEF f, c, Surjection, IsInjective

-----------------------------------------------------------------------------
(* The tree of the names: sequences, and the sequences they start with.     *)

\* A prefix agrees with the sequence as far as it goes.
LEMMA PrefixMeans ==
  ASSUME NEW N, NEW n \in Seq(N), NEW m \in Seq(N)
  PROVE  IsPrefix(n, m) <=> Len(n) <= Len(m) /\ \A i \in 1 .. Len(n) : n[i] = m[i]
<1>1. Len(n) \in Nat /\ Len(m) \in Nat /\ SubSeq(n, 1, Len(n)) = n
  OBVIOUS
<1>2. ASSUME Len(n) <= Len(m), \A i \in 1 .. Len(n) : n[i] = m[i]
      PROVE  n = SubSeq(m, 1, Len(n))
  <2> DEFINE k == SubSeq(m, 1, Len(n))
  <2>1. k \in Seq(N) /\ Len(k) = Len(n) /\ \A i \in 1 .. Len(n) : k[i] = m[i]
    BY <1>1, <1>2
  <2>2. \A i \in 1 .. Len(n) : n[i] = k[i]
    BY <1>2, <2>1
  <2> HIDE DEF k
  <2> QED
    BY <2>1, <2>2
<1>3. ASSUME Len(n) <= Len(m), n = SubSeq(m, 1, Len(n)), NEW i \in 1 .. Len(n)
      PROVE  n[i] = m[i]
  <2> DEFINE k == SubSeq(m, 1, Len(n))
  <2>1. \A j \in 1 .. Len(n) : k[j] = m[j]
    BY <1>1, <1>3
  <2> HIDE DEF k
  <2> QED
    BY <1>3, <2>1 DEF k
<1> QED
  BY <1>1, <1>2, <1>3 DEF IsPrefix

\* A prefix of each length up to that of the sequence, and no other.
LEMMA PrefixOf ==
  ASSUME NEW N, NEW m \in Seq(N), NEW l \in 0 .. Len(m)
  PROVE  /\ SubSeq(m, 1, l) \in Seq(N) /\ Len(SubSeq(m, 1, l)) = l
         /\ IsPrefix(SubSeq(m, 1, l), m)
         /\ \A n \in Seq(N) : IsPrefix(n, m) /\ Len(n) = l => n = SubSeq(m, 1, l)
<1> DEFINE k == SubSeq(m, 1, l)
<1>1. Len(m) \in Nat /\ l \in Nat /\ l <= Len(m)
  OBVIOUS
<1>2. k \in Seq(N) /\ Len(k) = l /\ \A i \in 1 .. l : k[i] = m[i]
  BY <1>1
<1> HIDE DEF k
<1>3. IsPrefix(k, m)
  BY <1>1, <1>2, PrefixMeans
<1>4. ASSUME NEW n \in Seq(N), IsPrefix(n, m), Len(n) = l PROVE n = k
  <2>1. \A i \in 1 .. l : n[i] = m[i]
    BY <1>4, PrefixMeans
  <2> QED
    BY <1>2, <1>4, <2>1
<1> QED
  BY <1>2, <1>3, <1>4 DEF k

\* Prefixes, by IsPrefix.
LEMMA PrefixesMean ==
  ASSUME NEW N, NEW m \in Seq(N)
  PROVE  /\ \A n : n \in Prefixes(m) <=> n \in Seq(N) /\ IsPrefix(n, m)
         /\ <<>> \in Prefixes(m) /\ m \in Prefixes(m)
<1>1. Len(m) \in Nat /\ 0 \in 0 .. Len(m) /\ Len(m) \in 0 .. Len(m)
  OBVIOUS
<1>2. ASSUME NEW n \in Prefixes(m) PROVE n \in Seq(N) /\ IsPrefix(n, m)
  <2>1. PICK l \in 0 .. Len(m) : n = SubSeq(m, 1, l)
    BY DEF Prefixes
  <2> QED
    BY <2>1, PrefixOf
<1>3. ASSUME NEW n \in Seq(N), IsPrefix(n, m) PROVE n \in Prefixes(m)
  <2>1. Len(n) \in 0 .. Len(m)
    BY <1>1, <1>3, PrefixMeans
  <2>2. n = SubSeq(m, 1, Len(n))
    BY <1>3, <2>1, PrefixOf
  <2> QED
    BY <2>1, <2>2 DEF Prefixes
<1>4. <<>> \in Seq(N) /\ IsPrefix(<<>>, m) /\ IsPrefix(m, m)
  <2>1. <<>> \in Seq(N) /\ Len(<<>>) = 0 /\ \A i \in 1 .. 0 : FALSE
    OBVIOUS
  <2>2. IsPrefix(m, m)
    BY <1>1, PrefixMeans
  <2>3. ASSUME NEW n \in Seq(N), Len(n) = 0 PROVE IsPrefix(n, m)
    <3>1. IsPrefix(n, m) <=> Len(n) <= Len(m) /\ \A i \in 1 .. Len(n) : n[i] = m[i]
      BY PrefixMeans
    <3>2. 1 .. Len(n) = {} /\ Len(n) <= Len(m)
      BY <1>1, <2>3
    <3> QED
      BY <3>1, <3>2
  <2> QED
    BY <2>1, <2>2, <2>3
<1> QED
  BY <1>2, <1>3, <1>4

\* Two prefixes of a sequence are prefixes of one another, by their length.
LEMMA PrefixOrder ==
  ASSUME NEW N, NEW n \in Seq(N), NEW k \in Seq(N), NEW m \in Seq(N)
  PROVE  /\ IsPrefix(n, k) /\ IsPrefix(k, m) => IsPrefix(n, m)
         /\ IsPrefix(n, m) /\ IsPrefix(k, m) /\ Len(n) <= Len(k) => IsPrefix(n, k)
         /\ IsPrefix(n, m) /\ IsPrefix(k, m) /\ Len(n) = Len(k) => n = k
         /\ IsPrefix(n, m) /\ n # m => Len(n) < Len(m)
<1>1. Len(n) \in Nat /\ Len(k) \in Nat /\ Len(m) \in Nat
  OBVIOUS
<1>2. /\ IsPrefix(n, k) <=> Len(n) <= Len(k) /\ \A i \in 1 .. Len(n) : n[i] = k[i]
      /\ IsPrefix(k, m) <=> Len(k) <= Len(m) /\ \A i \in 1 .. Len(k) : k[i] = m[i]
      /\ IsPrefix(n, m) <=> Len(n) <= Len(m) /\ \A i \in 1 .. Len(n) : n[i] = m[i]
  BY PrefixMeans
<1>3. ASSUME Len(n) <= Len(k) PROVE \A i \in 1 .. Len(n) : i \in 1 .. Len(k)
  BY <1>1, <1>3
<1>4. ASSUME IsPrefix(n, m), IsPrefix(k, m), Len(n) = Len(k) PROVE n = k
  <2>1. \A i \in 1 .. Len(n) : n[i] = k[i]
    BY <1>2, <1>4
  <2> QED
    BY <1>4, <2>1
<1>5. ASSUME IsPrefix(n, m), n # m PROVE Len(n) < Len(m)
  <2>1. Len(n) = Len(m) => \A i \in 1 .. Len(n) : n[i] = m[i]
    BY <1>2, <1>5
  <2>2. Len(n) # Len(m)
    BY <1>5, <2>1
  <2> QED
    BY <1>1, <1>2, <1>5, <2>2
<1> QED
  BY <1>1, <1>2, <1>3, <1>4, <1>5

-----------------------------------------------------------------------------
(* The nodes of the tree and their children.                                *)

\* Rows whose names are sequences.
Named(rows, R, N) == rows \in Seq(R) /\ \A r \in R : r.name \in Seq(N)

\* A node is what a name starts with.
LEMMA NodesMean ==
  ASSUME NEW R, NEW N, NEW rows, Named(rows, R, N)
  PROVE  \A n : n \in Nodes(rows) <=> /\ n \in Seq(N) /\ n # <<>>
                                      /\ \E r \in Elements(rows) : IsPrefix(n, r.name)
<1>1. \A i \in DOMAIN rows : rows[i] \in R /\ rows[i].name \in Seq(N)
  BY DEF Named
<1>2. ASSUME NEW n PROVE n \in Nodes(rows) <=> n # <<>> /\ \E i \in DOMAIN rows : n \in Prefixes(rows[i].name)
  BY DEF Nodes
<1>3. ASSUME NEW n, NEW i \in DOMAIN rows
      PROVE  n \in Prefixes(rows[i].name) <=> n \in Seq(N) /\ IsPrefix(n, rows[i].name)
  BY <1>1, PrefixesMean
<1>4. ASSUME NEW n
      PROVE  (\E r \in Elements(rows) : IsPrefix(n, r.name)) <=> \E i \in DOMAIN rows : IsPrefix(n, rows[i].name)
  BY DEF Elements
<1> QED
  BY <1>2, <1>3, <1>4

\* A node has children exactly when it is the beginning of a longer name.
LEMMA ChildrenMean ==
  ASSUME NEW R, NEW N, NEW rows, Named(rows, R, N), NEW n \in Seq(N)
  PROVE  /\ \A c : c \in Children(Nodes(rows), n) <=>
                     /\ c \in Seq(N) /\ Len(c) = Len(n) + 1 /\ IsPrefix(n, c)
                     /\ \E r \in Elements(rows) : IsPrefix(c, r.name)
         /\ \A r \in Elements(rows) : IsStrictPrefix(n, r.name) =>
               /\ Len(n) + 1 \in 0 .. Len(r.name)
               /\ SubSeq(r.name, 1, Len(n) + 1) \in Children(Nodes(rows), n)
         /\ Children(Nodes(rows), n) # {} <=> \E r \in Elements(rows) : IsStrictPrefix(n, r.name)
<1>0. /\ Len(n) \in Nat /\ <<>> \in Seq(N) /\ Len(<<>>) = 0
      /\ \A r \in Elements(rows) : r.name \in Seq(N) /\ Len(r.name) \in Nat
  BY DEF Named, Elements
<1>1. ASSUME NEW c
      PROVE  c \in Children(Nodes(rows), n) <=>
                     /\ c \in Seq(N) /\ Len(c) = Len(n) + 1 /\ IsPrefix(n, c)
                     /\ \E r \in Elements(rows) : IsPrefix(c, r.name)
  <2>1. Len(c) = Len(n) + 1 => c # <<>>
    BY <1>0
  <2> QED
    BY <2>1, NodesMean DEF Children
<1>2. ASSUME NEW r \in Elements(rows), IsStrictPrefix(n, r.name)
      PROVE  /\ Len(n) + 1 \in 0 .. Len(r.name)
             /\ SubSeq(r.name, 1, Len(n) + 1) \in Children(Nodes(rows), n)
  <2> DEFINE x == r.name
             l == Len(n) + 1
             k == SubSeq(x, 1, l)
  <2>1. x \in Seq(N) /\ Len(x) \in Nat /\ IsPrefix(n, x) /\ n # x
    BY <1>0, <1>2 DEF IsStrictPrefix
  <2> HIDE DEF x
  <2>2. Len(n) < Len(x)
    BY <2>1, PrefixOrder
  <2>3. l \in 0 .. Len(x)
    BY <1>0, <2>1, <2>2
  <2>4. k \in Seq(N) /\ Len(k) = l /\ IsPrefix(k, x)
    <3> HIDE DEF l
    <3> QED
      BY <2>1, <2>3, PrefixOf
  <2> HIDE DEF k
  <2>5. IsPrefix(n, k)
    <3>1. Len(n) <= Len(k)
      BY <1>0, <2>4
    <3> QED
      BY <2>1, <2>4, <3>1, PrefixOrder
  <2>6. k \in Children(Nodes(rows), n)
    BY <1>1, <2>4, <2>5 DEF x
  <2> QED
    BY <2>3, <2>6 DEF k, x
<1>3. ASSUME NEW c \in Children(Nodes(rows), n) PROVE \E r \in Elements(rows) : IsStrictPrefix(n, r.name)
  <2>1. c \in Seq(N) /\ Len(c) = Len(n) + 1 /\ IsPrefix(n, c)
    BY <1>1
  <2>2. PICK r \in Elements(rows) : IsPrefix(c, r.name)
    BY <1>1
  <2>3. r.name \in Seq(N)
    BY <1>0
  <2>4. IsPrefix(n, r.name)
    BY <2>1, <2>2, <2>3, PrefixOrder
  <2>5. Len(c) <= Len(r.name)
    BY <2>2 DEF IsPrefix
  <2>6. n # r.name
    BY <1>0, <2>1, <2>5
  <2> QED
    BY <2>4, <2>6 DEF IsStrictPrefix
<1> QED
  BY <1>1, <1>2, <1>3

\* There are no more children than rows.
LEMMA ChildrenFinite ==
  ASSUME NEW R, NEW N, NEW rows, Named(rows, R, N), NEW n \in Seq(N)
  PROVE  IsFiniteSet(Children(Nodes(rows), n))
<1> DEFINE kids == Children(Nodes(rows), n)
           l == Len(n) + 1
           I == {i \in DOMAIN rows : IsStrictPrefix(n, rows[i].name)}
           f == [i \in I |-> SubSeq(rows[i].name, 1, l)]
<1>1. DOMAIN rows = 1 .. Len(rows) /\ Len(rows) \in Nat /\ Len(n) \in Nat
  BY DEF Named
<1>2. IsFiniteSet(I)
  <2>1. IsFiniteSet(DOMAIN rows)
    BY <1>1, FS_Interval
  <2>2. I \in SUBSET (DOMAIN rows)
    OBVIOUS
  <2> HIDE DEF I
  <2> QED
    BY <2>1, <2>2, FS_Subset
<1>3. \A i \in DOMAIN rows : rows[i] \in Elements(rows)
  BY DEF Elements
<1>4. ASSUME NEW i \in I PROVE SubSeq(rows[i].name, 1, l) \in kids
  BY <1>3, ChildrenMean
<1>5. ASSUME NEW c \in kids PROVE \E i \in I : SubSeq(rows[i].name, 1, l) = c
  <2>1. c \in Seq(N) /\ Len(c) = Len(n) + 1 /\ IsPrefix(n, c)
    BY ChildrenMean
  <2>2. PICK r \in Elements(rows) : IsPrefix(c, r.name)
    BY ChildrenMean
  <2>3. r.name \in Seq(N) /\ Len(r.name) \in Nat
    BY DEF Named, Elements
  <2>4. Len(c) <= Len(r.name)
    BY <2>2 DEF IsPrefix
  <2>5. IsStrictPrefix(n, r.name)
    <3>1. IsPrefix(n, r.name)
      BY <2>1, <2>2, <2>3, PrefixOrder
    <3>2. n # r.name
      BY <1>1, <2>1, <2>4
    <3> QED
      BY <3>1, <3>2 DEF IsStrictPrefix
  <2>6. SubSeq(r.name, 1, l) = c
    <3>1. l \in 0 .. Len(r.name) /\ Len(c) = l
      BY <1>1, <2>1, <2>3, <2>4
    <3> HIDE DEF l
    <3> QED
      BY <2>1, <2>2, <2>3, <3>1, PrefixOf
  <2>7. PICK i \in DOMAIN rows : rows[i] = r
    BY DEF Elements
  <2> QED
    BY <2>5, <2>6, <2>7
<1>6. f \in Surjection(I, kids)
  <2> HIDE DEF I, kids, l
  <2> QED
    BY <1>4, <1>5 DEF Surjection
<1> HIDE DEF f, I, kids
<1>7. IsFiniteSet(kids)
  BY <1>2, <1>6, FS_Surjection
<1> QED
  BY <1>7 DEF kids

-----------------------------------------------------------------------------
(* The rows of the tree: a function that exists.                            *)

\* All the children of a node.
Level(list, toggled, below, n) ==
    LET kids == SetToSeq(Children(Nodes(list), n))
    IN  FlattenSeq([i \in DOMAIN kids |-> NodeRows(list, toggled, below, kids[i])])

AllNodes(list) == Nodes(list) \cup {<<>>}

Tree(below, list, toggled, S) == below = [n \in S |-> Level(list, toggled, below, n)]

\* The rows below a node depend on those below its children alone.
LEMMA LevelDepends ==
  ASSUME NEW R, NEW N, NEW list, Named(list, R, N), NEW toggled, NEW f, NEW g, NEW n \in Seq(N),
         \A c \in Children(Nodes(list), n) : f[c] = g[c]
  PROVE  Level(list, toggled, f, n) = Level(list, toggled, g, n)
<1> DEFINE kids == SetToSeq(Children(Nodes(list), n))
<1>1. \A i \in DOMAIN kids : kids[i] \in Children(Nodes(list), n)
  <2> DEFINE S == Children(Nodes(list), n)
  <2>1. IsFiniteSet(S)
    BY ChildrenFinite
  <2> HIDE DEF S
  <2>2. SetToSeq(S) \in Seq(S)
    BY <2>1, Ordered
  <2> DEFINE q == SetToSeq(S)
  <2> HIDE DEF q
  <2>3. \A i \in DOMAIN q : q[i] \in S
    BY <2>2 DEF q
  <2> QED
    BY <2>3 DEF q, S
<1> HIDE DEF kids
<1>2. \A i \in DOMAIN kids : f[kids[i]] = g[kids[i]]
  BY <1>1
<1>3. \A i \in DOMAIN kids : NodeRows(list, toggled, f, kids[i]) = NodeRows(list, toggled, g, kids[i])
  BY <1>2 DEF NodeRows
<1>4. [i \in DOMAIN kids |-> NodeRows(list, toggled, f, kids[i])] = [i \in DOMAIN kids |-> NodeRows(list, toggled, g, kids[i])]
  BY <1>3
<1> QED
  BY <1>4 DEF Level, kids

\* No name has more segments than some number.
LEMMA NamesBounded ==
  ASSUME NEW R, NEW N, NEW list, Named(list, R, N)
  PROVE  \E d \in Nat : \A r \in Elements(list) : Len(r.name) <= d
<1> DEFINE M == {m \in Nat : m <= Len(list) => \E d \in Nat : \A i \in 1 .. m : Len(list[i].name) <= d}
<1>1. /\ Len(list) \in Nat /\ DOMAIN list = 1 .. Len(list)
      /\ \A i \in 1 .. Len(list) : Len(list[i].name) \in Nat
  BY DEF Named
<1>2. 0 \in M
  <2>1. \A i \in 1 .. 0 : FALSE
    OBVIOUS
  <2>2. 0 \in Nat /\ \A i \in 1 .. 0 : Len(list[i].name) <= 0
    BY <2>1
  <2> QED
    BY <2>2
<1>3. ASSUME NEW m \in M PROVE m + 1 \in M
  <2>0. m \in Nat /\ m + 1 \in Nat
    OBVIOUS
  <2> SUFFICES ASSUME m + 1 <= Len(list)
               PROVE  \E d \in Nat : \A i \in 1 .. m + 1 : Len(list[i].name) <= d
    BY <2>0
  <2>1. PICK d \in Nat : \A i \in 1 .. m : Len(list[i].name) <= d
    BY <1>1, <2>0
  <2>2. m + 1 \in 1 .. Len(list) /\ \A i \in 1 .. m + 1 : i \in 1 .. Len(list) /\ (i = m + 1 \/ i \in 1 .. m)
    BY <1>1, <2>0
  <2> DEFINE e == d + Len(list[m + 1].name)
  <2>3. e \in Nat /\ d <= e /\ Len(list[m + 1].name) <= e
    BY <1>1, <2>2
  <2> HIDE DEF e
  <2>4. ASSUME NEW i \in 1 .. m + 1 PROVE Len(list[i].name) <= e
    BY <1>1, <2>1, <2>2, <2>3
  <2> QED
    BY <2>3, <2>4
<1>4. M \in SUBSET Nat
  OBVIOUS
<1>5. M = Nat
  <2> HIDE DEF M
  <2> QED
    BY <1>2, <1>3, <1>4, Counting
<1>6. \E d \in Nat : \A i \in 1 .. Len(list) : Len(list[i].name) <= d
  <2>1. Len(list) \in M
    <3> HIDE DEF M
    <3> QED
      BY <1>1, <1>5
  <2> QED
    BY <1>1, <2>1
<1> QED
  BY <1>1, <1>6 DEF Elements

\* By induction on the depth: the rows below the deeper nodes come first.
LEMMA TreeExists ==
  ASSUME NEW R, NEW N, NEW list, Named(list, R, N), NEW toggled
  PROVE  \E below : Tree(below, list, toggled, AllNodes(list))
<1> DEFINE nodes == Nodes(list) \cup {<<>>}
<1>0. PICK d \in Nat : \A r \in Elements(list) : Len(r.name) <= d
  BY NamesBounded
<1> DEFINE Deep(j) == {n \in nodes : Len(n) + j > d}
           M == {j \in Nat : \E f : Tree(f, list, toggled, Deep(j))}
<1>1. ASSUME NEW n \in nodes PROVE n \in Seq(N) /\ Len(n) \in Nat /\ Len(n) <= d
  <2>1. CASE n \in Nodes(list)
    <3>1. n \in Seq(N) /\ Len(n) \in Nat
      BY <2>1, NodesMean
    <3>2. PICK r \in Elements(list) : IsPrefix(n, r.name)
      BY <2>1, NodesMean
    <3>3. Len(n) <= Len(r.name) /\ Len(r.name) <= d /\ Len(r.name) \in Nat
      BY <1>0, <3>2 DEF IsPrefix, Named, Elements
    <3> QED
      BY <3>1, <3>3
  <2>2. CASE n = <<>>
    BY <2>2
  <2> QED
    BY <2>1, <2>2
<1>2. 0 \in M
  <2>1. Deep(0) = {}
    <3> HIDE DEF nodes
    <3> QED
      BY <1>1
  <2> DEFINE f == [n \in {} |-> n]
  <2>2. Tree(f, list, toggled, {})
    BY DEF Tree
  <2>3. Tree(f, list, toggled, Deep(0))
    <3> HIDE DEF Deep, f
    <3> QED
      BY <2>1, <2>2
  <2> HIDE DEF f, Deep
  <2> QED
    BY <2>3
<1>3. ASSUME NEW j \in M PROVE j + 1 \in M
  <2>1. j \in Nat /\ j + 1 \in Nat
    OBVIOUS
  <2>2. PICK f : Tree(f, list, toggled, Deep(j))
    <3> HIDE DEF Deep
    <3> QED
      OBVIOUS
  <2> DEFINE g == [n \in Deep(j + 1) |-> Level(list, toggled, f, n)]
  <2>3. \A n \in Deep(j) : n \in Deep(j + 1)
    <3> HIDE DEF nodes
    <3> QED
      BY <1>1, <2>1
  <2>4. \A n \in Deep(j) : f[n] = Level(list, toggled, f, n)
    <3> HIDE DEF Deep
    <3> QED
      BY <2>2 DEF Tree
  <2>5. \A n \in Deep(j) : g[n] = f[n]
    <3> HIDE DEF Deep
    <3> QED
      BY <2>3, <2>4
  <2>6. ASSUME NEW n \in Deep(j + 1) PROVE Level(list, toggled, f, n) = Level(list, toggled, g, n)
    <3>1. n \in nodes /\ n \in Seq(N) /\ Len(n) \in Nat /\ Len(n) + (j + 1) > d
      <4> HIDE DEF nodes
      <4> QED
        BY <1>1
    <3>2. ASSUME NEW c \in Children(Nodes(list), n) PROVE c \in Deep(j)
      <4>1. Len(c) = Len(n) + 1 /\ c \in Nodes(list)
        BY DEF Children
      <4> QED
        BY <2>1, <3>1, <4>1
    <3> HIDE DEF Deep, g
    <3>3. \A c \in Children(Nodes(list), n) : f[c] = g[c]
      BY <2>5, <3>2
    <3> QED
      BY <3>1, <3>3, LevelDepends
  <2>7. Tree(g, list, toggled, Deep(j + 1))
    <3>1. g = [n \in Deep(j + 1) |-> Level(list, toggled, f, n)]
      OBVIOUS
    <3> HIDE DEF Deep, g
    <3>2. g = [n \in Deep(j + 1) |-> Level(list, toggled, g, n)]
      BY <2>6, <3>1
    <3> QED
      BY <3>2 DEF Tree
  <2> HIDE DEF Deep, g
  <2> QED
    BY <2>1, <2>7
<1>4. d + 1 \in M
  <2>1. M \in SUBSET Nat
    OBVIOUS
  <2>2. M = Nat
    <3> HIDE DEF M
    <3> QED
      BY <1>2, <1>3, <2>1, Counting
  <2> HIDE DEF M
  <2> QED
    BY <1>0, <2>2
<1>5. Deep(d + 1) = nodes
  <2> HIDE DEF nodes
  <2> QED
    BY <1>0, <1>1
<1>6. PICK f : Tree(f, list, toggled, Deep(d + 1))
  <2> HIDE DEF Deep
  <2> QED
    BY <1>4
<1> HIDE DEF Deep, nodes
<1>7. Tree(f, list, toggled, nodes)
  BY <1>5, <1>6
<1> QED
  BY <1>7 DEF nodes, AllNodes

\* TreeRows is the root of such a function.
LEMMA TreeUnfolds ==
  ASSUME NEW R, NEW N, NEW list, Named(list, R, N), NEW toggled
  PROVE  \E below : /\ Tree(below, list, toggled, AllNodes(list))
                    /\ TreeRows(list, toggled) = below[<<>>]
<1> DEFINE Good(below) == Tree(below, list, toggled, AllNodes(list))
           fold == CHOOSE below : Good(below)
<1>1. TreeRows(list, toggled) = fold[<<>>]
  BY DEF TreeRows, Tree, Level, AllNodes
<1>2. Good(fold)
  <2>1. \E below : Good(below)
    BY TreeExists
  <2> HIDE DEF Good
  <2> QED
    BY <2>1
<1> HIDE DEF fold
<1> QED
  BY <1>1, <1>2

-----------------------------------------------------------------------------
(* How often the tree shows a service.                                      *)

Inner(list, n) == \E r \in Elements(list) : IsStrictPrefix(n, r.name)

\* The branches on the path of a service are open, from a depth on.
OpenFrom(list, toggled, s, l) ==
    \A b \in Prefixes(s.name) \ {<<>>} : Len(b) >= l /\ Inner(list, b) => IsOpen(toggled, b)

\* How often a service should be listed below a node.
Due(list, toggled, s, n) ==
    IF IsStrictPrefix(n, s.name) /\ OpenFrom(list, toggled, s, Len(n) + 1) THEN Times(list, s) ELSE 0

\* With the branch of that node itself.
DueAt(list, toggled, s, n) ==
    IF IsPrefix(n, s.name) /\ OpenFrom(list, toggled, s, Len(n)) THEN Times(list, s) ELSE 0

\* The rows of a tree, and rows that list a service so often.
TreeItems(list, R) == R \cup {[branch |-> k] : k \in Nodes(list)}

Has(rows, Q, s, t) == rows \in Seq(Q) /\ Times(rows, s) = t

\* A path is open from a node on when that branch is and the rest is.
LEMMA OpenSplits ==
  ASSUME NEW R, NEW N, NEW list, Named(list, R, N), NEW toggled, NEW s \in Elements(list),
         NEW k \in Seq(N), k # <<>>, IsPrefix(k, s.name)
  PROVE  /\ OpenFrom(list, toggled, s, Len(k)) <=>
               (Inner(list, k) => IsOpen(toggled, k)) /\ OpenFrom(list, toggled, s, Len(k) + 1)
         /\ s.name = k => OpenFrom(list, toggled, s, Len(k) + 1)
         /\ s.name # k => Inner(list, k)
<1>1. s.name \in Seq(N) /\ Len(s.name) \in Nat /\ Len(k) \in Nat
  BY DEF Named, Elements
<1>2. ASSUME NEW b \in Prefixes(s.name)
      PROVE  b \in Seq(N) /\ Len(b) \in Nat /\ Len(b) <= Len(s.name) /\ (Len(b) = Len(k) => b = k)
  <2>1. b \in Seq(N) /\ IsPrefix(b, s.name)
    BY <1>1, PrefixesMean
  <2>2. Len(b) \in Nat /\ Len(b) <= Len(s.name)
    BY <2>1 DEF IsPrefix
  <2>3. Len(b) = Len(k) => b = k
    BY <1>1, <2>1, PrefixOrder
  <2> QED
    BY <2>1, <2>2, <2>3
<1>3. k \in Prefixes(s.name) \ {<<>>}
  BY <1>1, PrefixesMean
<1>4. ASSUME NEW b \in Prefixes(s.name) \ {<<>>}
      PROVE  Len(b) >= Len(k) <=> b = k \/ Len(b) >= Len(k) + 1
  <2>1. Len(b) \in Nat /\ (Len(b) = Len(k) => b = k)
    BY <1>2
  <2> QED
    BY <1>1, <2>1
<1>5. OpenFrom(list, toggled, s, Len(k)) <=>
        (Inner(list, k) => IsOpen(toggled, k)) /\ OpenFrom(list, toggled, s, Len(k) + 1)
  BY <1>3, <1>4 DEF OpenFrom
<1>6. s.name = k => OpenFrom(list, toggled, s, Len(k) + 1)
  <2>1. ASSUME s.name = k, NEW b \in Prefixes(s.name) PROVE ~(Len(b) >= Len(k) + 1)
    BY <1>1, <1>2, <2>1
  <2> QED
    BY <2>1 DEF OpenFrom
<1>7. s.name # k => Inner(list, k)
  BY DEF Inner, IsStrictPrefix
<1> QED
  BY <1>5, <1>6, <1>7

\* A node lists a service as often as is due, when its children do.
LEMMA NodeTimes ==
  ASSUME NEW R, NEW N, NEW list, Named(list, R, N), NEW toggled, NEW below,
         NEW s \in Elements(list), "name" \in DOMAIN s, NEW k \in Nodes(list),
         Has(below[k], TreeItems(list, R), s, Due(list, toggled, s, k))
  PROVE  Has(NodeRows(list, toggled, below, k), TreeItems(list, R), s, DueAt(list, toggled, s, k))
<1> DEFINE Q == TreeItems(list, R)
           row == [branch |-> k]
           own == ServicesAt(list, k)
           t == Times(list, s)
<1> SUFFICES /\ NodeRows(list, toggled, below, k) \in Seq(Q)
             /\ Times(NodeRows(list, toggled, below, k), s) = DueAt(list, toggled, s, k)
  BY DEF Has
<1>0. k \in Seq(N) /\ k # <<>> /\ row \in Q /\ R \subseteq Q
      /\ below[k] \in Seq(Q) /\ Times(below[k], s) = Due(list, toggled, s, k)
  BY NodesMean DEF TreeItems, Has
<1> HIDE DEF Q
<1>1. list \in Seq(R) /\ s \in R /\ s.name \in Seq(N) /\ t \in Nat
  <2>1. list \in Seq(R) /\ s \in R /\ s.name \in Seq(N)
    BY DEF Named, Elements
  <2> QED
    BY <2>1, TimesCount
<1>2. own \in Seq(Q) /\ Times(own, s) = IF s.name = k THEN t ELSE 0
  <2>1. own \in Seq(R) /\ Times(own, s) = IF s.name = k THEN t ELSE 0
    BY <1>1, ServicesAtTimes
  <2> HIDE DEF own
  <2>2. own \in Seq(Q)
    BY <1>0, <2>1
  <2> QED
    BY <2>1, <2>2
<1>3. Children(Nodes(list), k) # {} <=> Inner(list, k)
  BY <1>0, ChildrenMean DEF Inner
<1>4. row # s
  <2>1. DOMAIN row = {"branch"}
    OBVIOUS
  <2> HIDE DEF row
  <2> QED
    BY <2>1
<1> HIDE DEF row
<1>5. <<row>> \in Seq(Q) /\ Times(<<row>>, s) = 0
  <2>1. <<row>> \in Seq(Q)
    BY <1>0
  <2> QED
    BY <1>4, <2>1, TimesOne
<1>6. /\ IsPrefix(k, s.name) => OpenFrom(list, toggled, s, Len(k)) <=>
               (Inner(list, k) => IsOpen(toggled, k)) /\ OpenFrom(list, toggled, s, Len(k) + 1)
      /\ s.name = k => OpenFrom(list, toggled, s, Len(k) + 1)
      /\ IsPrefix(k, s.name) /\ s.name # k => Inner(list, k)
      /\ s.name = k => IsPrefix(k, s.name)
  <2>1. s.name = k => IsPrefix(k, s.name)
    BY <1>1, PrefixesMean
  <2> QED
    BY <1>0, <2>1, OpenSplits
<1>7. /\ Due(list, toggled, s, k) = IF IsStrictPrefix(k, s.name) /\ OpenFrom(list, toggled, s, Len(k) + 1) THEN t ELSE 0
      /\ DueAt(list, toggled, s, k) = IF IsPrefix(k, s.name) /\ OpenFrom(list, toggled, s, Len(k)) THEN t ELSE 0
      /\ IsStrictPrefix(k, s.name) <=> IsPrefix(k, s.name) /\ k # s.name
  BY DEF Due, DueAt, IsStrictPrefix
<1> HIDE DEF own, t
<1>8. CASE ~Inner(list, k)
  <2>1. NodeRows(list, toggled, below, k) = own
    BY <1>3, <1>8 DEF NodeRows, own
  <2> QED
    BY <1>2, <1>6, <1>7, <1>8, <2>1
<1>9. CASE Inner(list, k) /\ IsOpen(toggled, k)
  <2> DEFINE b == below[k]
             u == <<row>>
  <2>1. NodeRows(list, toggled, below, k) = (u \o own) \o b
    BY <1>3, <1>9 DEF NodeRows, own, row
  <2>2. b \in Seq(Q) /\ Times(b, s) = Due(list, toggled, s, k)
    BY <1>0
  <2>3. u \in Seq(Q) /\ Times(u, s) = 0
    BY <1>5
  <2> HIDE DEF b, u
  <2>4. u \o own \in Seq(Q) /\ Times(u \o own, s) = Times(u, s) + Times(own, s)
    BY <1>2, <2>3, TimesJoined
  <2> DEFINE c == u \o own
  <2>5. c \in Seq(Q) /\ Times(c, s) = 0 + Times(own, s)
    BY <2>3, <2>4
  <2> HIDE DEF c
  <2>6. c \o b \in Seq(Q) /\ Times(c \o b, s) = Times(c, s) + Times(b, s)
    BY <2>2, <2>5, TimesJoined
  <2>7. NodeRows(list, toggled, below, k) = c \o b
    BY <2>1 DEF c
  <2>8. Times(c, s) + Times(b, s) = DueAt(list, toggled, s, k)
    <3>1. CASE s.name = k
      BY <1>1, <1>2, <1>6, <1>7, <1>9, <2>2, <2>5, <3>1
    <3>2. CASE s.name # k
      <4>1. Times(c, s) = 0 /\ Times(b, s) = DueAt(list, toggled, s, k)
        BY <1>2, <1>6, <1>7, <1>9, <2>2, <2>5, <3>2
      <4>2. Times(b, s) \in Nat
        BY <2>2, TimesCount
      <4> QED
        BY <4>1, <4>2
    <3> QED
      BY <3>1, <3>2
  <2> QED
    BY <2>6, <2>7, <2>8
<1>10. CASE Inner(list, k) /\ ~IsOpen(toggled, k)
  <2>1. NodeRows(list, toggled, below, k) = <<row>>
    BY <1>3, <1>10 DEF NodeRows, row
  <2> QED
    BY <1>5, <1>6, <1>7, <1>10, <2>1
<1> QED
  BY <1>8, <1>9, <1>10

\* One child at most is on the path of a service.
LEMMA LevelTimes ==
  ASSUME NEW R, NEW N, NEW list, Named(list, R, N), NEW toggled, NEW below,
         NEW Q, NEW s \in Elements(list), NEW n \in Seq(N),
         \A c \in Children(Nodes(list), n) :
            Has(NodeRows(list, toggled, below, c), Q, s, DueAt(list, toggled, s, c))
  PROVE  Has(Level(list, toggled, below, n), Q, s, Due(list, toggled, s, n))
<1> DEFINE S == Children(Nodes(list), n)
           kids == SetToSeq(S)
           seqs == [i \in DOMAIN kids |-> NodeRows(list, toggled, below, kids[i])]
<1>1. s.name \in Seq(N) /\ Len(s.name) \in Nat /\ Len(n) \in Nat
  BY DEF Named, Elements
<1>2. IsFiniteSet(S)
  BY ChildrenFinite
<1>3. \A c \in S : c \in Seq(N) /\ Len(c) = Len(n) + 1 /\ IsPrefix(n, c)
  BY ChildrenMean
<1>4. IsStrictPrefix(n, s.name) =>
        /\ Len(n) + 1 \in 0 .. Len(s.name)
        /\ SubSeq(s.name, 1, Len(n) + 1) \in S
  BY ChildrenMean
<1> HIDE DEF S
<1>5. /\ kids \in Seq(S)
      /\ \A x \in S : \E i \in DOMAIN kids : kids[i] = x
      /\ \A i, j \in DOMAIN kids : kids[i] = kids[j] => i = j
  BY <1>2, Ordered
<1> HIDE DEF kids
<1>6. /\ seqs \in Seq(Seq(Q)) /\ DOMAIN seqs = DOMAIN kids
      /\ \A i \in DOMAIN kids : Times(seqs[i], s) = DueAt(list, toggled, s, kids[i])
  <2>1. Len(kids) \in Nat /\ DOMAIN kids = 1 .. Len(kids) /\ \A i \in DOMAIN kids : kids[i] \in S
    BY <1>5
  <2>2. \A i \in DOMAIN kids : /\ NodeRows(list, toggled, below, kids[i]) \in Seq(Q)
                               /\ Times(NodeRows(list, toggled, below, kids[i]), s) = DueAt(list, toggled, s, kids[i])
    BY <2>1 DEF S, Has
  <2>3. \A i \in DOMAIN kids : seqs[i] = NodeRows(list, toggled, below, kids[i])
    OBVIOUS
  <2>4. seqs \in Seq(Seq(Q)) /\ DOMAIN seqs = DOMAIN kids
    BY <2>1, <2>2
  <2> HIDE DEF seqs
  <2> QED
    BY <2>2, <2>3, <2>4
<1>7. Level(list, toggled, below, n) = FlattenSeq(seqs)
  BY DEF Level, kids, S
<1> HIDE DEF seqs
<1>8. /\ FlattenSeq(seqs) \in Seq(Q)
      /\ (\A j \in DOMAIN seqs : Times(seqs[j], s) = 0) => Times(FlattenSeq(seqs), s) = 0
      /\ \A k \in DOMAIN seqs :
            (\A j \in DOMAIN seqs : j # k => Times(seqs[j], s) = 0)
               => Times(FlattenSeq(seqs), s) = Times(seqs[k], s)
  BY <1>6, FlattenTimes
<1>9. \A i \in DOMAIN kids : kids[i] \in S
  BY <1>5
<1>10. CASE IsStrictPrefix(n, s.name)
  <2> DEFINE k == SubSeq(s.name, 1, Len(n) + 1)
             l == Len(n) + 1
  <2>1. l \in 0 .. Len(s.name) /\ k \in S /\ k = SubSeq(s.name, 1, l)
    BY <1>4, <1>10
  <2> HIDE DEF l
  <2>2. IsPrefix(k, s.name)
    BY <1>1, <2>1, PrefixOf
  <2>3. \A c \in Seq(N) : IsPrefix(c, s.name) /\ Len(c) = l => c = k
    BY <1>1, <2>1, PrefixOf
  <2> HIDE DEF k
  <2>4. PICK i \in DOMAIN kids : kids[i] = k
    BY <1>5, <2>1
  <2>5. ASSUME NEW j \in DOMAIN kids, j # i PROVE Times(seqs[j], s) = 0
    <3>1. kids[j] \in S /\ kids[j] # k
      BY <1>5, <1>9, <2>4, <2>5
    <3>2. ~IsPrefix(kids[j], s.name)
      BY <1>3, <2>3, <3>1 DEF l
    <3> QED
      BY <1>6, <3>2 DEF DueAt
  <2>6. Times(FlattenSeq(seqs), s) = DueAt(list, toggled, s, k)
    BY <1>6, <1>8, <2>4, <2>5
  <2>7. DueAt(list, toggled, s, k) = Due(list, toggled, s, n)
    BY <1>3, <1>10, <2>1, <2>2 DEF Due, DueAt
  <2> QED
    BY <1>7, <1>8, <2>6, <2>7 DEF Has
<1>11. CASE ~IsStrictPrefix(n, s.name)
  <2>1. ASSUME NEW j \in DOMAIN kids PROVE Times(seqs[j], s) = 0
    <3>1. kids[j] \in Seq(N) /\ Len(kids[j]) = Len(n) + 1 /\ IsPrefix(n, kids[j])
      BY <1>3, <1>9
    <3>2. ASSUME IsPrefix(kids[j], s.name) PROVE FALSE
      <4>1. IsPrefix(n, s.name)
        BY <1>1, <3>1, <3>2, PrefixOrder
      <4>2. Len(kids[j]) <= Len(s.name)
        BY <3>2 DEF IsPrefix
      <4>3. n # s.name
        BY <1>1, <3>1, <4>2
      <4> QED
        BY <1>11, <4>1, <4>3 DEF IsStrictPrefix
    <3> QED
      BY <1>6, <3>2 DEF DueAt
  <2>2. Times(FlattenSeq(seqs), s) = 0
    BY <1>6, <1>8, <2>1
  <2> QED
    BY <1>7, <1>8, <1>11, <2>2 DEF Due, Has
<1> QED
  BY <1>10, <1>11


\* The tree lists a service as often as the list does, when its path is open.
LEMMA TreeTimes ==
  ASSUME NEW R, NEW N, NEW list, Named(list, R, N), NEW toggled,
         NEW s \in Elements(list), "name" \in DOMAIN s
  PROVE  Times(TreeRows(list, toggled), s) = Due(list, toggled, s, <<>>)
<1> DEFINE nodes == Nodes(list) \cup {<<>>}
           Q == TreeItems(list, R)
<1>1. PICK d \in Nat : \A r \in Elements(list) : Len(r.name) <= d
  BY NamesBounded
<1>2. PICK below : /\ Tree(below, list, toggled, AllNodes(list))
                   /\ TreeRows(list, toggled) = below[<<>>]
  BY TreeUnfolds
<1>3. \A n \in nodes : below[n] = Level(list, toggled, below, n)
  BY <1>2 DEF Tree, AllNodes
<1> DEFINE Good(n) == Has(below[n], Q, s, Due(list, toggled, s, n))
           M == {j \in Nat : \A n \in nodes : Len(n) + j > d => Good(n)}
<1>4. ASSUME NEW n \in nodes PROVE n \in Seq(N) /\ Len(n) \in Nat /\ Len(n) <= d
  <2>1. CASE n \in Nodes(list)
    <3>1. n \in Seq(N) /\ Len(n) \in Nat
      BY <2>1, NodesMean
    <3>2. PICK r \in Elements(list) : IsPrefix(n, r.name)
      BY <2>1, NodesMean
    <3>3. Len(n) <= Len(r.name) /\ Len(r.name) <= d /\ Len(r.name) \in Nat
      BY <1>1, <3>2 DEF IsPrefix, Named, Elements
    <3> QED
      BY <3>1, <3>3
  <2>2. CASE n = <<>>
    BY <2>2
  <2> QED
    BY <2>1, <2>2
<1>5. 0 \in M
  <2> HIDE DEF nodes, Good
  <2> QED
    BY <1>4
<1>6. ASSUME NEW j \in M PROVE j + 1 \in M
  <2>1. j \in Nat /\ j + 1 \in Nat /\ \A n \in nodes : Len(n) + j > d => Good(n)
    <3> HIDE DEF nodes, Good
    <3> QED
      OBVIOUS
  <2>2. ASSUME NEW n \in nodes, Len(n) + (j + 1) > d PROVE Good(n)
    <3>1. n \in Seq(N) /\ Len(n) \in Nat
      BY <1>4
    <3>2. ASSUME NEW c \in Children(Nodes(list), n)
          PROVE  Has(NodeRows(list, toggled, below, c), Q, s, DueAt(list, toggled, s, c))
      <4>1. c \in Nodes(list) /\ Len(c) = Len(n) + 1
        BY DEF Children
      <4>2. c \in nodes /\ Len(c) + j > d
        BY <2>1, <2>2, <3>1, <4>1
      <4>3. Has(below[c], Q, s, Due(list, toggled, s, c))
        <5> HIDE DEF nodes
        <5>1. Good(c)
          <6> HIDE DEF Good
          <6> QED
            BY <2>1, <4>2
        <5> QED
          BY <5>1
      <4> QED
        BY <4>1, <4>3, NodeTimes
    <3> HIDE DEF nodes, Q
    <3>3. Has(Level(list, toggled, below, n), Q, s, Due(list, toggled, s, n))
      BY <3>1, <3>2, LevelTimes
    <3> QED
      BY <1>3, <3>3
  <2> HIDE DEF nodes, Good
  <2> QED
    BY <2>1, <2>2
<1>7. M = Nat
  <2>1. M \in SUBSET Nat
    OBVIOUS
  <2> HIDE DEF M
  <2> QED
    BY <1>5, <1>6, <2>1, Counting
<1>8. Good(<<>>)
  <2>1. d + 1 \in M
    <3> HIDE DEF M
    <3> QED
      BY <1>1, <1>7
  <2>2. <<>> \in nodes /\ Len(<<>>) = 0
    OBVIOUS
  <2> HIDE DEF nodes, Good
  <2>3. Len(<<>>) + (d + 1) > d
    BY <1>1, <2>2
  <2> QED
    BY <2>1, <2>2, <2>3
<1> QED
  BY <1>2, <1>8 DEF Has

\* The tree that is shown.
LEMMA TreeShows ==
  ASSUME TypeInv, List.kind = "services", view.mode = "tree", NEW s \in Elements(Matching)
  PROVE  Times(Rows, s) = Due(Matching, view.toggled, s, <<>>) /\ \E S : s.name \in Seq(S)
<1> DEFINE p == Source
           R == Elements(p.services)
           N == UNION {Elements(r.name) : r \in R}
           list == Matching
<1>1. List # NoList
  BY DEF NoList
<1>2. p \in Payloads
  BY <1>1, SourceListed
<1> HIDE DEF p
<1>3. "services" \in Lists
  BY DEF Lists
<1>4. /\ p.services \in Seq(R)
      /\ \A r \in R : "name" \in DOMAIN r /\ r.name \in Seq(Elements(r.name))
  BY <1>2, <1>3, DataAssumption
<1>5. list = Filter(p.services, view.search)
  BY DEF Matching, p
<1>6. list \in Seq(R) /\ \A r \in Elements(list) : r \in R
  <2> DEFINE q == view.search
             rows == p.services
  <2>1. rows \in Seq(R)
    BY <1>4
  <2> HIDE DEF q, rows, R
  <2>2. Filter(rows, q) \in Seq(R)
    BY <2>1, FilterKeeps
  <2>3. list \in Seq(R)
    BY <1>5, <2>2 DEF q, rows
  <2> HIDE DEF list
  <2> QED
    BY <2>3 DEF Elements
<1>7. ASSUME NEW r \in R PROVE r.name \in Seq(N)
  <2> DEFINE x == r.name
  <2>1. x \in Seq(Elements(x)) /\ Elements(x) \subseteq N
    BY <1>4
  <2> HIDE DEF x, N
  <2>2. x \in Seq(N)
    BY <2>1
  <2> QED
    BY <2>2 DEF x
<1> HIDE DEF R, N, list
<1>8. Named(list, R, N)
  BY <1>6, <1>7 DEF Named
<1>9. s \in Elements(list) /\ "name" \in DOMAIN s
  BY <1>4, <1>6 DEF list
<1>10. Rows = TreeRows(list, view.toggled)
  BY DEF Rows, list
<1>11. Times(TreeRows(list, view.toggled), s) = Due(list, view.toggled, s, <<>>)
  <2> DEFINE toggled == view.toggled
  <2> HIDE DEF toggled
  <2>1. Times(TreeRows(list, toggled), s) = Due(list, toggled, s, <<>>)
    BY <1>8, <1>9, TreeTimes
  <2> QED
    BY <2>1 DEF toggled
<1>12. s.name \in Seq(N)
  BY <1>4, <1>6, <1>7, <1>9
<1> QED
  BY <1>10, <1>11, <1>12 DEF list

-----------------------------------------------------------------------------
(* What holds of every behaviour.                                          *)

\* Every variable of the pages has its type, the hook of a container's metrics
\* has asked for what is shown, for none where it is known that a hub has none;
\* only hooks of mounted components know that; an unmounted list has no state,
\* and the page a related link led to is as the link left it.
THEOREM PagesConsistent == Spec => []BrowserInv
<1>1. BrowserInv /\ [Next]_vars => BrowserInv'
  BY BrowserNext
<1> QED
  BY <1>1, BrowserInit, PTL DEF Spec

\* Every variable has its type, only agent containers that are listed are
\* asked for their metrics, and a list that is not mounted has no state:
\* ContainersPage, useContainerMetrics.
THEOREM PagesTyped == Spec => []TypeOK
<1>1. BrowserInv => TypeOK
  <2> SUFFICES ASSUME BrowserInv PROVE TypeOK
    OBVIOUS
  <2>1. place \in PlaceType /\ view \in ViewType /\ hook \in HookType /\ HookFits(hook, place)
        /\ items \in BoundedSeq(Insights, MaxItems) /\ (List = NoList => view = FreshView(NoList))
        /\ known \subseteq MetaHooks(place)
    BY DEF BrowserInv, PageInv, TypeInv, HookInv, ListInv
  <2>2. /\ site \in Sites /\ page \in Pages /\ url \in Params
        /\ snapshot \in Payloads \cup {NoSnapshot} /\ box \in BoxType
    BY <2>1 DEF PlaceType, place
  <2>3. /\ box.search \in Queries \cup {NoQuery} /\ box.tab \in Tabs
        /\ box.selectedId \in Ids \cup {NoId}
    BY <2>2 DEF BoxType
  <2>4. /\ view.search \in Queries \cup {NoQuery} /\ view.key \in Keys /\ view.asc \in BOOLEAN
        /\ view.toggled \subseteq UNION {Prefixes(n) : n \in Names}
    BY <2>1 DEF ViewType
  <2>5. /\ hook.awaited \in BOOLEAN /\ hook.unavailable \in BOOLEAN
        /\ hook.older \in Nat /\ hook.metrics \in Payloads \cup {NoSnapshot}
    BY <2>1 DEF HookType
  <2>6. page = "containers" =>
          hook.asked \in {NoId} \cup {c.id : c \in {x \in Elements(Containers(place)) : x.agent}}
    <3> SUFFICES ASSUME page = "containers" PROVE
          hook.asked \in {NoId} \cup {c.id : c \in {x \in Elements(Containers(place)) : x.agent}}
      OBVIOUS
    <3>1. place.page = "containers"
      BY DEF place
    <3>2. CASE Mounted(place)
      BY <2>1, <3>1, <3>2, AskedTyped DEF HookFits
    <3>3. CASE ~Mounted(place)
      BY <2>1, <3>3, NoHookTyped DEF HookFits
    <3> QED
      BY <3>2, <3>3
  <2>7. items \in Seq(Insights) /\ Len(items) <= MaxItems
    <3>1. PICK m \in 0 .. MaxItems : items \in [1 .. m -> Insights]
      BY <2>1 DEF BoundedSeq, SeqOf
    <3>2. MaxItems \in Nat /\ m \in Nat /\ m <= MaxItems
      BY BoundsAssumption
    <3>3. items \in Seq(Insights) /\ Len(items) = m
      BY <3>1, <3>2
    <3> QED
      BY <3>2, <3>3
  <2> QED
    BY <2>1, <2>2, <2>3, <2>4, <2>5, <2>6, <2>7 DEF TypeOK
<1> QED
  BY <1>1, PagesConsistent, PTL

\* The page of an agent container has figures, or the notice that there are
\* none, or the answer for that container is under way, whatever answers come
\* in whatever order: ContainerDetail, ContainerMetricsPage.
THEOREM NoneLeftWaiting == Spec => []FiguresOrNotice
<1>1. BrowserInv => FiguresOrNotice
  BY DEF BrowserInv, PageInv, TypeInv, HookInv, HookFits, HookSound, FiguresOrNotice
<1> QED
  BY <1>1, PagesConsistent, PTL

\* The diagnoses show one card for a cause, the newest insight of it, and the
\* newest cards first, whatever the engine sent: dedupeInsights.
THEOREM CausesOnce == Spec => []EachCauseOnce
<1>1. BrowserInv => EachCauseOnce
  <2> SUFFICES ASSUME BrowserInv PROVE EachCauseOnce
    OBVIOUS
  <2>1. items \in Seq(Insights)
    BY DEF BrowserInv, PageInv, TypeInv, BoundedSeq, SeqOf
  <2>2. \A i \in Insights : i.detectedAt \in Nat
    BY DataAssumption
  <2> QED
    BY <2>1, <2>2, CardsOfCauses DEF EachCauseOnce, Falling
<1> QED
  BY <1>1, PagesConsistent, PTL

\* The tree shows a service that the search leaves exactly as often as the
\* list does when the branches on its path are open, and not at all when one
\* is closed: insertService, renderTree.
THEOREM TreeComplete == Spec => []TreeShowsEach
<1>1. BrowserInv => TreeShowsEach
  <2> SUFFICES ASSUME BrowserInv, List.kind = "services", view.mode = "tree", NEW s \in Elements(Matching)
               PROVE  LET branches == {n \in Prefixes(s.name) \ {<<>>} :
                                         \E r \in Elements(Matching) : IsStrictPrefix(n, r.name)}
                          open     == \A n \in branches : IsOpen(view.toggled, n)
                      IN  Times(Rows, s) = IF open /\ s.name # <<>> THEN Times(Matching, s) ELSE 0
    BY DEF TreeShowsEach, Times
  <2>1. Times(Rows, s) = Due(Matching, view.toggled, s, <<>>)
    BY TreeShows DEF BrowserInv, PageInv
  <2> DEFINE open == \A n \in {m \in Prefixes(s.name) \ {<<>>} :
                                 \E r \in Elements(Matching) : IsStrictPrefix(m, r.name)} :
                       IsOpen(view.toggled, n)
  <2>2. PICK N : s.name \in Seq(N)
    BY TreeShows DEF BrowserInv, PageInv
  <2>3. IsStrictPrefix(<<>>, s.name) <=> s.name # <<>>
    BY <2>2, PrefixesMean DEF IsStrictPrefix
  <2>4. ASSUME NEW n \in Prefixes(s.name) \ {<<>>} PROVE Len(n) >= Len(<<>>) + 1
    <3>1. n \in Seq(N) /\ n # <<>>
      BY <2>2, PrefixesMean
    <3> QED
      BY <3>1
  <2>5. OpenFrom(Matching, view.toggled, s, Len(<<>>) + 1) <=> open
    BY <2>4 DEF OpenFrom, Inner
  <2> QED
    BY <2>1, <2>3, <2>5 DEF Due
<1> QED
  BY <1>1, PagesConsistent, PTL

\* Where a related link has led, whatever snapshots come after the click: a
\* list that is shown is the one it named, with the process or the service it
\* named in the detail, or nothing when that is gone.
\* ServiceDetailPanel, ProcessDetailPanel, ServicesPage, ProcessesPage.
THEOREM LinksLand == Spec => []LinkLands
<1>1. BrowserInv => LinkLands
  BY NamedShown DEF LinkLands
<1> QED
  BY <1>1, PagesConsistent, PTL

-----------------------------------------------------------------------------
(* The drill-down of a hub: the banner and the mode.                       *)

LEMMA UnknownIsOnline ==
  ~Offline(Unknown)
BY DEF Offline, Unknown

\* The effect of a render in which the layout stays, or comes new.
LEMMA ShowStatusKeeps ==
  ASSUME OfflineShownInHistory, ShowStatus(agent', agents')
  PROVE  OfflineShownInHistory'
<1>1. Banner <=> Offline(Seen(agent, agents))
  BY UnknownIsOnline DEF Banner, Seen
<1>2. Banner' <=> Offline(Seen(agent', agents'))
  BY UnknownIsOnline DEF Banner, Seen
<1>3. CASE Seen(agent', agents') = Seen(agent, agents)
  BY <1>1, <1>2, <1>3 DEF ShowStatus, OfflineShownInHistory
<1>4. CASE Seen(agent', agents') # Seen(agent, agents)
  BY <1>2, <1>4 DEF ShowStatus, OfflineShownInHistory
<1> QED
  BY <1>3, <1>4

LEMMA UserKeeps ==
  ASSUME OfflineShownInHistory, User
  PROVE  OfflineShownInHistory'
<1>1. ASSUME NEW b \in Agents, OpenAgent(b)
      PROVE  OfflineShownInHistory'
  <2>1. agent' = b /\ agents' = EmptyList
    BY <1>1 DEF OpenAgent, NavigateTo
  <2>2. ShowStatus(agent', agents')
    BY <1>1, <2>1 DEF OpenAgent
  <2> QED
    BY <2>2, ShowStatusKeeps
<1>2. ASSUME NEW b \in Agents, NEW q \in AgentPages, SwitchTo(b, q)
      PROVE  OfflineShownInHistory'
  <2>1. agent' = b /\ agents' = agents
    BY <1>2 DEF SwitchTo, NavigateTo
  <2>2. ShowStatus(agent', agents')
    BY <1>2, <2>1 DEF SwitchTo
  <2> QED
    BY <2>2, ShowStatusKeeps
<1>3. CASE BackToHub
  BY <1>3 DEF BackToHub, NavigateTo, OfflineShownInHistory, Banner
<1>4. ASSUME NEW m \in {"live", "history"}, Toggle(m)
      PROVE  OfflineShownInHistory'
  BY <1>4 DEF Toggle, OfflineShownInHistory
<1>5. ASSUME NEW f \in Filters, Pick(f)
      PROVE  OfflineShownInHistory'
  BY <1>5 DEF Pick, OfflineShownInHistory, Banner
<1> QED
  BY <1>1, <1>2, <1>3, <1>4, <1>5 DEF User

\* The other steps change nothing that the banner or the mode depend on.
LEMMA QuietKeeps ==
  ASSUME OfflineShownInHistory, UNCHANGED <<agent, agents, viewMode, chosen>>
  PROVE  OfflineShownInHistory'
BY DEF OfflineShownInHistory, Banner

LEMMA NextKeeps ==
  ASSUME OfflineShownInHistory, [HubNext]_drillVars
  PROVE  OfflineShownInHistory'
<1>1. CASE User
  BY <1>1, UserKeeps
<1>2. ASSUME NEW a \in Agents, Push(a) \/ Age(a)
      PROVE  OfflineShownInHistory'
  BY <1>2, QuietKeeps DEF Push, Age, viewVars
<1>3. ASSUME NEW h \in Hooks, Poll(h)
      PROVE  OfflineShownInHistory'
  BY <1>3, QuietKeeps DEF Poll, viewVars
<1>4. ASSUME NEW h \in Hooks, NEW s \in Slots(h), Serve(h, s)
      PROVE  OfflineShownInHistory'
  BY <1>4, QuietKeeps DEF Serve, viewVars
<1>5. ASSUME NEW s \in Slots("agents"), LoadAgents(s)
      PROVE  OfflineShownInHistory'
  <2>1. agent' = agent /\ ShowStatus(agent, agents')
    BY <1>5 DEF LoadAgents, viewVars
  <2> QED
    BY <2>1, ShowStatusKeeps
<1>6. ASSUME NEW s \in Slots("metrics"), LoadMetrics(s)
      PROVE  OfflineShownInHistory'
  BY <1>6, QuietKeeps DEF LoadMetrics, viewVars
<1>7. ASSUME NEW s \in Slots("diagnostics"), LoadDiagnostics(s)
      PROVE  OfflineShownInHistory'
  BY <1>7, QuietKeeps DEF LoadDiagnostics, viewVars
<1>8. CASE UNCHANGED drillVars
  BY <1>8, QuietKeeps DEF drillVars, viewVars
<1> QED
  BY <1>1, <1>2, <1>3, <1>4, <1>5, <1>6, <1>7, <1>8 DEF HubNext, Deliver

-----------------------------------------------------------------------------
(* Types.                                                                  *)

FetchTyped == DOMAIN fetch = Hooks /\ \A h \in Hooks : fetch[h] \in [Slots(h) -> Request(h)]

ShownTyped ==
    /\ agents \in AgentLists /\ agentSnapshot \in Snapshots /\ live \in BOOLEAN /\ agentItems \in Snapshots

Bounded == clicks \in 0 .. MaxClicks /\ changes \in 0 .. MaxChanges /\ faults \in 0 .. MaxFaults

LEMMA ModesTyped ==
  ASSUME viewMode \in {"live", "history"}, chosen \in BOOLEAN, NEW a, NEW l, ShowStatus(a, l)
  PROVE  viewMode' \in {"live", "history"} /\ chosen' \in BOOLEAN
<1>1. CASE Seen(a, l) = Seen(agent, agents)
  BY <1>1 DEF ShowStatus
<1>2. CASE Seen(a, l) # Seen(agent, agents)
  BY <1>2 DEF ShowStatus
<1> QED
  BY <1>1, <1>2

LEMMA EmptyTypes ==
  EmptyList \in AgentLists /\ None \in Snapshots /\ \A h \in Hooks : Idle \in Request(h)
BY DEF EmptyList, AgentLists, Snapshots, Request

\* A request that was answered, and one that was not.
LEMMA RequestKinds ==
  ASSUME NEW h \in Hooks, NEW r \in Request(h)
  PROVE  /\ r.phase = "answered" => r.got \in IF h = "agents" THEN AgentLists ELSE Snapshots
         /\ r.phase = "sent" => r.of \in Subject(h)
BY DEF Request, Idle

LEMMA SentTyped ==
  ASSUME NEW h \in Hooks, NEW a \in Agents \cup {NoAgent}, NEW p \in AgentPages, HookMounted(h, a, p)
  PROVE  Sent(h, a) \in Request(h)
BY DEF Sent, Request, Subject, HookMounted

LEMMA SetTyped ==
  ASSUME FetchTyped, NEW h \in Hooks, NEW s \in Slots(h), NEW r \in Request(h), Set(h, s, r)
  PROVE  FetchTyped'
<1>1. /\ fetch' = [fetch EXCEPT ![h] = [fetch[h] EXCEPT ![s] = r]]
      /\ [fetch[h] EXCEPT ![s] = r] \in [Slots(h) -> Request(h)]
  BY DEF Set, FetchTyped
<1> QED
  BY <1>1 DEF FetchTyped

LEMMA AnswerTyped ==
  ASSUME ConstantsAssumption, newest \in [Agents -> 0 .. MaxPush], status \in [Agents -> Statuses],
         NEW h \in Hooks, NEW of \in Subject(h)
  PROVE  [phase |-> "answered", got |-> ServerAnswer(h, of)] \in Request(h)
<1>1. CASE h = "agents"
  <2>1. status \in AgentLists
    BY DEF AgentLists
  <2> QED
    BY <1>1, <2>1 DEF ServerAnswer, Request
<1>2. CASE h # "agents"
  <2>1. of \in Agents /\ MaxPush \in Nat
    BY <1>2 DEF Subject, ConstantsAssumption
  <2>2. newest[of] = 0 \/ newest[of] \in 1 .. MaxPush
    BY <2>1
  <2>3. ServerAnswer(h, of) \in Snapshots
    BY <1>2, <2>1, <2>2 DEF ServerAnswer, Snapshots
  <2> QED
    BY <1>2, <2>3 DEF Request
<1> QED
  BY <1>1, <1>2

\* What becomes of the requests of a hook when the address changes.
LEMMA MovedTyped ==
  ASSUME FetchTyped, NEW h \in Hooks, NEW b \in Agents \cup {NoAgent}, NEW q \in AgentPages,
         NEW m \in Moved(h, b, q)
  PROVE  m \in [Slots(h) -> Request(h)]
<1> DEFINE kept == HookMounted(h, agent, agentPage) /\ HookMounted(h, b, q)
                     /\ (h = "agents" => (agent = NoAgent) = (b = NoAgent))
           left == IF kept THEN fetch[h] ELSE [s \in Slots(h) |-> Idle]
           asks == HookMounted(h, b, q) /\ (kept => h # "agents" /\ agent # b)
<1>1. m \in IF asks THEN {[left EXCEPT ![s] = Sent(h, b)] : s \in Free(left)} ELSE {left}
  BY DEF Moved
<1>2. left \in [Slots(h) -> Request(h)]
  BY EmptyTypes DEF FetchTyped
<1>3. asks => Sent(h, b) \in Request(h)
  BY SentTyped
<1> HIDE DEF left, asks, kept
<1>4. CASE asks
  <2>1. PICK s \in Free(left) : m = [left EXCEPT ![s] = Sent(h, b)]
    BY <1>1, <1>4
  <2>2. s \in Slots(h)
    BY <1>2 DEF Free
  <2> QED
    BY <1>2, <1>3, <1>4, <2>1, <2>2
<1>5. CASE ~asks
  BY <1>1, <1>2, <1>5
<1> QED
  BY <1>4, <1>5

LEMMA NavigateTyped ==
  ASSUME FetchTyped, NEW b \in Agents \cup {NoAgent}, NEW q \in AgentPages, NavigateTo(b, q)
  PROVE  FetchTyped' /\ UNCHANGED <<newest, status>>
<1>1. UNCHANGED <<newest, status>>
  BY DEF NavigateTo, hubVars
<1>2. PICK m \in Moved("metrics", b, q), l \in Moved("agents", b, q), d \in Moved("diagnostics", b, q) :
          fetch' = [h \in Hooks |-> CASE h = "metrics" -> m [] h = "agents" -> l [] h = "diagnostics" -> d]
  BY DEF NavigateTo
<1>3. "metrics" \in Hooks /\ "agents" \in Hooks /\ "diagnostics" \in Hooks
  BY DEF Hooks
<1>4. /\ m \in [Slots("metrics") -> Request("metrics")]
      /\ l \in [Slots("agents") -> Request("agents")]
      /\ d \in [Slots("diagnostics") -> Request("diagnostics")]
  BY <1>3, MovedTyped
<1>5. fetch'["metrics"] = m /\ fetch'["agents"] = l /\ fetch'["diagnostics"] = d /\ DOMAIN fetch' = Hooks
  BY <1>2, <1>3
<1>6. FetchTyped'
  BY <1>4, <1>5 DEF FetchTyped, Hooks, Slots
<1> QED
  BY <1>1, <1>6

LEMMA BoundedNext ==
  ASSUME ConstantsAssumption, Bounded, [HubNext]_drillVars
  PROVE  Bounded'
<1>1. MaxClicks \in Nat /\ MaxChanges \in Nat /\ MaxFaults \in Nat
  BY DEF ConstantsAssumption
<1>2. \/ UNCHANGED <<clicks, changes, faults>>
      \/ clicks < MaxClicks /\ clicks' = clicks + 1 /\ UNCHANGED <<changes, faults>>
      \/ changes < MaxChanges /\ changes' = changes + 1 /\ UNCHANGED <<clicks, faults>>
      \/ faults < MaxFaults /\ faults' = faults + 1 /\ UNCHANGED <<clicks, changes>>
  <2>1. CASE User
    BY <2>1 DEF User, OpenAgent, SwitchTo, BackToHub, Toggle, Pick, NavigateTo
  <2>2. CASE Deliver
    BY <2>2 DEF Deliver, LoadAgents, LoadMetrics, LoadDiagnostics, Then, Catch
  <2>3. ASSUME NEW a \in Agents, Push(a) \/ Age(a)
        PROVE  \/ UNCHANGED <<clicks, changes, faults>>
               \/ changes < MaxChanges /\ changes' = changes + 1 /\ UNCHANGED <<clicks, faults>>
    BY <2>3 DEF Push, Age
  <2>4. ASSUME NEW h \in Hooks, Poll(h) \/ \E s \in Slots(h) : Serve(h, s)
        PROVE  UNCHANGED <<clicks, changes, faults>>
    BY <2>4 DEF Poll, Serve
  <2>5. CASE UNCHANGED drillVars
    BY <2>5 DEF drillVars
  <2> QED
    BY <2>1, <2>2, <2>3, <2>4, <2>5 DEF HubNext
<1> QED
  BY <1>1, <1>2 DEF Bounded

StateTyped ==
    /\ newest \in [Agents -> 0 .. MaxPush] /\ status \in [Agents -> Statuses]
    /\ agent \in Agents \cup {NoAgent} /\ agentPage \in AgentPages /\ filter \in Filters
    /\ viewMode \in {"live", "history"} /\ chosen \in BOOLEAN

HubTypeInv == StateTyped /\ ShownTyped /\ FetchTyped

LEMMA HubTypes ==
  ASSUME ConstantsAssumption, HubTypeInv, NEW a \in Agents, Push(a) \/ Age(a)
  PROVE  HubTypeInv'
<1>1. newest' \in [Agents -> 0 .. MaxPush]
  <2>1. CASE Push(a)
    <3>1. newest[a] \in 0 .. MaxPush /\ newest[a] < MaxPush /\ MaxPush \in Nat
      BY <2>1 DEF Push, HubTypeInv, StateTyped, ConstantsAssumption
    <3>2. newest[a] + 1 \in 0 .. MaxPush
      BY <3>1
    <3> QED
      BY <2>1, <3>2 DEF Push, HubTypeInv, StateTyped
  <2>2. CASE Age(a)
    BY <2>2 DEF Age, HubTypeInv, StateTyped
  <2> QED
    BY <2>1, <2>2
<1>2. status' \in [Agents -> Statuses]
  BY DEF Push, Age, HubTypeInv, StateTyped, Statuses
<1>3. UNCHANGED <<viewVars, viewMode, agents, agentSnapshot, live, agentItems, fetch, chosen>>
  BY DEF Push, Age
<1> QED
  BY <1>1, <1>2, <1>3 DEF HubTypeInv, StateTyped, ShownTyped, FetchTyped, viewVars

LEMMA UserTypes ==
  ASSUME ConstantsAssumption, HubTypeInv, User
  PROVE  HubTypeInv'
<1>1. "overview" \in AgentPages
  BY DEF ConstantsAssumption
<1>2. ASSUME NEW b \in Agents, OpenAgent(b) PROVE HubTypeInv'
  <2>1. agent' = b /\ agentPage' = "overview" /\ filter' = "all" /\ agents' = EmptyList
        /\ UNCHANGED <<agentSnapshot, live, agentItems>>
    BY <1>2 DEF OpenAgent, NavigateTo
  <2>2. FetchTyped' /\ UNCHANGED <<newest, status>>
    BY <1>1, <1>2, NavigateTyped DEF OpenAgent, HubTypeInv
  <2>3. viewMode' \in {"live", "history"} /\ chosen' \in BOOLEAN
    BY <1>2, ModesTyped DEF OpenAgent, HubTypeInv, StateTyped
  <2> QED
    BY <1>1, <2>1, <2>2, <2>3, EmptyTypes DEF HubTypeInv, StateTyped, ShownTyped, Filters
<1>3. ASSUME NEW b \in Agents, NEW q \in AgentPages, SwitchTo(b, q) PROVE HubTypeInv'
  <2>1. agent' = b /\ agentPage' = q /\ agentItems' \in {agentItems, None} /\ UNCHANGED <<filter, agents, agentSnapshot, live>>
    BY <1>3 DEF SwitchTo, NavigateTo
  <2>2. FetchTyped' /\ UNCHANGED <<newest, status>>
    BY <1>3, NavigateTyped DEF SwitchTo, HubTypeInv
  <2>3. viewMode' \in {"live", "history"} /\ chosen' \in BOOLEAN
    BY <1>3, ModesTyped DEF SwitchTo, HubTypeInv, StateTyped
  <2> QED
    BY <2>1, <2>2, <2>3, EmptyTypes DEF HubTypeInv, StateTyped, ShownTyped
<1>4. CASE BackToHub
  <2>1. agent' = NoAgent /\ agentPage' = "overview" /\ agents' = EmptyList /\ agentSnapshot' = None /\ live' = FALSE
        /\ agentItems' = None /\ chosen' = FALSE /\ UNCHANGED <<filter, viewMode>>
    BY <1>4 DEF BackToHub, NavigateTo
  <2>2. FetchTyped' /\ UNCHANGED <<newest, status>>
    BY <1>1, <1>4, NavigateTyped DEF BackToHub, HubTypeInv
  <2> QED
    BY <1>1, <2>1, <2>2, EmptyTypes DEF HubTypeInv, StateTyped, ShownTyped
<1>5. ASSUME NEW m \in {"live", "history"}, Toggle(m) PROVE HubTypeInv'
  BY <1>5 DEF Toggle, HubTypeInv, StateTyped, ShownTyped, FetchTyped, hubVars, viewVars
<1>6. ASSUME NEW f \in Filters, Pick(f) PROVE HubTypeInv'
  BY <1>6 DEF Pick, HubTypeInv, StateTyped, ShownTyped, FetchTyped, hubVars
<1> QED
  BY <1>2, <1>3, <1>4, <1>5, <1>6 DEF User

LEMMA PollTypes ==
  ASSUME HubTypeInv, NEW h \in Hooks, Poll(h)
  PROVE  HubTypeInv'
<1>1. PICK s \in Free(fetch[h]) : Set(h, s, Sent(h, agent))
  BY DEF Poll
<1>2. s \in Slots(h)
  BY DEF Free, HubTypeInv, FetchTyped
<1>3. Sent(h, agent) \in Request(h)
  BY SentTyped DEF Poll, HubTypeInv, StateTyped
<1>4. FetchTyped'
  BY <1>1, <1>2, <1>3, SetTyped DEF HubTypeInv
<1> QED
  BY <1>4 DEF Poll, HubTypeInv, StateTyped, ShownTyped, hubVars, viewVars

LEMMA ServeTypes ==
  ASSUME ConstantsAssumption, HubTypeInv, NEW h \in Hooks, NEW s \in Slots(h), Serve(h, s)
  PROVE  HubTypeInv'
<1>1. fetch[h][s] \in Request(h)
  BY DEF HubTypeInv, FetchTyped
<1>2. fetch[h][s].of \in Subject(h)
  BY <1>1, RequestKinds DEF Serve
<1>3. [phase |-> "answered", got |-> ServerAnswer(h, fetch[h][s].of)] \in Request(h)
  BY <1>2, AnswerTyped DEF HubTypeInv, StateTyped
<1>4. FetchTyped'
  BY <1>3, SetTyped DEF Serve, HubTypeInv
<1> QED
  BY <1>4 DEF Serve, HubTypeInv, StateTyped, ShownTyped, hubVars, viewVars

\* The answer of a request, or its failure, frees the slot.
LEMMA DeliveredTyped ==
  ASSUME HubTypeInv, NEW h \in Hooks, NEW s \in Slots(h), Then(h, s) \/ Catch(h, s)
  PROVE  /\ FetchTyped'
         /\ fetch[h][s].phase = "answered" => fetch[h][s].got \in IF h = "agents" THEN AgentLists ELSE Snapshots
<1>1. Set(h, s, Idle)
  BY DEF Then, Catch
<1>2. FetchTyped'
  BY <1>1, EmptyTypes, SetTyped DEF HubTypeInv
<1>3. fetch[h][s] \in Request(h)
  BY DEF HubTypeInv, FetchTyped
<1> QED
  BY <1>2, <1>3, RequestKinds

LEMMA DeliverTypes ==
  ASSUME HubTypeInv, Deliver
  PROVE  HubTypeInv'
<1>1. "metrics" \in Hooks /\ "agents" \in Hooks /\ "diagnostics" \in Hooks
  BY DEF Hooks
<1>2. ASSUME NEW s \in Slots("agents"), LoadAgents(s) PROVE HubTypeInv'
  <2>1. FetchTyped' /\ (fetch["agents"][s].phase = "answered" => fetch["agents"][s].got \in AgentLists)
    BY <1>1, <1>2, DeliveredTyped DEF LoadAgents
  <2>2. agents' \in AgentLists
    BY <1>2, <2>1, EmptyTypes DEF LoadAgents, Then
  <2>3. viewMode' \in {"live", "history"} /\ chosen' \in BOOLEAN
    BY <1>2, ModesTyped DEF LoadAgents, HubTypeInv, StateTyped
  <2> QED
    BY <1>2, <2>1, <2>2, <2>3 DEF LoadAgents, HubTypeInv, StateTyped, ShownTyped, hubVars, viewVars
<1>3. ASSUME NEW s \in Slots("metrics"), LoadMetrics(s) PROVE HubTypeInv'
  <2>1. FetchTyped' /\ (fetch["metrics"][s].phase = "answered" => fetch["metrics"][s].got \in Snapshots)
    BY <1>1, <1>3, DeliveredTyped DEF LoadMetrics
  <2>2. agentSnapshot' \in Snapshots /\ live' \in BOOLEAN
    BY <1>3, <2>1 DEF LoadMetrics, Then, HubTypeInv, ShownTyped
  <2> QED
    BY <1>3, <2>1, <2>2 DEF LoadMetrics, HubTypeInv, StateTyped, ShownTyped, hubVars, viewVars
<1>4. ASSUME NEW s \in Slots("diagnostics"), LoadDiagnostics(s) PROVE HubTypeInv'
  <2>1. FetchTyped' /\ (fetch["diagnostics"][s].phase = "answered" => fetch["diagnostics"][s].got \in Snapshots)
    BY <1>1, <1>4, DeliveredTyped DEF LoadDiagnostics
  <2>2. agentItems' \in Snapshots
    BY <1>4, <2>1, EmptyTypes DEF LoadDiagnostics, Then
  <2> QED
    BY <1>4, <2>1, <2>2 DEF LoadDiagnostics, HubTypeInv, StateTyped, ShownTyped, hubVars, viewVars
<1> QED
  BY <1>2, <1>3, <1>4 DEF Deliver

LEMMA HubTypeInit ==
  ASSUME ConstantsAssumption, HubInit
  PROVE  HubTypeInv /\ Bounded
<1>1. StateTyped
  <2>1. 0 \in 0 .. MaxPush
    BY DEF ConstantsAssumption
  <2> QED
    BY <2>1 DEF HubInit, StateTyped, Statuses, Filters, ConstantsAssumption
<1>2. ShownTyped
  BY EmptyTypes DEF HubInit, ShownTyped
<1>3. FetchTyped
  BY EmptyTypes DEF HubInit, FetchTyped
<1>4. Bounded
  <2>1. MaxClicks \in Nat /\ MaxChanges \in Nat /\ MaxFaults \in Nat
    BY DEF ConstantsAssumption
  <2> QED
    BY <2>1 DEF HubInit, Bounded
<1> QED
  BY <1>1, <1>2, <1>3, <1>4 DEF HubTypeInv

LEMMA HubTypeNext ==
  ASSUME ConstantsAssumption, HubTypeInv, [HubNext]_drillVars
  PROVE  HubTypeInv'
<1>1. CASE UNCHANGED drillVars
  BY <1>1 DEF drillVars, HubTypeInv, StateTyped, ShownTyped, FetchTyped, hubVars, viewVars
<1> QED
  BY <1>1, HubTypes, UserTypes, PollTypes, ServeTypes, DeliverTypes DEF HubNext

-----------------------------------------------------------------------------
(* The theorems.                                                           *)

\* HubAgentLayout never shows the "last data" banner of an agent over live
\* panels, unless the user picked Live since the status was seen to change:
\* whatever the agents, pages and answers before.
THEOREM OfflineInHistory == HubSpec => []OfflineShownInHistory
<1>1. HubInit => OfflineShownInHistory
  BY DEF HubInit, OfflineShownInHistory, Banner
<1>2. OfflineShownInHistory /\ [HubNext]_drillVars => OfflineShownInHistory'
  BY NextKeeps
<1> QED
  BY <1>1, <1>2, PTL DEF HubSpec

\* What useHubAgents, useHubAgentMetrics and useDiagnostics hold has the type
\* of what they show, and every request under way asks for an agent, or for
\* the list: no hook asks without an agent, whichever page is left when.
THEOREM HubTyped == HubSpec => []HubTypeOK
<1>1. HubInit => HubTypeInv /\ Bounded
  BY HubTypeInit, ConstantsAssumption
<1>2. HubTypeInv /\ Bounded /\ [HubNext]_drillVars => HubTypeInv' /\ Bounded'
  BY HubTypeNext, BoundedNext, ConstantsAssumption
<1>3. HubTypeInv /\ Bounded => HubTypeOK
  BY DEF HubTypeInv, Bounded, StateTyped, ShownTyped, FetchTyped, HubTypeOK
<1> QED
  BY <1>1, <1>2, <1>3, PTL DEF HubSpec
==============================================================================
