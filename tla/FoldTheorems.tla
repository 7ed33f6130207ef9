------------------------------ MODULE FoldTheorems ------------------------------
(***************************************************************************)
(* What the other proofs need of the naturals, of sequences and of folds:   *)
(* induction, the largest of a set, and FoldLeft as a sequence of rounds.   *)
(***************************************************************************)
EXTENDS Integers, Sequences, SequencesExt, FiniteSetsExt, SequenceTheorems, WellFoundedInduction,
        TLAPS

-----------------------------------------------------------------------------
(* Induction.  The library states it for an operator, which the provers     *)
(* cannot instantiate; here it is for a set of numbers, from the fact that  *)
(* the naturals are well-founded.                                           *)

LEMMA SetInduction ==
  ASSUME NEW T, 0 \in T, \A n \in Nat : n \in T => n + 1 \in T
  PROVE  Nat \subseteq T
<1> DEFINE smaller == {pair \in Nat \X Nat : pair[1] < pair[2]}
           left == Nat \ T
<1> SUFFICES ASSUME left # {} PROVE FALSE
  OBVIOUS
<1>1. IsWellFoundedOn(smaller, Nat)
  BY NatLessThanWellFounded DEF OpToRel
<1>2. left \subseteq Nat
  OBVIOUS
<1>3. PICK x \in left : \A y \in left : ~ (<<y, x>> \in smaller)
  <2> HIDE DEF left, smaller
  <2> QED
    BY <1>1, <1>2, WFMin
<1>4. x # 0 /\ x - 1 \in Nat /\ <<x - 1, x>> \in smaller
  OBVIOUS
<1>5. x - 1 \in T
  BY <1>3, <1>4
<1> QED
  BY <1>4, <1>5

\* A set of numbers up to a bound has a largest one.
LEMMA Largest ==
  ASSUME NEW n \in Nat, NEW S \in SUBSET (0 .. n), S # {}
  PROVE  Max(S) \in S /\ \A y \in S : y <= Max(S)
<1> DEFINE T == {m \in Nat : \A U \in SUBSET (0 .. m) :
                               U # {} => \E x \in U : \A y \in U : x >= y}
<1>1. 0 \in T
  <2>1. ASSUME NEW U \in SUBSET (0 .. 0), U # {}
        PROVE  \E x \in U : \A y \in U : x >= y
    <3>1. PICK x \in U : TRUE
      BY <2>1
    <3>2. \A y \in U : y \in 0 .. 0
      BY <2>1
    <3>3. x = 0 /\ \A y \in U : y = 0
      BY <3>1, <3>2
    <3> QED
      BY <3>3
  <2> QED
    BY <2>1
<1>2. ASSUME NEW m \in Nat, m \in T PROVE m + 1 \in T
  <2>1. SUFFICES ASSUME NEW U \in SUBSET (0 .. m + 1), U # {}
                 PROVE  \E x \in U : \A y \in U : x >= y
    OBVIOUS
  <2>2. CASE m + 1 \in U
    BY <2>2
  <2>3. CASE m + 1 \notin U
    <3>1. U \in SUBSET (0 .. m)
      BY <2>3
    <3> QED
      BY <3>1, <2>1, <1>2
  <2> QED
    BY <2>2, <2>3
<1>3. n \in T
  <2> HIDE DEF T
  <2> QED
    BY <1>1, <1>2, SetInduction
<1>4. PICK x \in S : \A y \in S : x >= y
  BY <1>3
<1> QED
  BY <1>4 DEF Max

\* The largest of a set is the one that is at least as large as all of it.
LEMMA LargestIs ==
  ASSUME NEW n \in Nat, NEW S \in SUBSET (0 .. n), NEW x \in S, \A y \in S : y <= x
  PROVE  Max(S) = x
<1>1. Max(S) \in S /\ x <= Max(S) /\ Max(S) <= x
  BY Largest
<1>2. Max(S) \in 0 .. n /\ x \in 0 .. n
  BY <1>1
<1> QED
  BY <1>1, <1>2

LEMMA SequenceOf ==
  ASSUME NEW S, NEW T, NEW s \in Seq(S), \A k \in DOMAIN s : s[k] \in T
  PROVE  s \in Seq(T)
<1>1. Len(s) \in Nat /\ s \in [1 .. Len(s) -> S] /\ DOMAIN s = 1 .. Len(s)
  BY LenProperties
<1>2. s \in [1 .. Len(s) -> T]
  BY <1>1
<1> QED
  BY <1>1, <1>2, SeqDef

-----------------------------------------------------------------------------
(* Folds.  FoldLeft is the value, at the whole domain, of a function that   *)
(* is defined on its subsets by recursion on the largest element.           *)

\* The last element of an interval.
LEMMA LastOfInterval ==
  ASSUME NEW n \in Nat, NEW u \in SUBSET (1 .. n + 1), n + 1 \in u
  PROVE  /\ Max(u) = n + 1 /\ u # {}
         /\ u \ {n + 1} \in SUBSET (1 .. n) /\ (u = 1 .. n + 1 => u \ {n + 1} = 1 .. n)
<1>1. u \in SUBSET (0 .. n + 1) /\ n + 1 \in Nat /\ \A y \in u : y <= n + 1
  OBVIOUS
<1>2. Max(u) = n + 1
  BY <1>1, LargestIs
<1>3. \A i \in 1 .. n + 1 : i # n + 1 => i \in 1 .. n
  OBVIOUS
<1>4. u = 1 .. n + 1 => u \ {n + 1} = 1 .. n
  BY <1>3
<1> QED
  BY <1>2, <1>3, <1>4

\* The functions that are such a recursion.
FoldsOf(S, base, step, s) ==
  {g \in [SUBSET DOMAIN s -> S] :
     \A u \in SUBSET DOMAIN s :
       g[u] = IF u = {} THEN base ELSE step[<<g[u \ {Max(u)}], s[Max(u)]>>]}

\* There is one.
LEMMA FoldExists ==
  ASSUME NEW S, NEW E, NEW base \in S, NEW step \in [S \X E -> S], NEW s \in Seq(E)
  PROVE  FoldsOf(S, base, step, s) # {}
<1> DEFINE Folds(n) ==
             {g \in [SUBSET (1 .. n) -> S] :
                \A u \in SUBSET (1 .. n) :
                  g[u] = IF u = {} THEN base ELSE step[<<g[u \ {Max(u)}], s[Max(u)]>>]}
           T == {n \in Nat : n <= Len(s) => Folds(n) # {}}
<1>1. /\ Len(s) \in Nat /\ DOMAIN s = 1 .. Len(s) /\ \A i \in 1 .. Len(s) : s[i] \in E
  OBVIOUS
<1>0. \A n : Folds(n) \subseteq [SUBSET (1 .. n) -> S]
  OBVIOUS
<1>2. 0 \in T
  <2>1. SUBSET (1 .. 0) = {{}}
    OBVIOUS
  <2>2. [u \in SUBSET (1 .. 0) |-> base] \in [SUBSET (1 .. 0) -> S]
    OBVIOUS
  <2>3. [u \in SUBSET (1 .. 0) |-> base] \in Folds(0)
    BY <2>1, <2>2
  <2> HIDE DEF Folds
  <2> QED
    BY <2>3
<1>3. ASSUME NEW n \in Nat, n \in T PROVE n + 1 \in T
  <2> HIDE DEF Folds
  <2>1. SUFFICES ASSUME n + 1 <= Len(s) PROVE Folds(n + 1) # {}
    OBVIOUS
  <2>2. PICK f : f \in Folds(n)
    BY <1>1, <1>3, <2>1
  <2>a. f \in [SUBSET (1 .. n) -> S]
    <3> HIDE DEF Folds
    <3> QED
      BY <2>2, <1>0
  <2> USE DEF Folds
  <2> DEFINE g == [u \in SUBSET (1 .. n + 1) |->
                     IF n + 1 \in u THEN step[<<f[u \ {n + 1}], s[n + 1]>>] ELSE f[u]]
  <2>3. \A u \in SUBSET (1 .. n + 1) : n + 1 \notin u => u \in SUBSET (1 .. n)
    OBVIOUS
  <2>4. \A u \in SUBSET (1 .. n + 1) : n + 1 \in u => u \ {n + 1} \in SUBSET (1 .. n)
    BY LastOfInterval
  <2>5. s[n + 1] \in E
    BY <1>1, <2>1
  <2>6. g \in [SUBSET (1 .. n + 1) -> S]
    <3>1. ASSUME NEW u \in SUBSET (1 .. n + 1)
          PROVE  (IF n + 1 \in u THEN step[<<f[u \ {n + 1}], s[n + 1]>>] ELSE f[u]) \in S
      <4>1. CASE n + 1 \in u
        <5>1. f[u \ {n + 1}] \in S
          BY <4>1, <2>4, <2>a
        <5> QED
          BY <5>1, <4>1, <2>5
      <4>2. CASE n + 1 \notin u
        BY <4>2, <2>3, <2>a
      <4> QED
        BY <4>1, <4>2
    <3> QED
      BY <3>1
  <2>7. ASSUME NEW u \in SUBSET (1 .. n + 1)
        PROVE  g[u] = IF u = {} THEN base ELSE step[<<g[u \ {Max(u)}], s[Max(u)]>>]
    <3>1. CASE n + 1 \in u
      <4>1. Max(u) = n + 1 /\ u # {} /\ u \ {n + 1} \in SUBSET (1 .. n)
        BY <3>1, LastOfInterval
      <4>2. /\ n + 1 \notin u \ {n + 1} /\ u \ {n + 1} \in SUBSET (1 .. n + 1)
        BY <4>1
      <4>3. g[u \ {n + 1}] = f[u \ {n + 1}]
        BY <4>2
      <4>4. g[u] = step[<<f[u \ {n + 1}], s[n + 1]>>]
        BY <3>1
      <4> HIDE DEF g
      <4> QED
        BY <4>1, <4>3, <4>4
    <3>2. CASE n + 1 \notin u
      <4>1. u \in SUBSET (1 .. n) /\ g[u] = f[u]
        BY <3>2, <2>3
      <4>2. u # {} => Max(u) \in u /\ u \ {Max(u)} \in SUBSET (1 .. n)
        <5>1. u \in SUBSET (0 .. n)
          BY <4>1
        <5> QED
          BY <4>1, <5>1, Largest
      <4>3. u # {} => g[u \ {Max(u)}] = f[u \ {Max(u)}]
        <5>1. u # {} => /\ n + 1 \notin u \ {Max(u)}
                        /\ u \ {Max(u)} \in SUBSET (1 .. n + 1)
          BY <4>1, <4>2
        <5> QED
          BY <5>1
      <4>4. f[u] = IF u = {} THEN base ELSE step[<<f[u \ {Max(u)}], s[Max(u)]>>]
        BY <2>2, <4>1
      <4> HIDE DEF g
      <4> QED
        BY <4>1, <4>3, <4>4
    <3> QED
      BY <3>1, <3>2
  <2> HIDE DEF g
  <2>8. g \in Folds(n + 1)
    BY <2>6, <2>7
  <2> HIDE DEF Folds
  <2> QED
    BY <2>8
<1>4. Len(s) \in T
  <2> HIDE DEF T
  <2> QED
    BY <1>1, <1>2, <1>3, SetInduction
<1>5. PICK g : g \in Folds(Len(s))
  <2> HIDE DEF Folds
  <2> QED
    BY <1>1, <1>4
<1>6. \A u \in SUBSET DOMAIN s :
        g[u] = IF u = {} THEN base ELSE step[<<g[u \ {Max(u)}], s[Max(u)]>>]
  BY <1>1, <1>5
<1>7. g \in [SUBSET DOMAIN s -> S]
  BY <1>1, <1>5
<1> HIDE DEF Folds
<1> QED
  BY <1>6, <1>7 DEF FoldsOf

LEMMA LargestIn ==
  ASSUME NEW E, NEW s \in Seq(E), NEW u \in SUBSET DOMAIN s, u # {}
  PROVE  Max(u) \in DOMAIN s /\ u \ {Max(u)} \in SUBSET DOMAIN s /\ s[Max(u)] \in E
<1>1. Len(s) \in Nat /\ u \in SUBSET (0 .. Len(s))
  OBVIOUS
<1>2. Max(u) \in u
  BY <1>1, Largest
<1> QED
  BY <1>2

\* The values of the recursion at 1 .. n are those of the fold after n elements.
IsRun(h, S, base, step, s) ==
  /\ h[1 .. 0] = base /\ h[DOMAIN s] = h[1 .. Len(s)]
  /\ \A n \in 0 .. Len(s) : h[1 .. n] \in S
  /\ \A n \in 0 .. Len(s) - 1 : h[1 .. n + 1] = step[<<h[1 .. n], s[n + 1]>>]

LEMMA FoldRuns ==
  ASSUME NEW S, NEW E, NEW base \in S, NEW step \in [S \X E -> S], NEW s \in Seq(E), NEW h,
         h[{}] = base,
         \A u \in SUBSET DOMAIN s :
           u # {} /\ h[u \ {Max(u)}] \in S => h[u] = step[<<h[u \ {Max(u)}], s[Max(u)]>>]
  PROVE  IsRun(h, S, base, step, s) /\ h[DOMAIN s] \in S
<1>1. /\ Len(s) \in Nat /\ DOMAIN s = 1 .. Len(s) /\ 1 .. 0 = {}
      /\ \A i \in 1 .. Len(s) : s[i] \in E
  OBVIOUS
<1>2. ASSUME NEW n \in 0 .. Len(s) - 1, h[1 .. n] \in S
      PROVE  h[1 .. n + 1] = step[<<h[1 .. n], s[n + 1]>>] /\ h[1 .. n + 1] \in S
  <2>1. PICK u : u = 1 .. n + 1
    OBVIOUS
  <2>2. n \in Nat /\ n + 1 \in u /\ u \in SUBSET (1 .. n + 1) /\ u \in SUBSET DOMAIN s
    BY <2>1, <1>1
  <2>3. Max(u) = n + 1 /\ u \ {n + 1} = 1 .. n /\ u # {}
    <3>1. Max(u) = n + 1 /\ u # {} /\ (u = 1 .. n + 1 => u \ {n + 1} = 1 .. n)
      BY <2>2, LastOfInterval
    <3> QED
      BY <2>1, <3>1
  <2>4. h[u] = step[<<h[1 .. n], s[n + 1]>>]
    BY <2>2, <2>3, <1>2
  <2>5. s[n + 1] \in E
    BY <1>1
  <2> QED
    BY <2>1, <2>4, <2>5, <1>2
<1> DEFINE T == {n \in Nat : n <= Len(s) => h[1 .. n] \in S}
<1>3. 0 \in T
  BY <1>1
<1>4. ASSUME NEW n \in Nat, n \in T PROVE n + 1 \in T
  <2>1. SUFFICES ASSUME n + 1 <= Len(s) PROVE h[1 .. n + 1] \in S
    OBVIOUS
  <2>2. n \in 0 .. Len(s) - 1 /\ n <= Len(s)
    BY <2>1, <1>1
  <2> QED
    BY <2>2, <1>2, <1>4
<1>5. Nat \subseteq T
  <2> HIDE DEF T
  <2> QED
    BY <1>3, <1>4, SetInduction
<1>6. \A n \in 0 .. Len(s) : h[1 .. n] \in S
  BY <1>1, <1>5
<1>7. \A n \in 0 .. Len(s) - 1 : n \in 0 .. Len(s)
  BY <1>1
<1> QED
  BY <1>1, <1>2, <1>6, <1>7 DEF IsRun

\* The rounds of a sum.
Total(text) == FoldLeft(+, 0, text)

LEMMA TotalRuns ==
  ASSUME NEW text \in Seq(Nat)
  PROVE  \E h : /\ h[1 .. 0] = 0 /\ Total(text) = h[1 .. Len(text)]
                /\ \A n \in 0 .. Len(text) : h[1 .. n] \in Nat
                /\ \A n \in 0 .. Len(text) - 1 : h[1 .. n + 1] = h[1 .. n] + text[n + 1]
<1> DEFINE step == [x \in Nat \X Nat |-> x[1] + x[2]]
<1>1. step \in [Nat \X Nat -> Nat] /\ 0 \in Nat
  OBVIOUS
<1>2. \A n, m \in Nat : step[<<n, m>>] = n + m
  OBVIOUS
<1> HIDE DEF step
<1>3. \E iter : iter = [u \in SUBSET DOMAIN text |->
                          IF u = {} THEN 0 ELSE iter[u \ {Max(u)}] + text[Max(u)]]
  <2>1. PICK g : g \in FoldsOf(Nat, 0, step, text)
    <3>1. FoldsOf(Nat, 0, step, text) # {}
      BY <1>1, FoldExists, Zenon
    <3> QED
      BY <3>1
  <2>2. /\ g \in [SUBSET DOMAIN text -> Nat]
        /\ \A u \in SUBSET DOMAIN text :
             g[u] = IF u = {} THEN 0 ELSE step[<<g[u \ {Max(u)}], text[Max(u)]>>]
    BY <2>1 DEF FoldsOf
  <2>3. \A u \in SUBSET DOMAIN text :
          g[u] = IF u = {} THEN 0 ELSE g[u \ {Max(u)}] + text[Max(u)]
    BY <2>2, <1>2, LargestIn
  <2> QED
    BY <2>2, <2>3
<1>4. PICK h : /\ h = [u \in SUBSET DOMAIN text |->
                         IF u = {} THEN 0 ELSE h[u \ {Max(u)}] + text[Max(u)]]
               /\ Total(text) = h[DOMAIN text]
  <2>1. Total(text) =
          (CHOOSE iter : iter = [u \in SUBSET DOMAIN text |->
                                   IF u = {} THEN 0
                                   ELSE iter[u \ {Max(u)}] + text[Max(u)]])[DOMAIN text]
    BY DEF Total, FoldLeft, MapThenFoldSet
  <2> QED
    BY <2>1, <1>3
<1>5. h[{}] = 0
  BY <1>4
<1>6. \A u \in SUBSET DOMAIN text :
        u # {} /\ h[u \ {Max(u)}] \in Nat => h[u] = step[<<h[u \ {Max(u)}], text[Max(u)]>>]
  <2>1. SUFFICES ASSUME NEW u \in SUBSET DOMAIN text, u # {}, h[u \ {Max(u)}] \in Nat
                 PROVE  h[u] = step[<<h[u \ {Max(u)}], text[Max(u)]>>]
    OBVIOUS
  <2>2. text[Max(u)] \in Nat
    BY <2>1, LargestIn
  <2>3. h[u] = h[u \ {Max(u)}] + text[Max(u)]
    BY <2>1, <1>4
  <2> QED
    BY <2>1, <2>2, <2>3, <1>2
<1>7. IsRun(h, Nat, 0, step, text)
  BY <1>1, <1>5, <1>6, FoldRuns
<1>8. \A n \in 0 .. Len(text) - 1 : n \in 0 .. Len(text) /\ text[n + 1] \in Nat
  OBVIOUS
<1>9. h[1 .. 0] = 0 /\ Total(text) = h[1 .. Len(text)] /\ \A n \in 0 .. Len(text) : h[1 .. n] \in Nat
  BY <1>4, <1>7 DEF IsRun
<1>a. ASSUME NEW n \in 0 .. Len(text) - 1 PROVE h[1 .. n + 1] = h[1 .. n] + text[n + 1]
  <2>1. h[1 .. n + 1] = step[<<h[1 .. n], text[n + 1]>>]
    BY <1>7 DEF IsRun
  <2> QED
    BY <2>1, <1>2, <1>8, <1>9
<1> QED
  BY <1>9, <1>a

LEMMA TotalType ==
  ASSUME NEW text \in Seq(Nat)
  PROVE  Total(text) \in Nat /\ (Len(text) = 1 => Total(text) = text[1])
<1>1. PICK h : /\ h[1 .. 0] = 0 /\ Total(text) = h[1 .. Len(text)]
               /\ \A n \in 0 .. Len(text) : h[1 .. n] \in Nat
               /\ \A n \in 0 .. Len(text) - 1 : h[1 .. n + 1] = h[1 .. n] + text[n + 1]
  BY TotalRuns
<1>2. Len(text) \in 0 .. Len(text)
  OBVIOUS
<1>3. ASSUME Len(text) = 1 PROVE Total(text) = text[1]
  <2>1. 0 \in 0 .. Len(text) - 1 /\ 0 + 1 = 1 /\ 1 \in 1 .. Len(text)
    BY <1>3
  <2>2. text[1] \in Nat
    BY <2>1, ElementOfSeq
  <2>3. h[1 .. 0 + 1] = h[1 .. 0] + text[0 + 1]
    BY <1>1, <2>1
  <2>4. h[1 .. 1] = 0 + text[1]
    BY <1>1, <2>1, <2>3
  <2> QED
    BY <1>1, <1>3, <2>2, <2>4
<1> QED
  BY <1>1, <1>2, <1>3

LEMMA TotalOfAppend ==
  ASSUME NEW text \in Seq(Nat), NEW m \in Nat
  PROVE  Total(Append(text, m)) = Total(text) + m
<1>0. Append(text, m) \in Seq(Nat)
  OBVIOUS
<1>1. PICK more \in Seq(Nat) : more = Append(text, m)
  BY <1>0
<1>2. PICK n \in Nat : n = Len(text)
  OBVIOUS
<1>3. /\ Len(more) = n + 1 /\ more[n + 1] = m
      /\ \A i \in 0 .. n - 1 : more[i + 1] = text[i + 1] /\ text[i + 1] \in Nat
  <2>1. Len(more) = n + 1 /\ more[n + 1] = m /\ \A i \in 1 .. n : more[i] = text[i]
    BY <1>1, <1>2
  <2>2. \A i \in 0 .. n - 1 : i + 1 \in 1 .. n
    OBVIOUS
  <2>3. \A i \in 1 .. n : text[i] \in Nat
    BY <1>2, ElementOfSeq
  <2> QED
    BY <2>1, <2>2, <2>3
<1>4. PICK g : /\ g[1 .. 0] = 0 /\ Total(text) = g[1 .. n]
               /\ \A i \in 0 .. n - 1 : g[1 .. i + 1] = g[1 .. i] + text[i + 1]
  BY <1>2, TotalRuns
<1>5. PICK h : /\ h[1 .. 0] = 0 /\ Total(more) = h[1 .. n + 1]
               /\ \A i \in 0 .. n : h[1 .. i + 1] = h[1 .. i] + more[i + 1]
  <2>1. Len(more) = n + 1 /\ Len(more) - 1 = n
    BY <1>3
  <2>2. PICK h : /\ h[1 .. 0] = 0 /\ Total(more) = h[1 .. Len(more)]
                 /\ \A i \in 0 .. Len(more) - 1 : h[1 .. i + 1] = h[1 .. i] + more[i + 1]
    BY TotalRuns
  <2> QED
    BY <2>1, <2>2
<1> DEFINE T == {i \in Nat : i <= n => h[1 .. i] = g[1 .. i]}
<1>6. 0 \in T
  BY <1>4, <1>5
<1>7. ASSUME NEW i \in Nat, i \in T PROVE i + 1 \in T
  <2>1. SUFFICES ASSUME i + 1 <= n PROVE h[1 .. i + 1] = g[1 .. i + 1]
    OBVIOUS
  <2>2. i \in 0 .. n - 1 /\ i \in 0 .. n /\ i <= n
    BY <2>1
  <2> QED
    BY <2>2, <1>3, <1>4, <1>5, <1>7
<1>8. n \in T
  <2> HIDE DEF T
  <2> QED
    BY <1>6, <1>7, SetInduction
<1>9. h[1 .. n] = g[1 .. n]
  BY <1>8
<1>a. h[1 .. n + 1] = h[1 .. n] + more[n + 1]
  <2>1. n \in 0 .. n
    OBVIOUS
  <2> QED
    BY <2>1, <1>5
<1> QED
  BY <1>1, <1>3, <1>4, <1>5, <1>9, <1>a

LEMMA TotalOfNone == Total(<<>>) = 0
<1>1. <<>> \in Seq(Nat) /\ Len(<<>>) = 0
  OBVIOUS
<1> QED
  BY <1>1, TotalRuns

\* A sequence that is not empty is one element longer than what comes before the last.
LEMMA FrontAndLast ==
  ASSUME NEW E, NEW s \in Seq(E), s # <<>>
  PROVE  \E front \in Seq(E), e \in E : s = Append(front, e)
<1>0. PICK n \in Nat : Len(s) = n + 1
  <2>1. Len(s) \in Nat \ {0}
    OBVIOUS
  <2>2. Len(s) - 1 \in Nat /\ Len(s) = (Len(s) - 1) + 1
    BY <2>1
  <2> QED
    BY <2>2
<1> DEFINE front == [k \in 1 .. n |-> s[k]]
<1>1. /\ DOMAIN s = 1 .. n + 1 /\ n + 1 \in 1 .. n + 1
      /\ \A k \in 1 .. n : k \in 1 .. n + 1
      /\ \A k \in 1 .. n + 1 : s[k] \in E
  BY <1>0, ElementOfSeq
<1>2. front \in [1 .. n -> E]
  BY <1>1
<1>3. front \in Seq(E) /\ Len(front) = n /\ \A k \in 1 .. n : front[k] = s[k]
  <2>1. front \in Seq(E) /\ DOMAIN front = 1 .. n
    BY <1>2, SeqDef
  <2> HIDE DEF front
  <2>2. Len(front) = n
    BY <2>1
  <2> QED
    BY <2>1, <2>2 DEF front
<1> HIDE DEF front
<1>4. PICK f \in Seq(E), e \in E : f = front /\ e = s[n + 1]
  BY <1>1, <1>3
<1>5. PICK t : t = Append(f, e)
  OBVIOUS
<1>6. /\ t \in Seq(E) /\ Len(t) = n + 1 /\ DOMAIN t = 1 .. n + 1
      /\ \A k \in 1 .. n : t[k] = s[k]
      /\ t[n + 1] = s[n + 1]
  BY <1>3, <1>4, <1>5
<1>7. \A k \in 1 .. n + 1 : t[k] = s[k]
  <2>1. \A k \in 1 .. n + 1 : k \in 1 .. n \/ k = n + 1
    OBVIOUS
  <2> QED
    BY <2>1, <1>6
<1>8. t = s
  BY <1>0, <1>6, <1>7, SeqEqual
<1> QED
  BY <1>3, <1>4, <1>5, <1>8

\* A sequence after another: the same with the last element taken off.
LEMMA ConcatAppend ==
  ASSUME NEW E, NEW s \in Seq(E), NEW t \in Seq(E), NEW e \in E
  PROVE  s \o Append(t, e) = Append(s \o t, e)
OBVIOUS

LEMMA TotalOfConcat ==
  ASSUME NEW text \in Seq(Nat), NEW more \in Seq(Nat)
  PROVE  Total(text \o more) = Total(text) + Total(more)
<1> DEFINE T == {n \in Nat : \A m \in Seq(Nat) :
                   Len(m) = n => Total(text \o m) = Total(text) + Total(m)}
<1>1. 0 \in T
  <2>1. SUFFICES ASSUME NEW m \in Seq(Nat), Len(m) = 0
                 PROVE  Total(text \o m) = Total(text) + Total(m)
    OBVIOUS
  <2>2. m = <<>>
    BY <2>1
  <2>3. text \o <<>> = text /\ Total(<<>>) = 0 /\ Total(text) \in Nat
    BY TotalOfNone, TotalType
  <2> QED
    BY <2>2, <2>3
<1>2. ASSUME NEW n \in Nat, n \in T PROVE n + 1 \in T
  <2>1. SUFFICES ASSUME NEW m \in Seq(Nat), Len(m) = n + 1
                 PROVE  Total(text \o m) = Total(text) + Total(m)
    OBVIOUS
  <2>2. PICK front \in Seq(Nat), e \in Nat : Len(front) = n /\ m = Append(front, e)
    <3>1. PICK front \in Seq(Nat), e \in Nat : m = Append(front, e)
      <4>1. m # <<>>
        BY <2>1
      <4> QED
        BY <4>1, FrontAndLast
    <3>2. Len(front) \in Nat /\ Len(m) = Len(front) + 1
      BY <3>1
    <3> QED
      BY SMTT(20), <2>1, <3>1, <3>2
  <2>3. Total(text \o front) = Total(text) + Total(front)
    BY <1>2, <2>2
  <2>4. text \o m = Append(text \o front, e) /\ text \o front \in Seq(Nat)
    BY SMTT(20), <2>2, ConcatAppend
  <2>5. Total(text \o m) = Total(text \o front) + e /\ Total(m) = Total(front) + e
    BY <2>2, <2>4, TotalOfAppend
  <2>6. Total(text) \in Nat /\ Total(front) \in Nat
    BY TotalType
  <2> QED
    BY <2>3, <2>5, <2>6
<1>3. Len(more) \in T
  <2> HIDE DEF T
  <2>1. Len(more) \in Nat
    OBVIOUS
  <2> QED
    BY <2>1, <1>1, <1>2, SetInduction
<1> QED
  BY <1>3

LEMMA TotalAtLeast ==
  ASSUME NEW text \in Seq(Nat), NEW k \in DOMAIN text
  PROVE  text[k] <= Total(text)
<1>1. PICK h : /\ h[1 .. 0] = 0 /\ Total(text) = h[1 .. Len(text)]
               /\ \A n \in 0 .. Len(text) : h[1 .. n] \in Nat
               /\ \A n \in 0 .. Len(text) - 1 : h[1 .. n + 1] = h[1 .. n] + text[n + 1]
  BY TotalRuns
<1>2. /\ Len(text) \in Nat /\ k \in 1 .. Len(text)
      /\ \A n \in 1 .. Len(text) : text[n] \in Nat
  BY ElementOfSeq
<1> DEFINE T == {n \in Nat : n \in k .. Len(text) => text[k] <= h[1 .. n]}
<1>3. 0 \in T
  BY <1>2
<1>4. ASSUME NEW n \in Nat, n \in T PROVE n + 1 \in T
  <2>1. SUFFICES ASSUME n + 1 \in k .. Len(text) PROVE text[k] <= h[1 .. n + 1]
    OBVIOUS
  <2>2. /\ n \in 0 .. Len(text) - 1 /\ n \in 0 .. Len(text)
        /\ n + 1 = k \/ n \in k .. Len(text)
    BY <2>1, <1>2
  <2>3. h[1 .. n + 1] = h[1 .. n] + text[n + 1] /\ h[1 .. n] \in Nat /\ text[n + 1] \in Nat
    BY <2>1, <2>2, <1>1, <1>2
  <2>4. CASE n + 1 = k
    <3>1. text[n + 1] = text[k]
      BY <2>4
    <3> QED
      BY <2>3, <3>1
  <2>5. CASE n \in k .. Len(text)
    <3>1. text[k] <= h[1 .. n] /\ text[k] \in Nat
      BY <2>5, <1>2, <1>4
    <3> QED
      BY <2>3, <3>1
  <2> QED
    BY <2>2, <2>4, <2>5
<1>5. Len(text) \in T
  <2> HIDE DEF T
  <2> QED
    BY <1>2, <1>3, <1>4, SetInduction
<1> QED
  BY <1>1, <1>2, <1>5

\* The same number, n times.
LEMMA TotalOfSame ==
  ASSUME NEW r \in Nat, NEW n \in Nat
  PROVE  [k \in 1 .. n |-> r] \in Seq(Nat) /\ Total([k \in 1 .. n |-> r]) = n * r
<1>1. PICK text : text = [k \in 1 .. n |-> r]
  OBVIOUS
<1>2. /\ text \in Seq(Nat) /\ Len(text) = n /\ \A i \in 0 .. n - 1 : text[i + 1] = r
  <2>1. text \in [1 .. n -> Nat] /\ DOMAIN text = 1 .. n
    BY <1>1
  <2>2. text \in Seq(Nat) /\ Len(text) = n
    BY <2>1, SeqDef
  <2>3. \A i \in 0 .. n - 1 : i + 1 \in 1 .. n
    OBVIOUS
  <2> QED
    BY <1>1, <2>2, <2>3
<1>3. PICK h : /\ h[1 .. 0] = 0 /\ Total(text) = h[1 .. n]
               /\ \A i \in 0 .. n - 1 : h[1 .. i + 1] = h[1 .. i] + text[i + 1]
  BY <1>2, TotalRuns
<1> DEFINE T == {i \in Nat : i <= n => h[1 .. i] = i * r}
<1>4. 0 \in T
  BY <1>3
<1>5. ASSUME NEW i \in Nat, i \in T PROVE i + 1 \in T
  <2>1. SUFFICES ASSUME i + 1 <= n PROVE h[1 .. i + 1] = (i + 1) * r
    OBVIOUS
  <2>2. i \in 0 .. n - 1 /\ i <= n
    BY <2>1
  <2>3. h[1 .. i + 1] = i * r + r
    BY <2>2, <1>2, <1>3, <1>5
  <2>4. (i + 1) * r = i * r + r
    OBVIOUS
  <2> QED
    BY <2>3, <2>4
<1>6. n \in T
  <2> HIDE DEF T
  <2> QED
    BY <1>4, <1>5, SetInduction
<1> QED
  BY <1>1, <1>2, <1>3, <1>6

-----------------------------------------------------------------------------
(* Sequences one after the other.                                           *)

Flat(seqs) == FoldLeft(\o, <<>>, seqs)

\* The sequences are closed under concatenation.
Joins(S) == <<>> \in S /\ \A s, t \in S : s \o t \in S

LEMMA SeqJoins ==
  ASSUME NEW E
  PROVE  Joins(Seq(E))
BY DEF Joins

LEMMA FlatRuns ==
  ASSUME NEW S, Joins(S), NEW seqs \in Seq(S)
  PROVE  \E h : /\ h[1 .. 0] = <<>> /\ Flat(seqs) = h[1 .. Len(seqs)]
                /\ \A n \in 0 .. Len(seqs) : h[1 .. n] \in S
                /\ \A n \in 0 .. Len(seqs) - 1 : h[1 .. n + 1] = h[1 .. n] \o seqs[n + 1]
<1> DEFINE step == [x \in S \X S |-> x[1] \o x[2]]
           none == <<>>
<1>1. step \in [S \X S -> S] /\ none \in S
  BY DEF Joins
<1>2. \A s, t \in S : step[<<s, t>>] = s \o t
  OBVIOUS
<1> HIDE DEF step, none
<1>3. \E iter : iter = [u \in SUBSET DOMAIN seqs |->
                          IF u = {} THEN none ELSE iter[u \ {Max(u)}] \o seqs[Max(u)]]
  <2>1. PICK g : g \in FoldsOf(S, none, step, seqs)
    <3>1. FoldsOf(S, none, step, seqs) # {}
      BY <1>1, FoldExists, Zenon
    <3> QED
      BY <3>1
  <2>2. /\ g \in [SUBSET DOMAIN seqs -> S]
        /\ \A u \in SUBSET DOMAIN seqs :
             g[u] = IF u = {} THEN none ELSE step[<<g[u \ {Max(u)}], seqs[Max(u)]>>]
    BY <2>1 DEF FoldsOf
  <2>3. \A u \in SUBSET DOMAIN seqs :
          g[u] = IF u = {} THEN none ELSE g[u \ {Max(u)}] \o seqs[Max(u)]
    <3>1. SUFFICES ASSUME NEW u \in SUBSET DOMAIN seqs, u # {}
                   PROVE  g[u] = g[u \ {Max(u)}] \o seqs[Max(u)]
      BY <2>2
    <3>2. seqs[Max(u)] \in S /\ g[u \ {Max(u)}] \in S
      BY <3>1, <2>2, LargestIn
    <3>3. g[u] = step[<<g[u \ {Max(u)}], seqs[Max(u)]>>]
      BY <3>1, <2>2
    <3> QED
      BY <3>2, <3>3, <1>2
  <2> QED
    BY <2>2, <2>3
<1>4. PICK h : /\ h = [u \in SUBSET DOMAIN seqs |->
                         IF u = {} THEN none ELSE h[u \ {Max(u)}] \o seqs[Max(u)]]
               /\ Flat(seqs) = h[DOMAIN seqs]
  <2>1. Flat(seqs) =
          (CHOOSE iter : iter = [u \in SUBSET DOMAIN seqs |->
                                   IF u = {} THEN none
                                   ELSE iter[u \ {Max(u)}] \o seqs[Max(u)]])[DOMAIN seqs]
    BY DEF Flat, FoldLeft, MapThenFoldSet, none
  <2> QED
    BY <2>1, <1>3
<1>5. h[{}] = none
  BY <1>4
<1>6. \A u \in SUBSET DOMAIN seqs :
        u # {} /\ h[u \ {Max(u)}] \in S => h[u] = step[<<h[u \ {Max(u)}], seqs[Max(u)]>>]
  <2>1. SUFFICES ASSUME NEW u \in SUBSET DOMAIN seqs, u # {}, h[u \ {Max(u)}] \in S
                 PROVE  h[u] = step[<<h[u \ {Max(u)}], seqs[Max(u)]>>]
    OBVIOUS
  <2>2. seqs[Max(u)] \in S
    BY <2>1, LargestIn
  <2>3. h[u] = h[u \ {Max(u)}] \o seqs[Max(u)]
    BY <2>1, <1>4
  <2> QED
    BY <2>1, <2>2, <2>3, <1>2
<1>7. IsRun(h, S, none, step, seqs)
  BY <1>1, <1>5, <1>6, FoldRuns
<1>8. /\ Len(seqs) \in Nat
      /\ \A n \in 0 .. Len(seqs) - 1 : n \in 0 .. Len(seqs) /\ seqs[n + 1] \in S
  <2>1. Len(seqs) \in Nat /\ \A n \in 1 .. Len(seqs) : seqs[n] \in S
    BY ElementOfSeq
  <2>2. \A n \in 0 .. Len(seqs) - 1 : n \in 0 .. Len(seqs) /\ n + 1 \in 1 .. Len(seqs)
    BY <2>1
  <2> QED
    BY <2>1, <2>2
<1>9. /\ h[1 .. 0] = <<>> /\ Flat(seqs) = h[1 .. Len(seqs)]
      /\ \A n \in 0 .. Len(seqs) : h[1 .. n] \in S
  BY <1>4, <1>7 DEF IsRun, none
<1>a. ASSUME NEW n \in 0 .. Len(seqs) - 1 PROVE h[1 .. n + 1] = h[1 .. n] \o seqs[n + 1]
  <2>1. h[1 .. n + 1] = step[<<h[1 .. n], seqs[n + 1]>>]
    BY <1>7 DEF IsRun
  <2> QED
    BY <2>1, <1>2, <1>8, <1>9
<1> QED
  BY <1>9, <1>a

LEMMA FlatOfNone == Flat(<<>>) = <<>>
<1>1. PICK S, none : S = {<<>>} /\ none = <<>>
  OBVIOUS
<1>2. none \in Seq(S) /\ Len(none) = 0
  BY <1>1
<1>3. Joins(S)
  BY <1>1 DEF Joins
<1>4. PICK h : h[1 .. 0] = <<>> /\ Flat(none) = h[1 .. Len(none)]
  BY <1>2, <1>3, FlatRuns
<1> QED
  BY <1>1, <1>2, <1>4

LEMMA FlatOfAppend ==
  ASSUME NEW S, Joins(S), NEW seqs \in Seq(S), NEW s \in S
  PROVE  Flat(seqs) \in S /\ Flat(Append(seqs, s)) = Flat(seqs) \o s
<1>1. PICK more \in Seq(S) : more = Append(seqs, s)
  <2>1. Append(seqs, s) \in Seq(S)
    OBVIOUS
  <2> QED
    BY <2>1
<1>2. PICK n \in Nat : n = Len(seqs)
  OBVIOUS
<1>3. /\ Len(more) = n + 1 /\ more[n + 1] = s
      /\ \A i \in 0 .. n - 1 : more[i + 1] = seqs[i + 1]
  <2>1. Len(more) = n + 1 /\ more[n + 1] = s /\ \A i \in 1 .. n : more[i] = seqs[i]
    BY <1>1, <1>2
  <2>2. \A i \in 0 .. n - 1 : i + 1 \in 1 .. n
    OBVIOUS
  <2> QED
    BY <2>1, <2>2
<1>4. PICK g : /\ g[1 .. 0] = <<>> /\ Flat(seqs) = g[1 .. n] /\ g[1 .. n] \in S
               /\ \A i \in 0 .. n - 1 : g[1 .. i + 1] = g[1 .. i] \o seqs[i + 1]
  <2>1. n \in 0 .. Len(seqs)
    BY <1>2
  <2> QED
    <3>1. PICK g : /\ g[1 .. 0] = <<>> /\ Flat(seqs) = g[1 .. Len(seqs)]
                   /\ \A i \in 0 .. Len(seqs) : g[1 .. i] \in S
                   /\ \A i \in 0 .. Len(seqs) - 1 : g[1 .. i + 1] = g[1 .. i] \o seqs[i + 1]
      BY FlatRuns
    <3> QED
      BY <3>1, <2>1, <1>2
<1>5. PICK h : /\ h[1 .. 0] = <<>> /\ Flat(more) = h[1 .. n + 1]
               /\ \A i \in 0 .. n : h[1 .. i + 1] = h[1 .. i] \o more[i + 1]
  <2>1. Len(more) = n + 1 /\ Len(more) - 1 = n
    BY <1>3
  <2>2. PICK h : /\ h[1 .. 0] = <<>> /\ Flat(more) = h[1 .. Len(more)]
                 /\ \A i \in 0 .. Len(more) - 1 : h[1 .. i + 1] = h[1 .. i] \o more[i + 1]
    BY FlatRuns
  <2> QED
    BY <2>1, <2>2
<1> DEFINE T == {i \in Nat : i <= n => h[1 .. i] = g[1 .. i]}
<1>6. 0 \in T
  BY <1>4, <1>5
<1>7. ASSUME NEW i \in Nat, i \in T PROVE i + 1 \in T
  <2>1. SUFFICES ASSUME i + 1 <= n PROVE h[1 .. i + 1] = g[1 .. i + 1]
    OBVIOUS
  <2>2. i \in 0 .. n - 1 /\ i \in 0 .. n /\ i <= n
    BY <2>1
  <2> QED
    BY <2>2, <1>3, <1>4, <1>5, <1>7
<1>8. n \in T
  <2> HIDE DEF T
  <2> QED
    BY <1>6, <1>7, SetInduction
<1>9. h[1 .. n] = g[1 .. n]
  BY <1>8
<1>a. h[1 .. n + 1] = h[1 .. n] \o more[n + 1]
  <2>1. n \in 0 .. n
    OBVIOUS
  <2> QED
    BY <2>1, <1>5
<1> QED
  BY <1>1, <1>3, <1>4, <1>5, <1>9, <1>a

LEMMA ConcatIsAssociative ==
  \A E : \A s, t, u \in Seq(E) : (s \o t) \o u = s \o (t \o u)
OBVIOUS

LEMMA FlatOfConcat ==
  ASSUME NEW E, NEW seqs \in Seq(Seq(E)), NEW more \in Seq(Seq(E))
  PROVE  /\ Flat(seqs \o more) = Flat(seqs) \o Flat(more)
         /\ Flat(seqs) \in Seq(E) /\ Flat(more) \in Seq(E) /\ Flat(seqs \o more) \in Seq(E)
<1> DEFINE S == Seq(E)
           T == {n \in Nat : \A m \in Seq(S) :
                   Len(m) = n => Flat(seqs \o m) = Flat(seqs) \o Flat(m)}
<1>a. Joins(S)
  BY SeqJoins
<1>b. seqs \in Seq(S) /\ more \in Seq(S) /\ <<>> \in S
  OBVIOUS
<1> HIDE DEF S
<1>0. \A s \in Seq(S) : Flat(s) \in S
  BY <1>a, <1>b, FlatOfAppend
<1>1. 0 \in T
  <2>1. SUFFICES ASSUME NEW m \in Seq(S), Len(m) = 0
                 PROVE  Flat(seqs \o m) = Flat(seqs) \o Flat(m)
    OBVIOUS
  <2>2. m = <<>>
    BY <2>1
  <2>3. seqs \o <<>> = seqs
    OBVIOUS
  <2>4. Flat(<<>>) = <<>> /\ Flat(seqs) \in Seq(E)
    BY <1>b, <1>0, FlatOfNone DEF S
  <2>5. Flat(seqs) \o <<>> = Flat(seqs)
    BY <2>4
  <2> QED
    BY <2>2, <2>3, <2>4, <2>5
<1>2. ASSUME NEW n \in Nat, n \in T PROVE n + 1 \in T
  <2>1. SUFFICES ASSUME NEW m \in Seq(S), Len(m) = n + 1
                 PROVE  Flat(seqs \o m) = Flat(seqs) \o Flat(m)
    OBVIOUS
  <2>2. PICK front \in Seq(S), e \in S : m = Append(front, e)
    <3>1. m # <<>>
      BY <2>1
    <3> QED
      BY <3>1, FrontAndLast
  <2>3. Flat(seqs \o front) = Flat(seqs) \o Flat(front)
    <3>1. Len(front) = n
      <4>1. Len(front) \in Nat /\ Len(m) = Len(front) + 1
        BY <2>2
      <4> QED
        BY <4>1, <2>1
    <3> QED
      BY <3>1, <1>2
  <2>4. seqs \o m = Append(seqs \o front, e) /\ seqs \o front \in Seq(S)
    BY <2>2, <1>b, ConcatAppend
  <2>5. Flat(seqs \o m) = Flat(seqs \o front) \o e
    BY <2>4, <1>a, FlatOfAppend
  <2>6. Flat(m) = Flat(front) \o e
    <3>1. Flat(Append(front, e)) = Flat(front) \o e
      BY <1>a, FlatOfAppend
    <3> QED
      BY <2>2, <3>1
  <2>7. PICK a, b : a = Flat(seqs) /\ b = Flat(front)
    OBVIOUS
  <2>8. a \in Seq(E) /\ b \in Seq(E) /\ e \in Seq(E)
    BY <2>7, <1>0, <1>b DEF S
  <2>a. (a \o b) \o e = a \o (b \o e)
    BY SMTT(20), <2>8, ConcatIsAssociative
  <2> QED
    BY <2>3, <2>5, <2>6, <2>7, <2>a
<1>3. Len(more) \in T
  <2> HIDE DEF T
  <2>1. Len(more) \in Nat
    OBVIOUS
  <2> QED
    BY <2>1, <1>1, <1>2, SetInduction
<1>4. seqs \o more \in Seq(S)
  BY <1>b
<1>5. Flat(seqs) \in S /\ Flat(more) \in S /\ Flat(seqs \o more) \in S
  BY <1>0, <1>4, <1>b
<1>6. Flat(seqs \o more) = Flat(seqs) \o Flat(more)
  BY <1>3, <1>b
<1> QED
  BY <1>5, <1>6 DEF S

\* Each element on its own, one after the other.
LEMMA FlatOfSingles ==
  ASSUME NEW E, NEW s \in Seq(E)
  PROVE  Flat([k \in DOMAIN s |-> <<s[k]>>]) = s
<1> DEFINE S == Seq(E)
           singles(t) == [k \in DOMAIN t |-> <<t[k]>>]
           T == {n \in Nat : \A t \in Seq(E) : Len(t) = n => Flat(singles(t)) = t}
<1>a. Joins(S)
  BY SeqJoins
<1>0. \A t \in Seq(E) : singles(t) \in Seq(S) /\ Len(singles(t)) = Len(t)
  <2>1. SUFFICES ASSUME NEW t \in Seq(E)
                 PROVE  singles(t) \in Seq(S) /\ Len(singles(t)) = Len(t)
    OBVIOUS
  <2>2. DOMAIN t = 1 .. Len(t) /\ Len(t) \in Nat /\ \A k \in 1 .. Len(t) : t[k] \in E
    BY ElementOfSeq
  <2>3. \A e \in E : <<e>> \in S
    OBVIOUS
  <2>4. singles(t) \in [1 .. Len(t) -> S]
    <3> HIDE DEF S
    <3> QED
      BY <2>2, <2>3
  <2> HIDE DEF S
  <2>5. singles(t) \in Seq(S)
    BY <2>2, <2>4, SeqDef
  <2>6. DOMAIN singles(t) = 1 .. Len(t)
    BY <2>2
  <2> HIDE DEF singles
  <2>7. Len(singles(t)) = Len(t)
    BY <2>2, <2>5, <2>6
  <2> QED
    BY <2>5, <2>7
<1>1. 0 \in T
  <2>1. SUFFICES ASSUME NEW t \in Seq(E), Len(t) = 0 PROVE Flat(singles(t)) = t
    OBVIOUS
  <2>2. t = <<>>
    BY <2>1
  <2>3. PICK u : u = singles(t)
    OBVIOUS
  <2>4. u \in Seq(S) /\ Len(u) = 0
    BY <2>1, <2>3, <1>0
  <2>5. u = <<>>
    BY <2>4
  <2>6. Flat(<<>>) = <<>>
    BY FlatOfNone
  <2> QED
    BY <2>2, <2>3, <2>5, <2>6
<1>2. ASSUME NEW n \in Nat, n \in T PROVE n + 1 \in T
  <2>1. SUFFICES ASSUME NEW t \in Seq(E), Len(t) = n + 1 PROVE Flat(singles(t)) = t
    OBVIOUS
  <2>2. PICK front \in Seq(E), e \in E : t = Append(front, e)
    <3>1. t # <<>>
      BY <2>1
    <3> QED
      BY <3>1, FrontAndLast
  <2>3. Len(front) = n /\ Flat(singles(front)) = front
    <3>1. Len(front) \in Nat /\ Len(t) = Len(front) + 1
      BY <2>2
    <3>2. Len(front) = n
      BY <3>1, <2>1
    <3> QED
      BY <3>2, <1>2
  <2>4. PICK f, last, u : f = singles(front) /\ last = <<e>> /\ u = singles(t)
    OBVIOUS
  <2>5. f \in Seq(S) /\ Len(f) = n /\ u \in Seq(S) /\ Len(u) = n + 1 /\ last \in S
    BY <2>1, <2>2, <2>3, <2>4, <1>0
  <2>6. u = Append(f, last)
    <3>1. DOMAIN u = 1 .. n + 1 /\ DOMAIN f = 1 .. n /\ DOMAIN t = 1 .. n + 1
          /\ DOMAIN front = 1 .. n
      BY <2>5, <2>1, <2>3
    <3>2. \A k \in 1 .. n : u[k] = <<t[k]>> /\ f[k] = <<front[k]>> /\ t[k] = front[k]
      <4>1. \A k \in 1 .. n : k \in 1 .. n + 1
        OBVIOUS
      <4>2. \A k \in 1 .. n : t[k] = front[k]
        BY <2>2, <2>3
      <4> QED
        BY <4>1, <4>2, <3>1, <2>4
    <3>3. u[n + 1] = last
      <4>1. n + 1 \in 1 .. n + 1 /\ t[n + 1] = e
        BY <2>2, <2>3
      <4> QED
        BY <4>1, <3>1, <2>4
    <3>4. PICK v : v = Append(f, last)
      OBVIOUS
    <3>5. /\ v \in Seq(S) /\ Len(v) = n + 1 /\ v[n + 1] = last
          /\ \A k \in 1 .. n : v[k] = f[k]
      <4> HIDE DEF S
      <4> QED
        BY <2>5, <3>4
    <3>6. \A k \in 1 .. n + 1 : u[k] = v[k]
      <4>1. \A k \in 1 .. n + 1 : k \in 1 .. n \/ k = n + 1
        OBVIOUS
      <4> QED
        BY <4>1, <3>2, <3>3, <3>5
    <3>7. u = v
      <4> HIDE DEF S
      <4> QED
        BY <2>5, <3>5, <3>6, SeqEqual
    <3> QED
      BY <3>4, <3>7
  <2>7. Flat(u) = Flat(f) \o last
    <3> HIDE DEF S
    <3>1. Flat(Append(f, last)) = Flat(f) \o last
      BY SMTT(20), <2>5, <1>a, FlatOfAppend
    <3> QED
      BY <2>6, <3>1
  <2>8. front \o <<e>> = t
    BY <2>2
  <2> QED
    BY <2>3, <2>4, <2>7, <2>8
<1>3. Len(s) \in T
  <2> HIDE DEF T
  <2>1. Len(s) \in Nat
    OBVIOUS
  <2> QED
    BY <2>1, <1>1, <1>2, SetInduction
<1> QED
  BY <1>3
=============================================================================
