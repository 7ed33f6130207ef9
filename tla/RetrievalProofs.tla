---------------------------- MODULE RetrievalProofs ----------------------------
(***************************************************************************)
(* Proofs about a search, for any number of eligible chunks, batches of any *)
(* size and contexts of any length.                                         *)
(***************************************************************************)
EXTENDS Retrieval, FoldTheorems, FiniteSetTheorems

-----------------------------------------------------------------------------
(* Rankings.  Being ahead is a strict total order: the number of those      *)
(* ahead tells the ranked apart, so that each place is taken once.          *)

LEMMA AheadIsOrder ==
  ASSUME NEW F \in SUBSET Nat, IsFiniteSet(F), NEW score \in [F -> Nat]
  PROVE  /\ \A c \in F : /\ Ahead(score, c) \in SUBSET F
                         /\ IsFiniteSet(Ahead(score, c))
                         /\ Cardinality(Ahead(score, c)) \in 0 .. Cardinality(F) - 1
         /\ \A c, d \in F : \/ c = d
                            \/ c \in Ahead(score, d)
                            \/ d \in Ahead(score, c)
         /\ \A c, d \in F : c \in Ahead(score, d) =>
              Cardinality(Ahead(score, c)) < Cardinality(Ahead(score, d))
<1>1. \A c, d \in F : /\ Ahead(score, c) \in SUBSET F /\ c \notin Ahead(score, c)
                      /\ c = d \/ c \in Ahead(score, d) \/ d \in Ahead(score, c)
  BY DEF Ahead
<1>2. \A b, c, d \in F : b \in Ahead(score, c) /\ c \in Ahead(score, d) => b \in Ahead(score, d)
  BY DEF Ahead
<1>3. Cardinality(F) \in Nat
  BY FS_CardinalityType
<1>4. ASSUME NEW S \in SUBSET F, NEW T \in SUBSET S, NEW c \in S, c \notin T
      PROVE  /\ IsFiniteSet(T) /\ IsFiniteSet(S)
             /\ Cardinality(T) \in Nat /\ Cardinality(S) \in Nat
             /\ Cardinality(T) < Cardinality(S)
  <2>1. IsFiniteSet(S) /\ Cardinality(S) \in Nat
    BY FS_Subset, FS_CardinalityType
  <2>2. IsFiniteSet(T) /\ Cardinality(T) \in Nat /\ Cardinality(T) <= Cardinality(S)
    BY <2>1, FS_Subset, FS_CardinalityType
  <2>3. Cardinality(S) # Cardinality(T)
    BY <2>1, <1>4, FS_Subset
  <2> QED
    BY <2>1, <2>2, <2>3
<1>5. ASSUME NEW c \in F
      PROVE  /\ IsFiniteSet(Ahead(score, c))
             /\ Cardinality(Ahead(score, c)) \in 0 .. Cardinality(F) - 1
  <2>1. F \in SUBSET F /\ Ahead(score, c) \in SUBSET F /\ c \notin Ahead(score, c)
    BY <1>1
  <2>2. /\ IsFiniteSet(Ahead(score, c)) /\ Cardinality(Ahead(score, c)) \in Nat
        /\ Cardinality(Ahead(score, c)) < Cardinality(F)
    BY <2>1, <1>4
  <2> QED
    BY <2>2, <1>3
<1>6. ASSUME NEW c \in F, NEW d \in F, c \in Ahead(score, d)
      PROVE  Cardinality(Ahead(score, c)) < Cardinality(Ahead(score, d))
  <2>1. /\ Ahead(score, c) \in SUBSET Ahead(score, d) /\ Ahead(score, d) \in SUBSET F
        /\ c \notin Ahead(score, c)
    BY <1>1, <1>2, <1>6
  <2> QED
    BY <2>1, <1>4, <1>6
<1> QED
  BY <1>1, <1>5, <1>6

LEMMA RankingIsOrder ==
  ASSUME NEW F \in SUBSET Nat, IsFiniteSet(F), NEW score \in [F -> Nat]
  PROVE  /\ Ranking(score) \in Seq(F) /\ Len(Ranking(score)) = Cardinality(F)
         /\ Cardinality(F) \in Nat
         /\ \A c \in F : \E k \in 1 .. Cardinality(F) : Ranking(score)[k] = c
         /\ \A k \in 1 .. Cardinality(F) :
              Cardinality(Ahead(score, Ranking(score)[k])) = k - 1
         /\ \A j, k \in 1 .. Cardinality(F) : j < k =>
              Ranking(score)[j] \in Ahead(score, Ranking(score)[k])
<1> DEFINE count == [c \in F |-> Cardinality(Ahead(score, c))]
           n == Cardinality(F)
<1>1. n \in Nat
  BY FS_CardinalityType
<1>2. /\ \A c \in F : count[c] = Cardinality(Ahead(score, c)) /\ count[c] \in 0 .. n - 1
      /\ \A c, d \in F : c \in Ahead(score, d) => count[c] < count[d]
      /\ \A c, d \in F : c = d \/ c \in Ahead(score, d) \/ d \in Ahead(score, c)
  BY AheadIsOrder
<1>3. count \in [F -> 0 .. n - 1]
  BY <1>2
<1>a. DOMAIN score = F
  OBVIOUS
<1> HIDE DEF count
<1>4. count \in Injection(F, 0 .. n - 1)
  <2>1. \A c, d \in F : count[c] = count[d] => c = d
    BY <1>1, <1>2
  <2> QED
    BY <2>1, <1>3 DEF Injection, IsInjective
<1>5. IsFiniteSet(0 .. n - 1) /\ Cardinality(0 .. n - 1) = n
  <2>1. 0 \in Int /\ n - 1 \in Int
    BY <1>1
  <2>2. IsFiniteSet(0 .. n - 1) /\ Cardinality(0 .. n - 1) = IF 0 > n - 1 THEN 0 ELSE n - 1 - 0 + 1
    BY <2>1, FS_Interval
  <2> QED
    BY <2>2, <1>1
<1>6. count \in Surjection(F, 0 .. n - 1)
  BY <1>4, <1>5, FS_Injection
<1>7. \A k \in 1 .. n : \E c \in F : count[c] = k - 1
  BY <1>1, <1>6 DEF Surjection
<1>8. \A k \in 1 .. n : Ranking(score)[k] \in F /\ count[Ranking(score)[k]] = k - 1
  BY <1>2, <1>7, <1>a DEF Ranking
<1>9. Len(Ranking(score)) = n /\ Ranking(score) \in [1 .. n -> F]
  <2>1. Ranking(score) = [k \in 1 .. n |->
                            CHOOSE c \in DOMAIN score : Cardinality(Ahead(score, c)) = k - 1]
    BY <1>a DEF Ranking
  <2>2. Ranking(score) \in [1 .. n -> F]
    BY <2>1, <1>8
  <2> QED
    BY <2>2, <1>1, SeqDef
<1>b. Ranking(score) \in Seq(F)
  BY <1>1, <1>9, SeqDef
<1>c. ASSUME NEW c \in F PROVE \E k \in 1 .. n : Ranking(score)[k] = c
  <2>1. PICK k : k = count[c] + 1
    OBVIOUS
  <2>2. k \in 1 .. n /\ count[c] = k - 1
    BY <2>1, <1>1, <1>2
  <2>3. Ranking(score)[k] \in F /\ count[Ranking(score)[k]] = count[c]
    BY <2>2, <1>8
  <2>4. \A d \in F : count[d] = count[c] => d = c
    BY <1>1, <1>2
  <2> QED
    BY <2>2, <2>3, <2>4
<1>d. ASSUME NEW j \in 1 .. n, NEW k \in 1 .. n, j < k
      PROVE  Ranking(score)[j] \in Ahead(score, Ranking(score)[k])
  <2>1. PICK c, d : c = Ranking(score)[j] /\ d = Ranking(score)[k]
    OBVIOUS
  <2>2. c \in F /\ d \in F /\ count[c] = j - 1 /\ count[d] = k - 1
    BY <2>1, <1>8
  <2>3. count[c] < count[d]
    BY <2>2, <1>1, <1>d
  <2>4. c # d /\ d \notin Ahead(score, c)
    BY <2>2, <2>3, <1>1, <1>2
  <2> QED
    BY <2>1, <2>2, <2>4, <1>2
<1>e. \A k \in 1 .. n : Cardinality(Ahead(score, Ranking(score)[k])) = k - 1
  BY <1>2, <1>8
<1> QED
  BY <1>1, <1>9, <1>b, <1>c, <1>d, <1>e

-----------------------------------------------------------------------------
(* Types.                                                                   *)

LEMMA Constants ==
  /\ Count \in Nat \ {0} /\ Limit \in Nat \ {0} /\ Wide \in Nat \ {0} /\ RankConstant \in Nat \ {0}
  /\ Budget \in Nat \ {0} /\ Cap \in Nat \ {0} /\ Limit <= Budget
  /\ Sizes \in SUBSET Nat /\ Scores \in SUBSET Nat /\ Overlaps \in SUBSET Nat
  /\ Lengths \in SUBSET (Nat \ {0})
  /\ \A m \in Matches : m.counts \in Seq(Nat)
  BY RetrievalAssumption

LEMMA ChunksAreFinite ==
  /\ Chunks \in SUBSET Nat /\ IsFiniteSet(Chunks) /\ Cardinality(Chunks) = Count
  /\ \A F \in SUBSET Chunks : F \in SUBSET Nat /\ IsFiniteSet(F) /\ Cardinality(F) \in Nat
<1>1. 1 \in Int /\ Count \in Int /\ ~ (1 > Count) /\ Count - 1 + 1 = Count /\ 1 .. Count \in SUBSET Nat
  BY Constants
<1>2. IsFiniteSet(1 .. Count) /\ Cardinality(1 .. Count) = IF 1 > Count THEN 0 ELSE Count - 1 + 1
  BY <1>1, FS_Interval
<1>3. \A F \in SUBSET Chunks : F \in SUBSET Nat /\ IsFiniteSet(F) /\ Cardinality(F) \in Nat
  BY <1>1, <1>2, FS_Subset, FS_CardinalityType DEF Chunks
<1> QED
  BY <1>1, <1>2, <1>3 DEF Chunks

LEMMA FirstOfType ==
  ASSUME NEW S, NEW s \in Seq(S), NEW n \in Nat
  PROVE  /\ FirstOf(s, n) \in Seq(S) /\ Len(FirstOf(s, n)) = Least(n, Len(s))
         /\ Least(n, Len(s)) \in 0 .. Len(s) /\ Least(n, Len(s)) \in 0 .. n
         /\ \A k \in 1 .. Least(n, Len(s)) : FirstOf(s, n)[k] = s[k]
<1>1. Least(n, Len(s)) \in 0 .. Len(s) /\ Least(n, Len(s)) \in 0 .. n
  BY DEF Least
<1> QED
  BY <1>1 DEF FirstOf

LEMMA LexicalScoreType ==
  ASSUME NEW m \in Matches
  PROVE  LexicalScore(m) \in Nat
<1> DEFINE text == m.counts
           Add(n, c) == n + Least(c, 3) + (IF c > 0 THEN 5 ELSE 0)
           step == [x \in Nat \X Nat |-> Add(x[1], x[2])]
<1>0. text \in Seq(Nat)
  BY Constants
<1>2. \A n, c \in Nat : step[<<n, c>>] = Add(n, c) /\ Add(n, c) \in Nat
  BY DEF Least
<1>1. step \in [Nat \X Nat -> Nat] /\ 0 \in Nat
  BY DEF Least
<1> HIDE DEF step, text
<1>3. \E iter : iter = [u \in SUBSET DOMAIN text |->
                          IF u = {} THEN 0 ELSE Add(iter[u \ {Max(u)}], text[Max(u)])]
  <2>1. PICK g : g \in FoldsOf(Nat, 0, step, text)
    <3>1. FoldsOf(Nat, 0, step, text) # {}
      BY <1>0, <1>1, FoldExists, Zenon
    <3> QED
      BY <3>1
  <2> HIDE DEF Add
  <2>2. /\ g \in [SUBSET DOMAIN text -> Nat]
        /\ \A u \in SUBSET DOMAIN text :
             g[u] = IF u = {} THEN 0 ELSE step[<<g[u \ {Max(u)}], text[Max(u)]>>]
    BY <2>1 DEF FoldsOf
  <2>3. \A u \in SUBSET DOMAIN text :
          g[u] = IF u = {} THEN 0 ELSE Add(g[u \ {Max(u)}], text[Max(u)])
    BY <2>2, <1>0, <1>2, LargestIn
  <2> QED
    BY <2>2, <2>3
<1> DEFINE sum == FoldLeft(LAMBDA n, c : n + Least(c, 3) + (IF c > 0 THEN 5 ELSE 0), 0, text)
<1>4. PICK h : /\ h = [u \in SUBSET DOMAIN text |->
                         IF u = {} THEN 0 ELSE Add(h[u \ {Max(u)}], text[Max(u)])]
               /\ sum = h[DOMAIN text]
  <2>1. sum =
          (CHOOSE iter : iter = [u \in SUBSET DOMAIN text |->
                                   IF u = {} THEN 0
                                   ELSE Add(iter[u \ {Max(u)}], text[Max(u)])])[DOMAIN text]
    BY DEF FoldLeft, MapThenFoldSet
  <2> QED
    BY <2>1, <1>3
<1> HIDE DEF Add, sum
<1>5. h[{}] = 0
  BY <1>4
<1>6. \A u \in SUBSET DOMAIN text :
        u # {} /\ h[u \ {Max(u)}] \in Nat => h[u] = step[<<h[u \ {Max(u)}], text[Max(u)]>>]
  <2>1. SUFFICES ASSUME NEW u \in SUBSET DOMAIN text, u # {}, h[u \ {Max(u)}] \in Nat
                 PROVE  h[u] = step[<<h[u \ {Max(u)}], text[Max(u)]>>]
    OBVIOUS
  <2>2. text[Max(u)] \in Nat
    BY <1>0, <2>1, LargestIn
  <2>3. h[u] = Add(h[u \ {Max(u)}], text[Max(u)])
    BY <2>1, <1>4
  <2> QED
    BY <2>1, <2>2, <2>3, <1>2
<1>7. sum \in Nat
  <2>1. IsRun(h, Nat, 0, step, text)
    BY <1>0, <1>1, <1>5, <1>6, FoldRuns
  <2>2. Len(text) \in 0 .. Len(text)
    BY <1>0
  <2> QED
    BY <2>1, <2>2, <1>4 DEF IsRun
<1>8. LexicalScore(m) = sum + (IF m.phrase THEN 8 ELSE 0) + (IF m.code THEN 100 ELSE 0)
  BY DEF LexicalScore, sum, text
<1> QED
  BY <1>7, <1>8

LEMMA WholeType == Whole \in Nat
<1> DEFINE text == [k \in 1 .. Wide |-> k]
           Times(n, k) == n * (RankConstant + k)
           step == [x \in Nat \X Nat |-> Times(x[1], x[2])]
<1>0. text \in Seq(Nat)
  <2>1. text \in [1 .. Wide -> Nat] /\ Wide \in Nat
    BY Constants
  <2> QED
    BY <2>1, SeqDef
<1>2. \A n, k \in Nat : step[<<n, k>>] = Times(n, k) /\ Times(n, k) \in Nat
  <2>1. \A n, k \in Nat : Times(n, k) \in Nat
    BY Constants
  <2> QED
    BY <2>1
<1>1. step \in [Nat \X Nat -> Nat] /\ 1 \in Nat
  <2> HIDE DEF Times
  <2> QED
    BY <1>2
<1> HIDE DEF step, text
<1>3. \E iter : iter = [u \in SUBSET DOMAIN text |->
                          IF u = {} THEN 1 ELSE Times(iter[u \ {Max(u)}], text[Max(u)])]
  <2>1. PICK g : g \in FoldsOf(Nat, 1, step, text)
    <3>1. FoldsOf(Nat, 1, step, text) # {}
      BY <1>0, <1>1, FoldExists, Zenon
    <3> QED
      BY <3>1
  <2> HIDE DEF Times
  <2>2. /\ g \in [SUBSET DOMAIN text -> Nat]
        /\ \A u \in SUBSET DOMAIN text :
             g[u] = IF u = {} THEN 1 ELSE step[<<g[u \ {Max(u)}], text[Max(u)]>>]
    BY <2>1 DEF FoldsOf
  <2>3. \A u \in SUBSET DOMAIN text :
          g[u] = IF u = {} THEN 1 ELSE Times(g[u \ {Max(u)}], text[Max(u)])
    BY <2>2, <1>0, <1>2, LargestIn
  <2> QED
    BY <2>2, <2>3
<1>4. PICK h : /\ h = [u \in SUBSET DOMAIN text |->
                         IF u = {} THEN 1 ELSE Times(h[u \ {Max(u)}], text[Max(u)])]
               /\ Whole = h[DOMAIN text]
  <2>1. Whole =
          (CHOOSE iter : iter = [u \in SUBSET DOMAIN text |->
                                   IF u = {} THEN 1
                                   ELSE Times(iter[u \ {Max(u)}], text[Max(u)])])[DOMAIN text]
    BY DEF Whole, FoldLeft, MapThenFoldSet, text
  <2> QED
    BY <2>1, <1>3
<1> HIDE DEF Times
<1>5. h[{}] = 1
  BY <1>4
<1>6. \A u \in SUBSET DOMAIN text :
        u # {} /\ h[u \ {Max(u)}] \in Nat => h[u] = step[<<h[u \ {Max(u)}], text[Max(u)]>>]
  <2>1. SUFFICES ASSUME NEW u \in SUBSET DOMAIN text, u # {}, h[u \ {Max(u)}] \in Nat
                 PROVE  h[u] = step[<<h[u \ {Max(u)}], text[Max(u)]>>]
    OBVIOUS
  <2>2. text[Max(u)] \in Nat
    BY <1>0, <2>1, LargestIn
  <2>3. h[u] = Times(h[u \ {Max(u)}], text[Max(u)])
    BY <2>1, <1>4
  <2> QED
    BY <2>1, <2>2, <2>3, <1>2
<1>7. IsRun(h, Nat, 1, step, text)
  BY <1>0, <1>1, <1>5, <1>6, FoldRuns
<1>8. Len(text) \in 0 .. Len(text)
  BY <1>0
<1> QED
  BY <1>4, <1>7, <1>8 DEF IsRun

LEMMA ShareType ==
  ASSUME NEW ranking \in Seq(Chunks), NEW c
  PROVE  Share(ranking, c) \in Nat
<1> DEFINE at == {k \in DOMAIN ranking : ranking[k] = c}
<1>1. Len(ranking) \in Nat /\ at \in SUBSET (0 .. Len(ranking))
  OBVIOUS
<1>2. at # {} => Max(at) \in at
  <2> HIDE DEF at
  <2> QED
    BY <1>1, Largest
<1>3. at # {} => Max(at) \in Nat /\ RankConstant + Max(at) \in Nat \ {0}
  <2>1. at # {} => Max(at) \in Nat
    BY <1>1, <1>2
  <2> HIDE DEF at
  <2> QED
    BY <2>1, Constants
<1>4. Share(ranking, c) = IF at = {} THEN 0 ELSE Whole \div (RankConstant + Max(at))
  BY DEF Share
<1>5. at # {} => Whole \div (RankConstant + Max(at)) \in Nat
  <2>1. ASSUME NEW n \in Nat \ {0}, NEW w \in Nat PROVE w \div n \in Nat
    OBVIOUS
  <2> HIDE DEF at
  <2> QED
    BY <2>1, <1>3, WholeType
<1> HIDE DEF at
<1> QED
  BY <1>4, <1>5

LEMMA ShownType ==
  ASSUME ranked \in Seq(Chunks), NEW allowed
  PROVE  Shown(allowed) \in Seq(Chunks)
<1> DEFINE Keep(kept, c) == IF c \in allowed THEN Append(kept, c) ELSE kept
           step == [x \in Seq(Chunks) \X Chunks |-> Keep(x[1], x[2])]
<1>2. \A s \in Seq(Chunks), c \in Chunks :
        step[<<s, c>>] = Keep(s, c) /\ Keep(s, c) \in Seq(Chunks)
  OBVIOUS
<1>1. step \in [Seq(Chunks) \X Chunks -> Seq(Chunks)] /\ <<>> \in Seq(Chunks)
  OBVIOUS
<1> HIDE DEF step
<1>3. \E iter : iter = [u \in SUBSET DOMAIN ranked |->
                          IF u = {} THEN <<>> ELSE Keep(iter[u \ {Max(u)}], ranked[Max(u)])]
  <2>1. PICK g : g \in FoldsOf(Seq(Chunks), <<>>, step, ranked)
    <3>1. FoldsOf(Seq(Chunks), <<>>, step, ranked) # {}
      BY <1>1, FoldExists, Zenon
    <3> QED
      BY <3>1
  <2> HIDE DEF Keep
  <2>2. /\ g \in [SUBSET DOMAIN ranked -> Seq(Chunks)]
        /\ \A u \in SUBSET DOMAIN ranked :
             g[u] = IF u = {} THEN <<>> ELSE step[<<g[u \ {Max(u)}], ranked[Max(u)]>>]
    BY <2>1 DEF FoldsOf
  <2>3. \A u \in SUBSET DOMAIN ranked :
          g[u] = IF u = {} THEN <<>> ELSE Keep(g[u \ {Max(u)}], ranked[Max(u)])
    BY <2>2, <1>2, LargestIn
  <2> QED
    BY <2>2, <2>3
<1>4. PICK h : /\ h = [u \in SUBSET DOMAIN ranked |->
                         IF u = {} THEN <<>> ELSE Keep(h[u \ {Max(u)}], ranked[Max(u)])]
               /\ Shown(allowed) = h[DOMAIN ranked]
  <2>1. Shown(allowed) =
          (CHOOSE iter : iter = [u \in SUBSET DOMAIN ranked |->
                                   IF u = {} THEN <<>>
                                   ELSE Keep(iter[u \ {Max(u)}], ranked[Max(u)])])[DOMAIN ranked]
    BY DEF Shown, FoldLeft, MapThenFoldSet
  <2> QED
    BY <2>1, <1>3
<1> HIDE DEF Keep
<1>5. h[{}] = <<>>
  BY <1>4
<1>6. \A u \in SUBSET DOMAIN ranked :
        u # {} /\ h[u \ {Max(u)}] \in Seq(Chunks) =>
          h[u] = step[<<h[u \ {Max(u)}], ranked[Max(u)]>>]
  <2>1. SUFFICES ASSUME NEW u \in SUBSET DOMAIN ranked, u # {}, h[u \ {Max(u)}] \in Seq(Chunks)
                 PROVE  h[u] = step[<<h[u \ {Max(u)}], ranked[Max(u)]>>]
    OBVIOUS
  <2>2. ranked[Max(u)] \in Chunks
    BY <2>1, LargestIn
  <2>3. h[u] = Keep(h[u \ {Max(u)}], ranked[Max(u)])
    BY <2>1, <1>4
  <2> QED
    BY <2>1, <2>2, <2>3, <1>2
<1>7. IsRun(h, Seq(Chunks), <<>>, step, ranked)
  BY <1>1, <1>5, <1>6, FoldRuns
<1>8. Len(ranked) \in 0 .. Len(ranked)
  OBVIOUS
<1> QED
  BY <1>4, <1>7, <1>8 DEF IsRun

-----------------------------------------------------------------------------
(* The semantic channel.  A chunk of a batch that was queried and that the  *)
(* index did not answer is beaten by as many as are wanted.                 *)

Batch == [ids : SUBSET Chunks, bytes : Nat]

RetrievalTypeOK ==
  /\ stage \in {"pack", "refused", "query", "match", "fuse", "select", "expand", "done"}
  /\ batches \in Seq(Batch) /\ batch \in Batch
  /\ found \in SUBSET Chunks
  /\ stage \in {"query", "match"} => scores \in [Chunks -> Nat]
  /\ semantic \in Seq(Chunks) /\ lexical \in Seq(Chunks) /\ ranked \in Seq(Chunks)
  /\ lengths \in Seq(Nat \ {0}) /\ Len(lengths) <= Limit

Beaten(c) ==
  \E S \in SUBSET found : Cardinality(S) = Wide /\ \A d \in S : scores[d] >= scores[c]

NothingOverlooked ==
  stage = "query" =>
    \A c \in Chunks : c \in found \/ Beaten(c) \/ \E k \in DOMAIN batches : c \in batches[k].ids

RetrievalInv ==
  RetrievalTypeOK /\ NothingOverlooked /\ BatchesSearchAll /\ EveryResultHasItsShare

LEMMA PackKeeps ==
  ASSUME RetrievalInv, NEW size \in Sizes, Pack(size)
  PROVE  RetrievalInv'
<1>1. /\ stage = "pack" /\ stage' \in {"pack", "refused"}
      /\ UNCHANGED <<found, scores, semantic, lexical, ranked, lengths, context>>
  BY DEF Pack
<1>2. batches' \in Seq(Batch) /\ batch' \in Batch
  <2>1. PICK c \in Chunks :
          \/ UNCHANGED <<batches, batch>>
          \/ batches' = Append(batches, batch) /\ batch' = With(NoBatch, c, size)
          \/ batch' = With(batch, c, size) /\ UNCHANGED batches
    BY DEF Pack
  <2>2. \A b \in Batch : With(b, c, size) \in Batch
    BY <2>1, Constants DEF With, Batch
  <2>3. NoBatch \in Batch
    BY DEF NoBatch, Batch
  <2>4. batches \in Seq(Batch) /\ batch \in Batch /\ Append(batches, batch) \in Seq(Batch)
    BY DEF RetrievalInv, RetrievalTypeOK
  <2> QED
    BY <2>1, <2>2, <2>3, <2>4
<1>3. RetrievalTypeOK'
  BY <1>1, <1>2 DEF RetrievalInv, RetrievalTypeOK
<1> QED
  BY <1>1, <1>3 DEF RetrievalInv, NothingOverlooked, BatchesSearchAll, EveryResultHasItsShare

LEMMA EmbedKeeps ==
  ASSUME RetrievalInv, NEW similarity \in [Chunks -> Scores], Embed(similarity)
  PROVE  RetrievalInv'
<1>1. /\ stage = "pack" /\ stage' = "query" /\ Packed = Chunks
      /\ batches' = Append(batches, batch) /\ batch' = NoBatch /\ scores' = similarity
      /\ UNCHANGED <<found, semantic, lexical, ranked, lengths, context>>
  BY DEF Embed, AllBatches
<1>2. batches \in Seq(Batch) /\ batch \in Batch /\ Len(batches) \in Nat
  BY DEF RetrievalInv, RetrievalTypeOK
<1>3. RetrievalTypeOK'
  <2>1. NoBatch \in Batch
    BY DEF NoBatch, Batch
  <2>2. Append(batches, batch) \in Seq(Batch)
    BY <1>2
  <2>3. similarity \in [Chunks -> Nat]
    BY Constants
  <2> QED
    BY <1>1, <2>1, <2>2, <2>3 DEF RetrievalInv, RetrievalTypeOK
<1>4. ASSUME NEW c \in Chunks PROVE \E k \in DOMAIN batches' : c \in batches'[k].ids
  <2>1. /\ DOMAIN batches' = 1 .. Len(batches) + 1 /\ batches'[Len(batches) + 1] = batch
        /\ \A k \in DOMAIN batches : k \in 1 .. Len(batches) + 1 /\ batches'[k] = batches[k]
    BY <1>1, <1>2
  <2>2. c \in batch.ids \/ \E k \in DOMAIN batches : c \in batches[k].ids
    <3>1. c \in Packed
      BY <1>1
    <3>2. c \in UNION {batches[k].ids : k \in DOMAIN batches} \/ c \in batch.ids
      BY <3>1, Zenon DEF Packed
    <3> QED
      BY <3>2, Zenon
  <2>3. Len(batches) + 1 \in 1 .. Len(batches) + 1
    BY <1>2
  <2> QED
    BY <2>1, <2>2, <2>3
<1> QED
  BY <1>1, <1>3, <1>4
    DEF RetrievalInv, NothingOverlooked, BatchesSearchAll, EveryResultHasItsShare

LEMMA QueryKeeps ==
  ASSUME RetrievalInv, QueryBatch
  PROVE  RetrievalInv'
<1>1. PICK S \in SUBSET Head(batches).ids :
        Best(S, Head(batches).ids, Wide) /\ found' = found \union S
  BY DEF QueryBatch
<1>2. /\ stage = "query" /\ batches # <<>> /\ batches' = Tail(batches)
      /\ UNCHANGED <<stage, batch, scores, semantic, lexical, ranked, lengths, context>>
  BY DEF QueryBatch
<1>3. /\ batches \in Seq(Batch) /\ found \in SUBSET Chunks /\ scores \in [Chunks -> Nat]
      /\ Len(batches) \in Nat \ {0}
  BY <1>2 DEF RetrievalInv, RetrievalTypeOK
<1>4. PICK ids : ids = Head(batches).ids /\ ids = batches[1].ids /\ ids \in SUBSET Chunks
  <2>1. Head(batches) = batches[1] /\ batches[1] \in Batch
    BY <1>3, <1>2
  <2> QED
    BY <2>1 DEF Batch
<1>5. found' \in SUBSET Chunks /\ S \in SUBSET ids /\ S \in SUBSET found' /\ found \in SUBSET found'
  BY <1>1, <1>3, <1>4
<1>6. RetrievalTypeOK'
  <2>1. Tail(batches) \in Seq(Batch)
    BY <1>2, <1>3
  <2> QED
    BY <2>1, <1>2, <1>5 DEF RetrievalInv, RetrievalTypeOK
<1>7. ASSUME NEW c \in ids, c \notin S PROVE Beaten(c)'
  <2>1. IsFiniteSet(ids) /\ Cardinality(ids) \in Nat /\ IsFiniteSet(S) /\ Cardinality(S) \in Nat
    BY <1>4, <1>5, ChunksAreFinite
  <2>2. Cardinality(S) # Cardinality(ids)
    BY <2>1, <1>5, <1>7, FS_Subset
  <2>3. /\ Cardinality(S) = Least(Wide, Cardinality(ids))
        /\ \A d \in S : scores[d] >= scores[c]
    BY <1>1, <1>4, <1>7 DEF Best
  <2>4. Cardinality(S) = Wide
    BY <2>1, <2>2, <2>3, Constants DEF Least
  <2> QED
    BY <2>3, <2>4, <1>2, <1>5 DEF Beaten
<1>8. ASSUME NEW c \in Chunks
      PROVE  c \in found' \/ Beaten(c)' \/ \E k \in DOMAIN batches' : c \in batches'[k].ids
  <2>1. c \in found \/ Beaten(c) \/ \E k \in DOMAIN batches : c \in batches[k].ids
    BY <1>2 DEF RetrievalInv, NothingOverlooked
  <2>2. CASE c \in found
    BY <2>2, <1>5
  <2>3. CASE Beaten(c)
    BY <2>3, <1>2, <1>5 DEF Beaten
  <2>4. ASSUME NEW k \in DOMAIN batches, c \in batches[k].ids
        PROVE  c \in found' \/ Beaten(c)' \/ \E j \in DOMAIN batches' : c \in batches'[j].ids
    <3>1. CASE k = 1
      BY <2>4, <3>1, <1>4, <1>5, <1>7
    <3>2. CASE k # 1
      <4>1. k - 1 \in DOMAIN batches' /\ batches'[k - 1] = batches[k]
        BY <1>2, <1>3, <3>2
      <4> QED
        BY <4>1, <2>4
    <3> QED
      BY <3>1, <3>2
  <2> QED
    BY <2>1, <2>2, <2>3, <2>4
<1> QED
  BY <1>2, <1>6, <1>8
    DEF RetrievalInv, NothingOverlooked, BatchesSearchAll, EveryResultHasItsShare

\* The first of a ranking of what was found are the best of all.
LEMMA RankSemanticKeeps ==
  ASSUME RetrievalInv, RankSemantic
  PROVE  RetrievalInv'
<1> DEFINE score == [c \in found |-> scores[c]]
           r == Ranking(score)
           n == Cardinality(found)
           m == Least(Wide, n)
           best == FirstOf(r, Wide)
<1>1. /\ stage = "query" /\ batches = <<>> /\ stage' = "match" /\ semantic' = best
      /\ UNCHANGED <<batches, batch, scores, found, lexical, ranked, lengths, context>>
  BY DEF RankSemantic
<1>2. /\ found \in SUBSET Chunks /\ scores \in [Chunks -> Nat] /\ Wide \in Nat \ {0}
  BY <1>1, Constants DEF RetrievalInv, RetrievalTypeOK
<1>3. /\ found \in SUBSET Nat /\ IsFiniteSet(found) /\ score \in [found -> Nat]
      /\ n \in Nat /\ Cardinality(Chunks) = Count /\ IsFiniteSet(Chunks)
  BY <1>2, ChunksAreFinite
<1>4. \A c \in found : score[c] = scores[c]
  OBVIOUS
<1>5. \A c \in Chunks : c \in found \/ Beaten(c)
  BY <1>1 DEF RetrievalInv, NothingOverlooked
<1> HIDE DEF score
<1>6. /\ r \in Seq(found) /\ Len(r) = n
      /\ \A c \in found : \E k \in 1 .. n : r[k] = c
      /\ \A k \in 1 .. n : r[k] \in found /\ Cardinality(Ahead(score, r[k])) = k - 1
      /\ \A j, k \in 1 .. n : j < k => r[j] \in Ahead(score, r[k])
  BY <1>3, RankingIsOrder
<1>i. \A j, k \in 1 .. n : j < k => r[j] \in Ahead(score, r[k])
  BY <1>6
<1>7. \A c, d \in found : d \in Ahead(score, c) <=>
        scores[d] > scores[c] \/ (scores[d] = scores[c] /\ d < c)
  BY <1>3, <1>4 DEF Ahead
<1> HIDE DEF r
<1>8. /\ best \in Seq(found) /\ Len(best) = m /\ m \in 0 .. n /\ m <= Wide
      /\ \A k \in 1 .. m : best[k] = r[k]
  <2>1. r \in Seq(found) /\ Wide \in Nat /\ Len(r) = n
    BY <1>2, <1>6
  <2>2. /\ best \in Seq(found) /\ Len(best) = Least(Wide, Len(r))
        /\ Least(Wide, Len(r)) \in 0 .. Len(r) /\ Least(Wide, Len(r)) \in 0 .. Wide
        /\ \A k \in 1 .. Least(Wide, Len(r)) : best[k] = r[k]
    BY <2>1, FirstOfType
  <2>3. /\ best \in Seq(found) /\ Len(best) = m /\ m \in 0 .. n /\ m \in 0 .. Wide
        /\ \A k \in 1 .. m : best[k] = r[k]
    BY <2>1, <2>2
  <2> HIDE DEF m, best
  <2> QED
    BY <2>1, <2>3
<1>9. best \in Seq(Chunks)
  BY <1>2, <1>8, SequenceOf
<1> HIDE DEF best, n
<1>a. m = Least(Wide, Count)
  <2>1. CASE found = Chunks
    BY <2>1, <1>3 DEF n
  <2>2. CASE found # Chunks
    <3>1. PICK c \in Chunks : Beaten(c)
      BY <2>2, <1>2, <1>5
    <3>2. PICK S \in SUBSET found : Cardinality(S) = Wide
      BY <3>1 DEF Beaten
    <3>3. Wide <= n /\ n <= Count
      BY <3>2, <1>2, <1>3, FS_Subset DEF n
    <3> QED
      BY <3>3, <1>2, <1>3, Constants DEF Least
  <2> QED
    BY <2>1, <2>2
<1>b. ToSet(best) \in SUBSET Chunks /\ Cardinality(ToSet(best)) = m
  <2>1. ToSet(best) = {best[k] : k \in 1 .. m}
    BY <1>8 DEF ToSet
  <2>2. \A j, k \in 1 .. m : best[j] = best[k] => j = k
    <3>1. SUFFICES ASSUME NEW j \in 1 .. m, NEW k \in 1 .. m, best[j] = best[k] PROVE j = k
      OBVIOUS
    <3>2. j \in 1 .. n /\ k \in 1 .. n /\ r[j] = r[k]
      BY <3>1, <1>8, <1>3
    <3>3. j - 1 = k - 1
      BY <3>2, <1>6
    <3> QED
      BY <3>2, <3>3
  <2>3. best \in Bijection(1 .. m, ToSet(best))
    <3>1. best \in [1 .. m -> ToSet(best)]
      BY <1>8, <2>1, SeqDef
    <3> QED
      BY <3>1, <2>1, <2>2 DEF Bijection, Injection, Surjection, IsInjective
  <2>4. IsFiniteSet(1 .. m) /\ Cardinality(1 .. m) = m
    <3>1. 1 \in Int /\ m \in Int /\ m >= 0
      BY <1>8, <1>3
    <3>2. IsFiniteSet(1 .. m) /\ Cardinality(1 .. m) = IF 1 > m THEN 0 ELSE m - 1 + 1
      BY <3>1, FS_Interval
    <3> QED
      BY <3>1, <3>2
  <2>5. Cardinality(ToSet(best)) = m
    BY <2>3, <2>4, FS_Bijection DEF ExistsBijection
  <2>6. ToSet(best) \in SUBSET Chunks
    BY <1>9, <1>8, <2>1
  <2> QED
    BY <2>5, <2>6
<1>c. ASSUME NEW k \in 1 .. m, NEW d \in Chunks, d \notin ToSet(best)
      PROVE  scores[best[k]] >= scores[d]
  <2>1. PICK c : c = best[k] /\ c = r[k] /\ k \in 1 .. n
    BY <1>8, <1>3
  <2>2. c \in found /\ Cardinality(Ahead(score, c)) = k - 1
    BY <2>1, <1>6
  <2>3. scores[c] \in Nat /\ scores[d] \in Nat
    BY <2>2, <1>2
  <2>4. CASE d \in found
    <3>1. PICK j \in 1 .. n : r[j] = d
      BY <2>4, <1>6
    <3>2. j \notin 1 .. m
      <4>1. ASSUME j \in 1 .. m PROVE FALSE
        <5>1. j \in DOMAIN best /\ best[j] = d
          BY <4>1, <3>1, <1>8
        <5> QED
          BY <5>1, <1>c DEF ToSet
      <4> QED
        BY <4>1
    <3>3. k < j
      BY <3>2, <1>8, <1>3
    <3>4. c \in Ahead(score, d)
      BY <3>1, <3>3, <2>1, <1>i
    <3>5. scores[c] >= scores[d]
      BY <3>4, <2>2, <2>3, <2>4, <1>7
    <3> QED
      BY <3>5, <2>1
  <2>5. CASE d \notin found
    <3>1. PICK S \in SUBSET found : Cardinality(S) = Wide /\ \A s \in S : scores[s] >= scores[d]
      BY <2>5, <1>5 DEF Beaten
    <3>2. ASSUME scores[c] < scores[d] PROVE FALSE
      <4>1. ASSUME NEW s \in S PROVE s \in Ahead(score, c)
        <5>1. s \in found /\ scores[s] \in Nat /\ scores[s] >= scores[d]
          BY <3>1, <1>2
        <5>2. scores[s] > scores[c]
          BY <5>1, <3>2, <2>3
        <5> QED
          BY <5>1, <5>2, <2>2, <1>7
      <4>2. IsFiniteSet(Ahead(score, c))
        BY <2>2, <1>3, AheadIsOrder
      <4>3. Wide <= k - 1
        BY <4>1, <4>2, <3>1, <2>2, FS_Subset
      <4> QED
        BY <4>3, <1>2, <1>8, <1>3
    <3> QED
      BY <3>2, <2>1, <2>3
  <2> QED
    BY <2>4, <2>5
<1>d. Best(ToSet(best), Chunks, Wide)
  <2>1. ASSUME NEW c \in ToSet(best), NEW d \in Chunks \ ToSet(best) PROVE scores[c] >= scores[d]
    <3>1. PICK k \in 1 .. m : c = best[k]
      BY <1>8 DEF ToSet
    <3> QED
      BY <3>1, <1>c
  <2> QED
    BY <2>1, <1>a, <1>b, <1>3 DEF Best
<1>e. ASSUME NEW k \in 1 .. m - 1 PROVE scores[best[k]] >= scores[best[k + 1]]
  <2>1. k \in 1 .. n /\ k + 1 \in 1 .. n /\ k \in 1 .. m /\ k + 1 \in 1 .. m /\ k < k + 1
    BY <1>8, <1>3
  <2>2. PICK c, d : c = r[k] /\ d = r[k + 1] /\ c = best[k] /\ d = best[k + 1]
    BY <2>1, <1>8
  <2>3. c \in found /\ d \in found /\ c \in Ahead(score, d)
    BY <2>1, <2>2, <1>6
  <2>4. scores[c] \in Nat /\ scores[d] \in Nat
    BY <2>3, <1>2
  <2>5. scores[c] >= scores[d]
    BY <2>3, <2>4, <1>7
  <2> QED
    BY <2>2, <2>5
<1>f. BatchesSearchAll'
  <2>1. /\ Len(semantic') = Least(Wide, Count)
        /\ \A k \in 1 .. Len(semantic') - 1 : scores'[semantic'[k]] >= scores'[semantic'[k + 1]]
    BY <1>1, <1>8, <1>a, <1>e
  <2>2. Best(ToSet(semantic), Chunks, Wide)'
    BY <1>1, <1>d DEF Best
  <2> QED
    BY <2>1, <2>2 DEF BatchesSearchAll
<1>g. RetrievalTypeOK'
  BY <1>1, <1>9 DEF RetrievalInv, RetrievalTypeOK
<1> QED
  BY <1>1, <1>f, <1>g DEF RetrievalInv, NothingOverlooked, EveryResultHasItsShare

-----------------------------------------------------------------------------
(* The other steps before the context is made.                              *)

\* The first of any ranking of chunks.
LEMMA RankedChunks ==
  ASSUME NEW F \in SUBSET Chunks, NEW score \in [F -> Nat]
  PROVE  /\ Ranking(score) \in Seq(Chunks)
         /\ \A n \in Nat : FirstOf(Ranking(score), n) \in Seq(Chunks)
<1>1. Ranking(score) \in Seq(F)
  BY ChunksAreFinite, RankingIsOrder
<1>2. Ranking(score) \in Seq(Chunks)
  BY <1>1, SequenceOf
<1> QED
  BY <1>2, FirstOfType

LEMMA SearchLexicalKeeps ==
  ASSUME RetrievalInv, NEW match \in [Chunks -> Matches], SearchLexical(match)
  PROVE  RetrievalInv'
<1> DEFINE F == {d \in Chunks : Matched(match[d])}
           score == [c \in F |-> LexicalScore(match[c])]
<1>1. /\ stage' = "fuse" /\ lexical' = FirstOf(Ranking(score), Wide) /\ found' = {}
      /\ UNCHANGED <<batches, batch, semantic, ranked, lengths, context>>
  BY DEF SearchLexical
<1>2. F \in SUBSET Chunks /\ score \in [F -> Nat]
  BY LexicalScoreType
<1> HIDE DEF score, F
<1>3. lexical' \in Seq(Chunks)
  BY <1>1, <1>2, Constants, RankedChunks
<1>4. RetrievalTypeOK'
  BY <1>1, <1>3 DEF RetrievalInv, RetrievalTypeOK
<1> QED
  BY <1>1, <1>4 DEF RetrievalInv, NothingOverlooked, BatchesSearchAll, EveryResultHasItsShare

LEMMA FuseKeeps ==
  ASSUME RetrievalInv, NEW overlap \in [Chunks -> Overlaps], FuseAndRerank(overlap)
  PROVE  RetrievalInv'
<1> DEFINE F == ToSet(lexical) \union ToSet(semantic)
           score == [c \in F |-> 1000 * Fused(c) + Whole * overlap[c]]
<1>1. /\ stage' = "select" /\ ranked' = Ranking(score) /\ semantic' = <<>> /\ lexical' = <<>>
      /\ UNCHANGED <<batches, batch, scores, found, lengths, context>>
  BY DEF FuseAndRerank
<1>2. lexical \in Seq(Chunks) /\ semantic \in Seq(Chunks)
  BY DEF RetrievalInv, RetrievalTypeOK
<1>3. F \in SUBSET Chunks
  BY <1>2 DEF ToSet
<1>4. score \in [F -> Nat]
  <2>1. ASSUME NEW c \in F PROVE 1000 * Fused(c) + Whole * overlap[c] \in Nat
    <3>1. Fused(c) \in Nat
      BY <1>2, ShareType DEF Fused
    <3>2. overlap[c] \in Nat
      BY <1>3, Constants
    <3>3. \A x, y \in Nat : x * y \in Nat
      OBVIOUS
    <3> QED
      BY <3>1, <3>2, <3>3, WholeType
  <2> HIDE DEF F
  <2> QED
    BY <2>1
<1> HIDE DEF score, F
<1>5. ranked' \in Seq(Chunks)
  BY <1>1, <1>3, <1>4, RankedChunks
<1>6. RetrievalTypeOK'
  <2>1. <<>> \in Seq(Chunks)
    OBVIOUS
  <2> QED
    BY <2>1, <1>1, <1>5 DEF RetrievalInv, RetrievalTypeOK
<1> QED
  BY <1>1, <1>6 DEF RetrievalInv, NothingOverlooked, BatchesSearchAll, EveryResultHasItsShare

LEMMA SelectKeeps ==
  ASSUME RetrievalInv, NEW allowed \in SUBSET Chunks, NEW length \in [Chunks -> Lengths],
         Select(allowed, length)
  PROVE  RetrievalInv'
<1> DEFINE evidence == FirstOf(Shown(allowed), Limit)
<1>1. /\ stage' = "expand" /\ ranked' = <<>>
      /\ lengths' = [k \in DOMAIN evidence |-> length[evidence[k]]]
      /\ UNCHANGED <<batches, batch, scores, found, semantic, lexical, context>>
  BY DEF Select
<1>2. evidence \in Seq(Chunks) /\ Len(evidence) \in 0 .. Limit
  <2>1. Shown(allowed) \in Seq(Chunks)
    BY ShownType DEF RetrievalInv, RetrievalTypeOK
  <2>2. PICK s \in Seq(Chunks) : s = Shown(allowed)
    BY <2>1
  <2>3. PICK n \in Nat : n = Limit
    BY Constants
  <2>4. /\ FirstOf(s, n) \in Seq(Chunks) /\ Len(FirstOf(s, n)) = Least(n, Len(s))
        /\ Least(n, Len(s)) \in 0 .. n
    BY FirstOfType
  <2> QED
    BY <2>2, <2>3, <2>4
<1> HIDE DEF evidence
<1>3. lengths' \in Seq(Nat \ {0}) /\ Len(lengths') <= Limit
  <2>1. DOMAIN evidence = 1 .. Len(evidence) /\ Len(evidence) \in Nat
    BY <1>2
  <2>a. ASSUME NEW k \in 1 .. Len(evidence) PROVE length[evidence[k]] \in Nat \ {0}
    <3>1. evidence[k] \in Chunks
      BY <1>2, ElementOfSeq
    <3>2. length[evidence[k]] \in Lengths
      BY <3>1
    <3> QED
      BY <3>2, Constants
  <2>2. lengths' \in [1 .. Len(evidence) -> Nat \ {0}]
    BY <1>1, <2>1, <2>a
  <2>3. lengths' \in Seq(Nat \ {0}) /\ Len(lengths') = Len(evidence)
    BY <2>1, <2>2, SeqDef
  <2> QED
    BY <1>2, <2>3
<1>4. RetrievalTypeOK'
  <2>1. <<>> \in Seq(Chunks)
    OBVIOUS
  <2> QED
    BY <2>1, <1>1, <1>3 DEF RetrievalInv, RetrievalTypeOK
<1> QED
  BY <1>1, <1>4 DEF RetrievalInv, NothingOverlooked, BatchesSearchAll, EveryResultHasItsShare

-----------------------------------------------------------------------------
(* The context.  What is left is enough for an even share of each text that *)
(* waits, so that no text ends the context early.                           *)

LEMMA Division ==
  ASSUME NEW left \in Nat, NEW waiting \in Nat \ {0}
  PROVE  /\ left \div waiting \in Nat /\ (left \div waiting) * waiting <= left
         /\ left < (left \div waiting) * waiting + waiting
  OBVIOUS

LEMMA Quotient ==
  ASSUME NEW left \in Nat, NEW waiting \in Nat \ {0}
  PROVE  left \div waiting \in Nat /\ left \div waiting <= left
<1>1. PICK d : d = left \div waiting
  OBVIOUS
<1>2. d \in Nat /\ d * waiting <= left
  BY <1>1
<1>3. d <= d * waiting
  <2>1. PICK w \in Nat : waiting = w + 1
    OBVIOUS
  <2>2. d * waiting = d * w + d /\ d * w \in Nat
    BY <2>1, <1>2
  <2> QED
    BY <2>2, <1>2
<1> QED
  BY <1>1, <1>2, <1>3

\* An even share of what is left is at least one of the whole, and leaves as much for the others.
LEMMA SharesLast ==
  ASSUME NEW left \in Nat, NEW waiting \in Nat \ {0}, NEW share \in Nat,
         left >= waiting * share, NEW taken \in Nat, taken <= left \div waiting
  PROVE  /\ left \div waiting \in Nat /\ left \div waiting >= share
         /\ taken <= left /\ left - taken >= (waiting - 1) * share
<1>1. PICK d : d = left \div waiting
  OBVIOUS
<1>2. d \in Nat /\ d * waiting <= left /\ left < d * waiting + waiting
  BY <1>1
<1>3. d >= share
  <2>1. ASSUME d + 1 <= share PROVE FALSE
    <3>1. PICK e \in Nat : share = d + 1 + e
      BY <2>1, <1>2
    <3>2. waiting * share = d * waiting + waiting + waiting * e /\ waiting * e \in Nat
      BY <3>1, <1>2
    <3>3. d * waiting \in Nat
      BY <1>2
    <3> QED
      BY <3>2, <3>3, <1>2
  <2> QED
    BY <2>1, <1>2
<1>4. /\ d * waiting \in Nat /\ (waiting - 1) * d = d * waiting - d /\ d <= d * waiting
  <2>1. PICK w \in Nat : waiting = w + 1
    OBVIOUS
  <2>2. d * waiting = d * w + d /\ d * w \in Nat /\ (waiting - 1) * d = d * w
    BY <2>1, <1>2
  <2> QED
    BY <2>2, <1>2
<1>5. (waiting - 1) * share <= (waiting - 1) * d
  <2>1. PICK e \in Nat : d = share + e
    BY <1>2, <1>3
  <2>2. PICK w \in Nat : w = waiting - 1
    OBVIOUS
  <2>3. w * d = w * share + w * e /\ w * e \in Nat /\ w * share \in Nat
    BY <2>1
  <2> QED
    BY <2>2, <2>3
<1>6. (waiting - 1) * share \in Nat
  OBVIOUS
<1> QED
  BY <1>1, <1>2, <1>3, <1>4, <1>5, <1>6

LEMMA UsedIsTotal ==
  ASSUME NEW g
  PROVE  Used(g) = Total(g)
  BY DEF Used, Total

Given == {g \in Seq(Nat) : Total(g) <= Budget}
Taken(g, k) == Least(lengths[k], Allowance(Budget - Total(g), Len(lengths) - k + 1))

LEMMA TakenFits ==
  ASSUME lengths \in Seq(Nat \ {0}), NEW g \in Given, NEW k \in 1 .. Len(lengths)
  PROVE  /\ Budget - Total(g) \in Nat /\ Len(lengths) - k + 1 \in Nat \ {0}
         /\ Taken(g, k) \in Nat /\ Taken(g, k) <= Budget - Total(g)
         /\ Taken(g, k) <= (Budget - Total(g)) \div (Len(lengths) - k + 1)
         /\ Cut(g, k) = IF Len(g) < k - 1 \/ Taken(g, k) = 0 THEN g ELSE Append(g, Taken(g, k))
         /\ Append(g, Taken(g, k)) \in Given /\ Cut(g, k) \in Given
         /\ Total(Append(g, Taken(g, k))) = Total(g) + Taken(g, k)
<1>1. g \in Seq(Nat) /\ Total(g) \in Nat /\ Total(g) <= Budget /\ Budget \in Nat /\ Cap \in Nat
  BY TotalType, Constants DEF Given
<1>2. PICK left : left = Budget - Total(g)
  OBVIOUS
<1>3. PICK waiting : waiting = Len(lengths) - k + 1
  OBVIOUS
<1>4. left \in Nat /\ waiting \in Nat \ {0} /\ lengths[k] \in Nat
  <2>1. Len(lengths) \in Nat /\ lengths[k] \in Nat \ {0}
    BY ElementOfSeq
  <2> QED
    BY <2>1, <1>1, <1>2, <1>3
<1>5. left \div waiting \in Nat /\ left \div waiting <= left
  BY <1>4, Quotient
<1>6. Taken(g, k) = Least(lengths[k], Least(Cap, left \div waiting))
  BY <1>2, <1>3 DEF Taken, Allowance
<1>7. Taken(g, k) \in Nat /\ Taken(g, k) <= left \div waiting /\ Taken(g, k) <= left
  <2>1. PICK q \in Nat : q = left \div waiting /\ q <= left
    BY <1>5
  <2>2. PICK a : a = Least(Cap, q)
    OBVIOUS
  <2>3. a \in Nat /\ a <= q
    BY <2>1, <2>2, <1>1 DEF Least
  <2>4. Least(lengths[k], a) \in Nat /\ Least(lengths[k], a) <= a
    BY <2>3, <1>4 DEF Least
  <2>5. Taken(g, k) = Least(lengths[k], a)
    BY <2>1, <2>2, <1>6
  <2>6. PICK n \in Nat : n = Taken(g, k) /\ n <= a
    BY <2>4, <2>5
  <2>7. n <= q /\ n <= left
    BY <2>1, <2>3, <2>6, <1>4
  <2> QED
    BY <2>1, <2>6, <2>7
<1>8. /\ Append(g, Taken(g, k)) \in Seq(Nat)
      /\ Total(Append(g, Taken(g, k))) = Total(g) + Taken(g, k)
  BY <1>1, <1>7, TotalOfAppend
<1>9. Append(g, Taken(g, k)) \in Given
  BY <1>1, <1>2, <1>7, <1>8 DEF Given
<1>a. Cut(g, k) = IF Len(g) < k - 1 \/ Taken(g, k) = 0 THEN g ELSE Append(g, Taken(g, k))
  BY UsedIsTotal DEF Cut, Taken
<1> QED
  BY <1>2, <1>3, <1>4, <1>7, <1>8, <1>9, <1>a

\* The context is made in rounds, one for each text.
Texts == FoldLeft(Cut, <<>>, [k \in DOMAIN lengths |-> k])

LEMMA ContextRuns ==
  ASSUME lengths \in Seq(Nat \ {0})
  PROVE  \E h : /\ h[1 .. 0] = <<>> /\ Texts = h[1 .. Len(lengths)]
                /\ \A n \in 0 .. Len(lengths) : h[1 .. n] \in Given
                /\ \A n \in 0 .. Len(lengths) - 1 : h[1 .. n + 1] = Cut(h[1 .. n], n + 1)
<1> DEFINE E == 1 .. Len(lengths)
           places == [k \in DOMAIN lengths |-> k]
           step == [x \in Given \X E |-> Cut(x[1], x[2])]
<1>0. /\ places \in Seq(E) /\ DOMAIN places = E /\ Len(places) = Len(lengths)
      /\ \A k \in E : places[k] = k
      /\ Len(lengths) \in Nat
  <2>1. Len(lengths) \in Nat /\ DOMAIN lengths = 1 .. Len(lengths)
    OBVIOUS
  <2>2. places \in [1 .. Len(lengths) -> E]
    BY <2>1
  <2> QED
    BY <2>1, <2>2, SeqDef
<1>2. \A g \in Given, k \in E : step[<<g, k>>] = Cut(g, k) /\ Cut(g, k) \in Given
  BY TakenFits
<1>1. step \in [Given \X E -> Given] /\ <<>> \in Given
  <2>1. <<>> \in Given
    BY TotalOfNone, Constants DEF Given
  <2> QED
    BY <2>1, <1>2
<1> HIDE DEF step, places, E
<1>3. \E iter : iter = [u \in SUBSET DOMAIN places |->
                          IF u = {} THEN <<>> ELSE Cut(iter[u \ {Max(u)}], places[Max(u)])]
  <2>1. PICK g : g \in FoldsOf(Given, <<>>, step, places)
    <3>1. FoldsOf(Given, <<>>, step, places) # {}
      BY <1>0, <1>1, FoldExists, Zenon
    <3> QED
      BY <3>1
  <2>2. /\ g \in [SUBSET DOMAIN places -> Given]
        /\ \A u \in SUBSET DOMAIN places :
             g[u] = IF u = {} THEN <<>> ELSE step[<<g[u \ {Max(u)}], places[Max(u)]>>]
    BY <2>1 DEF FoldsOf
  <2>3. \A u \in SUBSET DOMAIN places :
          g[u] = IF u = {} THEN <<>> ELSE Cut(g[u \ {Max(u)}], places[Max(u)])
    <3>1. ASSUME NEW u \in SUBSET DOMAIN places, u # {}
          PROVE  g[u] = Cut(g[u \ {Max(u)}], places[Max(u)])
      <4>1. places[Max(u)] \in E /\ u \ {Max(u)} \in SUBSET DOMAIN places
        BY <1>0, <3>1, LargestIn
      <4>2. g[u \ {Max(u)}] \in Given
        BY <4>1, <2>2
      <4> QED
        BY <4>1, <4>2, <3>1, <2>2, <1>2
    <3> QED
      BY <3>1, <2>2
  <2> QED
    BY <2>2, <2>3
<1>4. PICK h : /\ h = [u \in SUBSET DOMAIN places |->
                         IF u = {} THEN <<>> ELSE Cut(h[u \ {Max(u)}], places[Max(u)])]
               /\ Texts = h[DOMAIN places]
  <2>1. Texts =
          (CHOOSE iter : iter = [u \in SUBSET DOMAIN places |->
                                   IF u = {} THEN <<>>
                                   ELSE Cut(iter[u \ {Max(u)}], places[Max(u)])])[DOMAIN places]
    BY DEF Texts, FoldLeft, MapThenFoldSet, places
  <2> QED
    BY <2>1, <1>3
<1>5. h[{}] = <<>>
  BY <1>4
<1>6. \A u \in SUBSET DOMAIN places :
        u # {} /\ h[u \ {Max(u)}] \in Given => h[u] = step[<<h[u \ {Max(u)}], places[Max(u)]>>]
  <2>1. SUFFICES ASSUME NEW u \in SUBSET DOMAIN places, u # {}, h[u \ {Max(u)}] \in Given
                 PROVE  h[u] = step[<<h[u \ {Max(u)}], places[Max(u)]>>]
    OBVIOUS
  <2>2. places[Max(u)] \in E
    BY <1>0, <2>1, LargestIn
  <2>3. h[u] = Cut(h[u \ {Max(u)}], places[Max(u)])
    BY <2>1, <1>4
  <2> QED
    BY <2>1, <2>2, <2>3, <1>2
<1>7. IsRun(h, Given, <<>>, step, places)
  BY <1>0, <1>1, <1>5, <1>6, FoldRuns
<1>8. /\ h[1 .. 0] = <<>> /\ Texts = h[1 .. Len(lengths)]
      /\ \A n \in 0 .. Len(lengths) : h[1 .. n] \in Given
      /\ \A n \in 0 .. Len(lengths) - 1 : h[1 .. n + 1] = step[<<h[1 .. n], places[n + 1]>>]
  BY <1>0, <1>4, <1>7 DEF IsRun
<1>9. ASSUME NEW n \in 0 .. Len(lengths) - 1 PROVE h[1 .. n + 1] = Cut(h[1 .. n], n + 1)
  <2>1. n + 1 \in E /\ n \in 0 .. Len(lengths)
    BY <1>0 DEF E
  <2>2. places[n + 1] = n + 1
    BY <2>1, <1>0
  <2> QED
    BY <2>1, <2>2, <1>2, <1>8
<1> QED
  BY <1>8, <1>9

\* Each round leaves an even share for those that wait.
LEMMA SharesSuffice ==
  ASSUME lengths \in Seq(Nat \ {0}), Len(lengths) # 0, Len(lengths) <= Limit,
         NEW h, h[1 .. 0] = <<>>,
         \A n \in 0 .. Len(lengths) : h[1 .. n] \in Given,
         \A n \in 0 .. Len(lengths) - 1 : h[1 .. n + 1] = Cut(h[1 .. n], n + 1)
  PROVE  /\ Len(h[1 .. Len(lengths)]) = Len(lengths)
         /\ \A k \in DOMAIN lengths :
              h[1 .. Len(lengths)][k] >= Least(lengths[k], Least(Cap, Budget \div Len(lengths)))
<1> DEFINE N == Len(lengths)
           share == Budget \div N
           Due(k) == Least(lengths[k], Least(Cap, share))
           Shared(n) == /\ Len(h[1 .. n]) = n /\ Budget - Total(h[1 .. n]) >= (N - n) * share
                        /\ \A k \in 1 .. n : h[1 .. n][k] >= Due(k)
           T == {n \in Nat : n <= N => Shared(n)}
<1>1. N \in Nat \ {0} /\ DOMAIN lengths = 1 .. N /\ \A k \in 1 .. N : lengths[k] \in Nat \ {0}
  BY ElementOfSeq
<1>2. Budget \in Nat \ {0} /\ Cap \in Nat \ {0} /\ N <= Budget
  BY <1>1, Constants
<1> HIDE DEF N
<1>3. share \in Nat /\ N * share <= Budget /\ share >= 1
  <2>1. PICK d : d = share
    OBVIOUS
  <2>2. d \in Nat /\ d * N <= Budget /\ Budget < d * N + N
    BY <2>1, <1>1, <1>2, Division
  <2>3. d # 0
    <3>1. d = 0 => d * N = 0
      BY <1>1
    <3> QED
      BY <3>1, <2>2, <1>1, <1>2
  <2>4. N * d = d * N
    BY <1>1, <2>2
  <2> QED
    BY <2>1, <2>2, <2>3, <2>4
<1> HIDE DEF share
<1>4. 0 \in T
  <2>1. (N - 0) * share = N * share
    BY <1>1
  <2>2. Len(h[1 .. 0]) = 0 /\ Budget - Total(h[1 .. 0]) = Budget
    BY <1>2, TotalOfNone
  <2> QED
    BY <2>1, <2>2, <1>3
<1>5. ASSUME NEW n \in Nat, n \in T PROVE n + 1 \in T
  <2> HIDE DEF Shared
  <2>1. SUFFICES ASSUME n + 1 <= N PROVE Shared(n + 1)
    OBVIOUS
  <2>0. n <= N => Shared(n)
    BY <1>5
  <2> USE DEF Shared
  <2>2. n \in 0 .. N /\ n \in 0 .. N - 1 /\ n + 1 \in 1 .. N /\ n <= N
    BY <2>1, <1>1
  <2>3. PICK g : g = h[1 .. n] /\ g \in Given
    BY <2>2 DEF N
  <2>4. /\ Len(g) = n /\ Budget - Total(g) >= (N - n) * share
        /\ \A k \in 1 .. n : g[k] >= Due(k)
    BY <2>2, <2>3, <2>0
  <2>5. PICK left \in Nat : left = Budget - Total(g)
    BY <2>2, <2>3, TakenFits DEF N
  <2>j. PICK j \in 1 .. N : j = n + 1
    BY <2>2
  <2>6. PICK waiting \in Nat \ {0} : waiting = N - n /\ waiting = N - (n + 1) + 1
    <3>1. N - n \in Nat \ {0} /\ N - n = N - (n + 1) + 1
      BY <2>2, <1>1
    <3> QED
      BY <3>1
  <2>7. PICK taken \in Nat :
          /\ taken = Taken(g, j) /\ taken <= left \div waiting
          /\ Cut(g, j) = IF Len(g) < j - 1 \/ taken = 0 THEN g ELSE Append(g, taken)
          /\ Total(Append(g, taken)) = Total(g) + taken
    <3>1. waiting = N - j + 1
      BY <2>6, <2>j
    <3>2. /\ Taken(g, j) \in Nat
          /\ Taken(g, j) <= (Budget - Total(g)) \div (N - j + 1)
          /\ Cut(g, j) = IF Len(g) < j - 1 \/ Taken(g, j) = 0 THEN g ELSE Append(g, Taken(g, j))
          /\ Total(Append(g, Taken(g, j))) = Total(g) + Taken(g, j)
      BY <2>3, TakenFits DEF N
    <3> QED
      BY <3>1, <3>2, <2>5
  <2>8. left >= waiting * share
    BY <2>4, <2>5, <2>6
  <2>9. /\ left \div waiting \in Nat /\ left \div waiting >= share
        /\ left - taken >= (waiting - 1) * share
    BY <2>7, <2>8, <1>3, SharesLast
  <2>a. taken = Least(lengths[n + 1], Least(Cap, left \div waiting))
    BY <2>5, <2>6, <2>7, <2>j DEF Taken, Allowance, N
  <2>b. taken >= Due(n + 1) /\ taken # 0
    <3>0. PICK q : q = left \div waiting
      OBVIOUS
    <3>a. q \in Nat /\ q >= share
      BY <3>0, <2>9
    <3>1. q \in Nat /\ q = left \div waiting /\ q >= share /\ q >= 1
      BY <3>0, <3>a, <1>3
    <3>2. PICK m \in Nat \ {0} : m = lengths[n + 1]
      BY <2>2, <1>1
    <3>3. taken = Least(m, Least(Cap, q)) /\ Due(n + 1) = Least(m, Least(Cap, share))
      BY <3>1, <3>2, <2>a
    <3> HIDE DEF Due
    <3> QED
      BY <3>1, <3>2, <3>3, <1>2, <1>3 DEF Least
  <2>c. h[1 .. n + 1] = Append(g, taken)
    <3>1. h[1 .. n + 1] = Cut(g, j)
      BY <2>2, <2>3, <2>j DEF N
    <3>2. ~ (Len(g) < j - 1 \/ taken = 0)
      BY <2>2, <2>4, <2>b, <2>j
    <3> QED
      BY <3>1, <3>2, <2>7
  <2>d. g \in Seq(Nat) /\ Total(g) \in Nat
    BY <2>3, TotalType DEF Given
  <2>e. /\ Len(h[1 .. n + 1]) = n + 1 /\ h[1 .. n + 1][n + 1] = taken
        /\ \A k \in 1 .. n : h[1 .. n + 1][k] = g[k]
    <3>1. PICK more : more = Append(g, taken)
      OBVIOUS
    <3>2. /\ Len(more) = Len(g) + 1 /\ more[Len(g) + 1] = taken
          /\ \A k \in 1 .. Len(g) : more[k] = g[k]
      BY <3>1, <2>d
    <3> QED
      BY <3>1, <3>2, <2>c, <2>4
  <2>f. Budget - Total(h[1 .. n + 1]) >= (N - (n + 1)) * share
    <3>1. Budget - Total(h[1 .. n + 1]) = left - taken
      BY <2>c, <2>d, <2>5, <2>7, <1>2
    <3>2. waiting - 1 = N - (n + 1)
      BY <2>6, <1>1
    <3> QED
      BY <3>1, <3>2, <2>9
  <2>g. ASSUME NEW k \in 1 .. n + 1 PROVE h[1 .. n + 1][k] >= Due(k)
    <3> HIDE DEF Due
    <3>1. k \in 1 .. n \/ k = n + 1
      OBVIOUS
    <3> QED
      BY <3>1, <2>b, <2>e, <2>4
  <2> HIDE DEF Due
  <2> QED
    BY <2>e, <2>f, <2>g
<1>6. N \in T
  <2> HIDE DEF T
  <2> QED
    BY <1>1, <1>4, <1>5, SetInduction
<1>7. Len(h[1 .. N]) = N /\ \A k \in 1 .. N : h[1 .. N][k] >= Due(k)
  BY <1>1, <1>6
<1> QED
  BY <1>1, <1>7 DEF N, share

LEMMA ExpandKeeps ==
  ASSUME RetrievalInv, Expand
  PROVE  RetrievalInv'
<1>1. /\ stage = "expand" /\ stage' = "done"
      /\ UNCHANGED <<batches, batch, scores, found, semantic, lexical, ranked, lengths>>
      /\ context' = Texts
  BY DEF Expand, Texts
<1>2. lengths \in Seq(Nat \ {0}) /\ Len(lengths) <= Limit
  BY DEF RetrievalInv, RetrievalTypeOK
<1>3. PICK h : /\ h[1 .. 0] = <<>> /\ context' = h[1 .. Len(lengths)]
               /\ \A n \in 0 .. Len(lengths) : h[1 .. n] \in Given
               /\ \A n \in 0 .. Len(lengths) - 1 : h[1 .. n + 1] = Cut(h[1 .. n], n + 1)
  BY <1>1, <1>2, ContextRuns
<1>4. Used(context') <= Budget
  <2>1. Len(lengths) \in 0 .. Len(lengths)
    BY <1>2
  <2>2. Total(context') <= Budget
    BY <2>1, <1>3 DEF Given
  <2> QED
    BY <2>2, UsedIsTotal
<1>5. CASE Len(lengths) = 0
  <2>1. Len(context') = 0 /\ DOMAIN lengths = {}
    <3>1. context' = <<>>
      BY <1>1, <1>3, <1>5
    <3> QED
      BY <3>1, <1>2, <1>5
  <2> QED
    BY <2>1, <1>1, <1>4, <1>5
      DEF RetrievalInv, RetrievalTypeOK, NothingOverlooked, BatchesSearchAll,
          EveryResultHasItsShare
<1>6. CASE Len(lengths) # 0
  <2>1. /\ Len(context') = Len(lengths)
        /\ \A k \in DOMAIN lengths :
             context'[k] >= Least(lengths[k], Least(Cap, Budget \div Len(lengths)))
    BY <1>2, <1>3, <1>6, SharesSuffice
  <2>2. EveryResultHasItsShare'
    BY <2>1, <1>1, <1>4 DEF EveryResultHasItsShare
  <2> QED
    BY <2>2, <1>1 DEF RetrievalInv, RetrievalTypeOK, NothingOverlooked, BatchesSearchAll
<1> QED
  BY <1>5, <1>6

-----------------------------------------------------------------------------
LEMMA RetrievalStart == Init => RetrievalInv
<1> SUFFICES ASSUME Init PROVE RetrievalInv
  OBVIOUS
<1>1. NoBatch \in Batch
  BY DEF NoBatch, Batch
<1>2. <<>> \in Seq(Batch) /\ <<>> \in Seq(Chunks) /\ <<>> \in Seq(Nat \ {0}) /\ Len(<<>>) = 0
  OBVIOUS
<1>3. Limit \in Nat /\ 0 <= Limit
  BY Constants
<1> QED
  BY <1>1, <1>2, <1>3
    DEF Init, RetrievalInv, RetrievalTypeOK, NothingOverlooked, BatchesSearchAll,
        EveryResultHasItsShare

LEMMA RetrievalStep == RetrievalInv /\ [Next]_vars => RetrievalInv'
<1> SUFFICES ASSUME RetrievalInv, [Next]_vars PROVE RetrievalInv'
  OBVIOUS
<1>1. ASSUME NEW size \in Sizes, Pack(size) PROVE RetrievalInv'
  BY <1>1, PackKeeps
<1>2. ASSUME NEW similarity \in [Chunks -> Scores], Embed(similarity) PROVE RetrievalInv'
  BY <1>2, EmbedKeeps
<1>3. CASE QueryBatch
  BY <1>3, QueryKeeps
<1>4. CASE RankSemantic
  BY <1>4, RankSemanticKeeps
<1>5. ASSUME NEW match \in [Chunks -> Matches], SearchLexical(match) PROVE RetrievalInv'
  BY <1>5, SearchLexicalKeeps
<1>6. ASSUME NEW overlap \in [Chunks -> Overlaps], FuseAndRerank(overlap) PROVE RetrievalInv'
  BY <1>6, FuseKeeps
<1>7. ASSUME NEW allowed \in SUBSET Chunks, NEW length \in [Chunks -> Lengths],
             Select(allowed, length)
      PROVE  RetrievalInv'
  BY <1>7, SelectKeeps
<1>8. CASE Expand
  BY <1>8, ExpandKeeps
<1>9. CASE UNCHANGED vars
  BY <1>9
    DEF vars, RetrievalInv, RetrievalTypeOK, NothingOverlooked, Beaten, BatchesSearchAll, Best,
        EveryResultHasItsShare
<1> QED
  BY <1>1, <1>2, <1>3, <1>4, <1>5, <1>6, <1>7, <1>8, <1>9 DEF Next

LEMMA RetrievalAlways == Spec => []RetrievalInv
  BY RetrievalStart, RetrievalStep, PTL DEF Spec

(* However the eligible chunks are divided into batches and however the     *)
(* index chooses among equals, the semantic ranking of semantic_search.py   *)
(* is the best of all of them, best first.                                  *)
THEOREM BatchesAlwaysSearchAll == Spec => []BatchesSearchAll
<1>1. RetrievalInv => BatchesSearchAll
  BY DEF RetrievalInv
<1> QED
  BY <1>1, RetrievalAlways, PTL

(* assistant_context leaves none of the selected results out: each has its  *)
(* text or an even share of the budget, and the budget is kept.             *)
THEOREM NoResultIsLeftOut == Spec => []EveryResultHasItsShare
<1>1. RetrievalInv => EveryResultHasItsShare
  BY DEF RetrievalInv
<1> QED
  BY <1>1, RetrievalAlways, PTL
=============================================================================
