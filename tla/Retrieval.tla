------------------------------- MODULE Retrieval -------------------------------
(***************************************************************************)
(* One search of RetrievalService and the context made of it: the eligible *)
(* chunks go to the vector index in batches that a filter can hold, the    *)
(* answers are merged and fused with the lexical ranking, and what is left *)
(* shares the characters the model is given.  Chunks are numbered in the   *)
(* order of their identifiers.                                             *)
(***************************************************************************)
EXTENDS Integers, Sequences, SequencesExt, FiniteSetsExt

CONSTANTS
  Count,         \* chunks that are eligible
  Limit,         \* results asked for
  Wide,          \* candidates of each channel (three times as many)
  MaxIds,        \* identifiers in a batch (500)
  MaxBytes,      \* their size (24000)
  MaxItem,       \* the size of one (2000)
  Sizes,         \* sizes explored
  Scores,        \* similarities explored
  Matches,       \* what the query finds in a text: [counts, phrase, code]
  Overlaps,      \* words shared with the query, for the reranker
  RankConstant,  \* of the reciprocal rank fusion (60)
  Lengths,       \* lengths of texts explored
  Budget,        \* characters of a context (16000)
  Cap            \* of them, for one chunk (5000)

Chunks == 1 .. Count

ASSUME RetrievalAssumption ==
  /\ {Count, Limit, Wide, MaxIds, MaxBytes, MaxItem, RankConstant, Budget, Cap} \subseteq Nat \ {0}
  /\ Sizes \subseteq Nat /\ Scores \subseteq Nat \ {0} /\ Overlaps \subseteq Nat
  /\ Lengths \subseteq Nat \ {0}
  /\ \A m \in Matches : m.counts \in Seq(Nat) /\ {m.phrase, m.code} \subseteq BOOLEAN
  /\ MaxItem <= MaxBytes /\ Limit <= Wide /\ Limit <= Budget

VARIABLES
  stage,     \* what is done next
  batches,   \* batches that are full, and those not yet queried
  batch,     \* the batch being filled: [ids, bytes]
  scores,    \* what the vector index would score each chunk
  found,     \* the chunks the index answered so far
  semantic, lexical,  \* the two rankings
  ranked,    \* the fused and reranked order
  lengths,   \* of the texts of the evidence
  context    \* characters given to each of them

vars == <<stage, batches, batch, scores, found, semantic, lexical, ranked, lengths, context>>

Least(x, y) == IF x < y THEN x ELSE y
FirstOf(s, n) == SubSeq(s, 1, Least(n, Len(s)))

\* A ranking: the higher score first, then the lower identifier; as many are ahead of the
\* k-th as come before it.
Ahead(score, c) ==
  {d \in DOMAIN score : score[d] > score[c] \/ (score[d] = score[c] /\ d < c)}

Ranking(score) ==
  [k \in 1 .. Cardinality(DOMAIN score) |->
     CHOOSE c \in DOMAIN score : Cardinality(Ahead(score, c)) = k - 1]

NoBatch == [ids |-> {}, bytes |-> 0]

Init ==
  /\ stage = "pack" /\ batches = <<>> /\ batch = NoBatch /\ scores = <<>> /\ found = {}
  /\ semantic = <<>> /\ lexical = <<>> /\ ranked = <<>> /\ lengths = <<>> /\ context = <<>>

-----------------------------------------------------------------------------
(* The semantic channel.                                                    *)

Packed == (UNION {batches[k].ids : k \in DOMAIN batches}) \union batch.ids
With(b, c, size) == [ids |-> b.ids \union {c}, bytes |-> b.bytes + size]
Full(size) ==
  /\ batch.ids # {}
  /\ Cardinality(batch.ids) >= MaxIds \/ batch.bytes + size > MaxBytes

Pack(size) ==
  LET c == Cardinality(Packed) + 1
  IN /\ stage = "pack" /\ c \in Chunks
     /\ IF size > MaxItem THEN stage' = "refused" /\ UNCHANGED <<batches, batch>>
        ELSE /\ UNCHANGED stage
             /\ IF Full(size)
                THEN batches' = Append(batches, batch) /\ batch' = With(NoBatch, c, size)
                ELSE batch' = With(batch, c, size) /\ UNCHANGED batches
     /\ UNCHANGED <<scores, found, semantic, lexical, ranked, lengths, context>>

AllFull == batches
AllBatches == Append(batches, batch)

\* The query is embedded; what the index will answer is settled.
Embed(similarity) ==
  /\ stage = "pack" /\ Packed = Chunks /\ stage' = "query"
  /\ batches' = AllBatches /\ batch' = NoBatch /\ scores' = similarity
  /\ UNCHANGED <<found, semantic, lexical, ranked, lengths, context>>

\* The index answers the best of a batch; among equals it may choose.
Best(S, ids, n) ==
  /\ S \subseteq ids /\ Cardinality(S) = Least(n, Cardinality(ids))
  /\ \A c \in S, d \in ids \ S : scores[c] >= scores[d]

QueryBatch ==
  /\ stage = "query" /\ batches # <<>> /\ batches' = Tail(batches)
  /\ \E S \in SUBSET Head(batches).ids : Best(S, Head(batches).ids, Wide) /\ found' = found \union S
  /\ UNCHANGED <<stage, batch, scores, semantic, lexical, ranked, lengths, context>>

RankSemantic ==
  /\ stage = "query" /\ batches = <<>> /\ stage' = "match"
  /\ semantic' = FirstOf(Ranking([c \in found |-> scores[c]]), Wide)
  /\ UNCHANGED <<batches, batch, scores, found, lexical, ranked, lengths, context>>

-----------------------------------------------------------------------------
(* The lexical channel.                                                     *)

LexicalScore(m) ==
  FoldLeft(LAMBDA n, c : n + Least(c, 3) + (IF c > 0 THEN 5 ELSE 0), 0, m.counts)
    + (IF m.phrase THEN 8 ELSE 0) + (IF m.code THEN 100 ELSE 0)

Matched(m) == m.code \/ \E k \in DOMAIN m.counts : m.counts[k] > 0

SearchLexical(match) ==
  /\ stage = "match" /\ stage' = "fuse"
  /\ lexical' = FirstOf(Ranking([c \in {d \in Chunks : Matched(match[d])} |->
                                LexicalScore(match[c])]), Wide)
  /\ scores' = <<>> /\ found' = {}
  /\ UNCHANGED <<batches, batch, semantic, ranked, lengths, context>>

-----------------------------------------------------------------------------
(* Fusion: the sum of 1 / (RankConstant + rank), in parts of a common       *)
(* multiple; the reranker adds a thousandth for each word that is shared.   *)

Whole == FoldLeft(LAMBDA n, k : n * (RankConstant + k), 1, [k \in 1 .. Wide |-> k])
Share(ranking, c) ==
  LET at == {k \in DOMAIN ranking : ranking[k] = c}
  IN IF at = {} THEN 0 ELSE Whole \div (RankConstant + Max(at))

Fused(c) == Share(lexical, c) + Share(semantic, c)

FuseAndRerank(overlap) ==
  /\ stage = "fuse" /\ stage' = "select"
  /\ ranked' = Ranking([c \in ToSet(lexical) \union ToSet(semantic) |->
                        1000 * Fused(c) + Whole * overlap[c]])
  /\ semantic' = <<>> /\ lexical' = <<>>
  /\ UNCHANGED <<batches, batch, scores, found, lengths, context>>

\* What may still be shown when it is read again, up to the limit; texts are not empty.
Shown(allowed) ==
  FoldLeft(LAMBDA kept, c : IF c \in allowed THEN Append(kept, c) ELSE kept, <<>>, ranked)

Select(allowed, length) ==
  LET evidence == FirstOf(Shown(allowed), Limit)
  IN /\ stage = "select" /\ stage' = "expand"
     /\ ranked' = <<>> /\ lengths' = [k \in DOMAIN evidence |-> length[evidence[k]]]
     /\ UNCHANGED <<batches, batch, scores, found, semantic, lexical, context>>

Greedy(remaining, waiting) == Least(Cap, remaining)
Allowance(remaining, waiting) == Least(Cap, remaining \div waiting)

Used(given) == FoldLeft(+, 0, given)

\* The k-th text; the first one for which nothing is left ends the context.
Cut(given, k) ==
  LET left == Budget - Used(given)
      taken == Least(lengths[k], Allowance(left, Len(lengths) - k + 1))
  IN IF Len(given) < k - 1 \/ taken = 0 THEN given ELSE Append(given, taken)

Expand ==
  /\ stage = "expand" /\ stage' = "done"
  /\ context' = FoldLeft(Cut, <<>>, [k \in DOMAIN lengths |-> k])
  /\ UNCHANGED <<batches, batch, scores, found, semantic, lexical, ranked, lengths>>

Next ==
  \/ \E size \in Sizes : Pack(size)
  \/ \E similarity \in [Chunks -> Scores] : Embed(similarity)
  \/ QueryBatch \/ RankSemantic
  \/ \E match \in [Chunks -> Matches] : SearchLexical(match)
  \/ \E overlap \in [Chunks -> Overlaps] : FuseAndRerank(overlap)
  \/ \E allowed \in SUBSET Chunks, length \in [Chunks -> Lengths] : Select(allowed, length)
  \/ Expand

Spec == Init /\ [][Next]_vars

-----------------------------------------------------------------------------
(* Searching the eligible chunks batch by batch loses nothing: the semantic *)
(* ranking is the best of all of them, however they were divided and        *)
(* however the index chose among equals.                                    *)
BatchesSearchAll ==
  stage = "match" =>
    /\ Len(semantic) = Least(Wide, Count) /\ Best(ToSet(semantic), Chunks, Wide)
    /\ \A k \in 1 .. Len(semantic) - 1 : scores[semantic[k]] >= scores[semantic[k + 1]]

(* No result is silently left out of what the model reads: each has its     *)
(* text, or at least an even share of the budget, which is kept.            *)
EveryResultHasItsShare ==
  stage = "done" =>
    /\ Len(context) = Len(lengths) /\ Used(context) <= Budget
    /\ \A k \in DOMAIN lengths :
         context[k] >= Least(lengths[k], Least(Cap, Budget \div Len(lengths)))
=============================================================================
