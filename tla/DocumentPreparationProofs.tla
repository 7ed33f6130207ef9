----------------------- MODULE DocumentPreparationProofs -----------------------
(***************************************************************************)
(* Proofs about the preparation of documents, for documents of any length  *)
(* and any budget of tokens.                                               *)
(***************************************************************************)
EXTENDS DocumentPreparation, FoldTheorems

-----------------------------------------------------------------------------
(* Paths and stacks.                                                        *)

LEMMA NearestIs ==
  ASSUME NEW n \in Nat, NEW S \in SUBSET (0 .. n)
  PROVE  /\ S = {} => Nearest(S) = None
         /\ \A x \in S : (\A y \in S : y <= x) => Nearest(S) = x
         /\ S # {} => Nearest(S) \in S /\ \A y \in S : y <= Nearest(S)
  BY Largest, LargestIs DEF Nearest

Ascending(path) == \A m, n \in DOMAIN path : m < n => path[m] < path[n]

\* The last place of an ascending path that is in a set is the largest of both.
LEMMA LastIsNearest ==
  ASSUME NEW n \in Nat, NEW path \in Seq(0 .. n), Ascending(path), NEW set
  PROVE  LastIn(path, set) = Nearest(ToSet(path) \intersect set)
<1> DEFINE at == {k \in DOMAIN path : path[k] \in set}
           both == ToSet(path) \intersect set
<1>1. /\ Len(path) \in Nat /\ DOMAIN path = 1 .. Len(path)
      /\ at \in SUBSET (0 .. Len(path))
      /\ both \in SUBSET (0 .. n)
  BY DEF ToSet
<1>2. CASE at = {}
  <2>1. both = {}
    BY <1>2 DEF ToSet
  <2> HIDE DEF both
  <2> QED
    BY <1>2, <2>1 DEF LastIn, Nearest, both
<1>3. CASE at # {}
  <2>1. Max(at) \in at /\ \A k \in at : k <= Max(at)
    BY <1>1, <1>3, Largest
  <2>2. path[Max(at)] \in both
    BY <2>1 DEF ToSet
  <2>3. \A y \in both : y <= path[Max(at)]
    <3>1. SUFFICES ASSUME NEW k \in at PROVE path[k] <= path[Max(at)]
      BY DEF ToSet
    <3>2. Max(at) \in DOMAIN path /\ k \in DOMAIN path /\ k <= Max(at)
      BY <2>1
    <3> HIDE DEF at
    <3>3. k = Max(at) \/ k < Max(at)
      BY <1>1, <3>2
    <3>4. path[k] \in 0 .. n
      BY <3>2
    <3> QED
      BY <3>2, <3>3, <3>4 DEF Ascending
  <2> HIDE DEF at, both
  <2>4. Nearest(both) = path[Max(at)]
    BY <1>1, <2>2, <2>3, NearestIs
  <2>5. LastIn(path, set) = path[Max(at)]
    BY <1>3 DEF LastIn, at
  <2> QED
    BY <2>4, <2>5 DEF both
<1> QED
  BY <1>2, <1>3

\* What is left of a stack whose levels ascend: the places above the level.
LEMMA PoppedLeaves ==
  ASSUME NEW n \in Nat, NEW s \in Seq(0 .. n), NEW level \in Nat,
         \A i \in DOMAIN s : LevelOf(s[i]) \in Nat,
         \A i, j \in DOMAIN s : i < j => LevelOf(s[i]) < LevelOf(s[j])
  PROVE  /\ Popped(s, level) \in Seq(0 .. n)
         /\ Len(Popped(s, level)) \in 0 .. Len(s)
         /\ \A i \in DOMAIN Popped(s, level) : i \in DOMAIN s /\ Popped(s, level)[i] = s[i]
         /\ \A i \in DOMAIN s : i \in DOMAIN Popped(s, level) <=> LevelOf(s[i]) < level
<1> DEFINE kept == {0} \union {k \in DOMAIN s : LevelOf(s[k]) < level}
<1>1. Len(s) \in Nat /\ DOMAIN s = 1 .. Len(s) /\ kept \in SUBSET (0 .. Len(s)) /\ kept # {}
  OBVIOUS
<1>2. Max(kept) \in kept /\ \A k \in kept : k <= Max(kept)
  <2> HIDE DEF kept
  <2> QED
    BY <1>1, Largest
<1>3. Max(kept) \in 0 .. Len(s)
  BY <1>1, <1>2
<1>4. \A i \in DOMAIN s : i <= Max(kept) <=> LevelOf(s[i]) < level
  <2>1. ASSUME NEW i \in DOMAIN s, LevelOf(s[i]) < level PROVE i <= Max(kept)
    BY <2>1, <1>2
  <2>2. ASSUME NEW i \in DOMAIN s, i <= Max(kept) PROVE LevelOf(s[i]) < level
    <3>1. Max(kept) \in DOMAIN s /\ LevelOf(s[Max(kept)]) < level
      BY <1>1, <1>2, <2>2
    <3> HIDE DEF kept
    <3>2. i = Max(kept) \/ (i < Max(kept) /\ LevelOf(s[i]) < LevelOf(s[Max(kept)]))
      BY <1>1, <2>2, <3>1
    <3> QED
      BY <3>1, <3>2
  <2> QED
    BY <2>1, <2>2
<1>5. Popped(s, level) = SubSeq(s, 1, Max(kept))
  BY DEF Popped
<1> HIDE DEF kept
<1> QED
  BY SMTT(20), <1>1, <1>3, <1>4, <1>5
-----------------------------------------------------------------------------
(* The inductive invariant of the outline.                                  *)

Block == Headings \union Blocks
Node == [item : Nat, list : Nat, parent : Nat \union {None}]
SectionRecord ==
  [id : Nat, path : Seq(Nat), blocks : Seq(Nat), parent : Nat \union {None},
   number : {TitleNumber, None} \union {h.number : h \in Headings}, note : BOOLEAN,
   lists : SUBSET Node]

OutlineTypeOK ==
  /\ read \in Seq(Block) /\ stack \in Seq(Nat) /\ sections \in Seq(SectionRecord)
  /\ current \in 0 .. Len(read) /\ done \in BOOLEAN

\* The current heading is the last one, and the blocks are those after it.
CurrentIsLast ==
  /\ current # 0 => IsHeading(current)
  /\ \A i \in DOMAIN read : i > current => ~IsHeading(i)
  /\ blocks = [n \in 1 .. Len(read) - current |-> current + n]

\* The stack holds the current heading and those above it, the outermost first.
StackIsChain == Ascending(stack) /\ ToSet(stack) = Chain(current)

\* Sections follow the order of their headings; the current one has none before the end.
SectionsInOrder ==
  /\ \A k, l \in DOMAIN sections : k < l => sections[k].id < sections[l].id
  /\ \A k \in DOMAIN sections :
       /\ sections[k].id \in 0 .. current
       /\ sections[k].id # 0 => IsHeading(sections[k].id)
       /\ ~done => sections[k].id < current

\* Of the headings above the current one, those of policies have a section.
ParentsAreListed ==
  \A j \in Chain(current) \ {current} : ~done /\ LevelOf(j) > 1 => j \in Listed

\* What OutlineIsSound says of one section.
SoundSection(s) ==
  LET chain == Chain(s.id)
  IN /\ ToSet(s.path) = chain /\ Ascending(s.path)
     /\ s.parent = Nearest((chain \ {s.id}) \intersect Listed)
     /\ \A j \in chain \ {s.id} : LevelOf(j) > 1 => j \in Listed
     /\ s.number = (LET n == Nearest({j \in chain : read[j].number # None})
                    IN IF s.id = 0 THEN TitleNumber
                       ELSE IF n = None THEN None ELSE read[n].number)
     /\ s.note <=> \E j \in chain : read[j].note

SectionsAreSound == \A k \in DOMAIN sections : SoundSection(sections[k])

OutlineInv ==
  /\ OutlineTypeOK /\ CurrentIsLast /\ StackIsChain
  /\ SectionsInOrder /\ ParentsAreListed /\ SectionsAreSound

-----------------------------------------------------------------------------
(* Headings and the chains above them.                                      *)

LEMMA HeadingTypes ==
  ASSUME read \in Seq(Block)
  PROVE  /\ Len(read) \in Nat /\ DOMAIN read = 1 .. Len(read)
         /\ \A i \in DOMAIN read : read[i] \in Block
         /\ \A i \in HeadingsOf : /\ i \in DOMAIN read /\ read[i] \in Headings
                                  /\ read[i].level \in Nat \ {0} /\ read[i].note \in BOOLEAN
         /\ \A i \in DOMAIN read \ HeadingsOf : read[i] \in Blocks /\ read[i].level \in Nat
<1>1. \A b \in Blocks : b.kind # "heading"
  BY OutlineAssumption
<1>2. \A i \in DOMAIN read : read[i] \in Headings \/ read[i] \in Blocks
  BY DEF Block
<1> QED
  BY <1>1, <1>2, OutlineAssumption DEF HeadingsOf, IsHeading, Block

LEMMA ChainTypes ==
  ASSUME read \in Seq(Block), NEW i \in 0 .. Len(read)
  PROVE  /\ Chain(i) \subseteq HeadingsOf /\ Chain(i) \subseteq 1 .. i
         /\ Chain(i) \in SUBSET (0 .. Len(read))
         /\ \A j \in Chain(i) : j # i => Above(j, i)
         /\ i \in HeadingsOf => i \in Chain(i)
  BY HeadingTypes DEF Chain, Above, HeadingsOf

\* Reading on changes no chain.
Grows == read' = read \/ \E b \in Block : read' = Append(read, b)

LEMMA ChainsStay ==
  ASSUME read \in Seq(Block), Grows
  PROVE  /\ read' \in Seq(Block) /\ Len(read) <= Len(read')
         /\ \A i \in DOMAIN read : /\ i \in DOMAIN read' /\ read'[i] = read[i]
                                   /\ IsHeading(i)' = IsHeading(i)
                                   /\ i \in HeadingsOf' <=> i \in HeadingsOf
         /\ \A i \in 0 .. Len(read) : Chain(i)' = Chain(i) /\ LevelOf(i)' = LevelOf(i)
<1>1. /\ read' \in Seq(Block) /\ Len(read') \in Nat /\ Len(read) \in Nat
      /\ Len(read) <= Len(read')
      /\ DOMAIN read = 1 .. Len(read) /\ DOMAIN read' = 1 .. Len(read')
      /\ \A i \in DOMAIN read : read'[i] = read[i]
  BY DEF Grows
<1>2. \A i \in DOMAIN read : /\ i \in DOMAIN read' /\ read'[i] = read[i]
                             /\ IsHeading(i)' = IsHeading(i)
  BY <1>1 DEF IsHeading
<1>3. \A i \in DOMAIN read : i \in HeadingsOf' <=> i \in HeadingsOf
  BY <1>2 DEF HeadingsOf
<1>4. ASSUME NEW i \in 0 .. Len(read) PROVE Chain(i)' = Chain(i) /\ LevelOf(i)' = LevelOf(i)
  <2>1. LevelOf(i)' = LevelOf(i)
    BY <1>1, <1>2 DEF LevelOf
  <2>2. ASSUME NEW j \in 1 .. i PROVE Above(j, i)' <=> Above(j, i)
    <3>1. \A k \in j .. i : k \in DOMAIN read
      BY <1>1
    <3> QED
      BY <3>1, <1>1, <1>2, <1>3 DEF Above
  <2>3. Chain(i)' \subseteq 1 .. i /\ Chain(i) \subseteq 1 .. i
    BY <1>1 DEF Chain, Above, HeadingsOf
  <2>4. \A j \in 1 .. i : j \in Chain(i)' <=> j \in Chain(i)
    BY <2>2, <1>1, <1>3 DEF Chain
  <2> QED
    BY <2>1, <2>3, <2>4
<1> QED
  BY <1>1, <1>2, <1>3, <1>4

\* A heading has above it those of the one before that are at a higher level, and itself.
LEMMA ChainOfHeading ==
  ASSUME OutlineTypeOK, CurrentIsLast, NEW h \in Headings, read' = Append(read, h),
         NEW new, new = Len(read) + 1
  PROVE  Chain(new)' = {new} \union {j \in Chain(current) : LevelOf(j) < h.level}
<1> DEFINE left == {j \in Chain(current) : LevelOf(j) < h.level}
<1>1. /\ read \in Seq(Block) /\ Len(read) \in Nat /\ DOMAIN read = 1 .. Len(read)
      /\ current \in 0 .. Len(read) /\ h \in Block /\ Grows
  BY DEF OutlineTypeOK, Grows, Block
<1>2. /\ Len(read') = new /\ DOMAIN read' = 1 .. new /\ read'[new] = h
      /\ \A i \in DOMAIN read : read'[i] = read[i]
  BY <1>1
<1>3. h.kind = "heading" /\ h.level \in Nat \ {0}
  BY OutlineAssumption
<1>4. new \in HeadingsOf' /\ IsHeading(new)'
  BY <1>1, <1>2, <1>3 DEF HeadingsOf, IsHeading
<1>5. \A j \in HeadingsOf : j <= current /\ j \in 1 .. Len(read) /\ LevelOf(j) = read[j].level
  BY <1>1 DEF CurrentIsLast, HeadingsOf, LevelOf
<1>6. ASSUME NEW j \in 1 .. Len(read) PROVE j \in Chain(new)' <=> j \in left
  <2>1. j \in Chain(new)' <=> Above(j, new)'
    BY <1>1, <1>2 DEF Chain, Above
  <2>2. ASSUME Above(j, new)' PROVE j \in left
    <3>1. j \in HeadingsOf
      BY <2>2, <1>1, ChainsStay DEF Above
    <3>2. \A k \in j + 1 .. current : IsHeading(k) => read[k].level > read[j].level
      <4>1. ASSUME NEW k \in j + 1 .. current PROVE /\ k \in j + 1 .. new /\ k \in DOMAIN read
                                                    /\ IsHeading(k)' = IsHeading(k)
        BY <1>1, ChainsStay
      <4> QED
        BY <4>1, <2>2, <1>2 DEF Above
    <3>3. j \in Chain(current)
      BY <3>1, <3>2, <1>5, <1>1 DEF Chain, Above
    <3>4. new \in j + 1 .. new /\ read'[new].level > read'[j].level
      BY <2>2, <1>1, <1>4 DEF Above
    <3>5. h.level > read[j].level
      BY <3>4, <1>2, <1>1
    <3> QED
      BY <3>1, <3>3, <3>5, <1>5, <1>1, HeadingTypes, <1>3
  <2>3. ASSUME j \in left PROVE Above(j, new)'
    <3>1. j \in HeadingsOf /\ j \in HeadingsOf' /\ read[j].level < h.level /\ j < new
      BY <2>3, <1>1, <1>5, ChainTypes, ChainsStay
    <3>2. ASSUME NEW k \in j + 1 .. new, IsHeading(k)' PROVE read'[k].level > read'[j].level
      <4>1. CASE k = new
        BY <4>1, <3>1, <1>1, <1>2, <1>3, HeadingTypes
      <4>2. CASE k # new
        <5>1. k \in DOMAIN read /\ IsHeading(k)
          BY <4>2, <3>2, <1>1, ChainsStay
        <5>2. k <= current /\ k \in j + 1 .. current
          BY <5>1, <1>1, <3>2 DEF CurrentIsLast
        <5>3. Above(j, current)
          BY <5>2, <2>3, <1>1, ChainTypes
        <5> QED
          BY <5>1, <5>2, <5>3, <1>1, <1>2 DEF Above
      <4> QED
        BY <4>1, <4>2
    <3> QED
      BY <3>1, <3>2 DEF Above
  <2> QED
    BY <2>1, <2>2, <2>3
<1>7. Chain(new)' \subseteq 1 .. new /\ new \in Chain(new)'
  BY <1>1, <1>2, <1>4 DEF Chain, HeadingsOf
<1>8. left \subseteq 1 .. Len(read)
  BY <1>1, ChainTypes
<1>9. \A j \in 1 .. new : j = new \/ j \in 1 .. Len(read)
  BY <1>1
<1> HIDE DEF left
<1>a. ASSUME NEW j PROVE j \in Chain(new)' <=> j = new \/ j \in left
  <2>1. CASE j \in 1 .. Len(read)
    BY <2>1, <1>1, <1>6
  <2>2. CASE j \notin 1 .. Len(read)
    BY <2>2, <1>7, <1>8, <1>9
  <2> QED
    BY <2>1, <2>2
<1> QED
  BY <1>a DEF left

-----------------------------------------------------------------------------
(* The stack.                                                               *)

LEMMA StackFacts ==
  ASSUME OutlineTypeOK, StackIsChain
  PROVE  /\ Len(stack) \in Nat /\ DOMAIN stack = 1 .. Len(stack)
         /\ stack \in Seq(0 .. Len(read))
         /\ \A k \in DOMAIN stack : stack[k] \in Chain(current) /\ stack[k] \in 1 .. current
         /\ \A k \in DOMAIN stack : LevelOf(stack[k]) \in Nat
         /\ \A k, l \in DOMAIN stack : k < l => LevelOf(stack[k]) < LevelOf(stack[l])
         /\ \A j \in Chain(current) : \E k \in DOMAIN stack : j = stack[k]
<1>1. /\ Len(stack) \in Nat /\ DOMAIN stack = 1 .. Len(stack) /\ read \in Seq(Block)
      /\ Len(read) \in Nat /\ current \in 0 .. Len(read)
  BY DEF OutlineTypeOK
<1>2. \A k \in DOMAIN stack : stack[k] \in Chain(current) /\ stack[k] \in 1 .. current
  BY <1>1, ChainTypes DEF StackIsChain, ToSet
<1>3. stack \in Seq(0 .. Len(read))
  <2>1. stack \in Seq(Nat) /\ \A k \in DOMAIN stack : stack[k] \in 0 .. Len(read)
    BY <1>1, <1>2 DEF OutlineTypeOK
  <2> QED
    BY <2>1, SequenceOf
<1>4. \A k \in DOMAIN stack : /\ stack[k] \in HeadingsOf
                              /\ LevelOf(stack[k]) = read[stack[k]].level
                              /\ LevelOf(stack[k]) \in Nat
  BY <1>1, <1>2, ChainTypes, HeadingTypes DEF LevelOf
<1>5. ASSUME NEW k \in DOMAIN stack, NEW l \in DOMAIN stack, k < l
      PROVE  LevelOf(stack[k]) < LevelOf(stack[l])
  <2>1. stack[k] < stack[l]
    BY <1>5 DEF StackIsChain, Ascending
  <2>2. stack[l] \in stack[k] + 1 .. current /\ stack[k] # current
    BY <2>1, <1>1, <1>2
  <2>3. Above(stack[k], current)
    BY <2>2, <1>1, <1>2, ChainTypes
  <2>4. IsHeading(stack[l])
    BY <1>4 DEF HeadingsOf
  <2>5. read[stack[l]].level > read[stack[k]].level
    BY <2>2, <2>3, <2>4 DEF Above
  <2> QED
    BY <2>5, <1>4
<1>6. \A j \in Chain(current) : \E k \in DOMAIN stack : j = stack[k]
  BY DEF StackIsChain, ToSet
<1> QED
  BY <1>1, <1>2, <1>3, <1>4, <1>5, <1>6

\* The current heading is on top, and the others are those above it.
LEMMA TopOfStack ==
  ASSUME OutlineTypeOK, CurrentIsLast, StackIsChain
  PROVE  /\ stack = <<>> <=> current = 0
         /\ Front(stack) \in Seq(0 .. Len(read)) /\ Ascending(Front(stack))
         /\ ToSet(Front(stack)) = Chain(current) \ {current}
<1>1. /\ Len(stack) \in Nat /\ DOMAIN stack = 1 .. Len(stack) /\ read \in Seq(Block)
      /\ Len(read) \in Nat /\ current \in 0 .. Len(read) /\ stack \in Seq(0 .. Len(read))
      /\ \A k \in DOMAIN stack : stack[k] \in Chain(current) /\ stack[k] \in 1 .. current
      /\ \A j \in Chain(current) : \E k \in DOMAIN stack : j = stack[k]
  BY StackFacts DEF OutlineTypeOK
<1>2. CASE current = 0
  <2>1. stack = <<>>
    <3>1. Len(stack) # 0 => 1 \in DOMAIN stack /\ stack[1] \in 1 .. 0
      BY <1>1, <1>2
    <3>2. Len(stack) = 0
      BY <3>1
    <3> QED
      BY <3>2, <1>1
  <2>2. Front(stack) = <<>> /\ DOMAIN Front(stack) = {}
    BY <2>1 DEF Front
  <2>3. Chain(current) = {}
    BY <1>1, <1>2, ChainTypes
  <2>4. Ascending(Front(stack)) /\ ToSet(Front(stack)) = {}
    BY <2>2 DEF Ascending, ToSet
  <2>5. Front(stack) \in Seq(0 .. Len(read))
    BY <2>2, EmptySeq
  <2> QED
    BY <1>2, <2>1, <2>3, <2>4, <2>5
<1>3. CASE current # 0
  <2>1. current \in Chain(current)
    BY <1>3, <1>1, ChainTypes DEF CurrentIsLast, HeadingsOf
  <2>2. PICK top \in DOMAIN stack : stack[top] = current
    BY <2>1, <1>1
  <2>3. top = Len(stack) /\ Len(stack) > 0
    <3>1. top < Len(stack) => current < stack[Len(stack)]
      BY <1>1, <2>2 DEF StackIsChain, Ascending
    <3> QED
      BY <3>1, <1>1, <2>2
  <2>4. /\ Front(stack) \in Seq(0 .. Len(read)) /\ DOMAIN Front(stack) = 1 .. Len(stack) - 1
        /\ \A k \in DOMAIN Front(stack) : k \in DOMAIN stack /\ Front(stack)[k] = stack[k]
    BY SMTT(20), <1>1, <2>3 DEF Front
  <2>5. Ascending(Front(stack))
    BY <2>4 DEF StackIsChain, Ascending
  <2>6. \A k \in DOMAIN Front(stack) : Front(stack)[k] \in Chain(current) \ {current}
    <3>1. \A k \in DOMAIN Front(stack) : k < Len(stack)
      BY <2>4, <1>1
    <3>2. \A k \in DOMAIN Front(stack) : stack[k] < current
      BY <3>1, <2>2, <2>3, <2>4 DEF StackIsChain, Ascending
    <3> QED
      BY <3>2, <2>4, <1>1
  <2>7. ASSUME NEW j \in Chain(current) \ {current}
        PROVE  \E k \in DOMAIN Front(stack) : Front(stack)[k] = j
    <3>1. PICK k \in DOMAIN stack : stack[k] = j
      BY <2>7, <1>1
    <3>2. k # top
      BY <3>1, <2>2, <2>7
    <3>3. k \in DOMAIN Front(stack)
      BY <3>2, <2>3, <2>4, <1>1
    <3> QED
      BY <3>1, <3>3, <2>4
  <2>8. ToSet(Front(stack)) = Chain(current) \ {current}
    BY <2>6, <2>7 DEF ToSet
  <2> QED
    BY <1>3, <2>3, <2>4, <2>5, <2>8, <1>1
<1> QED
  BY <1>2, <1>3

\* A heading pops those that are not above it.
LEMMA HeadingIsPushed ==
  ASSUME OutlineTypeOK, CurrentIsLast, StackIsChain, NEW h \in Headings, ReadHeading(h)
  PROVE  stack' \in Seq(Nat) /\ StackIsChain'
<1> SUFFICES ASSUME NEW new, new = Len(read) + 1
             PROVE  stack' \in Seq(Nat) /\ StackIsChain'
  OBVIOUS
<1> DEFINE popped == Popped(stack, h.level)
<1>1. /\ Len(stack) \in Nat /\ DOMAIN stack = 1 .. Len(stack) /\ read \in Seq(Block)
      /\ Len(read) \in Nat /\ current \in 0 .. Len(read) /\ stack \in Seq(0 .. Len(read))
      /\ \A k \in DOMAIN stack : stack[k] \in Chain(current) /\ stack[k] \in 1 .. current
      /\ \A j \in Chain(current) : \E k \in DOMAIN stack : j = stack[k]
  BY StackFacts DEF OutlineTypeOK
<1>2. /\ popped \in Seq(0 .. Len(read)) /\ Len(popped) \in 0 .. Len(stack)
      /\ \A i \in DOMAIN popped : i \in DOMAIN stack /\ popped[i] = stack[i]
      /\ \A i \in DOMAIN stack : i \in DOMAIN popped <=> LevelOf(stack[i]) < h.level
  <2>1. /\ h.level \in Nat /\ \A k \in DOMAIN stack : LevelOf(stack[k]) \in Nat
        /\ \A k, l \in DOMAIN stack : k < l => LevelOf(stack[k]) < LevelOf(stack[l])
    BY StackFacts, OutlineAssumption
  <2> QED
    BY <1>1, <2>1, PoppedLeaves
<1>3. stack' = Append(popped, new) /\ current' = new /\ read' = Append(read, h)
  BY DEF ReadHeading
<1>4. Chain(new)' = {new} \union {j \in Chain(current) : LevelOf(j) < h.level}
  BY <1>3, ChainOfHeading
<1> HIDE DEF popped
<1>5. /\ stack' \in Seq(Nat) /\ DOMAIN stack' = 1 .. Len(popped) + 1
      /\ DOMAIN popped = 1 .. Len(popped) /\ stack'[Len(popped) + 1] = new
      /\ \A i \in DOMAIN popped : stack'[i] = popped[i]
  BY <1>1, <1>2, <1>3
<1>6. Ascending(stack)'
  <2>1. \A i \in DOMAIN popped : popped[i] < new /\ popped[i] = stack[i] /\ i \in DOMAIN stack
    BY <1>1, <1>2
  <2>2. ASSUME NEW m \in 1 .. Len(popped) + 1, NEW n \in 1 .. Len(popped) + 1, m < n
        PROVE  stack'[m] < stack'[n]
    <3>0. Len(popped) \in Nat
      BY <1>1, <1>2
    <3>1. m \in DOMAIN popped /\ (n \in DOMAIN popped \/ n = Len(popped) + 1)
      BY SMTT(20), <2>2, <3>0, <1>5
    <3> QED
      BY <3>1, <2>1, <2>2, <1>5 DEF StackIsChain, Ascending
  <2> QED
    BY <2>2, <1>5 DEF Ascending
<1>7. ToSet(stack)' = Chain(new)'
  <2>1. \A i \in 1 .. Len(popped) + 1 : i \in DOMAIN popped \/ i = Len(popped) + 1
    BY <1>2, <1>5
  <2>2. \A i \in DOMAIN stack' : stack'[i] \in Chain(new)'
    BY <2>1, <1>1, <1>2, <1>4, <1>5
  <2>3. \A j \in Chain(current) : LevelOf(j) < h.level => \E i \in DOMAIN popped : stack'[i] = j
    BY SMTT(20), <1>1, <1>2, <1>5
  <2>4. \A j \in Chain(new)' : \E i \in DOMAIN stack' : stack'[i] = j
    BY <2>3, <1>2, <1>4, <1>5
  <2> QED
    BY <2>2, <2>4 DEF ToSet
<1> QED
  BY <1>3, <1>5, <1>6, <1>7 DEF StackIsChain

-----------------------------------------------------------------------------
(* Sections.                                                                *)

LEMMA SectionTypes ==
  ASSUME OutlineTypeOK
  PROVE  /\ Len(sections) \in Nat /\ DOMAIN sections = 1 .. Len(sections)
         /\ \A k \in DOMAIN sections : sections[k] \in SectionRecord /\ sections[k].id \in Nat
<1>1. /\ Len(sections) \in Nat /\ DOMAIN sections = 1 .. Len(sections)
      /\ \A k \in DOMAIN sections : sections[k] \in SectionRecord
  BY DEF OutlineTypeOK
<1>2. \A s \in SectionRecord : s.id \in Nat
  BY DEF SectionRecord
<1> QED
  BY <1>1, <1>2

\* The section that is made of the current heading is sound.
LEMMA NewSectionIsSound ==
  ASSUME OutlineTypeOK, CurrentIsLast, StackIsChain, ParentsAreListed, ~done
  PROVE  SoundSection(Section) /\ Section.id = current /\ Section.blocks = blocks
<1>1. /\ Section.id = current /\ Section.path = stack /\ Section.blocks = blocks
      /\ Section.parent = LastIn(Front(stack), {sections[k].id : k \in DOMAIN sections})
      /\ Section.number =
           (IF stack = <<>> THEN TitleNumber
            ELSE IF {i \in ToSet(stack) : read[i].number # None} = {} THEN None
            ELSE read[LastIn(stack, {i \in ToSet(stack) : read[i].number # None})].number)
      /\ Section.note = (\E k \in DOMAIN stack : read[stack[k]].note)
  BY DEF Section
<1>2. /\ read \in Seq(Block) /\ Len(read) \in Nat /\ current \in 0 .. Len(read)
      /\ stack \in Seq(0 .. Len(read)) /\ Chain(current) \in SUBSET (0 .. Len(read))
  BY StackFacts, ChainTypes DEF OutlineTypeOK
<1>3. ToSet(Section.path) = Chain(current) /\ Ascending(Section.path)
  BY <1>1 DEF StackIsChain
<1>4. Section.parent = Nearest((Chain(current) \ {current}) \intersect Listed)
  BY <1>1, <1>2, TopOfStack, LastIsNearest DEF Listed
<1>5. \A j \in Chain(current) \ {current} : LevelOf(j) > 1 => j \in Listed
  BY DEF ParentsAreListed
<1>6. Section.number = (LET n == Nearest({j \in Chain(current) : read[j].number # None})
                        IN IF current = 0 THEN TitleNumber
                           ELSE IF n = None THEN None ELSE read[n].number)
  <2> DEFINE numbered == {j \in Chain(current) : read[j].number # None}
  <2>1. numbered = {i \in ToSet(stack) : read[i].number # None}
    BY DEF StackIsChain
  <2>2. ToSet(stack) \intersect numbered = numbered /\ numbered \in SUBSET (0 .. Len(read))
    BY <1>2 DEF StackIsChain
  <2> HIDE DEF numbered
  <2>3. LastIn(stack, numbered) = Nearest(numbered)
    BY <2>2, <1>2, LastIsNearest DEF StackIsChain
  <2>4. /\ numbered = {} => Nearest(numbered) = None
        /\ numbered # {} => Nearest(numbered) # None
    <3>1. numbered # {} => Nearest(numbered) \in numbered
      BY <1>2, <2>2, NearestIs
    <3>2. None \notin 0 .. Len(read)
      BY OutlineAssumption
    <3> QED
      BY <3>1, <3>2, <2>2 DEF Nearest
  <2>5. stack = <<>> <=> current = 0
    BY TopOfStack
  <2> QED
    BY <1>1, <2>1, <2>3, <2>4, <2>5 DEF numbered
<1>7. Section.note <=> \E j \in Chain(current) : read[j].note
  <2>1. (\E k \in DOMAIN stack : read[stack[k]].note) <=> \E j \in ToSet(stack) : read[j].note
    BY DEF ToSet
  <2> QED
    BY <1>1, <2>1 DEF StackIsChain
<1> QED
  BY <1>1, <1>3, <1>4, <1>5, <1>6, <1>7 DEF SoundSection

LEMMA NewSectionType ==
  ASSUME OutlineTypeOK, CurrentIsLast, StackIsChain, Lists(blocks) \in SUBSET Node
  PROVE  Section \in SectionRecord
<1>1. /\ read \in Seq(Block) /\ Len(read) \in Nat /\ current \in Nat /\ current \in 0 .. Len(read)
      /\ stack \in Seq(0 .. Len(read)) /\ stack \in Seq(Nat)
  BY StackFacts DEF OutlineTypeOK
<1>2. blocks \in Seq(Nat)
  <2>1. Len(read) - current \in Nat
    BY <1>1
  <2>2. blocks \in [1 .. Len(read) - current -> Nat]
    BY <1>1 DEF CurrentIsLast
  <2> QED
    BY <2>1, <2>2, SeqDef
<1>3. LastIn(Front(stack), Listed) \in Nat \union {None}
  <2>1. /\ LastIn(Front(stack), Listed) = Nearest(ToSet(Front(stack)) \intersect Listed)
        /\ ToSet(Front(stack)) \subseteq 0 .. Len(read)
    BY <1>1, TopOfStack, LastIsNearest, ChainTypes
  <2>2. ToSet(Front(stack)) \intersect Listed \in SUBSET (0 .. Len(read))
    BY <2>1
  <2>3. \/ LastIn(Front(stack), Listed) = None
        \/ LastIn(Front(stack), Listed) \in 0 .. Len(read)
    BY <2>1, <2>2, <1>1, NearestIs
  <2> QED
    BY <2>3
<1>4. Section.number \in {TitleNumber, None} \union {h.number : h \in Headings}
  <2> DEFINE numbered == {i \in ToSet(stack) : read[i].number # None}
  <2>1. ToSet(stack) \intersect numbered = numbered /\ numbered \in SUBSET (0 .. Len(read))
    BY <1>1, ChainTypes DEF StackIsChain
  <2>2. numbered # {} => LastIn(stack, numbered) \in numbered
    <3> HIDE DEF numbered
    <3>1. LastIn(stack, numbered) = Nearest(numbered)
      BY <2>1, <1>1, LastIsNearest DEF StackIsChain
    <3> QED
      BY ZenonT(30), <3>1, <2>1, <1>1, NearestIs
  <2>3. \A i \in ToSet(stack) : read[i] \in Headings
    BY <1>1, ChainTypes, HeadingTypes DEF StackIsChain
  <2>4. numbered # {} => read[LastIn(stack, numbered)].number \in {h.number : h \in Headings}
    BY <2>2, <2>3
  <2>5. Section.number = (IF stack = <<>> THEN TitleNumber ELSE IF numbered = {} THEN None
                          ELSE read[LastIn(stack, numbered)].number)
    BY DEF Section
  <2> HIDE DEF numbered
  <2> QED
    BY <2>4, <2>5
<1>5. Section = [id |-> current, path |-> stack, blocks |-> blocks,
                 parent |-> LastIn(Front(stack), Listed), number |-> Section.number,
                 note |-> \E k \in DOMAIN stack : read[stack[k]].note, lists |-> Lists(blocks)]
  BY DEF Section, Listed
<1> DEFINE note_ == \E k \in DOMAIN stack : read[stack[k]].note
           parent_ == LastIn(Front(stack), Listed)
           number_ == Section.number
           lists_ == Lists(blocks)
<1>6. note_ \in BOOLEAN /\ lists_ \in SUBSET Node
  OBVIOUS
<1>7. ASSUME NEW id \in Nat, NEW path \in Seq(Nat), NEW bs \in Seq(Nat),
             NEW parent \in Nat \union {None}, NEW note \in BOOLEAN, NEW lists \in SUBSET Node,
             NEW number \in {TitleNumber, None} \union {h.number : h \in Headings}
      PROVE  [id |-> id, path |-> path, blocks |-> bs, parent |-> parent, number |-> number,
              note |-> note, lists |-> lists] \in SectionRecord
  BY DEF SectionRecord
<1>8. Section = [id |-> current, path |-> stack, blocks |-> blocks, parent |-> parent_,
                 number |-> number_, note |-> note_, lists |-> lists_]
  BY <1>5
<1>9. /\ parent_ \in Nat \union {None}
      /\ number_ \in {TitleNumber, None} \union {h.number : h \in Headings}
  BY <1>3, <1>4
<1> HIDE DEF note_, parent_, number_, lists_
<1>a. [id |-> current, path |-> stack, blocks |-> blocks, parent |-> parent_,
       number |-> number_, note |-> note_, lists |-> lists_] \in SectionRecord
  BY <1>1, <1>2, <1>6, <1>7, <1>9, Zenon
<1> QED
  BY <1>8, <1>a

\* A sound section stays so while the document is read on and the current heading is listed.
LEMMA SoundnessStays ==
  ASSUME read \in Seq(Block), Grows, current \in 0 .. Len(read),
         Listed \subseteq Listed', Listed' \subseteq Listed \union {current},
         NEW s, s.id \in 0 .. current, SoundSection(s)
  PROVE  SoundSection(s)'
<1> DEFINE chain == Chain(s.id)
<1>1. Len(read) \in Nat /\ s.id \in 0 .. Len(read) /\ DOMAIN read = 1 .. Len(read)
  BY HeadingTypes
<1>2. /\ Chain(s.id)' = chain /\ chain \subseteq 1 .. s.id /\ chain \subseteq DOMAIN read
      /\ \A j \in chain : read'[j] = read[j] /\ LevelOf(j)' = LevelOf(j)
  BY <1>1, HeadingTypes, ChainTypes, ChainsStay
<1>3. (chain \ {s.id}) \intersect Listed' = (chain \ {s.id}) \intersect Listed
  <2>1. current \notin chain \ {s.id}
    BY <1>1, <1>2
  <2> QED
    BY <2>1
<1>4. {j \in chain : read'[j].number # None} = {j \in chain : read[j].number # None}
  BY <1>2
<1> HIDE DEF chain
<1>5. Nearest({j \in chain : read'[j].number # None}) =
        Nearest({j \in chain : read[j].number # None})
  BY <1>4
<1>6. \/ Nearest({j \in chain : read[j].number # None}) = None
      \/ Nearest({j \in chain : read[j].number # None}) \in chain
  <2>0. chain \in SUBSET (0 .. Len(read))
    BY <1>1, ChainTypes DEF chain
  <2>1. {j \in chain : read[j].number # None} \in SUBSET (0 .. Len(read))
    BY <2>0
  <2> QED
    BY <2>1, <1>1, NearestIs
<1>7. (\E j \in chain : read'[j].note) <=> \E j \in chain : read[j].note
  BY <1>2
<1>8. \A j \in chain \ {s.id} : LevelOf(j)' > 1 => j \in Listed'
  BY <1>2 DEF SoundSection, chain
<1>9. /\ ToSet(s.path) = chain /\ Ascending(s.path)
      /\ s.parent = Nearest((chain \ {s.id}) \intersect Listed')
      /\ s.note <=> \E j \in chain : read'[j].note
  BY <1>3, <1>7 DEF SoundSection, chain
<1>a. s.number = (LET n == Nearest({j \in chain : read'[j].number # None})
                  IN IF s.id = 0 THEN TitleNumber
                     ELSE IF n = None THEN None ELSE read'[n].number)
  BY <1>2, <1>5, <1>6 DEF SoundSection, chain
<1> QED
  BY <1>2, <1>8, <1>9, <1>a DEF SoundSection

LEMMA FlushKeeps ==
  ASSUME OutlineInv, ~done, Lists(blocks) \in SUBSET Node, Grows,
         NEW keep \in BOOLEAN, sections' = Flushed(keep)
  PROVE  /\ sections' \in Seq(SectionRecord) /\ SectionsAreSound'
         /\ Listed \subseteq Listed' /\ Listed' \subseteq Listed \union {current}
         /\ keep \/ blocks # <<>> => current \in Listed'
         /\ \A k, l \in DOMAIN sections' : k < l => sections'[k].id < sections'[l].id
         /\ \A k \in DOMAIN sections' : /\ sections'[k].id \in 0 .. current
                                        /\ sections'[k].id # 0 => IsHeading(sections[k].id)'
<1>0. OutlineTypeOK /\ CurrentIsLast /\ StackIsChain /\ SectionsInOrder /\ ParentsAreListed
  BY DEF OutlineInv
<1>1. /\ Len(sections) \in Nat /\ DOMAIN sections = 1 .. Len(sections)
      /\ sections \in Seq(SectionRecord)
      /\ read \in Seq(Block) /\ Len(read) \in Nat /\ current \in 0 .. Len(read)
  BY <1>0 DEF OutlineTypeOK
<1>2. SoundSection(Section) /\ Section.id = current /\ Section \in SectionRecord
  BY <1>0, NewSectionIsSound, NewSectionType
<1>3. \/ sections' = sections /\ ~keep /\ blocks = <<>>
      \/ sections' = Append(sections, Section)
  BY DEF Flushed
<1>4. PICK n : n = Section
  OBVIOUS
<1>5. /\ sections' \in Seq(SectionRecord)
      /\ \A k \in DOMAIN sections : k \in DOMAIN sections' /\ sections'[k] = sections[k]
      /\ \A k \in DOMAIN sections' : \/ k \in DOMAIN sections
                                     \/ k = Len(sections) + 1 /\ sections'[k] = n
      /\ keep \/ blocks # <<>> =>
           Len(sections) + 1 \in DOMAIN sections' /\ sections'[Len(sections) + 1] = n
  <2>1. CASE sections' = sections /\ ~keep /\ blocks = <<>>
    BY <1>1, <2>1
  <2>2. CASE sections' = Append(sections, Section)
    <3>1. n \in SectionRecord /\ sections' = Append(sections, n)
      BY <2>2, <1>2, <1>4
    <3> QED
      BY <1>1, <3>1
  <2> QED
    BY <2>1, <2>2, <1>3
<1>6. /\ Listed \subseteq Listed' /\ Listed' \subseteq Listed \union {current}
      /\ keep \/ blocks # <<>> => current \in Listed'
  BY <1>2, <1>4, <1>5 DEF Listed
<1>7. \A k \in DOMAIN sections : sections[k].id \in 0 .. current /\ sections[k].id < current
  BY <1>0 DEF SectionsInOrder
<1>8. ASSUME NEW k \in DOMAIN sections'
      PROVE  /\ sections'[k].id \in 0 .. current
             /\ sections'[k].id # 0 => IsHeading(sections[k].id)'
             /\ SoundSection(sections[k])'
  <2>1. PICK s : s = sections'[k]
    OBVIOUS
  <2>2. s.id \in 0 .. current /\ (s.id # 0 => IsHeading(s.id)) /\ SoundSection(s)
    <3>1. CASE k \in DOMAIN sections
      BY <3>1, <2>1, <1>0, <1>5 DEF SectionsInOrder, OutlineInv, SectionsAreSound
    <3>2. CASE k \notin DOMAIN sections
      BY <3>2, <2>1, <1>0, <1>1, <1>2, <1>4, <1>5 DEF CurrentIsLast
    <3> QED
      BY <3>1, <3>2
  <2>3. SoundSection(s)'
    BY <2>2, <1>1, <1>6, SoundnessStays
  <2>4. s.id # 0 => IsHeading(s.id)'
    BY <2>2, <1>1, ChainsStay
  <2>6. sections'[k].id # 0 => IsHeading(sections[k].id)'
    BY <2>1, <2>4 DEF IsHeading
  <2>5. SoundSection(sections[k])'
    BY <2>1, <2>3 DEF SoundSection
  <2> QED
    BY <2>1, <2>2, <2>5, <2>6
<1>9. ASSUME NEW k \in DOMAIN sections', NEW l \in DOMAIN sections', k < l
      PROVE  sections'[k].id < sections'[l].id
  <2>1. k \in DOMAIN sections
    BY <1>1, <1>5, <1>9
  <2>2. CASE l \in DOMAIN sections
    BY <2>1, <2>2, <1>0, <1>5, <1>9 DEF SectionsInOrder
  <2>3. CASE l \notin DOMAIN sections
    BY <2>1, <2>3, <1>2, <1>4, <1>5, <1>7
  <2> QED
    BY <2>2, <2>3
<1> QED
  BY <1>5, <1>6, <1>8, <1>9 DEF SectionsAreSound

-----------------------------------------------------------------------------
(* Lists: what one round of the loop keeps.                                 *)

Accumulator ==
  [kind : {None} \union {b.ordered : b \in Blocks}, first : Nat \union {None},
   stack : Seq(Nat), nodes : SUBSET Node]

\* The items of the list of i before it that are further out.
Outer(i) == {j \in current + 1 .. i - 1 : SameList(j, i) /\ read[j].level < read[i].level}

\* The items from first to e that none after them, up to e, is as far out as.
Open(first, e) == {j \in first .. e : \A k \in j + 1 .. e : read[k].level > read[j].level}

NestInv(acc, e) ==
  /\ acc.first = None => acc.stack = <<>> /\ (e = current \/ read[e].kind # "item")
  /\ acc.first # None =>
       /\ acc.first \in current + 1 .. e
       /\ \A k \in acc.first .. e : read[k].kind = "item"
       /\ \/ acc.first = current + 1 \/ read[acc.first - 1].kind # "item"
          \/ read[acc.first].level = 0
       /\ Ascending(acc.stack) /\ ToSet(acc.stack) = Open(acc.first, e)
  /\ \A i \in current + 1 .. e :
       read[i].kind = "item" => \E node \in acc.nodes : /\ node.item = i
                                                        /\ node.parent = Nearest(Outer(i))

LEMMA PoppedType ==
  ASSUME NEW s \in Seq(Nat), NEW level
  PROVE  Popped(s, level) \in Seq(Nat)
<1> DEFINE kept == {0} \union {k \in DOMAIN s : LevelOf(s[k]) < level}
<1>1. Len(s) \in Nat /\ DOMAIN s = 1 .. Len(s) /\ kept \in SUBSET (0 .. Len(s)) /\ kept # {}
  OBVIOUS
<1>2. Popped(s, level) = SubSeq(s, 1, Max(kept))
  BY DEF Popped
<1> HIDE DEF kept
<1>3. Max(kept) \in 0 .. Len(s)
  BY <1>1, Largest
<1> QED
  BY <1>1, <1>2, <1>3

LEMMA NestType ==
  ASSUME OutlineTypeOK, CurrentIsLast, NEW acc \in Accumulator, NEW i \in current + 1 .. Len(read)
  PROVE  Nest(acc, i) \in Accumulator
<1>1. i \in Nat /\ read[i] \in Blocks
  <2>1. i \in DOMAIN read /\ i > current
    BY HeadingTypes DEF OutlineTypeOK
  <2> QED
    BY <2>1, HeadingTypes DEF OutlineTypeOK, CurrentIsLast, HeadingsOf
<1>2. /\ acc.kind \in {None} \union {b.ordered : b \in Blocks} /\ acc.first \in Nat \union {None}
      /\ acc.stack \in Seq(Nat) /\ acc.nodes \in SUBSET Node
  BY DEF Accumulator
<1>3. CASE read[i].kind # "item"
  <2>1. Nest(acc, i) = [kind |-> None, stack |-> <<>>, first |-> None, nodes |-> acc.nodes]
    BY <1>3 DEF Nest, NoList
  <2>2. <<>> \in Seq(Nat)
    OBVIOUS
  <2> QED
    BY <2>1, <2>2, <1>2 DEF Accumulator
<1>4. CASE read[i].kind = "item"
  <2> DEFINE item == read[i]
             breaks == acc.first = None \/ (item.level = 0 /\ item.ordered # acc.kind)
             above == IF breaks THEN <<>> ELSE Popped(acc.stack, item.level)
             first == IF breaks THEN i ELSE acc.first
             kind == IF breaks THEN item.ordered ELSE acc.kind
             parent == IF above = <<>> THEN None ELSE Last(above)
             nodes == acc.nodes \union {[item |-> i, list |-> first, parent |-> parent]}
  <2>1. Nest(acc, i) = [kind |-> kind, first |-> first, stack |-> Append(above, i),
                        nodes |-> nodes]
    BY <1>4 DEF Nest
  <2>2. above \in Seq(Nat)
    BY <1>2, PoppedType
  <2>3. first \in Nat /\ first \in Nat \union {None}
    BY <1>1, <1>2
  <2>4. kind \in {None} \union {b.ordered : b \in Blocks}
    BY <1>1, <1>2
  <2> HIDE DEF above, first, kind
  <2>5. parent \in Nat \union {None}
    <3>1. above # <<>> => Len(above) \in 1 .. Len(above)
      BY <2>2, EmptySeq
    <3> QED
      BY <2>2, <3>1 DEF Last
  <2> HIDE DEF parent
  <2>6. nodes \in SUBSET Node
    BY <1>1, <1>2, <2>3, <2>5 DEF Node
  <2>7. Append(above, i) \in Seq(Nat)
    BY <2>2, <1>1
  <2> HIDE DEF nodes
  <2> QED
    BY <2>1, <2>3, <2>4, <2>6, <2>7 DEF Accumulator
<1> QED
  BY <1>3, <1>4

\* The parent that the stack gives an item is the nearest item of its list that is further out.
LEMMA ParentIsNearest ==
  ASSUME OutlineTypeOK, CurrentIsLast, NEW acc \in Accumulator, NEW i \in current + 1 .. Len(read),
         NestInv(acc, i - 1), acc.first # None, read[i].kind = "item",
         NEW above, above = Popped(acc.stack, read[i].level)
  PROVE  /\ Outer(i) \in SUBSET (0 .. Len(read))
         /\ (IF above = <<>> THEN None ELSE Last(above)) = Nearest(Outer(i))
         /\ above \in Seq(0 .. Len(read)) /\ Ascending(above)
         /\ ToSet(above) = {j \in Open(acc.first, i - 1) : read[j].level < read[i].level}
<1>1. /\ read \in Seq(Block) /\ Len(read) \in Nat /\ current \in 0 .. Len(read)
      /\ current \in Nat /\ i \in Nat /\ i \in DOMAIN read
      /\ \A j \in current + 1 .. Len(read) : j \in Nat /\ j # 0 /\ read[j].level \in Nat
  <2>1. /\ read \in Seq(Block) /\ Len(read) \in Nat /\ current \in 0 .. Len(read)
        /\ DOMAIN read = 1 .. Len(read)
    BY HeadingTypes DEF OutlineTypeOK
  <2>2. \A j \in current + 1 .. Len(read) : j \in DOMAIN read /\ j # 0
    BY <2>1
  <2> QED
    BY <2>1, <2>2, HeadingTypes
<1>2. PICK f : f = acc.first
  OBVIOUS
<1>3. /\ f \in current + 1 .. i - 1
      /\ \A k \in f .. i - 1 : read[k].kind = "item"
      /\ f = current + 1 \/ read[f - 1].kind # "item" \/ read[f].level = 0
      /\ Ascending(acc.stack) /\ ToSet(acc.stack) = Open(f, i - 1)
  BY <1>2 DEF NestInv
<1> DEFINE level == read[i].level
           left == {j \in Open(f, i - 1) : read[j].level < level}
<1>4. level \in Nat
  BY <1>1
<1>5. /\ acc.stack \in Seq(0 .. Len(read)) /\ DOMAIN acc.stack = 1 .. Len(acc.stack)
      /\ Len(acc.stack) \in Nat
      /\ \A k \in DOMAIN acc.stack : /\ acc.stack[k] \in Open(f, i - 1)
                                     /\ acc.stack[k] \in f .. i - 1
                                     /\ LevelOf(acc.stack[k]) = read[acc.stack[k]].level
                                     /\ LevelOf(acc.stack[k]) \in Nat
  <2>1. acc.stack \in Seq(Nat)
    BY DEF Accumulator
  <2>2. \A k \in DOMAIN acc.stack : acc.stack[k] \in Open(f, i - 1)
    BY <1>3 DEF ToSet
  <2>3. \A j \in Open(f, i - 1) : /\ j \in f .. i - 1 /\ j \in 0 .. Len(read)
                                  /\ LevelOf(j) = read[j].level /\ LevelOf(j) \in Nat
    <3>1. \A j \in f .. i - 1 : j \in current + 1 .. Len(read) /\ j \in 0 .. Len(read)
      BY <1>1, <1>3
    <3> QED
      BY <3>1, <1>1 DEF Open, LevelOf
  <2>4. acc.stack \in Seq(0 .. Len(read))
    BY <2>1, <2>2, <2>3, SequenceOf
  <2> QED
    BY <2>1, <2>2, <2>3, <2>4
<1>6. \A k, l \in DOMAIN acc.stack : k < l => LevelOf(acc.stack[k]) < LevelOf(acc.stack[l])
  <2>1. SUFFICES ASSUME NEW k \in DOMAIN acc.stack, NEW l \in DOMAIN acc.stack, k < l
                 PROVE  LevelOf(acc.stack[k]) < LevelOf(acc.stack[l])
    OBVIOUS
  <2>2. acc.stack[k] < acc.stack[l]
    BY <2>1, <1>3 DEF Ascending
  <2>3. acc.stack[l] \in acc.stack[k] + 1 .. i - 1
    <3>1. acc.stack[k] \in f .. i - 1 /\ acc.stack[l] \in f .. i - 1
      BY <1>5
    <3>2. acc.stack[k] \in Int /\ acc.stack[l] \in Int /\ acc.stack[l] <= i - 1
      BY <3>1, <1>1, <1>3
    <3> QED
      BY <2>2, <3>2, <1>1
  <2> QED
    BY <2>3, <1>5 DEF Open
<1>7. /\ above \in Seq(0 .. Len(read)) /\ Len(above) \in 0 .. Len(acc.stack)
      /\ \A k \in DOMAIN above : k \in DOMAIN acc.stack /\ above[k] = acc.stack[k]
      /\ \A k \in DOMAIN acc.stack : k \in DOMAIN above <=> LevelOf(acc.stack[k]) < level
  <2>1. above = Popped(acc.stack, level)
    OBVIOUS
  <2>2. \A k \in DOMAIN acc.stack : LevelOf(acc.stack[k]) \in Nat
    BY <1>5
  <2>3. acc.stack \in Seq(0 .. Len(read)) /\ Len(read) \in Nat
    BY <1>1, <1>5
  <2>4. PICK s, l : s = acc.stack /\ l = level
    OBVIOUS
  <2>5. /\ s \in Seq(0 .. Len(read)) /\ l \in Nat /\ \A k \in DOMAIN s : LevelOf(s[k]) \in Nat
        /\ \A k, m \in DOMAIN s : k < m => LevelOf(s[k]) < LevelOf(s[m])
    BY <2>2, <2>3, <2>4, <1>4, <1>6
  <2>6. /\ Popped(s, l) \in Seq(0 .. Len(read)) /\ Len(Popped(s, l)) \in 0 .. Len(s)
        /\ \A k \in DOMAIN Popped(s, l) : k \in DOMAIN s /\ Popped(s, l)[k] = s[k]
        /\ \A k \in DOMAIN s : k \in DOMAIN Popped(s, l) <=> LevelOf(s[k]) < l
    BY <2>3, <2>5, PoppedLeaves
  <2>7. above = Popped(s, l)
    BY <2>1, <2>4
  <2> HIDE DEF level
  <2> QED
    BY <2>4, <2>6, <2>7
<1>8. Ascending(above)
  BY <1>3, <1>7 DEF Ascending
<1>9. ToSet(above) = left
  <2>1. \A k \in DOMAIN above : above[k] \in left
    BY ZenonT(40), <1>5, <1>7
  <2>2. \A j \in left : \E k \in DOMAIN above : above[k] = j
    <3>1. SUFFICES ASSUME NEW j \in left PROVE \E k \in DOMAIN above : above[k] = j
      OBVIOUS
    <3>2. PICK k \in DOMAIN acc.stack : acc.stack[k] = j
      BY <1>3 DEF ToSet
    <3> QED
      BY <3>2, <1>5, <1>7
  <2> QED
    BY <2>1, <2>2 DEF ToSet
<1>a. Outer(i) \in SUBSET (0 .. Len(read)) /\ left \in SUBSET (0 .. Len(read))
  BY <1>1, <1>3 DEF Outer, Open
\* Every item of the list that is on the stack is of the same list.
<1>b. left \subseteq Outer(i)
  <2>1. SUFFICES ASSUME NEW j \in left PROVE j \in Outer(i)
    OBVIOUS
  <2>2. j \in f .. i - 1 /\ read[j].level < level /\ j \in current + 1 .. i - 1
    BY <1>1, <1>3 DEF Open
  <2>3. ASSUME NEW k \in j .. i
        PROVE  read[k].kind = "item" /\ (k > j => read[k].level # 0)
    <3>1. CASE k = i
      BY <3>1, <2>2, <1>1
    <3>2. CASE k # i
      <4>1. k \in f .. i - 1 /\ k \in current + 1 .. Len(read) /\ j \in current + 1 .. Len(read)
        BY <3>2, <2>2, <1>1, <1>3
      <4>2. k > j => read[k].level > read[j].level
        BY <4>1, <2>1, <2>2, <1>1 DEF Open
      <4> QED
        BY <4>1, <4>2, <1>1, <1>3
    <3> QED
      BY <3>1, <3>2
  <2>4. SameList(j, i)
    BY <2>3 DEF SameList
  <2> QED
    BY <2>2, <2>4 DEF Outer
\* An item of the list that is further out is on the stack, or a later one is.
<1>c. \A y \in Outer(i) : \E j \in left : y <= j
  <2>1. SUFFICES ASSUME NEW y \in Outer(i) PROVE \E j \in left : y <= j
    OBVIOUS
  <2>2. y \in current + 1 .. i - 1 /\ SameList(y, i) /\ read[y].level < level
    BY DEF Outer
  <2> DEFINE out == {x \in f .. i - 1 : read[x].level < level}
  <2>3. \E x \in out : y <= x
    <3>1. CASE y >= f
      <4>1. y \in out
        BY <3>1, <2>2, <1>1, <1>3
      <4> QED
        BY <4>1, <2>2, <1>1
    <3>2. CASE y < f
      <4>1. f - 1 \in y .. i /\ f # current + 1
        BY <3>2, <2>2, <1>1, <1>3
      <4>2. read[f].level = 0
        BY <4>1, <2>2, <1>3 DEF SameList
      <4>3. read[y].level \in Nat
        BY <2>2, <1>1
      <4>4. f \in out
        BY <4>2, <4>3, <2>2, <1>1, <1>3
      <4> QED
        BY <4>4, <3>2, <2>2, <1>1, <1>3
    <3> QED
      BY <3>1, <3>2, <2>2, <1>1, <1>3
  <2>4. out \in SUBSET (0 .. Len(read)) /\ out # {}
    BY <2>3, <1>1, <1>3
  <2>5. Max(out) \in out /\ \A x \in out : x <= Max(out)
    <3> HIDE DEF out
    <3> QED
      BY <2>4, <1>1, Largest
  <2>6. PICK m : m = Max(out)
    OBVIOUS
  <2>7. m \in f .. i - 1 /\ read[m].level < level /\ m \in current + 1 .. Len(read)
    BY <2>5, <2>6, <1>1, <1>3
  <2>8. ASSUME NEW k \in m + 1 .. i - 1 PROVE read[k].level > read[m].level
    <3>1. k \in f .. i - 1 /\ k \in current + 1 .. Len(read) /\ k > m
      BY <2>7, <1>1, <1>3
    <3>2. k \notin out
      BY <3>1, <2>5, <2>6, <2>7
    <3> QED
      BY SMTT(20), <3>1, <3>2, <2>7, <1>1, <1>4
  <2>9. m \in left
    BY <2>7, <2>8 DEF Open
  <2>a. y <= m
    <3>1. PICK x \in out : y <= x
      BY <2>3
    <3>2. x <= m /\ x \in Nat
      BY <3>1, <2>4, <2>5, <2>6
    <3> QED
      BY <3>1, <3>2, <2>2, <2>7, <1>1
  <2> QED
    BY <2>9, <2>a
<1> HIDE DEF left
<1>d. CASE above = <<>>
  <2>1. left = {}
    BY <1>d, <1>9 DEF ToSet
  <2>2. Outer(i) = {}
    BY <2>1, <1>c
  <2> QED
    BY <1>d, <2>2, <1>1, <1>2, <1>7, <1>8, <1>9, <1>a, NearestIs DEF left
<1>e. CASE above # <<>>
  <2>1. Len(above) \in DOMAIN above /\ DOMAIN above = 1 .. Len(above) /\ Len(above) \in Nat
    BY <1>e, <1>7
  <2>2. Last(above) = above[Len(above)] /\ Last(above) \in left
    BY <2>1, <1>9 DEF Last, ToSet
  <2>3. \A j \in left : j <= Last(above)
    <3>1. SUFFICES ASSUME NEW k \in DOMAIN above PROVE above[k] <= above[Len(above)]
      BY <2>2, <1>9 DEF ToSet
    <3>2. k = Len(above) \/ (k < Len(above) /\ above[k] < above[Len(above)])
      BY <2>1, <1>8 DEF Ascending
    <3>3. above[k] \in 0 .. Len(read) /\ above[Len(above)] \in 0 .. Len(read)
      BY SMTT(20), <2>1, <1>7
    <3> QED
      BY <3>2, <3>3
  <2>4. Last(above) \in Outer(i) /\ \A y \in Outer(i) : y <= Last(above)
    <3>1. SUFFICES ASSUME NEW y \in Outer(i) PROVE y <= Last(above)
      BY <2>2, <1>b
    <3>2. PICK j \in left : y <= j
      BY <1>c
    <3>3. /\ y \in 0 .. Len(read) /\ j \in 0 .. Len(read) /\ Last(above) \in 0 .. Len(read)
          /\ j <= Last(above)
      BY <2>2, <2>3, <1>a
    <3> QED
      BY <3>2, <3>3
  <2>5. Nearest(Outer(i)) = Last(above)
    BY <2>4, <1>1, <1>a, NearestIs
  <2> QED
    BY <1>e, <2>5, <1>2, <1>7, <1>8, <1>9, <1>a DEF left
<1> QED
  BY <1>d, <1>e

LEMMA NestKeeps ==
  ASSUME OutlineTypeOK, CurrentIsLast, NEW acc \in Accumulator, NEW i \in current + 1 .. Len(read),
         NestInv(acc, i - 1)
  PROVE  NestInv(Nest(acc, i), i)
<1>1. /\ current \in Nat /\ Len(read) \in Nat /\ i \in Nat /\ i \in DOMAIN read /\ i # 0
      /\ read[i].level \in Nat /\ None \notin Nat
      /\ \A j \in current + 1 .. i : j \in Nat /\ (j = i \/ j \in current + 1 .. i - 1)
  <2>1. read \in Seq(Block) /\ current \in 0 .. Len(read) /\ DOMAIN read = 1 .. Len(read)
        /\ Len(read) \in Nat
    BY HeadingTypes DEF OutlineTypeOK
  <2>2. i \in DOMAIN read /\ current \in Nat /\ i \in Nat /\ i # 0
    BY <2>1
  <2> QED
    BY <2>1, <2>2, HeadingTypes, OutlineAssumption
<1>2. \A j \in current + 1 .. i - 1 :
        read[j].kind = "item" => \E node \in acc.nodes : /\ node.item = j
                                                         /\ node.parent = Nearest(Outer(j))
  BY DEF NestInv
<1>3. CASE read[i].kind # "item"
  <2>1. Nest(acc, i) = [kind |-> None, stack |-> <<>>, first |-> None, nodes |-> acc.nodes]
    BY <1>3 DEF Nest, NoList
  <2>2. /\ Nest(acc, i).first = None /\ Nest(acc, i).stack = <<>> /\ Nest(acc, i).nodes = acc.nodes
    BY <2>1
  <2> QED
    BY <2>2, <1>1, <1>2, <1>3 DEF NestInv
<1>4. CASE read[i].kind = "item"
  <2> DEFINE level == read[i].level
             breaks == acc.first = None \/ (level = 0 /\ read[i].ordered # acc.kind)
             above == IF breaks THEN <<>> ELSE Popped(acc.stack, level)
             first == IF breaks THEN i ELSE acc.first
             parent == IF above = <<>> THEN None ELSE Last(above)
             node == [item |-> i, list |-> first, parent |-> parent]
             nodes == acc.nodes \union {node}
  <2>1. /\ Nest(acc, i).first = first /\ Nest(acc, i).stack = Append(above, i)
        /\ Nest(acc, i).nodes = nodes
    BY <1>4 DEF Nest
  <2>2. ASSUME parent = Nearest(Outer(i))
        PROVE  \A j \in current + 1 .. i :
                 read[j].kind = "item" => \E x \in nodes : /\ x.item = j
                                                           /\ x.parent = Nearest(Outer(j))
    <3>1. node \in nodes /\ node.item = i /\ node.parent = Nearest(Outer(i))
      BY <2>2
    <3>2. acc.nodes \subseteq nodes
      OBVIOUS
    <3> HIDE DEF node, nodes
    <3> QED
      BY <3>1, <3>2, <1>1, <1>2
  <2>3. CASE breaks
    <3>1. above = <<>> /\ first = i /\ parent = None
      BY <2>3
    <3>2. i = current + 1 \/ read[i - 1].kind # "item" \/ read[i].level = 0
      BY <2>3, <1>1 DEF NestInv
    <3>3. Outer(i) = {}
      <4>1. SUFFICES ASSUME NEW j \in current + 1 .. i - 1, SameList(j, i), read[j].level < level
                     PROVE  FALSE
        BY DEF Outer
      <4>2. i - 1 \in j .. i /\ j \in DOMAIN read
        BY <4>1, <1>1 DEF OutlineTypeOK
      <4>3. read[i].level = 0
        BY <4>1, <4>2, <3>2, <1>1 DEF SameList
      <4>4. read[j].level \in Nat
        BY <4>2, HeadingTypes DEF OutlineTypeOK
      <4> QED
        BY <4>1, <4>3, <4>4
    <3>4. Nearest(Outer(i)) = None
      BY <3>3 DEF Nearest
    <3>5. Ascending(Append(<<>>, i)) /\ ToSet(Append(<<>>, i)) = Open(i, i)
      <4>1. Append(<<>>, i) = <<i>> /\ DOMAIN <<i>> = {1} /\ <<i>>[1] = i
        BY <1>1
      <4>2. ToSet(<<i>>) = {i} /\ Ascending(<<i>>)
        BY <4>1 DEF ToSet, Ascending
      <4>3. Open(i, i) = {i}
        BY <1>1 DEF Open
      <4> QED
        BY <4>1, <4>2, <4>3
    <3>6. \A k \in i .. i : read[k].kind = "item"
      BY <1>1, <1>4
    <3>7. \A j \in current + 1 .. i :
            read[j].kind = "item" => \E x \in nodes : x.item = j /\ x.parent = Nearest(Outer(j))
      BY <2>2, <3>1, <3>4
    <3>8. i \in current + 1 .. i /\ i # None
      BY <1>1
    <3>9. /\ Nest(acc, i).first = i /\ Nest(acc, i).stack = Append(<<>>, i)
          /\ Nest(acc, i).nodes = nodes
      BY <2>1, <3>1
    <3> HIDE DEF nodes
    <3> QED
      BY <3>2, <3>5, <3>6, <3>7, <3>8, <3>9 DEF NestInv
  <2>4. CASE ~breaks
    <3>1. /\ acc.first # None /\ above = Popped(acc.stack, level) /\ first = acc.first
      BY <2>4
    <3>2. PICK f : f = acc.first
      OBVIOUS
    <3>3. /\ f \in current + 1 .. i - 1
          /\ \A k \in f .. i - 1 : read[k].kind = "item"
          /\ f = current + 1 \/ read[f - 1].kind # "item" \/ read[f].level = 0
      BY <3>1, <3>2 DEF NestInv
    <3>4. /\ parent = Nearest(Outer(i))
          /\ above \in Seq(0 .. Len(read)) /\ Ascending(above)
          /\ ToSet(above) = {j \in Open(f, i - 1) : read[j].level < level}
      <4>1. PICK a : a = above
        OBVIOUS
      <4>2. a = Popped(acc.stack, read[i].level)
        BY <4>1, <3>1
      <4>3. /\ (IF a = <<>> THEN None ELSE Last(a)) = Nearest(Outer(i))
            /\ a \in Seq(0 .. Len(read)) /\ Ascending(a)
            /\ ToSet(a) = {j \in Open(acc.first, i - 1) : read[j].level < read[i].level}
        BY <4>2, <3>1, <1>4, ParentIsNearest
      <4> HIDE DEF above
      <4> QED
        BY <4>1, <4>3, <3>2
    <3>c. \A j \in current + 1 .. i :
            read[j].kind = "item" => \E x \in nodes : x.item = j /\ x.parent = Nearest(Outer(j))
      BY <2>2, <3>4
    <3> HIDE DEF above, parent
    <3>5. /\ DOMAIN above = 1 .. Len(above) /\ Len(above) \in Nat
          /\ DOMAIN Append(above, i) = 1 .. Len(above) + 1
          /\ Append(above, i)[Len(above) + 1] = i
          /\ \A k \in DOMAIN above : Append(above, i)[k] = above[k]
          /\ \A k \in 1 .. Len(above) + 1 : k = Len(above) + 1 \/ k \in DOMAIN above
      BY <3>4
    <3>6. \A k \in DOMAIN above : above[k] \in f .. i - 1 /\ above[k] < i
      <4>1. \A k \in DOMAIN above : above[k] \in Open(f, i - 1)
        BY <3>4 DEF ToSet
      <4> QED
        BY <4>1, <3>3, <1>1 DEF Open
    <3>7. Ascending(Append(above, i))
      <4>1. ASSUME NEW m \in 1 .. Len(above) + 1, NEW n \in 1 .. Len(above) + 1, m < n
            PROVE  Append(above, i)[m] < Append(above, i)[n]
        <5>1. m \in DOMAIN above
          BY <4>1, <3>5
        <5>2. CASE n \in DOMAIN above
          BY <5>1, <5>2, <4>1, <3>4, <3>5 DEF Ascending
        <5>3. CASE n = Len(above) + 1
          BY <5>1, <5>3, <3>5, <3>6
        <5> QED
          BY <5>2, <5>3, <3>5
      <4> QED
        BY <4>1, <3>5 DEF Ascending
    <3>8. Open(f, i) = {i} \union {j \in Open(f, i - 1) : read[j].level < level}
      <4>1. \A j \in f .. i - 1 : read[j].level \in Nat
        <5>1. \A j \in f .. i - 1 : j \in DOMAIN read
          BY <3>3, <1>1 DEF OutlineTypeOK
        <5> QED
          BY <5>1, HeadingTypes DEF OutlineTypeOK
      <4>2. \A j \in f .. i : j = i \/ j \in f .. i - 1
        BY <3>3, <1>1
      <4>3. i \in Open(f, i)
        BY <3>3, <1>1 DEF Open
      <4>4. ASSUME NEW j \in f .. i - 1
            PROVE  j \in Open(f, i) <=> j \in Open(f, i - 1) /\ read[j].level < level
        <5>1. \A k \in j + 1 .. i : k = i \/ k \in j + 1 .. i - 1
          BY <3>3, <1>1
        <5>2. i \in j + 1 .. i /\ j + 1 .. i - 1 \subseteq j + 1 .. i /\ j \in f .. i
          BY <3>3, <1>1
        <5>3. (read[i].level > read[j].level) <=> read[j].level < level
          BY <4>1, <1>1
        <5> QED
          BY <5>1, <5>2, <5>3 DEF Open
      <4>5. Open(f, i) \subseteq f .. i /\ Open(f, i - 1) \subseteq f .. i - 1
        BY DEF Open
      <4> QED
        BY <4>2, <4>3, <4>4, <4>5
    <3>9. ToSet(Append(above, i)) = Open(f, i)
      <4>1. \A k \in 1 .. Len(above) + 1 : Append(above, i)[k] \in ToSet(above) \union {i}
        BY <3>5 DEF ToSet
      <4>2. \A j \in ToSet(above) \union {i} :
              \E k \in 1 .. Len(above) + 1 : Append(above, i)[k] = j
        <5>1. Len(above) + 1 \in 1 .. Len(above) + 1 /\ DOMAIN above \subseteq 1 .. Len(above) + 1
          BY <3>5
        <5> QED
          BY <5>1, <3>5 DEF ToSet
      <4>3. ToSet(Append(above, i)) = ToSet(above) \union {i}
        BY <4>1, <4>2, <3>5 DEF ToSet
      <4> QED
        BY <4>3, <3>4, <3>8
    <3>a. \A k \in f .. i : read[k].kind = "item"
      BY <3>3, <1>1, <1>4
    <3>b. f \in current + 1 .. i /\ f # None
      BY <3>3, <1>1
    <3> HIDE DEF nodes
    <3> QED
      BY <2>1, <3>1, <3>2, <3>3, <3>7, <3>9, <3>a, <3>b, <3>c DEF NestInv
  <2> QED
    BY <2>3, <2>4
<1> QED
  BY <1>3, <1>4

\* The lists of the current blocks give each item its parent.
LEMMA ListsAreSound ==
  ASSUME OutlineTypeOK, CurrentIsLast
  PROVE  /\ Lists(blocks) \in SUBSET Node
         /\ \A i \in current + 1 .. Len(read) :
              read[i].kind = "item" =>
                \E node \in Lists(blocks) : node.item = i /\ node.parent = Nearest(Outer(i))
<1> DEFINE E == current + 1 .. Len(read)
           m == Len(read) - current
           step == [x \in Accumulator \X E |-> Nest(x[1], x[2])]
<1>1. /\ current \in Nat /\ Len(read) \in Nat /\ m \in Nat /\ current + m = Len(read)
  <2>1. current \in 0 .. Len(read) /\ Len(read) \in Nat
    BY DEF OutlineTypeOK
  <2> QED
    BY <2>1
<1>2. /\ blocks \in Seq(E) /\ DOMAIN blocks = 1 .. m /\ Len(blocks) = m
      /\ \A n \in 1 .. m : blocks[n] = current + n /\ blocks[n] \in E
  <2>1. blocks = [n \in 1 .. m |-> current + n]
    BY DEF CurrentIsLast
  <2>2. \A n \in 1 .. m : current + n \in E
    BY <1>1
  <2>3. blocks \in [1 .. m -> E]
    BY <2>1, <2>2
  <2> HIDE DEF m, E
  <2>4. blocks \in Seq(E) /\ Len(blocks) = m
    BY <2>3, <1>1, SeqDef, LenProperties
  <2> QED
    BY <2>1, <2>2, <2>4
<1>3. NoList \in Accumulator /\ NestInv(NoList, current)
  <2>1. NoList = [kind |-> None, stack |-> <<>>, first |-> None, nodes |-> {}] /\ <<>> \in Seq(Nat)
    BY DEF NoList
  <2>2. NoList \in Accumulator
    BY <2>1 DEF Accumulator
  <2>3. NoList.stack = <<>> /\ NoList.first = None
    BY <2>1
  <2>4. current + 1 .. current = {}
    BY <1>1
  <2> QED
    BY <2>2, <2>3, <2>4 DEF NestInv
<1>4. \A acc \in Accumulator, i \in E : step[<<acc, i>>] = Nest(acc, i)
  OBVIOUS
<1>5. step \in [Accumulator \X E -> Accumulator]
  <2>1. \A x \in Accumulator \X E : Nest(x[1], x[2]) \in Accumulator
    BY NestType
  <2> QED
    BY <2>1
<1> HIDE DEF step
<1>6. \A u \in SUBSET DOMAIN blocks :
        u # {} => Max(u) \in DOMAIN blocks /\ u \ {Max(u)} \in SUBSET DOMAIN blocks
  <2>1. \A u \in SUBSET DOMAIN blocks : u \in SUBSET (0 .. m)
    BY <1>1, <1>2
  <2> HIDE DEF m
  <2> QED
    BY <2>1, <1>1, Largest
<1>7. \E iter : iter = [u \in SUBSET DOMAIN blocks |->
                          IF u = {} THEN NoList
                          ELSE Nest(iter[u \ {Max(u)}], blocks[Max(u)])]
  <2> HIDE DEF E
  <2>1. PICK g \in [SUBSET DOMAIN blocks -> Accumulator] :
               \A u \in SUBSET DOMAIN blocks :
                 g[u] = IF u = {} THEN NoList ELSE step[<<g[u \ {Max(u)}], blocks[Max(u)]>>]
    <3>1. blocks \in Seq(E) /\ NoList \in Accumulator
      BY <1>2, <1>3
    <3>2. PICK g : g \in FoldsOf(Accumulator, NoList, step, blocks)
      BY <3>1, <1>5, FoldExists
    <3> QED
      BY <3>2 DEF FoldsOf
  <2>2. \A u \in SUBSET DOMAIN blocks :
          u # {} => step[<<g[u \ {Max(u)}], blocks[Max(u)]>>] =
                      Nest(g[u \ {Max(u)}], blocks[Max(u)])
    BY <2>1, <1>2, <1>4, <1>6
  <2>3. g = [u \in SUBSET DOMAIN blocks |->
               IF u = {} THEN NoList ELSE Nest(g[u \ {Max(u)}], blocks[Max(u)])]
    BY <2>1, <2>2
  <2> QED
    BY <2>3
<1>8. PICK h : /\ h = [u \in SUBSET DOMAIN blocks |->
                         IF u = {} THEN NoList ELSE Nest(h[u \ {Max(u)}], blocks[Max(u)])]
               /\ FoldLeft(Nest, NoList, blocks) = h[DOMAIN blocks]
  <2>1. FoldLeft(Nest, NoList, blocks) =
          (CHOOSE iter : iter = [u \in SUBSET DOMAIN blocks |->
                                   IF u = {} THEN NoList
                                   ELSE Nest(iter[u \ {Max(u)}], blocks[Max(u)])])[DOMAIN blocks]
    BY DEF FoldLeft, MapThenFoldSet
  <2> QED
    BY <2>1, <1>7
<1> DEFINE T == {n \in Nat : n <= m => h[1 .. n] \in Accumulator /\ NestInv(h[1 .. n], current + n)}
<1>9. 0 \in T
  <2>1. 1 .. 0 = {} /\ current + 0 = current
    BY <1>1
  <2>2. h[{}] = NoList
    BY <1>8
  <2> QED
    BY <2>1, <2>2, <1>3
<1>a. ASSUME NEW n \in Nat, n \in T PROVE n + 1 \in T
  <2>1. SUFFICES ASSUME n + 1 <= m
                 PROVE  h[1 .. n + 1] \in Accumulator /\ NestInv(h[1 .. n + 1], current + (n + 1))
    OBVIOUS
  <2>2. h[1 .. n] \in Accumulator /\ NestInv(h[1 .. n], current + n)
    <3>1. n <= m
      BY <2>1, <1>1
    <3> QED
      BY <3>1, <1>a
  <2>3. /\ 1 .. n + 1 \in SUBSET DOMAIN blocks /\ 1 .. n + 1 # {}
        /\ blocks[n + 1] = current + (n + 1) /\ blocks[n + 1] \in E
    <3>1. n + 1 \in 1 .. m /\ 1 .. n + 1 \subseteq 1 .. m /\ n + 1 \in 1 .. n + 1
      BY <2>1, <1>1
    <3> QED
      BY <3>1, <1>2
  <2>4. Max(1 .. n + 1) = n + 1 /\ (1 .. n + 1) \ {n + 1} = 1 .. n
    <3>1. n + 1 \in 1 .. n + 1 /\ 1 .. n + 1 \in SUBSET (1 .. n + 1)
      OBVIOUS
    <3>2. PICK u : u = 1 .. n + 1
      OBVIOUS
    <3>3. n + 1 \in u /\ u \in SUBSET (1 .. n + 1)
      BY <3>1, <3>2
    <3>4. Max(u) = n + 1
      BY <3>3, LastOfInterval
    <3>5. (1 .. n + 1) \ {n + 1} = 1 .. n
      OBVIOUS
    <3> QED
      BY <3>2, <3>4, <3>5
  <2>5. h[1 .. n + 1] = Nest(h[(1 .. n + 1) \ {Max(1 .. n + 1)}], blocks[Max(1 .. n + 1)])
    BY <2>3, <1>8
  <2>6. PICK i, acc : i = current + (n + 1) /\ acc = h[1 .. n]
    OBVIOUS
  <2>7. h[1 .. n + 1] = Nest(acc, i)
    BY <2>3, <2>4, <2>5, <2>6
  <2>8. i \in current + 1 .. Len(read) /\ i - 1 = current + n
    BY <2>3, <2>6, <1>1
  <2> QED
    BY <2>2, <2>6, <2>7, <2>8, NestType, NestKeeps
<1>b. m \in T
  <2> HIDE DEF T
  <2> QED
    BY <1>1, <1>9, <1>a, SetInduction
<1>c. PICK acc : acc = h[DOMAIN blocks]
  OBVIOUS
<1>d. acc \in Accumulator /\ NestInv(acc, Len(read)) /\ Lists(blocks) = acc.nodes
  BY SMTT(20), <1>1, <1>2, <1>8, <1>b, <1>c DEF Lists
<1> QED
  BY <1>d DEF NestInv, Accumulator

-----------------------------------------------------------------------------
(* The blocks of the sections.                                              *)

\* The items of i's list after place p and before i that are further out.
OuterAfter(p, i) == {j \in p + 1 .. i - 1 : SameList(j, i) /\ read[j].level < read[i].level}

\* A section has the places that follow its own, none of them a heading, and the parents of items.
HasItsBlocks(s) ==
  /\ Len(s.blocks) \in 0 .. Len(read) - s.id
  /\ s.blocks = [n \in 1 .. Len(s.blocks) |-> s.id + n]
  /\ \A i \in s.id + 1 .. s.id + Len(s.blocks) :
       /\ ~IsHeading(i)
       /\ read[i].kind = "item" =>
            \E node \in s.lists : node.item = i /\ node.parent = Nearest(OuterAfter(s.id, i))

SectionsHaveBlocks == \A k \in DOMAIN sections : HasItsBlocks(sections[k])

\* Every block before the current heading, or every one in the end, has a section.
BlocksAreCovered ==
  \A i \in DOMAIN read \ HeadingsOf :
    i < current \/ done => \E k \in DOMAIN sections : i \in ToSet(sections[k].blocks)

DocumentInv == OutlineInv /\ SectionsHaveBlocks /\ BlocksAreCovered

LEMMA NewSectionHasBlocks ==
  ASSUME OutlineTypeOK, CurrentIsLast
  PROVE  HasItsBlocks(Section)
<1>1. Section.id = current /\ Section.blocks = blocks /\ Section.lists = Lists(blocks)
  BY DEF Section
<1>2. /\ current \in Nat /\ Len(read) \in Nat /\ current \in 0 .. Len(read)
      /\ DOMAIN read = 1 .. Len(read)
  BY DEF OutlineTypeOK
<1>3. blocks = [n \in 1 .. Len(read) - current |-> current + n]
  BY DEF CurrentIsLast
<1>4. Len(blocks) = Len(read) - current
  <2>1. Len(read) - current \in Nat
    BY <1>2
  <2>2. blocks \in Seq(Int)
    BY <1>2, <1>3, <2>1
  <2> QED
    BY <2>1, <2>2, <1>3, LenProperties
<1>5. current + Len(blocks) = Len(read)
  BY <1>2, <1>4
<1>6. \A i \in current + 1 .. Len(read) : i \in DOMAIN read /\ i > current
  BY <1>2
<1>7. \A i \in current + 1 .. Len(read) : ~IsHeading(i)
  BY <1>6 DEF CurrentIsLast
<1>8. \A i \in current + 1 .. Len(read) :
        read[i].kind = "item" =>
          \E node \in Lists(blocks) : /\ node.item = i
                                      /\ node.parent = Nearest(OuterAfter(current, i))
  <2>1. \A i : Outer(i) = OuterAfter(current, i)
    BY DEF Outer, OuterAfter
  <2> QED
    BY <2>1, ListsAreSound
<1>9. Len(blocks) \in 0 .. Len(read) - current
  BY <1>2, <1>4
<1>a. blocks = [n \in 1 .. Len(blocks) |-> current + n]
  BY <1>3, <1>4
<1>b. PICK s : s = Section
  OBVIOUS
<1>c. s.id = current /\ s.blocks = blocks /\ s.lists = Lists(blocks)
  BY <1>1, <1>b
<1>d. HasItsBlocks(s)
  BY <1>5, <1>7, <1>8, <1>9, <1>a, <1>c DEF HasItsBlocks
<1> QED
  BY <1>b, <1>d

LEMMA BlocksStay ==
  ASSUME read \in Seq(Block), Grows, NEW s, s.id \in Nat, HasItsBlocks(s)
  PROVE  HasItsBlocks(s)'
<1>1. /\ Len(read) \in Nat /\ Len(read') \in Nat /\ Len(read) <= Len(read')
      /\ DOMAIN read = 1 .. Len(read)
      /\ \A i \in DOMAIN read : read'[i] = read[i] /\ IsHeading(i)' = IsHeading(i)
  <2>1. read' \in Seq(Block)
    BY ChainsStay
  <2> QED
    BY <2>1, HeadingTypes, ChainsStay
<1>2. PICK m : m = Len(s.blocks)
  OBVIOUS
<1>3. m \in 0 .. Len(read) - s.id /\ m \in 0 .. Len(read') - s.id
  BY <1>1, <1>2 DEF HasItsBlocks
<1>4. \A i \in s.id + 1 .. s.id + m : i \in DOMAIN read /\ i \in Nat
  BY <1>1, <1>3
<1>5. ASSUME NEW i \in s.id + 1 .. s.id + m PROVE OuterAfter(s.id, i)' = OuterAfter(s.id, i)
  <2>1. ASSUME NEW j \in s.id + 1 .. i - 1
        PROVE  /\ SameList(j, i)' = SameList(j, i) /\ read'[j] = read[j] /\ read'[i] = read[i]
    <3>1. /\ \A k \in j .. i : k \in DOMAIN read
          /\ j \in DOMAIN read /\ i \in DOMAIN read
      BY SMTT(20), <1>1, <1>3
    <3>2. /\ \A k \in j .. i : read'[k] = read[k]
          /\ read'[j] = read[j] /\ read'[i] = read[i]
      BY <3>1, <1>1
    <3> QED
      BY <3>2 DEF SameList
  <2> QED
    BY <2>1 DEF OuterAfter
<1>6. \A i \in s.id + 1 .. s.id + m :
        /\ ~IsHeading(i)' /\ read'[i] = read[i]
        /\ read'[i].kind = "item" =>
             \E node \in s.lists : node.item = i /\ node.parent = Nearest(OuterAfter(s.id, i))'
  <2>1. SUFFICES ASSUME NEW i \in s.id + 1 .. s.id + m
                 PROVE  /\ ~IsHeading(i)' /\ read'[i] = read[i]
                        /\ read'[i].kind = "item" =>
                             \E node \in s.lists :
                               node.item = i /\ node.parent = Nearest(OuterAfter(s.id, i))'
    OBVIOUS
  <2>2. ~IsHeading(i)' /\ read'[i] = read[i]
    BY <1>1, <1>2, <1>4 DEF HasItsBlocks
  <2>3. Nearest(OuterAfter(s.id, i))' = Nearest(OuterAfter(s.id, i))
    BY <1>5 DEF Nearest
  <2> QED
    BY <2>2, <2>3, <1>2 DEF HasItsBlocks
<1>7. s.blocks = [n \in 1 .. m |-> s.id + n]
  BY <1>2 DEF HasItsBlocks
<1> QED
  BY <1>2, <1>3, <1>6, <1>7 DEF HasItsBlocks

\* Closing a section keeps the blocks of all sections and covers those read so far.
LEMMA FlushCovers ==
  ASSUME DocumentInv, ~done, Grows, NEW keep \in BOOLEAN, sections' = Flushed(keep)
  PROVE  /\ SectionsHaveBlocks'
         /\ \A i \in DOMAIN read \ HeadingsOf :
              \E k \in DOMAIN sections' : i \in ToSet(sections'[k].blocks)
<1>0. OutlineInv /\ OutlineTypeOK /\ CurrentIsLast
  BY DEF DocumentInv, OutlineInv
<1>1. /\ Len(sections) \in Nat /\ DOMAIN sections = 1 .. Len(sections)
      /\ \A k \in DOMAIN sections : sections[k] \in SectionRecord /\ sections[k].id \in Nat
      /\ sections \in Seq(SectionRecord) /\ read \in Seq(Block)
      /\ current \in Nat /\ Len(read) \in Nat /\ DOMAIN read = 1 .. Len(read)
  BY <1>0, SectionTypes DEF OutlineTypeOK
<1>2. PICK n : n = Section
  OBVIOUS
<1>3. n \in SectionRecord /\ n.id = current /\ n.blocks = blocks /\ HasItsBlocks(n)
  <2>1. n.id = current /\ n.blocks = blocks
    BY <1>2 DEF Section
  <2>2. n \in SectionRecord
    BY <1>0, <1>2, NewSectionType, ListsAreSound DEF OutlineInv
  <2> QED
    BY <2>1, <2>2, <1>0, <1>2, NewSectionHasBlocks
<1>4. \/ sections' = sections /\ blocks = <<>>
      \/ sections' = Append(sections, n)
  BY <1>2 DEF Flushed
<1>5. /\ \A k \in DOMAIN sections : k \in DOMAIN sections' /\ sections'[k] = sections[k]
      /\ \A k \in DOMAIN sections' : k \in DOMAIN sections \/ sections'[k] = n
      /\ blocks # <<>> => /\ Len(sections) + 1 \in DOMAIN sections'
                          /\ sections'[Len(sections) + 1] = n
  BY <1>1, <1>3, <1>4
<1>6. ASSUME NEW k \in DOMAIN sections' PROVE HasItsBlocks(sections[k])'
  <2>1. PICK s : s = sections'[k]
    OBVIOUS
  <2>2. s.id \in Nat /\ HasItsBlocks(s)
    BY <2>1, <1>1, <1>3, <1>5 DEF DocumentInv, SectionsHaveBlocks
  <2>3. HasItsBlocks(s)'
    BY <2>2, <1>1, BlocksStay
  <2> QED
    BY <2>1, <2>3 DEF HasItsBlocks
<1>7. ASSUME NEW i \in DOMAIN read \ HeadingsOf
      PROVE  \E k \in DOMAIN sections' : i \in ToSet(sections'[k].blocks)
  <2>1. CASE i < current
    <3>1. PICK k \in DOMAIN sections : i \in ToSet(sections[k].blocks)
      BY <2>1 DEF DocumentInv, BlocksAreCovered
    <3> QED
      BY <3>1, <1>5
  <2>2. CASE i > current
    <3>1. blocks = [m \in 1 .. Len(read) - current |-> current + m]
      BY <1>0 DEF CurrentIsLast
    <3>2. i - current \in 1 .. Len(read) - current
      BY <2>2, <1>1
    <3>3. i \in ToSet(blocks)
      <4>1. i - current \in DOMAIN blocks /\ blocks[i - current] = i
        BY <3>1, <3>2, <1>1
      <4> QED
        BY <4>1 DEF ToSet
    <3>4. blocks # <<>>
      BY <3>3 DEF ToSet
    <3> QED
      BY <3>3, <3>4, <1>3, <1>5
  <2>3. CASE i = current
    <3>1. IsHeading(current)
      BY <2>3, <1>0, <1>1 DEF CurrentIsLast
    <3> QED
      BY <3>1, <2>3 DEF HeadingsOf
  <2> QED
    BY <2>1, <2>2, <2>3, <1>1
<1> QED
  BY <1>6, <1>7 DEF SectionsHaveBlocks

-----------------------------------------------------------------------------
(* The steps.                                                               *)

\* The document before anything is read.
LEMMA NothingIsRead ==
  /\ read = <<>> /\ stack = <<>> /\ current = 0 /\ blocks = <<>> /\ sections = <<>>
  /\ done \in BOOLEAN
  => DocumentInv
<1> SUFFICES ASSUME /\ read = <<>> /\ stack = <<>> /\ current = 0 /\ blocks = <<>>
                    /\ sections = <<>> /\ done \in BOOLEAN
             PROVE  DocumentInv
  OBVIOUS
<1>1. /\ read \in Seq(Block) /\ stack \in Seq(Nat) /\ sections \in Seq(SectionRecord)
      /\ Len(read) = 0 /\ DOMAIN read = {} /\ DOMAIN stack = {} /\ DOMAIN sections = {}
      /\ current \in 0 .. Len(read)
  BY EmptySeq
<1>2. OutlineTypeOK
  BY <1>1 DEF OutlineTypeOK
<1>3. CurrentIsLast
  <2>1. 1 .. Len(read) - current = {}
    BY <1>1
  <2>2. [n \in 1 .. Len(read) - current |-> current + n] = <<>>
    BY <2>1
  <2> QED
    BY <1>1, <2>2 DEF CurrentIsLast
<1>4. Chain(current) = {}
  BY <1>1, ChainTypes DEF Chain, HeadingsOf
<1>5. StackIsChain
  BY <1>1, <1>4 DEF StackIsChain, Ascending, ToSet
<1>6. SectionsInOrder /\ ParentsAreListed /\ SectionsAreSound
  BY <1>1, <1>4 DEF SectionsInOrder, ParentsAreListed, SectionsAreSound
<1>7. SectionsHaveBlocks /\ BlocksAreCovered
  BY <1>1 DEF SectionsHaveBlocks, BlocksAreCovered
<1> QED
  BY <1>2, <1>3, <1>5, <1>6, <1>7 DEF DocumentInv, OutlineInv

LEMMA ReadHeadingKeeps ==
  ASSUME DocumentInv, NEW h \in Headings, ReadHeading(h)
  PROVE  DocumentInv'
<1> SUFFICES ASSUME NEW new, new = Len(read) + 1
             PROVE  DocumentInv'
  OBVIOUS
<1>0. /\ OutlineInv /\ OutlineTypeOK /\ CurrentIsLast /\ StackIsChain /\ ParentsAreListed
      /\ SectionsInOrder /\ read \in Seq(Block)
  BY DEF DocumentInv, OutlineInv, OutlineTypeOK
<1>1. /\ ~done /\ read' = Append(read, h) /\ current' = new /\ blocks' = <<>> /\ ~done'
      /\ sections' = Flushed(KeepsParent(h)) /\ done' \in BOOLEAN
  BY <1>0 DEF ReadHeading, OutlineTypeOK
<1>2. Grows /\ KeepsParent(h) \in BOOLEAN /\ h \in Block
  BY <1>1 DEF Grows, KeepsParent, Block
<1>3. /\ sections' \in Seq(SectionRecord) /\ SectionsAreSound'
      /\ Listed \subseteq Listed' /\ Listed' \subseteq Listed \union {current}
      /\ KeepsParent(h) => current \in Listed'
      /\ \A k, l \in DOMAIN sections' : k < l => sections'[k].id < sections'[l].id
      /\ \A k \in DOMAIN sections' : /\ sections'[k].id \in 0 .. current
                                     /\ sections'[k].id # 0 => IsHeading(sections[k].id)'
  BY <1>0, <1>1, <1>2, ListsAreSound, FlushKeeps
<1>4. /\ Len(read) \in Nat /\ new \in Nat /\ new # 0 /\ DOMAIN read = 1 .. Len(read)
      /\ current \in 0 .. Len(read) /\ current < new
      /\ read' \in Seq(Block) /\ Len(read') = new /\ DOMAIN read' = 1 .. new /\ read'[new] = h
      /\ \A i \in DOMAIN read : i < new
  BY <1>0, <1>1, <1>2 DEF OutlineTypeOK
<1>5. stack' \in Seq(Nat) /\ StackIsChain'
  BY <1>0, HeadingIsPushed
<1>6. OutlineTypeOK'
  BY <1>1, <1>3, <1>4, <1>5 DEF OutlineTypeOK
<1>7. CurrentIsLast'
  <2>1. IsHeading(new)'
    BY <1>4, OutlineAssumption DEF IsHeading
  <2>2. Len(read') - new = 0 /\ 1 .. Len(read') - new = {}
    BY <1>4
  <2>3. [n \in 1 .. Len(read') - new |-> new + n] = <<>>
    BY <2>2
  <2>4. \A i \in DOMAIN read' : ~ (i > new)
    BY <1>4
  <2>5. IsHeading(current)'
    BY <2>1, <1>1 DEF IsHeading
  <2> QED
    BY <2>3, <2>4, <2>5, <1>1 DEF CurrentIsLast
<1>8. SectionsInOrder'
  <2>1. \A k \in DOMAIN sections' : sections'[k].id \in 0 .. new /\ sections'[k].id < new
    BY <1>3, <1>4
  <2> QED
    BY <2>1, <1>1, <1>3 DEF SectionsInOrder
<1>9. ParentsAreListed'
  <2>1. ASSUME NEW j \in Chain(new)', j # new, LevelOf(j)' > 1
        PROVE  j \in Listed'
    <3>1. j \in Chain(current) /\ LevelOf(j) < h.level
      BY <2>1, <1>0, <1>1, ChainOfHeading
    <3>2. j \in 0 .. Len(read) /\ j \in 1 .. current
      BY <3>1, <1>0, <1>4, ChainTypes
    <3>3. LevelOf(j)' = LevelOf(j)
      BY <3>2, <1>0, <1>2, ChainsStay
    <3>4. CASE j = current
      <4>1. stack # <<>>
        BY <3>2, <3>4, <1>0, <1>4, TopOfStack
      <4>2. h.level \in Nat /\ LevelOf(current) \in Nat
        BY <3>1, <3>2, <3>4, <1>0, <1>4, ChainTypes, HeadingTypes, OutlineAssumption DEF LevelOf
      <4>3. KeepsParent(h)
        BY <4>1, <4>2, <3>1, <3>3, <3>4, <2>1 DEF KeepsParent
      <4> QED
        BY <4>3, <3>4, <1>3
    <3>5. CASE j # current
      BY <3>1, <3>3, <3>5, <2>1, <1>0, <1>1, <1>3 DEF ParentsAreListed
    <3> QED
      BY <3>4, <3>5
  <2>2. Chain(current)' = Chain(new)'
    BY <1>1, <1>4 DEF Chain, Above
  <2> QED
    BY <2>1, <2>2, <1>1 DEF ParentsAreListed
<1>a. /\ SectionsHaveBlocks'
      /\ \A i \in DOMAIN read \ HeadingsOf :
           \E k \in DOMAIN sections' : i \in ToSet(sections'[k].blocks)
  BY <1>1, <1>2, FlushCovers
<1>b. BlocksAreCovered'
  <2>1. ASSUME NEW i \in DOMAIN read' \ HeadingsOf', i < new
        PROVE  \E k \in DOMAIN sections' : i \in ToSet(sections'[k].blocks)
    <3>1. i \in DOMAIN read
      BY <2>1, <1>4
    <3>2. i \notin HeadingsOf
      BY <2>1, <3>1, <1>0, <1>2, ChainsStay
    <3> QED
      BY <3>1, <3>2, <1>a
  <2> QED
    BY <2>1, <1>1 DEF BlocksAreCovered
<1> QED
  BY <1>3, <1>5, <1>6, <1>7, <1>8, <1>9, <1>a, <1>b DEF DocumentInv, OutlineInv

LEMMA FinishKeeps ==
  ASSUME DocumentInv, Finish
  PROVE  DocumentInv'
<1>0. /\ OutlineInv /\ OutlineTypeOK /\ CurrentIsLast /\ StackIsChain /\ ParentsAreListed
      /\ SectionsInOrder /\ read \in Seq(Block)
  BY DEF DocumentInv, OutlineInv, OutlineTypeOK
<1>1. /\ ~done /\ done' = TRUE /\ sections' = Flushed(FALSE)
      /\ read' = read /\ stack' = stack /\ current' = current /\ blocks' = blocks
  BY DEF Finish
<1>2. Grows
  BY <1>1 DEF Grows
<1>3. /\ sections' \in Seq(SectionRecord) /\ SectionsAreSound'
      /\ \A k, l \in DOMAIN sections' : k < l => sections'[k].id < sections'[l].id
      /\ \A k \in DOMAIN sections' : /\ sections'[k].id \in 0 .. current
                                     /\ sections'[k].id # 0 => IsHeading(sections[k].id)'
  BY <1>0, <1>1, <1>2, ListsAreSound, FlushKeeps
<1>4. OutlineTypeOK' /\ CurrentIsLast'
  BY <1>0, <1>1, <1>3 DEF OutlineTypeOK, CurrentIsLast, IsHeading
<1>5. StackIsChain'
  BY <1>0, <1>1 DEF StackIsChain, Chain, Above, HeadingsOf, IsHeading
<1>6. SectionsInOrder' /\ ParentsAreListed'
  BY <1>1, <1>3 DEF SectionsInOrder, ParentsAreListed
<1>7. /\ SectionsHaveBlocks'
      /\ \A i \in DOMAIN read \ HeadingsOf :
           \E k \in DOMAIN sections' : i \in ToSet(sections'[k].blocks)
  BY <1>1, <1>2, FlushCovers
<1>8. BlocksAreCovered'
  BY <1>1, <1>7 DEF BlocksAreCovered, HeadingsOf, IsHeading
<1> QED
  BY <1>3, <1>4, <1>5, <1>6, <1>7, <1>8 DEF DocumentInv, OutlineInv

LEMMA ReadBlockKeeps ==
  ASSUME DocumentInv, NEW b \in Blocks, ReadBlock(b)
  PROVE  DocumentInv'
<1> SUFFICES ASSUME NEW new, new = Len(read) + 1
             PROVE  DocumentInv'
  OBVIOUS
<1>0. /\ OutlineInv /\ OutlineTypeOK /\ CurrentIsLast /\ StackIsChain /\ ParentsAreListed
      /\ SectionsInOrder /\ read \in Seq(Block)
  BY DEF DocumentInv, OutlineInv, OutlineTypeOK
<1>1. /\ ~done /\ read' = Append(read, b) /\ blocks' = Append(blocks, new)
      /\ stack' = stack /\ current' = current /\ sections' = sections /\ done' = done
  BY DEF ReadBlock
<1>2. Grows /\ b \in Block
  BY <1>1 DEF Grows, Block
<1>3. /\ Len(read) \in Nat /\ new \in Nat /\ DOMAIN read = 1 .. Len(read)
      /\ current \in 0 .. Len(read) /\ current \in Nat
      /\ read' \in Seq(Block) /\ Len(read') = new /\ DOMAIN read' = 1 .. new /\ read'[new] = b
      /\ \A i \in 1 .. new : i = new \/ i \in DOMAIN read
      /\ \A i \in DOMAIN read : read'[i] = read[i]
  BY <1>0, <1>1, <1>2 DEF OutlineTypeOK
<1>4. /\ \A i \in DOMAIN read : /\ IsHeading(i)' = IsHeading(i)
                                /\ i \in HeadingsOf' <=> i \in HeadingsOf
      /\ \A i \in 0 .. Len(read) : Chain(i)' = Chain(i) /\ LevelOf(i)' = LevelOf(i)
  BY <1>0, <1>2, ChainsStay
<1>5. ~IsHeading(new)'
  <2>1. b.kind # "heading"
    BY OutlineAssumption
  <2> QED
    BY <2>1, <1>3 DEF IsHeading
<1>6. Listed' = Listed
  BY <1>1 DEF Listed
<1>7. OutlineTypeOK'
  <2>1. current' \in 0 .. Len(read')
    BY <1>1, <1>3
  <2> QED
    BY <2>1, <1>0, <1>1, <1>3 DEF OutlineTypeOK
<1>8. CurrentIsLast'
  <2>1. current # 0 => read'[current].kind = "heading"
    <3>1. current # 0 => current \in DOMAIN read
      BY <1>3
    <3> QED
      BY <3>1, <1>0, <1>3 DEF CurrentIsLast, IsHeading
  <2>2. \A i \in DOMAIN read' : i > current => ~IsHeading(i)'
    BY <1>0, <1>3, <1>4, <1>5 DEF CurrentIsLast
  <2>3. blocks' = [n \in 1 .. new - current |-> current + n]
    <3>1. PICK m : m = Len(read) - current
      OBVIOUS
    <3>2. m \in Nat /\ new - current = m + 1 /\ current + (m + 1) = new
      BY <3>1, <1>3
    <3>3. blocks = [n \in 1 .. m |-> current + n]
      BY <3>1, <1>0 DEF CurrentIsLast
    <3>4. blocks \in Seq(Int) /\ Len(blocks) = m
      <4>1. blocks \in [1 .. m -> Int]
        BY <3>3, <1>3
      <4> QED
        BY <4>1, <3>2, SeqDef, LenProperties
    <3>5. /\ DOMAIN blocks' = 1 .. m + 1 /\ blocks' \in Seq(Int)
          /\ \A n \in 1 .. m : blocks'[n] = blocks[n] /\ blocks'[m + 1] = new
          /\ blocks'[m + 1] = new
      BY SMTT(20), <3>2, <3>4, <1>1, <1>3
    <3>6. \A n \in 1 .. m + 1 : blocks'[n] = current + n
      <4>1. \A n \in 1 .. m + 1 : n = m + 1 \/ n \in 1 .. m
        BY <3>2
      <4> QED
        BY <4>1, <3>2, <3>3, <3>5
    <3>7. blocks' = [n \in 1 .. m + 1 |-> current + n]
      BY <3>5, <3>6
    <3> QED
      BY <3>2, <3>7
  <2>4. IsHeading(current)' = (read'[current].kind = "heading")
    BY <1>1 DEF IsHeading
  <2> QED
    BY <2>1, <2>2, <2>3, <2>4, <1>1, <1>3 DEF CurrentIsLast, IsHeading
<1>9. Chain(current)' = Chain(current)
  <2>1. PICK c : c = current
    OBVIOUS
  <2>2. Chain(c)' = Chain(c)
    BY <2>1, <1>3, <1>4
  <2> QED
    BY <2>1, <2>2, <1>1 DEF Chain, Above
<1>a. StackIsChain'
  BY <1>0, <1>1, <1>9 DEF StackIsChain
<1>b. ParentsAreListed'
  <2>1. \A j \in Chain(current) : LevelOf(j)' = LevelOf(j)
    BY <1>0, <1>3, <1>4, ChainTypes
  <2> QED
    BY <2>1, <1>0, <1>1, <1>6, <1>9 DEF ParentsAreListed
<1>c. SectionsInOrder'
  <2>1. ASSUME NEW k \in DOMAIN sections, sections[k].id # 0 PROVE IsHeading(sections[k].id)'
    <3>1. PICK c : c = sections[k].id
      OBVIOUS
    <3>2. c \in DOMAIN read /\ IsHeading(c)
      BY <2>1, <3>1, <1>0, <1>3 DEF SectionsInOrder
    <3> QED
      BY <3>1, <3>2, <1>1, <1>4 DEF IsHeading
  <2> QED
    BY <2>1, <1>0, <1>1 DEF SectionsInOrder
<1>d. \A k \in DOMAIN sections : sections[k].id \in 0 .. current /\ sections[k].id \in Nat
  BY <1>0, <1>3 DEF SectionsInOrder
<1>e. ASSUME NEW k \in DOMAIN sections'
      PROVE  SoundSection(sections[k])' /\ HasItsBlocks(sections[k])'
  <2>1. PICK s : s = sections[k]
    OBVIOUS
  <2>2. SoundSection(s) /\ HasItsBlocks(s)
    BY <2>1, <1>e, <1>1 DEF DocumentInv, OutlineInv, SectionsAreSound, SectionsHaveBlocks
  <2>3. SoundSection(s)' /\ HasItsBlocks(s)'
    BY <2>1, <2>2, <1>e, <1>0, <1>1, <1>2, <1>3, <1>6, <1>d, SoundnessStays, BlocksStay
  <2>4. sections'[k] = s
    BY <2>1, <1>1
  <2> QED
    BY <2>3, <2>4 DEF SoundSection, HasItsBlocks
<1>f. SectionsAreSound' /\ SectionsHaveBlocks'
  BY <1>e DEF SectionsAreSound, SectionsHaveBlocks
<1>g. BlocksAreCovered'
  <2>1. ASSUME NEW i \in DOMAIN read' \ HeadingsOf', i < current
        PROVE  \E k \in DOMAIN sections : i \in ToSet(sections[k].blocks)
    <3>1. i \in DOMAIN read
      BY <2>1, <1>3
    <3>2. i \notin HeadingsOf
      BY <2>1, <3>1, <1>4
    <3> QED
      BY <3>1, <3>2, <2>1 DEF DocumentInv, BlocksAreCovered
  <2> QED
    BY <2>1, <1>1 DEF BlocksAreCovered
<1> QED
  BY <1>7, <1>8, <1>a, <1>b, <1>c, <1>f, <1>g DEF DocumentInv, OutlineInv

\* Chunking a section touches no document.
LEMMA DocumentStays ==
  ASSUME DocumentInv, UNCHANGED outlineVars
  PROVE  DocumentInv'
<1>1. /\ read' = read /\ stack' = stack /\ current' = current /\ blocks' = blocks
      /\ sections' = sections /\ done' = done
  BY DEF outlineVars
<1>2. OutlineTypeOK' /\ CurrentIsLast'
  BY <1>1 DEF DocumentInv, OutlineInv, OutlineTypeOK, CurrentIsLast, IsHeading
<1>3. StackIsChain' /\ SectionsInOrder'
  BY <1>1 DEF DocumentInv, OutlineInv, StackIsChain, SectionsInOrder, Chain, Above, HeadingsOf,
              IsHeading
<1>4. ParentsAreListed'
  BY <1>1 DEF DocumentInv, OutlineInv, ParentsAreListed, Chain, Above, HeadingsOf, IsHeading,
              LevelOf, Listed
<1>5. ASSUME NEW k \in DOMAIN sections'
      PROVE  SoundSection(sections[k])' /\ HasItsBlocks(sections[k])'
  <2>1. PICK s : s = sections[k]
    OBVIOUS
  <2>2. SoundSection(s) /\ HasItsBlocks(s)
    BY <2>1, <1>1, <1>5 DEF DocumentInv, OutlineInv, SectionsAreSound, SectionsHaveBlocks
  <2>3. /\ Chain(s.id)' = Chain(s.id) /\ Listed' = Listed
        /\ \A j : LevelOf(j)' = LevelOf(j) /\ IsHeading(j)' = IsHeading(j)
        /\ \A j : OuterAfter(s.id, j)' = OuterAfter(s.id, j)
    BY <1>1 DEF Chain, Above, HeadingsOf, IsHeading, LevelOf, Listed, OuterAfter, SameList
  <2>4. SoundSection(s)'
    BY <2>2, <2>3, <1>1 DEF SoundSection
  <2>5. HasItsBlocks(s)'
    <3>1. \A j : Nearest(OuterAfter(s.id, j))' = Nearest(OuterAfter(s.id, j))
      BY <2>3 DEF Nearest
    <3> QED
      BY <2>2, <2>3, <3>1, <1>1 DEF HasItsBlocks
  <2> QED
    BY <2>1, <2>4, <2>5, <1>1 DEF SoundSection, HasItsBlocks
<1>6. SectionsAreSound' /\ SectionsHaveBlocks'
  BY <1>5 DEF SectionsAreSound, SectionsHaveBlocks
<1>7. BlocksAreCovered'
  BY <1>1 DEF DocumentInv, BlocksAreCovered, HeadingsOf, IsHeading
<1> QED
  BY <1>2, <1>3, <1>4, <1>6, <1>7 DEF DocumentInv, OutlineInv

Fresh ==
  /\ read = <<>> /\ stack = <<>> /\ current = 0 /\ blocks = <<>> /\ sections = <<>>
  /\ done \in BOOLEAN

LEMMA FreshNext == Fresh' => DocumentInv'
<1>1. Fresh => DocumentInv
  BY NothingIsRead DEF Fresh
<1> QED
  BY <1>1, PTL

\* DocumentInv is inductive.
LEMMA DocumentStep ==
  ASSUME DocumentInv, [Next]_vars
  PROVE  DocumentInv'
<1>1. CASE OutlineNext
  BY <1>1, ReadHeadingKeeps, ReadBlockKeeps, FinishKeeps DEF OutlineNext
<1>2. ASSUME NEW k \in DOMAIN sections, ChunkSection(sections[k]) PROVE DocumentInv'
  <2>1. Fresh'
    BY <1>2 DEF ChunkSection, Fresh, DocumentInv, OutlineInv, OutlineTypeOK
  <2> QED
    BY <2>1, FreshNext
<1>3. CASE UNCHANGED outlineVars
  BY <1>3, DocumentStays
<1> QED
  BY <1>1, <1>2, <1>3 DEF Next, vars

LEMMA DocumentAlways == Spec => []DocumentInv
<1>1. Init => DocumentInv
  BY NothingIsRead DEF Init, OutlineInit
<1>2. DocumentInv /\ [Next]_vars => DocumentInv'
  BY DocumentStep
<1> QED
  BY <1>1, <1>2, PTL DEF Spec

\* The outline of a document is the one its headings describe: each section has the chain of
\* headings above it as its path, the nearest listed one as its parent, every policy heading
\* above it is listed, and its number and annotation are those of its chain; for documents of
\* any length and headings of any level (canonicalizer.py canonicalize, flush, _section).
THEOREM TheOutlineIsAlwaysSound == Spec => []OutlineIsSound
<1>1. DocumentInv => OutlineIsSound
  <2>1. SUFFICES ASSUME DocumentInv, NEW k \in DOMAIN sections
                 PROVE  LET s == sections[k]
                            chain == Chain(s.id)
                        IN /\ ToSet(s.path) = chain
                           /\ \A n \in 1 .. Len(s.path) - 1 : s.path[n] < s.path[n + 1]
                           /\ s.parent = Nearest((chain \ {s.id}) \intersect Listed)
                           /\ \A j \in chain \ {s.id} : LevelOf(j) > 1 => j \in Listed
                           /\ s.number = (LET n == Nearest({j \in chain : read[j].number # None})
                                          IN IF s.id = 0 THEN TitleNumber
                                             ELSE IF n = None THEN None ELSE read[n].number)
                           /\ s.note <=> \E j \in chain : read[j].note
    BY DEF OutlineIsSound
  <2>2. PICK s : s = sections[k]
    OBVIOUS
  <2>3. SoundSection(s)
    BY <2>1, <2>2 DEF DocumentInv, OutlineInv, SectionsAreSound
  <2>4. \A n \in 1 .. Len(s.path) - 1 : s.path[n] < s.path[n + 1]
    <3>1. s \in SectionRecord
      BY <2>1, <2>2, SectionTypes DEF DocumentInv, OutlineInv
    <3>2. s.path \in Seq(Nat)
      BY <3>1 DEF SectionRecord
    <3>3. \A n \in 1 .. Len(s.path) - 1 : /\ n \in DOMAIN s.path /\ n + 1 \in DOMAIN s.path
                                          /\ n < n + 1
      BY <3>2
    <3> QED
      BY <3>3, <2>3 DEF SoundSection, Ascending
  <2> QED
    BY <2>2, <2>3, <2>4 DEF SoundSection
<1> QED
  BY <1>1, DocumentAlways, PTL

\* No block of a document is lost, duplicated or moved by its outline: in the end each is in the
\* section of the last heading before it and in no other, in the order of the document, and an
\* item of a list is under the nearest item before it that is further out (canonicalizer.py
\* canonicalize, _blocks).
THEOREM BlocksAlwaysKeepTheirPlace == Spec => []BlocksKeepTheirPlace
<1>1. DocumentInv => BlocksKeepTheirPlace
  <2> SUFFICES ASSUME DocumentInv, done PROVE BlocksKeepTheirPlace
    BY DEF BlocksKeepTheirPlace
  <2>0. /\ OutlineTypeOK /\ CurrentIsLast /\ SectionsInOrder /\ SectionsHaveBlocks
        /\ BlocksAreCovered
    BY DEF DocumentInv, OutlineInv
  <2>1. /\ Len(read) \in Nat /\ DOMAIN read = 1 .. Len(read) /\ current \in 0 .. Len(read)
        /\ Len(sections) \in Nat /\ DOMAIN sections = 1 .. Len(sections)
    BY <2>0 DEF OutlineTypeOK
  <2>2. ASSUME NEW k \in DOMAIN sections
        PROVE  /\ sections[k].id \in 0 .. Len(read)
               /\ sections[k].id # 0 => sections[k].id \in HeadingsOf
               /\ Len(sections[k].blocks) \in 0 .. Len(read) - sections[k].id
               /\ DOMAIN sections[k].blocks = 1 .. Len(sections[k].blocks)
               /\ \A n \in 1 .. Len(sections[k].blocks) :
                    sections[k].blocks[n] = sections[k].id + n
               /\ \A i \in sections[k].id + 1 .. sections[k].id + Len(sections[k].blocks) :
                    /\ i \notin HeadingsOf
                    /\ read[i].kind = "item" =>
                         \E node \in sections[k].lists :
                           node.item = i /\ node.parent = Nearest(OuterAfter(sections[k].id, i))
               /\ ToSet(sections[k].blocks) =
                    sections[k].id + 1 .. sections[k].id + Len(sections[k].blocks)
    <3>1. PICK s : s = sections[k]
      OBVIOUS
    <3>2. HasItsBlocks(s) /\ s.id \in 0 .. current /\ (s.id # 0 => IsHeading(s.id))
      BY <3>1, <2>0 DEF SectionsHaveBlocks, SectionsInOrder
    <3>3. s.id \in 0 .. Len(read) /\ (s.id # 0 => s.id \in HeadingsOf)
      BY <3>2, <2>1 DEF HeadingsOf
    <3>4. PICK m : m = Len(s.blocks)
      OBVIOUS
    <3>5. m \in 0 .. Len(read) - s.id /\ s.blocks = [n \in 1 .. m |-> s.id + n] /\ m \in Nat
      BY <3>2, <3>3, <3>4, <2>1 DEF HasItsBlocks
    <3>6. \A i \in s.id + 1 .. s.id + m : \E n \in 1 .. m : i = s.id + n
      <4>1. \A i \in s.id + 1 .. s.id + m : i - s.id \in 1 .. m /\ i = s.id + (i - s.id)
        BY <3>3, <3>5, <2>1
      <4> QED
        BY <4>1
    <3>7. \A n \in 1 .. m : s.id + n \in s.id + 1 .. s.id + m
      BY <3>3, <3>5, <2>1
    <3>8. ToSet(s.blocks) = s.id + 1 .. s.id + m
      <4>1. DOMAIN s.blocks = 1 .. m /\ \A n \in 1 .. m : s.blocks[n] = s.id + n
        BY <3>5
      <4>2. \A i \in s.id + 1 .. s.id + m : i \in ToSet(s.blocks)
        BY <4>1, <3>6 DEF ToSet
      <4>3. \A i \in ToSet(s.blocks) : i \in s.id + 1 .. s.id + m
        BY <4>1, <3>7 DEF ToSet
      <4> QED
        BY <4>2, <4>3
    <3>9. \A i \in s.id + 1 .. s.id + m :
            /\ i \notin HeadingsOf
            /\ read[i].kind = "item" =>
                 \E node \in s.lists : node.item = i /\ node.parent = Nearest(OuterAfter(s.id, i))
      BY <3>2, <3>4 DEF HasItsBlocks, HeadingsOf
    <3> QED
      BY <3>1, <3>3, <3>4, <3>5, <3>8, <3>9
  \* The section of a block is that of the last heading before it.
  <2>3. ASSUME NEW k \in DOMAIN sections, NEW i \in ToSet(sections[k].blocks)
        PROVE  sections[k].id = HeadingBefore(i)
    <3>1. PICK p, m : p = sections[k].id /\ m = Len(sections[k].blocks)
      OBVIOUS
    <3>2. /\ p \in 0 .. Len(read) /\ (p # 0 => p \in HeadingsOf) /\ m \in 0 .. Len(read) - p
          /\ i \in p + 1 .. p + m /\ \A j \in p + 1 .. p + m : j \notin HeadingsOf
      BY <3>1, <2>2, <2>3
    <3> DEFINE before == {j \in HeadingsOf : j < i} \union {0}
    <3>3. before \in SUBSET (0 .. Len(read))
      BY <2>1 DEF HeadingsOf
    <3>4. p \in before /\ i \in Nat
      BY <3>2, <2>1
    <3>5. \A y \in before : y <= p
      <4>1. SUFFICES ASSUME NEW y \in before, y > p PROVE FALSE
        BY <3>2, <3>3, <2>1
      <4>2. y \in HeadingsOf /\ y < i /\ y \in 0 .. Len(read)
        BY <4>1, <3>2, <3>3, <2>1
      <4>3. y \in p + 1 .. p + m
        BY <4>1, <4>2, <3>2, <2>1
      <4> QED
        BY <4>2, <4>3, <3>2
    <3> HIDE DEF before
    <3>6. Nearest(before) = p
      BY <3>3, <3>4, <3>5, <2>1, NearestIs
    <3> QED
      BY <3>1, <3>6 DEF before, HeadingBefore
  <2>4. ASSUME NEW i \in DOMAIN read \ HeadingsOf
        PROVE  \E k \in DOMAIN sections :
                 /\ sections[k].id = HeadingBefore(i)
                 /\ i \in ToSet(sections[k].blocks)
                 /\ \A m \in DOMAIN sections \ {k} : i \notin ToSet(sections[m].blocks)
                 /\ read[i].kind = "item" =>
                      LET parent == Nearest({j \in ToSet(sections[k].blocks) :
                                               /\ j < i /\ SameList(j, i)
                                               /\ read[j].level < read[i].level})
                      IN \E node \in sections[k].lists : node.item = i /\ node.parent = parent
    <3>1. PICK k \in DOMAIN sections : i \in ToSet(sections[k].blocks)
      BY <2>0 DEF BlocksAreCovered
    <3>2. sections[k].id = HeadingBefore(i)
      BY <3>1, <2>3
    <3>3. ASSUME NEW m \in DOMAIN sections \ {k} PROVE i \notin ToSet(sections[m].blocks)
      <4>1. SUFFICES ASSUME i \in ToSet(sections[m].blocks) PROVE FALSE
        OBVIOUS
      <4>2. sections[m].id = sections[k].id
        BY <4>1, <3>2, <2>3
      <4>3. m < k \/ k < m
        BY <2>1
      <4>4. sections[m].id < sections[k].id \/ sections[k].id < sections[m].id
        BY <4>3, <2>0 DEF SectionsInOrder
      <4>5. sections[k].id \in Nat
        BY <2>1, <2>2
      <4> QED
        BY <4>2, <4>4, <4>5
    <3>4. PICK p, m : p = sections[k].id /\ m = Len(sections[k].blocks)
      OBVIOUS
    <3>5. /\ p \in 0 .. Len(read) /\ m \in 0 .. Len(read) - p
          /\ ToSet(sections[k].blocks) = p + 1 .. p + m /\ i \in p + 1 .. p + m
      BY <3>1, <3>4, <2>2
    <3>6. {j \in ToSet(sections[k].blocks) : /\ j < i /\ SameList(j, i)
                                             /\ read[j].level < read[i].level} = OuterAfter(p, i)
      <4>1. \A j : j \in p + 1 .. p + m /\ j < i <=> j \in p + 1 .. i - 1
        BY <3>5, <2>1
      <4> QED
        BY <4>1, <3>5 DEF OuterAfter
    <3>7. read[i].kind = "item" =>
            \E node \in sections[k].lists : node.item = i /\ node.parent = Nearest(OuterAfter(p, i))
      BY <3>4, <3>5, <2>2
    <3> QED
      BY <3>1, <3>2, <3>3, <3>6, <3>7
  <2>5. ASSUME NEW k \in DOMAIN sections, NEW n \in 1 .. Len(sections[k].blocks) - 1
        PROVE  sections[k].blocks[n] < sections[k].blocks[n + 1]
    <3>1. PICK p, m : p = sections[k].id /\ m = Len(sections[k].blocks)
      OBVIOUS
    <3>2. /\ p \in 0 .. Len(read) /\ m \in 0 .. Len(read) - p
          /\ \A l \in 1 .. m : sections[k].blocks[l] = p + l
      BY <3>1, <2>2
    <3>3. n \in 1 .. m /\ n + 1 \in 1 .. m /\ p + n < p + (n + 1)
      BY SMTT(20), <3>1, <3>2, <2>1, <2>5
    <3> QED
      BY <3>2, <3>3
  <2> QED
    BY <2>4, <2>5 DEF BlocksKeepTheirPlace
<1> QED
  BY <1>1, DocumentAlways, PTL

-----------------------------------------------------------------------------
(* Chunks: the inductive invariant of the soft target.                      *)

PartRecord == [pieces : SUBSET (Nat \X Nat \X Nat), size : Nat, words : Nat]
Given == [kind : {"line", "header", "row"}, sizes : Seq(Nat)]

ChunkTypeOK ==
  /\ held \in Seq(PartRecord) /\ rows \in Seq(PartRecord) /\ chunks \in Seq(Seq(PartRecord))
  /\ given \in Seq(Given)
  /\ \A n \in DOMAIN given : given[n].kind = "header" => given[n].sizes = <<given[n].sizes[1]>>

\* The table in hand is the last header that was read, and what came after it are its rows.
TableIsLast ==
  /\ stage = "idle" => table = NoTable
  /\ table = NoTable => rows = <<>>
  /\ table # NoTable =>
       /\ Head(todo) = "table" /\ table.line \in DOMAIN given /\ table.header \in Nat
       /\ given[table.line] = [kind |-> "header", sizes |-> <<table.header>>]
       /\ \A n \in DOMAIN given : n > table.line => given[n].kind = "row"

\* The rows that wait fit, with what is held and their header.
RowsFit == rows # <<>> => Heading + table.header + SizeOf(held \o rows) <= Soft

\* A header that no row has followed nor can follow.
LoneHeader(n) ==
  /\ n \in DOMAIN given /\ given[n].kind = "header"
  /\ n < Len(given) => given[n + 1].kind # "row"
  /\ n = Len(given) => table = NoTable

WithinTarget(parts) ==
  \/ Heading + SizeOf(parts) <= Soft
  \/ \E n \in DOMAIN given : LoneHeader(n) /\ parts = <<PartOf(n, 0, given[n].sizes)>>

FailedForHeader ==
  stage = "failed" => \E n \in DOMAIN given : LoneHeader(n) /\ Heading + given[n].sizes[1] > Hard

ChunkInv ==
  /\ ChunkTypeOK /\ TableIsLast /\ RowsFit /\ WithinTarget(held)
  /\ \A k \in DOMAIN chunks : WithinTarget(chunks[k])
  /\ FailedForHeader

-----------------------------------------------------------------------------
(* Sizes.                                                                   *)

LEMMA SizeOfRuns ==
  ASSUME NEW s \in Seq(PartRecord)
  PROVE  \E h : /\ h[1 .. 0] = 0 /\ SizeOf(s) = h[1 .. Len(s)]
                /\ \A n \in 0 .. Len(s) : h[1 .. n] \in Nat
                /\ \A n \in 0 .. Len(s) - 1 : h[1 .. n + 1] = h[1 .. n] + s[n + 1].size
<1> DEFINE step == [x \in Nat \X PartRecord |-> x[1] + x[2].size]
<1>1. step \in [Nat \X PartRecord -> Nat] /\ 0 \in Nat
  BY DEF PartRecord
<1>2. \A n \in Nat, p \in PartRecord : step[<<n, p>>] = n + p.size
  OBVIOUS
<1> HIDE DEF step
<1>3. \E iter : iter = [u \in SUBSET DOMAIN s |->
                          IF u = {} THEN 0 ELSE iter[u \ {Max(u)}] + s[Max(u)].size]
  <2>1. PICK g : g \in FoldsOf(Nat, 0, step, s)
    <3>1. FoldsOf(Nat, 0, step, s) # {}
      BY <1>1, FoldExists, Zenon
    <3> QED
      BY <3>1
  <2>2. /\ g \in [SUBSET DOMAIN s -> Nat]
        /\ \A u \in SUBSET DOMAIN s :
             g[u] = IF u = {} THEN 0 ELSE step[<<g[u \ {Max(u)}], s[Max(u)]>>]
    BY <2>1 DEF FoldsOf
  <2>3. \A u \in SUBSET DOMAIN s :
          g[u] = IF u = {} THEN 0 ELSE g[u \ {Max(u)}] + s[Max(u)].size
    BY <2>2, <1>2, LargestIn
  <2> QED
    BY <2>2, <2>3
<1>4. PICK h : /\ h = [u \in SUBSET DOMAIN s |->
                         IF u = {} THEN 0 ELSE h[u \ {Max(u)}] + s[Max(u)].size]
               /\ SizeOf(s) = h[DOMAIN s]
  <2>1. SizeOf(s) =
          (CHOOSE iter : iter = [u \in SUBSET DOMAIN s |->
                                   IF u = {} THEN 0
                                   ELSE iter[u \ {Max(u)}] + s[Max(u)].size])[DOMAIN s]
    BY DEF SizeOf, FoldLeft, MapThenFoldSet
  <2> QED
    BY <2>1, <1>3
<1>5. h[{}] = 0
  BY <1>4
<1>6. \A u \in SUBSET DOMAIN s :
        u # {} /\ h[u \ {Max(u)}] \in Nat => h[u] = step[<<h[u \ {Max(u)}], s[Max(u)]>>]
  <2>1. SUFFICES ASSUME NEW u \in SUBSET DOMAIN s, u # {}, h[u \ {Max(u)}] \in Nat
                 PROVE  h[u] = step[<<h[u \ {Max(u)}], s[Max(u)]>>]
    OBVIOUS
  <2>2. s[Max(u)] \in PartRecord
    BY <2>1, LargestIn
  <2>3. h[u] = h[u \ {Max(u)}] + s[Max(u)].size
    BY <2>1, <1>4
  <2> QED
    BY <2>1, <2>2, <2>3, <1>2
<1>7. IsRun(h, Nat, 0, step, s)
  BY <1>1, <1>5, <1>6, FoldRuns
<1>8. \A n \in 0 .. Len(s) - 1 : n \in 0 .. Len(s) /\ s[n + 1] \in PartRecord
  OBVIOUS
<1>9. h[1 .. 0] = 0 /\ SizeOf(s) = h[1 .. Len(s)] /\ \A n \in 0 .. Len(s) : h[1 .. n] \in Nat
  BY <1>4, <1>7 DEF IsRun
<1>a. ASSUME NEW n \in 0 .. Len(s) - 1 PROVE h[1 .. n + 1] = h[1 .. n] + s[n + 1].size
  <2>1. h[1 .. n + 1] = step[<<h[1 .. n], s[n + 1]>>]
    BY <1>7 DEF IsRun
  <2> QED
    BY <2>1, <1>2, <1>8, <1>9
<1> QED
  BY <1>9, <1>a

\* Sizes add up.
LEMMA SizeOfType ==
  ASSUME NEW s \in Seq(PartRecord)
  PROVE  SizeOf(s) \in Nat
<1>1. PICK h : SizeOf(s) = h[1 .. Len(s)] /\ \A n \in 0 .. Len(s) : h[1 .. n] \in Nat
  BY SizeOfRuns
<1>2. Len(s) \in 0 .. Len(s)
  OBVIOUS
<1> QED
  BY <1>1, <1>2

LEMMA SizeOfNone == SizeOf(<<>>) = 0
<1>1. <<>> \in Seq(PartRecord) /\ Len(<<>>) = 0
  OBVIOUS
<1>2. PICK h : SizeOf(<<>>) = h[1 .. Len(<<>>)] /\ h[1 .. 0] = 0
  BY <1>1, SizeOfRuns
<1> QED
  BY <1>1, <1>2

LEMMA SizeOfJoined ==
  ASSUME NEW s \in Seq(PartRecord), NEW t \in Seq(PartRecord)
  PROVE  SizeOf(s \o t) = SizeOf(s) + SizeOf(t)
<1>1. /\ Len(s) \in Nat /\ Len(t) \in Nat /\ s \o t \in Seq(PartRecord)
      /\ Len(s \o t) = Len(s) + Len(t)
      /\ \A n \in 0 .. Len(s) - 1 : (s \o t)[n + 1] = s[n + 1]
      /\ \A n \in 0 .. Len(t) - 1 : (s \o t)[Len(s) + (n + 1)] = t[n + 1]
      /\ \A n \in 0 .. Len(t) - 1 : t[n + 1].size \in Nat
      /\ \A n \in 0 .. Len(s) - 1 : s[n + 1].size \in Nat
  <2>1. \A p \in PartRecord : p.size \in Nat
    BY DEF PartRecord
  <2>2. \A n \in 0 .. Len(t) - 1 : n + 1 \in 1 .. Len(t) /\ t[n + 1] \in PartRecord
    OBVIOUS
  <2>3. \A n \in 0 .. Len(s) - 1 : n + 1 \in 1 .. Len(s) /\ s[n + 1] \in PartRecord
    OBVIOUS
  <2> QED
    BY <2>1, <2>2, <2>3
<1>2. PICK f : /\ f[1 .. 0] = 0 /\ SizeOf(s) = f[1 .. Len(s)]
               /\ \A n \in 0 .. Len(s) : f[1 .. n] \in Nat
               /\ \A n \in 0 .. Len(s) - 1 : f[1 .. n + 1] = f[1 .. n] + s[n + 1].size
  BY SizeOfRuns
<1>3. PICK g : /\ g[1 .. 0] = 0 /\ SizeOf(t) = g[1 .. Len(t)]
               /\ \A n \in 0 .. Len(t) : g[1 .. n] \in Nat
               /\ \A n \in 0 .. Len(t) - 1 : g[1 .. n + 1] = g[1 .. n] + t[n + 1].size
  BY SizeOfRuns
<1>4. PICK st \in Seq(PartRecord) : st = s \o t
  BY <1>1
<1>5. PICK h : /\ h[1 .. 0] = 0 /\ SizeOf(st) = h[1 .. Len(st)]
               /\ \A n \in 0 .. Len(st) : h[1 .. n] \in Nat
               /\ \A n \in 0 .. Len(st) - 1 : h[1 .. n + 1] = h[1 .. n] + st[n + 1].size
  BY SizeOfRuns
<1>e. /\ Len(st) = Len(s) + Len(t) /\ Len(s) \in Nat /\ Len(t) \in Nat
      /\ \A n \in 0 .. Len(s) - 1 : st[n + 1] = s[n + 1]
      /\ \A n \in 0 .. Len(t) - 1 : st[Len(s) + (n + 1)] = t[n + 1]
  BY <1>1, <1>4
<1> DEFINE S == {n \in Nat : n <= Len(s) => h[1 .. n] = f[1 .. n]}
           T == {n \in Nat : n <= Len(t) => h[1 .. Len(s) + n] = f[1 .. Len(s)] + g[1 .. n]}
<1>6. 0 \in S
  BY <1>2, <1>5
<1>7. ASSUME NEW n \in Nat, n \in S PROVE n + 1 \in S
  <2>1. SUFFICES ASSUME n + 1 <= Len(s) PROVE h[1 .. n + 1] = f[1 .. n + 1]
    OBVIOUS
  <2>2. /\ n \in 0 .. Len(s) - 1 /\ n \in 0 .. Len(st) - 1 /\ n <= Len(s)
        /\ st[n + 1] = s[n + 1]
    <3>1. n \in 0 .. Len(s) - 1 /\ n \in 0 .. Len(st) - 1 /\ n <= Len(s)
      BY <2>1, <1>e
    <3> QED
      BY <3>1, <1>e
  <2>3. h[1 .. n] = f[1 .. n]
    BY <2>2, <1>7
  <2> QED
    BY <2>2, <2>3, <1>2, <1>5
<1>8. Nat \subseteq S
  <2> HIDE DEF S
  <2> QED
    BY <1>6, <1>7, SetInduction
<1>9. h[1 .. Len(s)] = f[1 .. Len(s)]
  BY <1>1, <1>8
<1>a. 0 \in T
  <2>1. Len(s) + 0 = Len(s) /\ f[1 .. Len(s)] \in Nat
    BY <1>2, <1>e
  <2> QED
    BY <2>1, <1>3, <1>9
<1>b. ASSUME NEW n \in Nat, n \in T PROVE n + 1 \in T
  <2>1. SUFFICES ASSUME n + 1 <= Len(t)
                 PROVE  h[1 .. Len(s) + (n + 1)] = f[1 .. Len(s)] + g[1 .. n + 1]
    OBVIOUS
  <2>2. PICK m : m = Len(s) + n
    OBVIOUS
  <2>3. /\ n \in 0 .. Len(t) - 1 /\ n \in 0 .. Len(t) /\ m \in 0 .. Len(st) - 1 /\ n <= Len(t)
        /\ m + 1 = Len(s) + (n + 1)
    BY <2>1, <2>2, <1>e
  <2>4. st[m + 1] = t[n + 1]
    <3>1. st[Len(s) + (n + 1)] = t[n + 1]
      BY <2>3, <1>e
    <3> QED
      BY <2>3, <3>1
  <2>5. h[1 .. m] = f[1 .. Len(s)] + g[1 .. n]
    BY <2>2, <2>3, <1>b
  <2>6. h[1 .. m + 1] = h[1 .. m] + t[n + 1].size
    BY <2>3, <2>4, <1>5
  <2>7. g[1 .. n + 1] = g[1 .. n] + t[n + 1].size
    BY <2>3, <1>3
  <2>8. /\ f[1 .. Len(s)] \in Nat /\ g[1 .. n] \in Nat /\ t[n + 1].size \in Nat
    BY <2>3, <1>1, <1>2, <1>3
  <2> QED
    BY SMTT(20), <2>3, <2>5, <2>6, <2>7, <2>8
<1>c. Nat \subseteq T
  <2> HIDE DEF T
  <2> QED
    BY <1>a, <1>b, SetInduction
<1>d. h[1 .. Len(s) + Len(t)] = f[1 .. Len(s)] + g[1 .. Len(t)]
  BY <1>1, <1>c
<1> QED
  BY <1>1, <1>2, <1>3, <1>4, <1>5, <1>d

LEMMA SizeOfOne ==
  ASSUME NEW p \in PartRecord
  PROVE  SizeOf(<<p>>) = p.size /\ <<p>> \in Seq(PartRecord)
<1>1. <<p>> \in Seq(PartRecord) /\ Len(<<p>>) = 1 /\ <<p>>[1] = p /\ p.size \in Nat
  BY DEF PartRecord
<1>2. PICK s : s = <<p>>
  OBVIOUS
<1>3. PICK h : /\ h[1 .. 0] = 0 /\ SizeOf(s) = h[1 .. Len(s)]
               /\ \A n \in 0 .. Len(s) - 1 : h[1 .. n + 1] = h[1 .. n] + s[n + 1].size
  BY <1>1, <1>2, SizeOfRuns
<1>4. 0 \in 0 .. Len(s) - 1 /\ 0 + 1 = 1 /\ Len(s) = 1 /\ s[1] = p
  BY <1>1, <1>2
<1>5. h[1 .. 0 + 1] = h[1 .. 0] + s[0 + 1].size
  BY <1>3, <1>4
<1>6. h[1 .. 1] = 0 + p.size
  BY <1>3, <1>4, <1>5
<1> QED
  BY <1>1, <1>2, <1>3, <1>4, <1>6

LEMMA SizeRuns ==
  ASSUME NEW text \in Seq(Nat)
  PROVE  /\ Size(text) \in Nat
         /\ Len(text) = 1 => Size(text) = text[1]
<1>1. Size(text) = Total(text)
  BY DEF Size, Total
<1> QED
  BY <1>1, TotalType

LEMMA SizeOfWord ==
  ASSUME NEW size \in Nat
  PROVE  Size(<<size>>) = size /\ <<size>> \in Seq(Nat)
<1>1. PICK text : text = <<size>>
  OBVIOUS
<1>2. text \in Seq(Nat) /\ Len(text) = 1 /\ text[1] = size
  BY <1>1
<1>3. Size(text) = size
  BY <1>2, SizeRuns
<1> QED
  BY <1>1, <1>2, <1>3

-----------------------------------------------------------------------------
(* Fragments: none is longer than the room it is given.                     *)

FragmentsSoFar(room) == [parts : Seq(0 .. room), size : 0 .. room, words : Nat]

LEMMA TakeKeeps ==
  ASSUME NEW room \in Nat \ {0}, NEW acc \in FragmentsSoFar(room), NEW word \in Nat
  PROVE  Take(room, acc, word) \in FragmentsSoFar(room) /\ Closed(acc) \in Seq(0 .. room)
<1>1. acc.parts \in Seq(0 .. room) /\ acc.size \in 0 .. room /\ acc.words \in Nat
  BY DEF FragmentsSoFar
<1>2. Closed(acc) \in Seq(0 .. room)
  <2>1. Append(acc.parts, acc.size) \in Seq(0 .. room)
    BY <1>1
  <2> QED
    BY <2>1, <1>1 DEF Closed
<1>3. CASE acc.size + word <= room /\ acc.words < MaxWords
  <2>1. Take(room, acc, word) = [acc EXCEPT !.size = @ + word, !.words = @ + 1]
    BY <1>3 DEF Take
  <2>2. acc.size + word \in 0 .. room /\ acc.words + 1 \in Nat
    BY <1>1, <1>3
  <2> QED
    BY <2>1, <2>2, <1>2 DEF FragmentsSoFar
<1>4. CASE ~ (acc.size + word <= room /\ acc.words < MaxWords)
  <2> DEFINE cuts == (word - 1) \div room
             cut == [k \in 1 .. cuts |-> room]
             left == word - cuts * room
  <2>1. Take(room, acc, word) = [parts |-> Closed(acc) \o cut, size |-> left, words |-> 1]
    BY <1>4 DEF Take
  <2>2. cuts \in Int /\ left \in 0 .. room
    OBVIOUS
  <2>3. cut \in Seq(0 .. room)
    <3> HIDE DEF cuts
    <3>1. CASE cuts \in Nat
      <4>1. cut \in [1 .. cuts -> 0 .. room]
        OBVIOUS
      <4> QED
        BY <4>1, <3>1, SeqDef
    <3>2. CASE cuts \notin Nat
      <4>1. 1 .. cuts = {}
        BY <3>2, <2>2
      <4>2. cut = <<>> /\ <<>> \in Seq(0 .. room)
        BY <4>1
      <4> HIDE DEF cut
      <4> QED
        BY <4>2
    <3> QED
      BY <3>1, <3>2
  <2> HIDE DEF cut, left
  <2>4. Closed(acc) \o cut \in Seq(0 .. room)
    BY <2>3, <1>2
  <2> QED
    BY <2>1, <2>2, <2>4, <1>2 DEF FragmentsSoFar
<1> QED
  BY <1>3, <1>4

\* The rounds of _text_fragments.
LEMMA FragmentsRuns ==
  ASSUME NEW text \in Seq(Nat), NEW room \in Nat \ {0}
  PROVE  \E h : /\ h[1 .. 0] = [parts |-> <<>>, size |-> 0, words |-> 0]
                /\ Fragments(text, room) = Closed(h[1 .. Len(text)])
                /\ \A n \in 0 .. Len(text) : h[1 .. n] \in FragmentsSoFar(room)
                /\ \A n \in 0 .. Len(text) - 1 :
                     h[1 .. n + 1] = Take(room, h[1 .. n], text[n + 1])
<1> DEFINE S == FragmentsSoFar(room)
           none == [parts |-> <<>>, size |-> 0, words |-> 0]
           step == [x \in S \X Nat |-> Take(room, x[1], x[2])]
<1>1. /\ step \in [S \X Nat -> S]
      /\ \A acc \in S, word \in Nat : step[<<acc, word>>] = Take(room, acc, word)
  BY TakeKeeps
<1>2. none \in S
  <2>1. <<>> \in Seq(0 .. room)
    OBVIOUS
  <2> QED
    BY <2>1 DEF FragmentsSoFar
<1> HIDE DEF S, none, step
<1>3. \E iter : iter = [u \in SUBSET DOMAIN text |->
                          IF u = {} THEN none ELSE Take(room, iter[u \ {Max(u)}], text[Max(u)])]
  <2>1. PICK g : g \in FoldsOf(S, none, step, text)
    <3>1. FoldsOf(S, none, step, text) # {}
      BY <1>1, <1>2, FoldExists, Zenon
    <3> QED
      BY <3>1
  <2>2. /\ g \in [SUBSET DOMAIN text -> S]
        /\ \A u \in SUBSET DOMAIN text :
             g[u] = IF u = {} THEN none ELSE step[<<g[u \ {Max(u)}], text[Max(u)]>>]
    BY <2>1 DEF FoldsOf
  <2>3. \A u \in SUBSET DOMAIN text :
          g[u] = IF u = {} THEN none ELSE Take(room, g[u \ {Max(u)}], text[Max(u)])
    BY <2>2, <1>1, LargestIn
  <2> QED
    BY <2>2, <2>3
<1>4. PICK h : /\ h = [u \in SUBSET DOMAIN text |->
                         IF u = {} THEN none ELSE Take(room, h[u \ {Max(u)}], text[Max(u)])]
               /\ Fragments(text, room) = Closed(h[DOMAIN text])
  <2>1. Fragments(text, room) =
          Closed((CHOOSE iter : iter = [u \in SUBSET DOMAIN text |->
                                   IF u = {} THEN none
                                   ELSE Take(room, iter[u \ {Max(u)}], text[Max(u)])])[DOMAIN text])
    BY DEF Fragments, FoldLeft, MapThenFoldSet, none
  <2> QED
    BY <2>1, <1>3
<1>5. h[{}] = none
  BY <1>4
<1>6. \A u \in SUBSET DOMAIN text :
        u # {} /\ h[u \ {Max(u)}] \in S => h[u] = step[<<h[u \ {Max(u)}], text[Max(u)]>>]
  <2>1. SUFFICES ASSUME NEW u \in SUBSET DOMAIN text, u # {}, h[u \ {Max(u)}] \in S
                 PROVE  h[u] = step[<<h[u \ {Max(u)}], text[Max(u)]>>]
    OBVIOUS
  <2>2. text[Max(u)] \in Nat
    BY <2>1, LargestIn
  <2>3. h[u] = Take(room, h[u \ {Max(u)}], text[Max(u)])
    BY <2>1, <1>4
  <2> QED
    BY <2>1, <2>2, <2>3, <1>1
<1>7. /\ h[1 .. 0] = none /\ h[DOMAIN text] = h[1 .. Len(text)]
      /\ \A n \in 0 .. Len(text) : h[1 .. n] \in S
      /\ \A n \in 0 .. Len(text) - 1 : h[1 .. n + 1] = step[<<h[1 .. n], text[n + 1]>>]
  <2>1. IsRun(h, S, none, step, text)
    BY <1>1, <1>2, <1>5, <1>6, FoldRuns
  <2> QED
    BY <2>1 DEF IsRun
<1>8. \A n \in 0 .. Len(text) - 1 : n \in 0 .. Len(text) /\ text[n + 1] \in Nat
  OBVIOUS
<1>9. \A n \in 0 .. Len(text) - 1 : h[1 .. n + 1] = Take(room, h[1 .. n], text[n + 1])
  BY <1>1, <1>7, <1>8
<1> QED
  BY <1>4, <1>7, <1>9 DEF S, none

LEMMA FragmentsFit ==
  ASSUME NEW text \in Seq(Nat), NEW room \in Nat \ {0}
  PROVE  Fragments(text, room) \in Seq(0 .. room)
<1>1. PICK h : /\ Fragments(text, room) = Closed(h[1 .. Len(text)])
               /\ \A n \in 0 .. Len(text) : h[1 .. n] \in FragmentsSoFar(room)
  BY FragmentsRuns
<1>2. Len(text) \in 0 .. Len(text)
  OBVIOUS
<1>3. \A acc \in FragmentsSoFar(room) : Closed(acc) \in Seq(0 .. room)
  BY TakeKeeps
<1> QED
  BY <1>1, <1>2, <1>3

-----------------------------------------------------------------------------
(* Parts.                                                                   *)

\* The parts that make a chunk of their own within the soft target.
FittingPart == {p \in PartRecord : Heading + p.size <= Soft}

LEMMA PartTypes ==
  /\ \A pieces \in SUBSET (Nat \X Nat \X Nat), size, words \in Nat :
       /\ Part(pieces, size, words) \in PartRecord /\ Part(pieces, size, words).size = size
       /\ Part(pieces, size, words).words = words
  /\ \A p, q \in PartRecord : Joined(p, q) \in PartRecord /\ Joined(p, q).size = p.size + q.size
  /\ \A p \in PartRecord : p.size \in Nat /\ p.words \in Nat
<1>1. \A pieces \in SUBSET (Nat \X Nat \X Nat), size, words \in Nat :
        Part(pieces, size, words) \in PartRecord
  BY DEF Part, PartRecord
<1>2. \A pieces, size, words : /\ Part(pieces, size, words).size = size
                               /\ Part(pieces, size, words).words = words
  BY DEF Part
<1>3. ASSUME NEW p \in PartRecord, NEW q \in PartRecord
      PROVE  Joined(p, q) \in PartRecord /\ Joined(p, q).size = p.size + q.size
  <2>1. /\ p.pieces \union q.pieces \in SUBSET (Nat \X Nat \X Nat)
        /\ p.size + q.size \in Nat /\ p.words + q.words \in Nat
    BY DEF PartRecord
  <2> QED
    BY <2>1, <1>1, <1>2 DEF Joined
<1>4. \A p \in PartRecord : p.size \in Nat /\ p.words \in Nat
  BY DEF PartRecord
<1> QED
  BY <1>1, <1>2, <1>3, <1>4

LEMMA PartOfType ==
  ASSUME NEW n \in Nat, NEW piece \in Nat, NEW text \in Seq(Nat)
  PROVE  PartOf(n, piece, text) \in PartRecord /\ PartOf(n, piece, text).size = Size(text)
<1>1. Size(text) \in Nat /\ Len(text) \in Nat
  BY SizeRuns
<1>2. {<<n, piece, Size(text)>>} \in SUBSET (Nat \X Nat \X Nat)
  BY <1>1
<1> QED
  BY <1>1, <1>2, PartTypes DEF PartOf

\* Fragments under a context that leaves room for them fit with it.
LEMMA SpreadFits ==
  ASSUME NEW n \in Nat, NEW piece \in Nat, NEW text \in Seq(Nat), NEW context \in PartRecord,
         Heading + context.size < Soft
  PROVE  Spread(n, piece, text, context) \in Seq(FittingPart)
<1> DEFINE room == Soft - Heading - context.size
           fs == Fragments(text, room)
           part(k) == Joined(context, Part({<<n, piece, fs[k]>>}, fs[k], 1))
<1>1. /\ Heading \in Nat /\ Soft \in Nat /\ context.size \in Nat /\ room \in Nat \ {0}
      /\ \A size \in 0 .. room : size \in Nat /\ Heading + (context.size + size) <= Soft
  <2>1. Heading \in Nat /\ Soft \in Nat /\ context.size \in Nat
    BY ChunkingAssumption, PartTypes
  <2> QED
    BY <2>1
<1>2. fs \in Seq(0 .. room)
  <2> HIDE DEF room
  <2> QED
    BY <1>1, FragmentsFit
<1>3. Spread(n, piece, text, context) = [k \in DOMAIN fs |-> part(k)]
  BY DEF Spread
<1> HIDE DEF fs, room
<1>4. ASSUME NEW k \in DOMAIN fs PROVE part(k) \in FittingPart
  <2>1. fs[k] \in 0 .. room
    <3>1. k \in 1 .. Len(fs)
      BY <1>2, <1>4, LenProperties
    <3> QED
      BY <3>1, <1>2, ElementOfSeq
  <2>2. {<<n, piece, fs[k]>>} \in SUBSET (Nat \X Nat \X Nat) /\ fs[k] \in Nat
    BY SMTT(20), <2>1, <1>1
  <2>3. /\ Part({<<n, piece, fs[k]>>}, fs[k], 1) \in PartRecord
        /\ Part({<<n, piece, fs[k]>>}, fs[k], 1).size = fs[k]
    BY <2>2, PartTypes
  <2>4. part(k) \in PartRecord /\ part(k).size = context.size + fs[k]
    BY <2>3, PartTypes
  <2> HIDE DEF part
  <2> QED
    BY <2>1, <2>4, <1>1 DEF FittingPart
<1> HIDE DEF part
<1>5. Len(fs) \in Nat /\ DOMAIN fs = 1 .. Len(fs)
  BY <1>2
<1>6. [k \in DOMAIN fs |-> part(k)] \in [1 .. Len(fs) -> FittingPart]
  BY <1>4, <1>5
<1> QED
  BY <1>3, <1>5, <1>6, SeqDef

-----------------------------------------------------------------------------
(* Rows.                                                                    *)

LEMMA HeaderPartType ==
  ASSUME table.line \in Nat, table.header \in Nat
  PROVE  /\ HeaderPart \in PartRecord /\ HeaderPart.size = table.header
         /\ Separators \in PartRecord /\ Separators.size = Bars
<1>1. Size(<<table.header>>) = table.header /\ <<table.header>> \in Seq(Nat)
  BY SizeOfWord
<1>2. Bars \in Nat /\ {} \in SUBSET (Nat \X Nat \X Nat) /\ 0 \in Nat
  BY ChunkingAssumption
<1>3. HeaderPart \in PartRecord /\ HeaderPart.size = table.header
  BY <1>1, <1>2, PartOfType DEF HeaderPart
<1>4. Separators \in PartRecord /\ Separators.size = Bars
  BY <1>2, PartTypes DEF Separators
<1> QED
  BY <1>3, <1>4

\* The row as one part.
Whole(n, row) == FoldLeft(Joined, Separators, [c \in DOMAIN row |-> PartOf(n, c, row[c])])

LEMMA WholeRuns ==
  ASSUME NEW n \in Nat, NEW row \in Seq(Seq(Nat))
  PROVE  \E h : /\ h[1 .. 0] = Separators /\ Whole(n, row) = h[1 .. Len(row)]
                /\ \A i \in 0 .. Len(row) : h[1 .. i] \in PartRecord
                /\ \A i \in 0 .. Len(row) - 1 :
                     h[1 .. i + 1] = Joined(h[1 .. i], PartOf(n, i + 1, row[i + 1]))
<1> DEFINE cells == [c \in DOMAIN row |-> PartOf(n, c, row[c])]
           step == [x \in PartRecord \X PartRecord |-> Joined(x[1], x[2])]
<1>1. /\ step \in [PartRecord \X PartRecord -> PartRecord]
      /\ \A p, q \in PartRecord : step[<<p, q>>] = Joined(p, q)
  BY PartTypes
<1>2. cells \in Seq(PartRecord) /\ Separators \in PartRecord
  <2>1. \A c \in DOMAIN row : c \in Nat /\ row[c] \in Seq(Nat)
    OBVIOUS
  <2>2. \A c \in DOMAIN row : PartOf(n, c, row[c]) \in PartRecord
    BY <2>1, PartOfType
  <2>3. DOMAIN row = 1 .. Len(row) /\ Len(row) \in Nat
    OBVIOUS
  <2>4. cells \in [1 .. Len(row) -> PartRecord]
    BY <2>2, <2>3
  <2>5. Bars \in Nat /\ {} \in SUBSET (Nat \X Nat \X Nat)
    BY ChunkingAssumption
  <2>6. Separators \in PartRecord
    BY <2>5, PartTypes DEF Separators
  <2> QED
    BY <2>3, <2>4, <2>6, SeqDef
<1>8. Whole(n, row) = FoldLeft(Joined, Separators, cells)
  BY DEF Whole
<1>a. Len(cells) = Len(row) /\ \A i \in 0 .. Len(row) - 1 : cells[i + 1] = PartOf(n, i + 1, row[i + 1])
  <2>1. DOMAIN row = 1 .. Len(row) /\ Len(row) \in Nat
    OBVIOUS
  <2>2. DOMAIN cells = 1 .. Len(row)
    BY <2>1
  <2>3. \A i \in 0 .. Len(row) - 1 : i + 1 \in DOMAIN row
    BY <2>1
  <2>4. Len(cells) = Len(row)
    <3> HIDE DEF cells
    <3> QED
      BY <2>1, <2>2, <1>2
  <2> QED
    BY <2>3, <2>4
<1> HIDE DEF cells, step
<1>3. \E iter : iter = [u \in SUBSET DOMAIN cells |->
                          IF u = {} THEN Separators ELSE Joined(iter[u \ {Max(u)}], cells[Max(u)])]
  <2>1. PICK g : g \in FoldsOf(PartRecord, Separators, step, cells)
    <3>1. FoldsOf(PartRecord, Separators, step, cells) # {}
      BY <1>1, <1>2, FoldExists, Zenon
    <3> QED
      BY <3>1
  <2>2. /\ g \in [SUBSET DOMAIN cells -> PartRecord]
        /\ \A u \in SUBSET DOMAIN cells :
             g[u] = IF u = {} THEN Separators ELSE step[<<g[u \ {Max(u)}], cells[Max(u)]>>]
    BY <2>1 DEF FoldsOf
  <2>3. \A u \in SUBSET DOMAIN cells :
          g[u] = IF u = {} THEN Separators ELSE Joined(g[u \ {Max(u)}], cells[Max(u)])
    BY <2>2, <1>1, <1>2, LargestIn
  <2> QED
    BY <2>2, <2>3
<1>4. PICK h : /\ h = [u \in SUBSET DOMAIN cells |->
                         IF u = {} THEN Separators ELSE Joined(h[u \ {Max(u)}], cells[Max(u)])]
               /\ FoldLeft(Joined, Separators, cells) = h[DOMAIN cells]
  <2>1. FoldLeft(Joined, Separators, cells) =
          (CHOOSE iter : iter = [u \in SUBSET DOMAIN cells |->
                                   IF u = {} THEN Separators
                                   ELSE Joined(iter[u \ {Max(u)}], cells[Max(u)])])[DOMAIN cells]
    BY DEF FoldLeft, MapThenFoldSet
  <2> QED
    BY <2>1, <1>3
<1>5. h[{}] = Separators
  BY <1>4
<1>6. \A u \in SUBSET DOMAIN cells :
        u # {} /\ h[u \ {Max(u)}] \in PartRecord => h[u] = step[<<h[u \ {Max(u)}], cells[Max(u)]>>]
  <2>1. SUFFICES ASSUME NEW u \in SUBSET DOMAIN cells, u # {}, h[u \ {Max(u)}] \in PartRecord
                 PROVE  h[u] = step[<<h[u \ {Max(u)}], cells[Max(u)]>>]
    OBVIOUS
  <2>2. cells[Max(u)] \in PartRecord
    BY <2>1, <1>2, LargestIn
  <2>3. h[u] = Joined(h[u \ {Max(u)}], cells[Max(u)])
    BY <2>1, <1>4
  <2> QED
    BY <2>1, <2>2, <2>3, <1>1
<1>7. /\ h[1 .. 0] = Separators /\ h[DOMAIN cells] = h[1 .. Len(row)]
      /\ \A i \in 0 .. Len(row) : h[1 .. i] \in PartRecord
      /\ \A i \in 0 .. Len(row) - 1 : h[1 .. i + 1] = step[<<h[1 .. i], cells[i + 1]>>]
  <2>1. IsRun(h, PartRecord, Separators, step, cells)
    BY <1>1, <1>2, <1>5, <1>6, FoldRuns
  <2> QED
    BY <2>1, <1>a DEF IsRun
<1>9. \A i \in 0 .. Len(row) - 1 : i \in 0 .. Len(row) /\ cells[i + 1] \in PartRecord
  BY <1>2, <1>a
<1>b. \A i \in 0 .. Len(row) - 1 : h[1 .. i + 1] = Joined(h[1 .. i], PartOf(n, i + 1, row[i + 1]))
  BY <1>1, <1>7, <1>9, <1>a
<1> QED
  BY <1>4, <1>7, <1>8, <1>b

LEMMA WholeType ==
  ASSUME NEW n \in Nat, NEW row \in Seq(Seq(Nat)), NEW line, line = Whole(n, row)
  PROVE  line \in PartRecord
<1>1. Len(row) \in 0 .. Len(row)
  OBVIOUS
<1> QED
  BY <1>1, WholeRuns

LEMMA PlacesType ==
  ASSUME NEW row \in Seq(Seq(Nat)), row # <<>>
  PROVE  /\ Places(row) \in Seq(DOMAIN row) /\ Tail(Places(row)) \in Seq(DOMAIN row)
         /\ \A c \in DOMAIN row : c \in Nat /\ row[c] \in Seq(Nat)
         /\ 1 \in DOMAIN row
<1>1. DOMAIN row = 1 .. Len(row) /\ Len(row) \in Nat /\ Len(row) # 0
  BY EmptySeq
<1>2. Places(row) \in [1 .. Len(row) -> DOMAIN row]
  BY <1>1 DEF Places
<1>3. Places(row) \in Seq(DOMAIN row) /\ Places(row) # <<>>
  <2>0. DOMAIN Places(row) = 1 .. Len(row)
    BY <1>2
  <2>1. Places(row) \in Seq(DOMAIN row)
    <3>1. PICK E, m, f : E = DOMAIN row /\ m = Len(row) /\ f = Places(row)
      OBVIOUS
    <3>2. m \in Nat /\ f \in [1 .. m -> E]
      BY <3>1, <1>1, <1>2
    <3>3. f \in Seq(E)
      BY <3>2, SeqDef
    <3> QED
      BY <3>1, <3>3
  <2>2. 1 \in DOMAIN Places(row)
    BY <2>0, <1>1
  <2> QED
    BY <2>1, <2>2
<1>4. Tail(Places(row)) \in Seq(DOMAIN row)
  BY <1>3
<1> QED
  BY <1>1, <1>3, <1>4

LEMMA PlacesAre ==
  ASSUME NEW row \in Seq(Seq(Nat)), row # <<>>
  PROVE  /\ Len(row) \in Nat \ {0}
         /\ Len(Places(row)) = Len(row) /\ Len(Tail(Places(row))) = Len(row) - 1
         /\ \A i \in 0 .. Len(row) - 1 : i + 1 \in DOMAIN row /\ Places(row)[i + 1] = i + 1
         /\ \A i \in 0 .. Len(row) - 2 : /\ i + 2 \in DOMAIN row
                                         /\ Tail(Places(row))[i + 1] = i + 2
<1>1. PICK m, f, t : m = Len(row) /\ f = Places(row) /\ t = Tail(f)
  OBVIOUS
<1>2. m \in Nat \ {0} /\ DOMAIN row = 1 .. m
  BY <1>1, EmptySeq
<1>3. DOMAIN f = 1 .. m /\ \A c \in 1 .. m : f[c] = c
  BY <1>1, <1>2 DEF Places
<1>4. f \in [1 .. m -> Nat]
  <2>1. f = [c \in 1 .. m |-> c]
    BY <1>1, <1>2 DEF Places
  <2> QED
    BY <2>1
<1>5. f \in Seq(Nat) /\ Len(f) = m
  <2>1. f \in Seq(Nat)
    BY <1>2, <1>4, SeqDef
  <2> QED
    BY <2>1, <1>2, <1>3
<1>6. f # <<>>
  BY <1>2, <1>5
<1>7. Len(t) = m - 1 /\ \A i \in 1 .. m - 1 : t[i] = f[i + 1]
  BY <1>1, <1>5, <1>6
<1>8. \A i \in 0 .. m - 1 : i + 1 \in 1 .. m
  BY <1>2
<1>9. \A i \in 0 .. m - 2 : i + 2 \in 1 .. m /\ t[i + 1] = i + 2
  <2>1. \A i \in 0 .. m - 2 : i + 1 \in 1 .. m - 1 /\ i + 2 \in 1 .. m /\ (i + 1) + 1 = i + 2
    BY <1>2
  <2> QED
    BY <2>1, <1>3, <1>7
<1> QED
  BY <1>1, <1>2, <1>3, <1>5, <1>7, <1>8, <1>9

\* The rounds of the cells under their coordinates.
IsSpreadRun(h, n, row) ==
  /\ h[1 .. 0] = Spread(table.line, 0, <<table.header>>, Part({}, Anchor, 0))
  /\ ByCoordinates(n, row) = h[1 .. Len(row)]
  /\ \A i \in 0 .. Len(row) : h[1 .. i] \in Seq(FittingPart)
  /\ \A i \in 0 .. Len(row) - 1 :
       h[1 .. i + 1] = h[1 .. i] \o Spread(n, i + 1, row[i + 1], Part({}, Anchor, 0))

LEMMA ByCoordinatesRuns ==
  ASSUME NEW n \in Nat, NEW row \in Seq(Seq(Nat)), row # <<>>,
         table.line \in Nat, table.header \in Nat
  PROVE  \E h : IsSpreadRun(h, n, row)
<1> DEFINE at == Part({}, Anchor, 0)
           S == Seq(FittingPart)
           first == Spread(table.line, 0, <<table.header>>, at)
           places == Places(row)
           more(ps, c) == ps \o Spread(n, c, row[c], at)
           step == [x \in S \X DOMAIN row |-> more(x[1], x[2])]
<1>0. at \in PartRecord /\ Heading + at.size < Soft
  <2>1. Anchor \in Nat /\ {} \in SUBSET (Nat \X Nat \X Nat) /\ 0 \in Nat /\ Heading + Anchor < Soft
    BY ChunkingAssumption
  <2> QED
    BY <2>1, PartTypes
<1> HIDE DEF at
<1>1. /\ step \in [S \X DOMAIN row -> S]
      /\ \A ps \in S, c \in DOMAIN row : step[<<ps, c>>] = more(ps, c)
  <2>1. \A c \in DOMAIN row : Spread(n, c, row[c], at) \in Seq(FittingPart)
    BY <1>0, PlacesType, SpreadFits
  <2>2. \A ps \in S, c \in DOMAIN row : more(ps, c) \in S
    BY <2>1
  <2> HIDE DEF S
  <2> QED
    BY <2>2
<1>2. first \in S /\ places \in Seq(DOMAIN row)
  BY <1>0, SizeOfWord, SpreadFits, PlacesType
<1>8. ByCoordinates(n, row) = FoldLeft(more, first, places)
  BY DEF ByCoordinates, at
<1>a. Len(places) = Len(row) /\ \A i \in 0 .. Len(row) - 1 : i + 1 \in DOMAIN row /\ places[i + 1] = i + 1
  BY PlacesAre
<1> HIDE DEF S, first, places, step
<1>3. \E iter : iter = [u \in SUBSET DOMAIN places |->
                          IF u = {} THEN first ELSE more(iter[u \ {Max(u)}], places[Max(u)])]
  <2>1. PICK g : g \in FoldsOf(S, first, step, places)
    <3>1. FoldsOf(S, first, step, places) # {}
      BY <1>1, <1>2, FoldExists, Zenon
    <3> QED
      BY <3>1
  <2>2. /\ g \in [SUBSET DOMAIN places -> S]
        /\ \A u \in SUBSET DOMAIN places :
             g[u] = IF u = {} THEN first ELSE step[<<g[u \ {Max(u)}], places[Max(u)]>>]
    BY <2>1 DEF FoldsOf
  <2>3. \A u \in SUBSET DOMAIN places :
          g[u] = IF u = {} THEN first ELSE more(g[u \ {Max(u)}], places[Max(u)])
    BY <2>2, <1>1, <1>2, LargestIn
  <2> QED
    BY <2>2, <2>3
<1>4. PICK h : /\ h = [u \in SUBSET DOMAIN places |->
                         IF u = {} THEN first ELSE more(h[u \ {Max(u)}], places[Max(u)])]
               /\ FoldLeft(more, first, places) = h[DOMAIN places]
  <2>1. FoldLeft(more, first, places) =
          (CHOOSE iter : iter = [u \in SUBSET DOMAIN places |->
                                   IF u = {} THEN first
                                   ELSE more(iter[u \ {Max(u)}], places[Max(u)])])[DOMAIN places]
    BY DEF FoldLeft, MapThenFoldSet
  <2> QED
    BY <2>1, <1>3
<1>5. h[{}] = first
  BY <1>4
<1>6. \A u \in SUBSET DOMAIN places :
        u # {} /\ h[u \ {Max(u)}] \in S => h[u] = step[<<h[u \ {Max(u)}], places[Max(u)]>>]
  <2>1. SUFFICES ASSUME NEW u \in SUBSET DOMAIN places, u # {}, h[u \ {Max(u)}] \in S
                 PROVE  h[u] = step[<<h[u \ {Max(u)}], places[Max(u)]>>]
    OBVIOUS
  <2>2. places[Max(u)] \in DOMAIN row
    BY <2>1, <1>2, LargestIn
  <2>3. h[u] = more(h[u \ {Max(u)}], places[Max(u)])
    BY <2>1, <1>4
  <2> QED
    BY <2>1, <2>2, <2>3, <1>1
<1>7. /\ h[1 .. 0] = first /\ h[DOMAIN places] = h[1 .. Len(row)]
      /\ \A i \in 0 .. Len(row) : h[1 .. i] \in S
      /\ \A i \in 0 .. Len(row) - 1 : h[1 .. i + 1] = step[<<h[1 .. i], places[i + 1]>>]
  <2>1. IsRun(h, S, first, step, places)
    BY <1>1, <1>2, <1>5, <1>6, FoldRuns
  <2> QED
    BY <2>1, <1>a DEF IsRun
<1>9. \A i \in 0 .. Len(row) - 1 : i \in 0 .. Len(row)
  BY PlacesAre
<1>b. ASSUME NEW i \in 0 .. Len(row) - 1
      PROVE  h[1 .. i + 1] = h[1 .. i] \o Spread(n, i + 1, row[i + 1], at)
  <2>1. h[1 .. i + 1] = more(h[1 .. i], i + 1)
    <3> HIDE DEF more
    <3> QED
      BY <1>1, <1>7, <1>9, <1>a
  <2> QED
    BY <2>1
<1> QED
  BY <1>4, <1>7, <1>8, <1>b DEF S, first, at, IsSpreadRun

\* Spread out under its coordinates, a row is in fitting parts.
LEMMA ByCoordinatesFits ==
  ASSUME NEW n \in Nat, NEW row \in Seq(Seq(Nat)), row # <<>>,
         table.line \in Nat, table.header \in Nat
  PROVE  ByCoordinates(n, row) \in Seq(FittingPart)
<1>1. Len(row) \in 0 .. Len(row)
  OBVIOUS
<1>2. PICK h : IsSpreadRun(h, n, row)
  BY ByCoordinatesRuns
<1> QED
  BY <1>1, <1>2 DEF IsSpreadRun

\* Under the headers and the key: what is open and what is closed so far fit.
RowSoFar == [parts : Seq(FittingPart), open : FittingPart]

LEMMA PlaceFits ==
  ASSUME NEW n \in Nat, NEW row \in Seq(Seq(Nat)), row # <<>>, NEW c \in DOMAIN row,
         NEW key, key = Key(n, row), key \in PartRecord, Heading + key.size < Soft,
         NEW acc \in RowSoFar
  PROVE  Place(n, row, acc, c) \in RowSoFar
<1>1. /\ acc.parts \in Seq(FittingPart) /\ acc.open \in FittingPart /\ acc.open \in PartRecord
      /\ Heading \in Nat /\ Soft \in Nat /\ key.size \in Nat /\ key \in FittingPart
  <2>1. Heading \in Nat /\ Soft \in Nat /\ key.size \in Nat
    BY ChunkingAssumption, PartTypes
  <2>2. Heading + key.size <= Soft
    BY <2>1
  <2> QED
    BY <2>1, <2>2 DEF RowSoFar, FittingPart
<1>2. c \in Nat /\ row[c] \in Seq(Nat)
  BY PlacesType
<1> DEFINE cell == PartOf(n, c, row[c])
           alone == Joined(key, cell)
           joined == Joined(acc.open, cell)
           closed == IF acc.open = key THEN acc.parts ELSE Append(acc.parts, acc.open)
           row_words == joined.words - HeaderPart.words
           spread == Spread(n, c, row[c], key)
<1>3. cell \in PartRecord
  BY <1>2, PartOfType
<1> HIDE DEF cell
<1>4. alone \in PartRecord /\ joined \in PartRecord
  BY <1>1, <1>3, PartTypes
<1>5. closed \in Seq(FittingPart) /\ spread \in Seq(FittingPart)
  BY <1>1, <1>2, SpreadFits
<1>6. Place(n, row, acc, c) =
        IF row[c] = <<>> THEN acc
        ELSE IF Len(row[c]) > MaxWords \/ Heading + alone.size > Soft
        THEN [parts |-> closed \o spread, open |-> key]
        ELSE IF acc.open = key \/ (row_words <= MaxWords /\ Heading + joined.size <= Soft)
        THEN [acc EXCEPT !.open = joined]
        ELSE [parts |-> closed, open |-> alone]
  BY DEF Place, cell
<1>7. ~ (Heading + alone.size > Soft) => alone \in FittingPart
  <2>1. alone.size \in Nat
    BY <1>4, PartTypes
  <2> HIDE DEF alone
  <2> QED
    BY <2>1, <1>1, <1>4 DEF FittingPart
<1>8. Heading + joined.size <= Soft => joined \in FittingPart
  BY <1>4 DEF FittingPart
<1>9. acc.open = key => joined = alone
  OBVIOUS
<1>a. [parts |-> closed \o spread, open |-> key] \in RowSoFar
  <2> HIDE DEF closed, spread
  <2> QED
    BY <1>1, <1>5 DEF RowSoFar
<1> HIDE DEF joined, alone, closed, spread, row_words
<1>b. joined \in FittingPart => [acc EXCEPT !.open = joined] \in RowSoFar
  BY DEF RowSoFar
<1>c. alone \in FittingPart => [parts |-> closed, open |-> alone] \in RowSoFar
  BY <1>5 DEF RowSoFar
<1>d. CASE row[c] = <<>>
  BY <1>d, <1>6
<1>e. CASE row[c] # <<>> /\ (Len(row[c]) > MaxWords \/ Heading + alone.size > Soft)
  BY <1>e, <1>6, <1>a
<1>f. CASE row[c] # <<>> /\ ~ (Len(row[c]) > MaxWords \/ Heading + alone.size > Soft)
  <2>1. alone \in FittingPart
    BY <1>f, <1>7
  <2>2. CASE acc.open = key \/ (row_words <= MaxWords /\ Heading + joined.size <= Soft)
    <3>1. joined \in FittingPart
      BY <2>1, <2>2, <1>8, <1>9
    <3> QED
      BY <3>1, <2>2, <1>6, <1>b, <1>f
  <2>3. CASE ~ (acc.open = key \/ (row_words <= MaxWords /\ Heading + joined.size <= Soft))
    BY <2>1, <2>3, <1>6, <1>c, <1>f
  <2> QED
    BY <2>2, <2>3
<1> QED
  BY <1>d, <1>e, <1>f

\* The last part is closed too, unless it is the key and nothing but.
LastClosed(acc, key) ==
  IF acc.open # key \/ acc.parts = <<>> THEN Append(acc.parts, acc.open) ELSE acc.parts

\* The rounds of the cells under their key.
IsRowRun(h, n, row, key) ==
  /\ h[1 .. 0] = [parts |-> <<>>, open |-> key]
  /\ ByKey(n, row) = LastClosed(h[1 .. Len(row) - 1], key)
  /\ \A i \in 0 .. Len(row) - 1 : h[1 .. i] \in RowSoFar
  /\ \A i \in 0 .. Len(row) - 2 : h[1 .. i + 1] = Place(n, row, h[1 .. i], i + 2)

LEMMA ByKeyRuns ==
  ASSUME NEW n \in Nat, NEW row \in Seq(Seq(Nat)), row # <<>>,
         NEW key, key = Key(n, row), key \in PartRecord, Heading + key.size < Soft
  PROVE  \E h : IsRowRun(h, n, row, key)
<1> DEFINE S == RowSoFar
           first == [parts |-> <<>>, open |-> key]
           places == Tail(Places(row))
           step == [x \in S \X DOMAIN row |-> Place(n, row, x[1], x[2])]
           more(acc, c) == Place(n, row, acc, c)
<1>1. /\ step \in [S \X DOMAIN row -> S]
      /\ \A acc \in S, c \in DOMAIN row : step[<<acc, c>>] = more(acc, c)
  BY PlaceFits
<1>2. first \in S /\ places \in Seq(DOMAIN row)
  <2>1. <<>> \in Seq(FittingPart)
    OBVIOUS
  <2>2. Heading \in Nat /\ Soft \in Nat /\ key.size \in Nat
    BY ChunkingAssumption, PartTypes
  <2>3. key \in FittingPart
    BY <2>2 DEF FittingPart
  <2> QED
    BY <2>1, <2>3, PlacesType DEF RowSoFar
<1> DEFINE all == FoldLeft(more, first, places)
<1>8. ByKey(n, row) = IF all.open # key \/ all.parts = <<>> THEN Append(all.parts, all.open)
                      ELSE all.parts
  BY DEF ByKey
<1>a. /\ Len(row) \in Nat \ {0} /\ Len(places) = Len(row) - 1 /\ Len(places) - 1 = Len(row) - 2
      /\ \A i \in 0 .. Len(row) - 2 : /\ i + 2 \in DOMAIN row /\ places[i + 1] = i + 2
                                      /\ i \in 0 .. Len(row) - 1
  <2>1. /\ Len(row) \in Nat \ {0} /\ Len(places) = Len(row) - 1
        /\ \A i \in 0 .. Len(row) - 2 : i + 2 \in DOMAIN row /\ places[i + 1] = i + 2
    BY PlacesAre
  <2> HIDE DEF places
  <2>2. /\ Len(places) - 1 = Len(row) - 2
        /\ \A i \in 0 .. Len(row) - 2 : i \in 0 .. Len(row) - 1
    BY <2>1
  <2> QED
    BY <2>1, <2>2
<1> HIDE DEF S, first, places, step
<1>3. \E iter : iter = [u \in SUBSET DOMAIN places |->
                          IF u = {} THEN first ELSE more(iter[u \ {Max(u)}], places[Max(u)])]
  <2>1. PICK g : g \in FoldsOf(S, first, step, places)
    <3>1. FoldsOf(S, first, step, places) # {}
      BY <1>1, <1>2, FoldExists, Zenon
    <3> QED
      BY <3>1
  <2>2. /\ g \in [SUBSET DOMAIN places -> S]
        /\ \A u \in SUBSET DOMAIN places :
             g[u] = IF u = {} THEN first ELSE step[<<g[u \ {Max(u)}], places[Max(u)]>>]
    BY <2>1 DEF FoldsOf
  <2>3. \A u \in SUBSET DOMAIN places :
          g[u] = IF u = {} THEN first ELSE more(g[u \ {Max(u)}], places[Max(u)])
    BY <2>2, <1>1, <1>2, LargestIn
  <2> QED
    BY <2>2, <2>3
<1>4. PICK h : /\ h = [u \in SUBSET DOMAIN places |->
                         IF u = {} THEN first ELSE more(h[u \ {Max(u)}], places[Max(u)])]
               /\ FoldLeft(more, first, places) = h[DOMAIN places]
  <2>1. FoldLeft(more, first, places) =
          (CHOOSE iter : iter = [u \in SUBSET DOMAIN places |->
                                   IF u = {} THEN first
                                   ELSE more(iter[u \ {Max(u)}], places[Max(u)])])[DOMAIN places]
    BY DEF FoldLeft, MapThenFoldSet
  <2> QED
    BY <2>1, <1>3
<1>5. h[{}] = first
  BY <1>4
<1>6. \A u \in SUBSET DOMAIN places :
        u # {} /\ h[u \ {Max(u)}] \in S => h[u] = step[<<h[u \ {Max(u)}], places[Max(u)]>>]
  <2>1. SUFFICES ASSUME NEW u \in SUBSET DOMAIN places, u # {}, h[u \ {Max(u)}] \in S
                 PROVE  h[u] = step[<<h[u \ {Max(u)}], places[Max(u)]>>]
    OBVIOUS
  <2>2. places[Max(u)] \in DOMAIN row
    BY <2>1, <1>2, LargestIn
  <2>3. h[u] = more(h[u \ {Max(u)}], places[Max(u)])
    BY <2>1, <1>4
  <2> QED
    BY <2>1, <2>2, <2>3, <1>1
<1>7. /\ h[1 .. 0] = first /\ h[DOMAIN places] = h[1 .. Len(row) - 1]
      /\ \A i \in 0 .. Len(row) - 1 : h[1 .. i] \in S
      /\ \A i \in 0 .. Len(row) - 2 : h[1 .. i + 1] = step[<<h[1 .. i], places[i + 1]>>]
  <2>1. IsRun(h, S, first, step, places)
    BY <1>1, <1>2, <1>5, <1>6, FoldRuns
  <2> QED
    BY <2>1, <1>a DEF IsRun
<1>b. ASSUME NEW i \in 0 .. Len(row) - 2 PROVE h[1 .. i + 1] = Place(n, row, h[1 .. i], i + 2)
  <2>1. h[1 .. i + 1] = more(h[1 .. i], i + 2)
    <3> HIDE DEF more
    <3> QED
      BY <1>1, <1>7, <1>a
  <2> QED
    BY <2>1
<1>c. all = h[1 .. Len(row) - 1]
  BY <1>4, <1>7
<1> HIDE DEF all
<1>d. ByKey(n, row) = LastClosed(h[1 .. Len(row) - 1], key)
  BY <1>8, <1>c DEF LastClosed
<1> QED
  BY <1>7, <1>b, <1>d DEF S, first, IsRowRun

LEMMA ByKeyFits ==
  ASSUME NEW n \in Nat, NEW row \in Seq(Seq(Nat)), row # <<>>,
         NEW key, key = Key(n, row), key \in PartRecord, Heading + key.size < Soft
  PROVE  ByKey(n, row) \in Seq(FittingPart)
<1>1. PICK h : IsRowRun(h, n, row, key)
  BY ByKeyRuns
<1>2. Len(row) - 1 \in 0 .. Len(row) - 1
  BY PlacesAre
<1>3. PICK acc : acc = h[1 .. Len(row) - 1]
  OBVIOUS
<1>4. acc.parts \in Seq(FittingPart) /\ acc.open \in FittingPart
  BY <1>1, <1>2, <1>3 DEF RowSoFar, IsRowRun
<1> QED
  BY <1>1, <1>3, <1>4 DEF LastClosed, IsRowRun

\* However a row is split, its parts fit.
LEMMA SplitRowFits ==
  ASSUME NEW n \in Nat, NEW row \in Seq(Seq(Nat)), row # <<>>,
         table.line \in Nat, table.header \in Nat
  PROVE  SplitRow(n, row) \in Seq(FittingPart)
<1>1. /\ HeaderPart \in PartRecord /\ HeaderPart.size = table.header
      /\ Separators \in PartRecord /\ Separators.size = Bars
  BY HeaderPartType
<1>2. 1 \in DOMAIN row /\ row[1] \in Seq(Nat) /\ 1 \in Nat
  BY PlacesType
<1>3. /\ Heading \in Nat /\ Soft \in Nat /\ Bars \in Nat /\ Margin \in Nat /\ Bars < Margin
      /\ Size(row[1]) \in Nat
  BY <1>2, SizeRuns, ChunkingAssumption
<1>4. CASE Heading + table.header + Size(row[1]) > Soft - Margin
  BY <1>4, ByCoordinatesFits DEF SplitRow
<1>5. CASE ~ (Heading + table.header + Size(row[1]) > Soft - Margin)
  <2>1. /\ Joined(HeaderPart, Separators) \in PartRecord
        /\ Joined(HeaderPart, Separators).size = table.header + Bars
    BY <1>1, PartTypes
  <2>2. CASE Len(row) = 1
    <3>1. Heading + Joined(HeaderPart, Separators).size < Soft
      BY SMTT(20), <2>1, <1>3, <1>5
    <3>2. Spread(n, 1, row[1], Joined(HeaderPart, Separators)) \in Seq(FittingPart)
      BY <2>1, <3>1, <1>2, SpreadFits
    <3> QED
      BY <2>2, <3>2, <1>5 DEF SplitRow
  <2>3. CASE Len(row) # 1
    <3>1. PICK key : key = Key(n, row)
      OBVIOUS
    <3>2. PartOf(n, 1, row[1]) \in PartRecord /\ PartOf(n, 1, row[1]).size = Size(row[1])
      BY <1>2, PartOfType
    <3>3. key \in PartRecord /\ key.size = table.header + Bars + Size(row[1])
      BY <3>1, <3>2, <2>1, PartTypes DEF Key
    <3>4. Heading + key.size < Soft
      BY SMTT(20), <3>3, <1>3, <1>5
    <3>5. ByKey(n, row) \in Seq(FittingPart)
      BY <3>1, <3>3, <3>4, ByKeyFits
    <3> QED
      BY <2>3, <3>5, <1>5 DEF SplitRow
  <2> QED
    BY <2>2, <2>3
<1> QED
  BY <1>4, <1>5

-----------------------------------------------------------------------------
(* Chunks.                                                                  *)

\* What fits on its own fits as a chunk.
FittingChunk == {c \in Seq(PartRecord) : Heading + SizeOf(c) <= Soft}

LEMMA AloneTheyFit ==
  ASSUME NEW parts \in Seq(FittingPart)
  PROVE  [k \in DOMAIN parts |-> <<parts[k]>>] \in Seq(FittingChunk)
<1>1. DOMAIN parts = 1 .. Len(parts) /\ Len(parts) \in Nat
  OBVIOUS
<1>2. ASSUME NEW k \in DOMAIN parts PROVE <<parts[k]>> \in FittingChunk
  <2>1. PICK p : p = parts[k]
    OBVIOUS
  <2>2. p \in FittingPart
    BY <2>1, <1>1, ElementOfSeq
  <2>3. p \in PartRecord /\ Heading + p.size <= Soft
    BY <2>2 DEF FittingPart
  <2>4. <<p>> \in Seq(PartRecord) /\ SizeOf(<<p>>) = p.size
    BY <2>3, SizeOfOne
  <2> QED
    BY <2>1, <2>3, <2>4 DEF FittingChunk
<1> DEFINE cs == [k \in DOMAIN parts |-> <<parts[k]>>]
<1>3. cs \in [1 .. Len(parts) -> FittingChunk]
  BY <1>1, <1>2
<1> HIDE DEF cs
<1>4. cs \in Seq(FittingChunk)
  BY <1>1, <1>3, SeqDef
<1> QED
  BY <1>4 DEF cs

LEMMA NothingFits == <<>> \in FittingChunk
<1>1. Heading \in Nat /\ Anchor \in Nat /\ Soft \in Nat /\ Heading + Anchor < Soft
  BY ChunkingAssumption
<1>2. <<>> \in Seq(PartRecord)
  OBVIOUS
<1> QED
  BY <1>1, <1>2, SizeOfNone DEF FittingChunk

\* The size of a header.
LEMMA SizeOfHeader ==
  ASSUME NEW g \in Given, g.sizes = <<g.sizes[1]>>, NEW n \in Nat
  PROVE  SizeOf(<<PartOf(n, 0, g.sizes)>>) = g.sizes[1]
<1>1. g.sizes \in Seq(Nat) /\ Len(g.sizes) = 1
  BY DEF Given
<1>2. Size(g.sizes) = g.sizes[1]
  BY <1>1, SizeRuns
<1>3. PartOf(n, 0, g.sizes) \in PartRecord /\ PartOf(n, 0, g.sizes).size = g.sizes[1]
  BY <1>1, <1>2, PartOfType
<1> QED
  BY <1>3, SizeOfOne

\* A header stays alone, unless a row of its table is read.
GivenStep ==
  \/ given' = given /\ (table' = table \/ table' = NoTable)
  \/ \E g \in Given : given' = Append(given, g) /\ (g.kind = "row" => table # NoTable)

LEMMA LoneStays ==
  ASSUME given \in Seq(Given), GivenStep, NEW n, LoneHeader(n)
  PROVE  LoneHeader(n)' /\ n \in DOMAIN given' /\ given'[n] = given[n]
<1>1. /\ Len(given) \in Nat /\ DOMAIN given = 1 .. Len(given) /\ n \in 1 .. Len(given)
      /\ given[n].kind = "header"
  BY DEF LoneHeader
<1>2. CASE given' = given /\ (table' = table \/ table' = NoTable)
  BY <1>1, <1>2 DEF LoneHeader
<1>3. ASSUME NEW g \in Given, given' = Append(given, g), g.kind = "row" => table # NoTable
      PROVE  LoneHeader(n)' /\ n \in DOMAIN given' /\ given'[n] = given[n]
  <2>1. /\ DOMAIN given' = 1 .. Len(given) + 1 /\ Len(given') = Len(given) + 1
        /\ \A m \in 1 .. Len(given) : given'[m] = given[m]
        /\ given'[Len(given) + 1] = g
    BY <1>1, <1>3
  <2>2. given'[n + 1].kind # "row"
    <3>1. CASE n < Len(given)
      <4>1. n + 1 \in 1 .. Len(given)
        BY <3>1, <1>1
      <4> QED
        BY <3>1, <4>1, <2>1 DEF LoneHeader
    <3>2. CASE n = Len(given)
      BY <3>2, <2>1, <1>3 DEF LoneHeader
    <3>3. n < Len(given) \/ n = Len(given)
      <4>1. PICK m : m = Len(given)
        OBVIOUS
      <4>2. m \in Nat /\ n \in 1 .. m
        BY <4>1, <1>1
      <4>3. n < m \/ n = m
        BY <4>2
      <4> QED
        BY <4>1, <4>3
    <3> QED
      BY <3>1, <3>2, <3>3
  <2>3. n \in DOMAIN given' /\ given'[n] = given[n] /\ n # Len(given')
    BY <2>1, <1>1
  <2> QED
    BY <2>2, <2>3, <1>1 DEF LoneHeader
<1> QED
  BY <1>2, <1>3 DEF GivenStep

LEMMA TargetStays ==
  ASSUME given \in Seq(Given), GivenStep, NEW parts, WithinTarget(parts)
  PROVE  WithinTarget(parts)'
<1>1. CASE Heading + SizeOf(parts) <= Soft
  BY <1>1 DEF WithinTarget
<1>2. ASSUME NEW n \in DOMAIN given, LoneHeader(n), parts = <<PartOf(n, 0, given[n].sizes)>>
      PROVE  WithinTarget(parts)'
  <2>1. LoneHeader(n)' /\ n \in DOMAIN given' /\ given'[n] = given[n]
    BY <1>2, LoneStays
  <2>2. parts = <<PartOf(n, 0, given'[n].sizes)>>
    BY <2>1, <1>2
  <2> QED
    BY <2>1, <2>2 DEF WithinTarget
<1> QED
  BY <1>1, <1>2 DEF WithinTarget

\* What is flushed: chunks within the target, and failure only for a lone header.
LEMMA FlushingKeeps ==
  ASSUME ChunkInv, GivenStep, stage = "open", given' \in Seq(Given),
         \A n \in DOMAIN given' :
           given'[n].kind = "header" => given'[n].sizes = <<given'[n].sizes[1]>>,
         NEW more \in Seq(Seq(PartRecord)), NEW rest \in Seq(PartRecord), Flushing(more, rest),
         \A k \in DOMAIN more : WithinTarget(more[k])', WithinTarget(rest)'
  PROVE  /\ chunks' \in Seq(Seq(PartRecord)) /\ \A k \in DOMAIN chunks' : WithinTarget(chunks[k])'
         /\ held' \in Seq(PartRecord) /\ WithinTarget(held)' /\ FailedForHeader'
         /\ held' = rest \/ held' = <<>>
         /\ stage' # "idle"
<1>1. /\ chunks \in Seq(Seq(PartRecord)) /\ given \in Seq(Given)
      /\ \A k \in DOMAIN chunks : WithinTarget(chunks[k])
  BY DEF ChunkInv, ChunkTypeOK
<1>2. /\ chunks' = chunks \o more
      /\ held' = rest \/ held' = <<>>
      /\ stage' # "idle"
      /\ stage' = "failed" => \E k \in DOMAIN more : TooLarge(more[k])
  <2>1. CASE \E k \in DOMAIN more : TooLarge(more[k])
    BY <2>1 DEF Flushing
  <2>2. CASE ~ \E k \in DOMAIN more : TooLarge(more[k])
    BY <2>2 DEF Flushing
  <2> QED
    BY <2>1, <2>2
<1>3. chunks' \in Seq(Seq(PartRecord)) /\ \A k \in DOMAIN chunks' : WithinTarget(chunks[k])'
  <2>1. /\ chunks' \in Seq(Seq(PartRecord))
        /\ \A k \in DOMAIN chunks' : \/ k \in DOMAIN chunks /\ chunks'[k] = chunks[k]
                                     \/ k - Len(chunks) \in DOMAIN more
                                          /\ chunks'[k] = more[k - Len(chunks)]
    BY <1>1, <1>2
  <2>2. ASSUME NEW k \in DOMAIN chunks' PROVE WithinTarget(chunks[k])'
    <3>1. PICK c : c = chunks'[k]
      OBVIOUS
    <3>2. CASE k \in DOMAIN chunks /\ chunks'[k] = chunks[k]
      <4>1. WithinTarget(c)'
        BY <3>1, <3>2, <1>1, TargetStays
      <4> QED
        BY <3>1, <4>1 DEF WithinTarget
    <3>3. CASE k - Len(chunks) \in DOMAIN more /\ chunks'[k] = more[k - Len(chunks)]
      <4>1. PICK m \in DOMAIN more : c = more[m]
        BY <3>1, <3>3
      <4>2. WithinTarget(more[m])'
        OBVIOUS
      <4> QED
        BY <3>1, <4>1, <4>2 DEF WithinTarget
    <3> QED
      BY <2>1, <3>2, <3>3
  <2> QED
    BY <2>1, <2>2
<1>4. held' \in Seq(PartRecord) /\ WithinTarget(held)'
  <2>1. CASE held' = rest
    BY <2>1 DEF WithinTarget
  <2>2. CASE held' = <<>>
    <3>1. held' \in Seq(PartRecord) /\ Heading + SizeOf(held') <= Soft
      BY <2>2, NothingFits DEF FittingChunk
    <3> QED
      BY <3>1 DEF WithinTarget
  <2> QED
    BY <1>2, <2>1, <2>2
<1>5. FailedForHeader'
  <2>1. SUFFICES ASSUME NEW k \in DOMAIN more, TooLarge(more[k])
                 PROVE  \E n \in DOMAIN given' : /\ LoneHeader(n)'
                                                 /\ Heading + given'[n].sizes[1] > Hard
    BY <1>2 DEF FailedForHeader
  <2>2. Heading + SizeOf(more[k]) > Hard
    BY <2>1 DEF TooLarge
  <2>3. ~ (Heading + SizeOf(more[k]) <= Soft)
    <3>1. more[k] \in Seq(PartRecord)
      BY <2>1
    <3>2. SizeOf(more[k]) \in Nat /\ Heading \in Nat /\ Hard \in Nat /\ Soft \in Nat /\ Soft <= Hard
      BY <3>1, SizeOfType, ChunkingAssumption
    <3> QED
      BY <2>2, <3>2
  <2>4. PICK n \in DOMAIN given' : LoneHeader(n)' /\ more[k] = <<PartOf(n, 0, given'[n].sizes)>>
    BY <2>3 DEF WithinTarget
  <2>5. given'[n].kind = "header" /\ given'[n] \in Given /\ n \in Nat
    BY <2>4 DEF LoneHeader
  <2>6. SizeOf(more[k]) = given'[n].sizes[1]
    <3>1. PICK g : g = given'[n]
      OBVIOUS
    <3>2. g \in Given /\ g.sizes = <<g.sizes[1]>>
      BY <3>1, <2>5
    <3> QED
      BY <3>1, <3>2, <2>4, <2>5, SizeOfHeader
  <2> QED
    BY <2>2, <2>4, <2>6
<1>6. stage' # "idle"
  BY <1>2
<1> QED
  BY <1>2, <1>3, <1>4, <1>5, <1>6

\* What is held, with the rows that wait under their header, is within the target.
LEMMA HeldAndTableFits ==
  ASSUME ChunkInv
  PROVE  HeldAndTable \in Seq(PartRecord) /\ WithinTarget(HeldAndTable)
<1>1. held \in Seq(PartRecord) /\ rows \in Seq(PartRecord) /\ WithinTarget(held)
  BY DEF ChunkInv, ChunkTypeOK
<1>2. CASE rows = <<>>
  BY <1>1, <1>2 DEF HeldAndTable
<1>3. CASE rows # <<>>
  <2>1. /\ table # NoTable /\ table.line \in DOMAIN given /\ table.header \in Nat
        /\ Heading + table.header + SizeOf(held \o rows) <= Soft
    BY <1>3 DEF ChunkInv, TableIsLast, RowsFit
  <2>2. table.line \in Nat
    BY <2>1 DEF ChunkInv, ChunkTypeOK
  <2>3. HeaderPart \in PartRecord /\ HeaderPart.size = table.header
    BY <2>1, <2>2, HeaderPartType
  <2>4. PICK header : header = <<HeaderPart>>
    OBVIOUS
  <2>5. header \in Seq(PartRecord) /\ SizeOf(header) = table.header
    BY <2>3, <2>4, SizeOfOne
  <2>6. PICK first : first = held \o header
    OBVIOUS
  <2>7. first \in Seq(PartRecord) /\ SizeOf(first) = SizeOf(held) + table.header
    BY <2>5, <2>6, <1>1, SizeOfJoined
  <2>8. SizeOf(first \o rows) = SizeOf(held) + table.header + SizeOf(rows)
        /\ first \o rows \in Seq(PartRecord)
    BY <2>7, <1>1, SizeOfJoined
  <2>9. SizeOf(held \o rows) = SizeOf(held) + SizeOf(rows)
    BY <1>1, SizeOfJoined
  <2>a. SizeOf(held) \in Nat /\ SizeOf(rows) \in Nat /\ Heading \in Nat /\ Soft \in Nat
    BY <1>1, SizeOfType, ChunkingAssumption
  <2>b. Heading + SizeOf(first \o rows) <= Soft
    BY <2>1, <2>8, <2>9, <2>a
  <2>c. HeldAndTable = first \o rows
    BY <2>4, <2>6, <1>3 DEF HeldAndTable
  <2> QED
    BY <2>8, <2>b, <2>c DEF WithinTarget
<1> QED
  BY <1>2, <1>3

\* What was read: one more line, header or row.
LEMMA GiveKeeps ==
  ASSUME ChunkTypeOK, NEW kind \in {"line", "header", "row"}, NEW sizes \in Seq(Nat),
         kind = "header" => sizes = <<sizes[1]>>, kind = "row" => table # NoTable,
         Give(kind, sizes)
  PROVE  /\ given' \in Seq(Given) /\ GivenStep
         /\ \A n \in DOMAIN given' :
              given'[n].kind = "header" => given'[n].sizes = <<given'[n].sizes[1]>>
         /\ Len(given') = Line /\ Line \in Nat /\ given'[Line] = [kind |-> kind, sizes |-> sizes]
         /\ DOMAIN given' = DOMAIN given \union {Line}
         /\ \A n \in DOMAIN given : given'[n] = given[n]
<1>1. PICK g : g = [kind |-> kind, sizes |-> sizes]
  OBVIOUS
<1>2. g \in Given /\ g.kind = kind /\ g.sizes = sizes
  BY <1>1 DEF Given
<1>3. /\ given' = Append(given, g) /\ given \in Seq(Given) /\ Line = Len(given) + 1
      /\ \A n \in DOMAIN given :
           given[n].kind = "header" => given[n].sizes = <<given[n].sizes[1]>>
  BY <1>1 DEF Give, ChunkTypeOK, Line
<1>4. /\ given' \in Seq(Given) /\ Len(given') = Line /\ Line \in Nat /\ given'[Line] = g
      /\ DOMAIN given' = DOMAIN given \union {Line}
      /\ \A n \in DOMAIN given : given'[n] = given[n]
  BY <1>2, <1>3
<1>5. GivenStep
  BY <1>2, <1>3 DEF GivenStep
<1>6. \A n \in DOMAIN given' :
        given'[n].kind = "header" => given'[n].sizes = <<given'[n].sizes[1]>>
  BY <1>2, <1>3, <1>4
<1> QED
  BY <1>1, <1>4, <1>5, <1>6

\* Chunks that fit, after those that are within the target.
LEMMA FlushAndMore ==
  ASSUME NEW text \in Seq(PartRecord), WithinTarget(text)', NEW fit \in Seq(FittingChunk)
  PROVE  /\ Flush(<<>>, text) \o fit \in Seq(Seq(PartRecord))
         /\ \A k \in DOMAIN (Flush(<<>>, text) \o fit) :
              WithinTarget((Flush(<<>>, text) \o fit)[k])'
<1>1. PICK first : first = Flush(<<>>, text)
  OBVIOUS
<1>2. first = <<>> \/ first = <<text>>
  BY <1>1 DEF Flush
<1>3. /\ first \in Seq(Seq(PartRecord)) /\ fit \in Seq(Seq(PartRecord))
      /\ \A k \in DOMAIN first : first[k] = text
  <2>1. fit \in Seq(Seq(PartRecord))
    <3>1. FittingChunk \subseteq Seq(PartRecord)
      BY DEF FittingChunk
    <3> HIDE DEF FittingChunk
    <3> DEFINE T == Seq(PartRecord)
    <3>2. FittingChunk \subseteq T
      BY <3>1
    <3> HIDE DEF T
    <3>3. Seq(FittingChunk) \subseteq Seq(T)
      BY <3>2
    <3> QED
      BY <3>3 DEF T
  <2>2. first \in Seq(Seq(PartRecord))
    <3> DEFINE T == Seq(PartRecord)
    <3>1. text \in T
      OBVIOUS
    <3> HIDE DEF T
    <3>2. <<>> \in Seq(T) /\ <<text>> \in Seq(T)
      BY <3>1
    <3>3. first \in Seq(T)
      BY <3>2, <1>2
    <3> QED
      BY <3>3 DEF T
  <2>3. \A k \in DOMAIN first : first[k] = text
    BY <1>2
  <2> QED
    BY <2>1, <2>2, <2>3
<1>4. /\ first \o fit \in Seq(Seq(PartRecord))
      /\ \A k \in DOMAIN (first \o fit) : \/ (first \o fit)[k] = text
                                          \/ (first \o fit)[k] \in FittingChunk
  BY <1>3
<1>5. ASSUME NEW k \in DOMAIN (first \o fit) PROVE WithinTarget((first \o fit)[k])'
  <2>1. PICK c : c = (first \o fit)[k]
    OBVIOUS
  <2>2. CASE c = text
    BY <2>1, <2>2 DEF WithinTarget
  <2>3. CASE c \in FittingChunk
    BY <2>1, <2>3 DEF WithinTarget, FittingChunk
  <2> QED
    BY <1>4, <2>1, <2>2, <2>3
<1> QED
  BY <1>1, <1>4, <1>5

\* A step that flushes keeps the invariant, given what it does to the table and its rows.
LEMMA FlushStep ==
  ASSUME ChunkInv, GivenStep, stage = "open", given' \in Seq(Given),
         \A n \in DOMAIN given' :
           given'[n].kind = "header" => given'[n].sizes = <<given'[n].sizes[1]>>,
         NEW more \in Seq(Seq(PartRecord)), NEW rest \in Seq(PartRecord), Flushing(more, rest),
         \A k \in DOMAIN more : WithinTarget(more[k])', WithinTarget(rest)',
         NEW left \in Seq(PartRecord), rows' = left,
         table' = NoTable => left = <<>>,
         left # <<>> => \/ Heading + table'.header + SizeOf(left) <= Soft /\ rest = <<>>
                        \/ Heading + table'.header + SizeOf(rest \o left) <= Soft /\ more = <<>>,
         table' # NoTable =>
           /\ Head(todo') = "table" /\ table'.line \in DOMAIN given' /\ table'.header \in Nat
           /\ given'[table'.line] = [kind |-> "header", sizes |-> <<table'.header>>]
           /\ \A n \in DOMAIN given' : n > table'.line => given'[n].kind = "row"
  PROVE  ChunkInv'
<1>1. /\ chunks' \in Seq(Seq(PartRecord)) /\ \A k \in DOMAIN chunks' : WithinTarget(chunks[k])'
      /\ held' \in Seq(PartRecord) /\ WithinTarget(held)' /\ FailedForHeader'
      /\ held' = rest \/ held' = <<>>
      /\ stage' # "idle"
  BY FlushingKeeps
<1>2. ChunkTypeOK'
  BY <1>1 DEF ChunkTypeOK
<1>3. TableIsLast'
  BY <1>1 DEF TableIsLast
<1>4. RowsFit'
  <2>1. SUFFICES ASSUME left # <<>>
                 PROVE  Heading + table'.header + SizeOf(held' \o left) <= Soft
    BY DEF RowsFit
  <2>2. CASE Heading + table'.header + SizeOf(left) <= Soft /\ rest = <<>>
    <3>1. held' \o left = left
      BY SMTT(20), <2>2, <1>1
    <3> QED
      BY <2>2, <3>1
  <2>3. CASE Heading + table'.header + SizeOf(rest \o left) <= Soft /\ more = <<>>
    <3>1. held' = rest
      BY <2>3 DEF Flushing
    <3> QED
      BY <2>3, <3>1
  <2> QED
    BY <2>1, <2>2, <2>3
<1> QED
  BY <1>1, <1>2, <1>3, <1>4 DEF ChunkInv

\* Nothing flushed, nothing held anew: what a step does to the table and what is read.
LEMMA QuietStep ==
  ASSUME ChunkInv, GivenStep, stage # "idle", given' \in Seq(Given),
         \A n \in DOMAIN given' :
           given'[n].kind = "header" => given'[n].sizes = <<given'[n].sizes[1]>>,
         UNCHANGED <<stage, held, chunks>>, rows = <<>>, rows' = rows,
         table' # NoTable =>
           /\ Head(todo') = "table" /\ table'.line \in DOMAIN given' /\ table'.header \in Nat
           /\ given'[table'.line] = [kind |-> "header", sizes |-> <<table'.header>>]
           /\ \A n \in DOMAIN given' : n > table'.line => given'[n].kind = "row"
  PROVE  ChunkInv'
<1>1. /\ ChunkTypeOK /\ WithinTarget(held) /\ FailedForHeader
      /\ \A k \in DOMAIN chunks : WithinTarget(chunks[k])
      /\ given \in Seq(Given)
  BY DEF ChunkInv, ChunkTypeOK
<1>2. ChunkTypeOK'
  BY <1>1 DEF ChunkTypeOK
<1>3. TableIsLast' /\ RowsFit'
  BY DEF TableIsLast, RowsFit
<1>4. ASSUME NEW c, WithinTarget(c) PROVE WithinTarget(c)'
  BY <1>1, <1>4, TargetStays
<1>5. WithinTarget(held)'
  <2>1. PICK c : c = held
    OBVIOUS
  <2>2. WithinTarget(c)'
    BY <1>1, <1>4, <2>1
  <2> QED
    BY <2>1, <2>2 DEF WithinTarget
<1>6. ASSUME NEW k \in DOMAIN chunks' PROVE WithinTarget(chunks[k])'
  <2>1. PICK c : c = chunks[k]
    OBVIOUS
  <2>2. WithinTarget(c)'
    BY <1>1, <1>4, <2>1
  <2> QED
    BY <2>1, <2>2 DEF WithinTarget
<1>7. FailedForHeader'
  <2>1. SUFFICES ASSUME stage = "failed"
                 PROVE  \E n \in DOMAIN given' : /\ LoneHeader(n)'
                                                 /\ Heading + given'[n].sizes[1] > Hard
    BY DEF FailedForHeader
  <2>2. PICK n \in DOMAIN given : LoneHeader(n) /\ Heading + given[n].sizes[1] > Hard
    BY <2>1, <1>1 DEF FailedForHeader
  <2>3. LoneHeader(n)' /\ n \in DOMAIN given' /\ given'[n] = given[n]
    BY <1>1, <2>2, LoneStays
  <2> QED
    BY <2>2, <2>3
<1> QED
  BY <1>2, <1>3, <1>5, <1>6, <1>7 DEF ChunkInv

LEMMA OneIsSeq ==
  ASSUME NEW T, NEW x \in T
  PROVE  <<x>> \in Seq(T) /\ <<x>>[1] = x
OBVIOUS

LEMMA NoTableInHand ==
  ASSUME ChunkInv, Head(todo) = "lines"
  PROVE  table = NoTable /\ rows = <<>>
BY DEF ChunkInv, TableIsLast

\* Lines: of the list context no more is repeated than the budget has room for.
LEMMA AddLineKeeps ==
  ASSUME ChunkInv, NEW l \in Lines, AddLine(l)
  PROVE  ChunkInv'
<1>1. /\ l.context \in Nat /\ l.words \in Seq(Nat)
      /\ Heading \in Nat /\ MaxContext \in Nat /\ Soft \in Nat /\ Heading + MaxContext < Soft
  BY ChunkingAssumption
<1>2. /\ stage = "open" /\ Head(todo) = "lines" /\ Give("line", <<Size(l.words)>>)
      /\ table' = table /\ rows' = rows
  BY DEF AddLine, Room
<1>3. table = NoTable /\ rows = <<>> /\ ChunkTypeOK /\ WithinTarget(held)
  BY <1>2, NoTableInHand DEF ChunkInv
<1>4. held \in Seq(PartRecord) /\ Line \in Nat
  BY <1>3 DEF ChunkTypeOK, Line
<1>5. Size(l.words) \in Nat /\ <<Size(l.words)>> \in Seq(Nat)
  BY <1>1, SizeRuns
<1>6. /\ given' \in Seq(Given) /\ GivenStep
      /\ \A n \in DOMAIN given' :
           given'[n].kind = "header" => given'[n].sizes = <<given'[n].sizes[1]>>
  BY <1>2, <1>3, <1>5, GiveKeeps
<1>7. PICK text : text = held
  OBVIOUS
<1>8. text \in Seq(PartRecord) /\ WithinTarget(text)'
  BY <1>3, <1>4, <1>6, <1>7, TargetStays DEF ChunkTypeOK
<1>9. ASSUME NEW more \in Seq(Seq(PartRecord)), NEW rest \in Seq(PartRecord),
             Flushing(more, rest), \A k \in DOMAIN more : WithinTarget(more[k])',
             WithinTarget(rest)'
      PROVE  ChunkInv'
  <2>1. PICK left : left = <<>>
    OBVIOUS
  <2>2. left \in Seq(PartRecord) /\ rows' = left /\ table' = NoTable
    BY <2>1, <1>2, <1>3
  <2> QED
    BY <2>1, <2>2, <1>2, <1>6, <1>9, FlushStep
<1>a. PICK line : line = PartOf(Line, 1, l.words)
  OBVIOUS
<1>b. line \in PartRecord /\ <<line>> \in Seq(PartRecord)
  BY <1>a, <1>1, <1>4, PartOfType
<1>c. PICK context : context = Part({}, IF l.context > MaxContext THEN 0 ELSE l.context, 0)
  OBVIOUS
<1>d. context \in PartRecord /\ Heading + context.size < Soft
  <2>1. PICK size : size = IF l.context > MaxContext THEN 0 ELSE l.context
    OBVIOUS
  <2>2. size \in Nat /\ size <= MaxContext
    BY <2>1, <1>1
  <2>3. context \in PartRecord /\ context.size = size
    BY <2>1, <2>2, <1>c, PartTypes
  <2> QED
    BY <2>2, <2>3, <1>1
<1>e. PICK parts : parts = Spread(Line, 1, l.words, context)
  OBVIOUS
<1>f. parts \in Seq(FittingPart)
  BY <1>e, <1>d, <1>1, <1>4, SpreadFits
<1>g. PICK fit : fit = [k \in DOMAIN parts |-> <<parts[k]>>]
  OBVIOUS
<1>h. fit \in Seq(FittingChunk)
  BY <1>f, <1>g, AloneTheyFit
<1>i. IF ~Fits(<<line>>) THEN Flushing(Flush(<<>>, text) \o fit, <<>>)
      ELSE IF ~Fits(Append(text, line)) /\ text # <<>> THEN Flushing(<<text>>, <<line>>)
      ELSE Flushing(<<>>, Append(text, line))
  BY <1>7, <1>a, <1>c, <1>e, <1>g DEF AddLine
<1>j. \A c : Heading + SizeOf(c) <= Soft => WithinTarget(c)'
  BY DEF WithinTarget
<1>k. CASE ~Fits(<<line>>)
  <2>1. PICK more : more = Flush(<<>>, text) \o fit
    OBVIOUS
  <2>2. more \in Seq(Seq(PartRecord)) /\ \A k \in DOMAIN more : WithinTarget(more[k])'
    BY <2>1, <1>8, <1>h, FlushAndMore
  <2>3. <<>> \in Seq(PartRecord) /\ WithinTarget(<<>>)'
    BY <1>j, NothingFits DEF FittingChunk
  <2>4. Flushing(more, <<>>)
    BY <2>1, <1>i, <1>k
  <2> QED
    BY <2>2, <2>3, <2>4, <1>9
<1>l. CASE Fits(<<line>>) /\ ~Fits(Append(text, line)) /\ text # <<>>
  <2>1. PICK more : more = <<text>>
    OBVIOUS
  <2>2. more \in Seq(Seq(PartRecord)) /\ \A k \in DOMAIN more : WithinTarget(more[k])'
    <3>1. \A k \in DOMAIN more : more[k] = text
      BY <2>1
    <3>2. more \in Seq(Seq(PartRecord))
      BY <2>1, <1>8, OneIsSeq
    <3> QED
      BY <3>1, <3>2, <1>8
  <2>3. WithinTarget(<<line>>)'
    BY <1>j, <1>l DEF Fits
  <2>4. Flushing(more, <<line>>)
    BY <2>1, <1>i, <1>l
  <2> QED
    BY <2>2, <2>3, <2>4, <1>b, <1>9
<1>m. CASE Fits(<<line>>) /\ (Fits(Append(text, line)) \/ text = <<>>)
  <2>1. PICK rest : rest = Append(text, line)
    OBVIOUS
  <2>2. rest \in Seq(PartRecord)
    BY <2>1, <1>8, <1>b
  <2>3. WithinTarget(rest)'
    <3>1. text = <<>> => rest = <<line>>
      BY <2>1
    <3>2. Fits(rest)
      BY <2>1, <3>1, <1>m
    <3> QED
      BY <3>2, <1>j DEF Fits
  <2>4. Flushing(<<>>, rest)
    BY <2>1, <1>i, <1>m
  <2>5. <<>> \in Seq(Seq(PartRecord)) /\ DOMAIN << >> = {}
    OBVIOUS
  <2> QED
    BY <2>2, <2>3, <2>4, <2>5, <1>9
<1> QED
  BY <1>k, <1>l, <1>m

\* Tables: opened, or skipped when they have no cells.
LEMMA OpenTableKeeps ==
  ASSUME ChunkInv, NEW h \in Headers, OpenTable(h)
  PROVE  ChunkInv'
<1>1. h.size \in Nat
  BY ChunkingAssumption
<1>2. /\ Head(todo) = "table" /\ table = NoTable /\ Give("header", <<h.size>>)
      /\ table' = [line |-> Line, header |-> h.size, columns |-> h.columns]
      /\ todo' = todo /\ UNCHANGED <<stage, held, chunks>> /\ rows' = rows /\ stage # "idle"
  BY DEF OpenTable, Room
<1>3. rows = <<>> /\ ChunkTypeOK
  BY <1>2 DEF ChunkInv, TableIsLast
<1>4. PICK sizes : sizes = <<h.size>>
  OBVIOUS
<1>5. sizes \in Seq(Nat) /\ sizes = <<sizes[1]>>
  BY <1>1, <1>4
<1>6. /\ given' \in Seq(Given) /\ GivenStep
      /\ \A n \in DOMAIN given' :
           given'[n].kind = "header" => given'[n].sizes = <<given'[n].sizes[1]>>
      /\ Len(given') = Line /\ Line \in Nat
      /\ given'[Line] = [kind |-> "header", sizes |-> sizes]
      /\ DOMAIN given' = DOMAIN given \union {Line}
  <2>1. Give("header", sizes)
    BY <1>2, <1>4
  <2>2. "header" \in {"line", "header", "row"} /\ "header" # "row"
    OBVIOUS
  <2> QED
    BY <2>1, <2>2, <1>3, <1>5, GiveKeeps
<1>7. table'.line = Line /\ table'.header = h.size
  BY <1>2
<1>8. \A n \in DOMAIN given' : ~ n > Line
  <2>1. DOMAIN given' = 1 .. Len(given')
    BY <1>6
  <2>2. DOMAIN given' = 1 .. Line
    BY <2>1, <1>6
  <2> QED
    BY <2>2, <1>6
<1> QED
  BY <1>1, <1>2, <1>3, <1>4, <1>6, <1>7, <1>8, QuietStep

LEMMA SkipTableKeeps ==
  ASSUME ChunkInv, SkipTable
  PROVE  ChunkInv'
<1>1. /\ table = NoTable /\ table' = table /\ UNCHANGED <<stage, held, chunks>>
      /\ rows' = rows /\ given' = given /\ stage # "idle"
  BY DEF SkipTable, Room
<1>2. rows = <<>> /\ ChunkTypeOK
  BY <1>1 DEF ChunkInv, TableIsLast
<1>3. GivenStep
  BY <1>1 DEF GivenStep
<1> QED
  BY <1>1, <1>2, <1>3, QuietStep DEF ChunkTypeOK

LEMMA RowsThenLine ==
  ASSUME NEW T, NEW a \in Seq(T), NEW b \in Seq(T), NEW x \in T
  PROVE  a \o b \o <<x>> = a \o Append(b, x)
OBVIOUS

\* Rows: what waits is flushed before a row that is split, or that no longer fits.
LEMMA AddRowKeeps ==
  ASSUME ChunkInv, NEW row \in Rows, AddRow(row)
  PROVE  ChunkInv'
<1>1. row \in Seq(Seq(Nat)) /\ row # <<>>
  BY ChunkingAssumption
<1>2. /\ Heading \in Nat /\ Soft \in Nat
  BY ChunkingAssumption
<1>3. PICK sizes : sizes = [c \in DOMAIN row |-> Size(row[c])]
  OBVIOUS
<1>4. sizes \in Seq(Nat)
  <2>1. \A c \in DOMAIN row : Size(row[c]) \in Nat
    BY <1>1, SizeRuns, PlacesType
  <2>2. DOMAIN row = 1 .. Len(row) /\ Len(row) \in Nat
    BY <1>1
  <2> QED
    BY <2>1, <2>2, <1>3, SeqDef
<1>5. /\ stage = "open" /\ table # NoTable /\ Give("row", sizes)
      /\ table' = table /\ todo' = todo
  BY <1>3 DEF AddRow, Room
<1>6. /\ ChunkTypeOK /\ Head(todo) = "table" /\ table.line \in DOMAIN given
      /\ table.header \in Nat
      /\ given[table.line] = [kind |-> "header", sizes |-> <<table.header>>]
      /\ \A n \in DOMAIN given : n > table.line => given[n].kind = "row"
      /\ rows # <<>> => Heading + table.header + SizeOf(held \o rows) <= Soft
  BY <1>5 DEF ChunkInv, TableIsLast, RowsFit
<1>7. held \in Seq(PartRecord) /\ rows \in Seq(PartRecord) /\ Line \in Nat /\ table.line \in Nat
  BY <1>6 DEF ChunkTypeOK, Line
<1>8. /\ given' \in Seq(Given) /\ GivenStep
      /\ \A n \in DOMAIN given' :
           given'[n].kind = "header" => given'[n].sizes = <<given'[n].sizes[1]>>
      /\ given'[Line] = [kind |-> "row", sizes |-> sizes]
      /\ DOMAIN given' = DOMAIN given \union {Line}
      /\ \A n \in DOMAIN given : given'[n] = given[n]
  <2>1. "row" \in {"line", "header", "row"} /\ "row" # "header"
    OBVIOUS
  <2> QED
    BY <2>1, <1>4, <1>5, <1>6, GiveKeeps
<1>9. /\ Head(todo') = "table" /\ table'.line \in DOMAIN given' /\ table'.header \in Nat
      /\ given'[table'.line] = [kind |-> "header", sizes |-> <<table'.header>>]
      /\ \A n \in DOMAIN given' : n > table'.line => given'[n].kind = "row"
      /\ table' # NoTable
  BY <1>5, <1>6, <1>8
<1>a. ASSUME NEW more \in Seq(Seq(PartRecord)), NEW rest \in Seq(PartRecord),
             NEW left \in Seq(PartRecord), rows' = left,
             Flushing(more, rest), \A k \in DOMAIN more : WithinTarget(more[k])',
             WithinTarget(rest)',
             left # <<>> =>
               \/ Heading + table.header + SizeOf(left) <= Soft /\ rest = <<>>
               \/ Heading + table.header + SizeOf(rest \o left) <= Soft /\ more = <<>>
      PROVE  ChunkInv'
  BY <1>a, <1>5, <1>8, <1>9, FlushStep
<1>b. PICK line : line = Whole(Line, row)
  OBVIOUS
<1>c. line \in PartRecord /\ <<line>> \in Seq(PartRecord) /\ SizeOf(<<line>>) = line.size
  BY <1>b, <1>1, <1>7, WholeType, SizeOfOne
<1>d. PICK parts, fit : parts = SplitRow(Line, row) /\ fit = [k \in DOMAIN parts |-> <<parts[k]>>]
  OBVIOUS
<1>e. fit \in Seq(FittingChunk)
  BY <1>d, <1>1, <1>6, <1>7, SplitRowFits, AloneTheyFit
<1>f. PICK text, all : text = HeldAndTable /\ all = held \o rows \o <<line>>
  OBVIOUS
<1>g. text \in Seq(PartRecord) /\ WithinTarget(text)'
  BY <1>6, <1>8, <1>f, HeldAndTableFits, TargetStays DEF ChunkTypeOK
<1>h. IF line.words > MaxWords \/ Heading + table.header + line.size > Soft
      THEN Flushing(Flush(<<>>, text) \o fit, <<>>) /\ rows' = <<>>
      ELSE IF (WordsOf(all) > MaxWords \/ Heading + table.header + SizeOf(all) > Soft)
              /\ text # <<>>
      THEN Flushing(<<text>>, <<>>) /\ rows' = <<line>>
      ELSE Flushing(<<>>, held) /\ rows' = Append(rows, line)
  BY <1>b, <1>d, <1>f DEF AddRow, Whole
<1>i. \A c : Heading + SizeOf(c) <= Soft => WithinTarget(c)'
  BY DEF WithinTarget
<1>j. <<>> \in Seq(PartRecord) /\ WithinTarget(<<>>)'
  BY <1>i, NothingFits DEF FittingChunk
<1>k. CASE line.words > MaxWords \/ Heading + table.header + line.size > Soft
  <2>1. PICK more : more = Flush(<<>>, text) \o fit
    OBVIOUS
  <2>2. more \in Seq(Seq(PartRecord)) /\ \A k \in DOMAIN more : WithinTarget(more[k])'
    BY <2>1, <1>g, <1>e, FlushAndMore
  <2>3. Flushing(more, <<>>) /\ rows' = <<>>
    BY <2>1, <1>h, <1>k
  <2> QED
    BY <2>2, <2>3, <1>j, <1>a
<1>l. ASSUME ~ (line.words > MaxWords), Heading + table.header + line.size <= Soft
      PROVE  ChunkInv'
  <2>0. ~ (line.words > MaxWords \/ Heading + table.header + line.size > Soft)
    <3>1. line.size \in Nat
      BY <1>c, PartTypes
    <3> QED
      BY <3>1, <1>l, <1>2, <1>6
  <2>1. CASE /\ WordsOf(all) > MaxWords \/ Heading + table.header + SizeOf(all) > Soft
             /\ text # <<>>
    <3>1. PICK more : more = <<text>>
      OBVIOUS
    <3>2. more \in Seq(Seq(PartRecord)) /\ \A k \in DOMAIN more : WithinTarget(more[k])'
      <4>1. \A k \in DOMAIN more : more[k] = text
        BY <3>1
      <4>2. more \in Seq(Seq(PartRecord))
        BY <3>1, <1>g, OneIsSeq
      <4> QED
        BY <4>1, <4>2, <1>g
    <3>3. Flushing(more, <<>>) /\ rows' = <<line>>
      BY <3>1, <2>0, <2>1, <1>h
    <3> QED
      BY <3>2, <3>3, <1>c, <1>j, <1>l, <1>a
  <2>2. CASE ~ (/\ WordsOf(all) > MaxWords \/ Heading + table.header + SizeOf(all) > Soft
                /\ text # <<>>)
    <3>1. PICK rest, left : rest = held /\ left = Append(rows, line)
      OBVIOUS
    <3>2. rest \in Seq(PartRecord) /\ left \in Seq(PartRecord)
      BY <3>1, <1>7, <1>c
    <3>3. all = rest \o left
      <4>1. held \o rows \o <<line>> = held \o Append(rows, line)
        BY <1>7, <1>c, RowsThenLine
      <4> QED
        BY <4>1, <3>1, <1>f
    <3>4. Heading + table.header + SizeOf(rest \o left) <= Soft
      <4>1. CASE text # <<>>
        <5>1. SizeOf(all) \in Nat
          <6>1. all \in Seq(PartRecord)
            BY <3>2, <3>3
          <6> QED
            BY <6>1, SizeOfType
        <5> QED
          BY <5>1, <4>1, <2>2, <3>3, <1>2, <1>6
      <4>2. CASE text = <<>>
        <5>1. rows = <<>> /\ held = <<>>
          BY <4>2, <1>f, <1>7 DEF HeldAndTable
        <5>2. rest \o left = <<line>>
          BY <5>1, <3>1
        <5> QED
          BY <5>2, <1>c, <1>l
      <4> QED
        BY <4>1, <4>2
    <3>5. Flushing(<<>>, rest) /\ rows' = left
      BY <3>1, <2>0, <2>2, <1>h
    <3>6. WithinTarget(rest)'
      BY <3>1, <1>6, <1>8, TargetStays DEF ChunkInv, ChunkTypeOK
    <3>7. <<>> \in Seq(Seq(PartRecord)) /\ DOMAIN << >> = {}
      OBVIOUS
    <3> QED
      BY <3>2, <3>4, <3>5, <3>6, <3>7, <1>a
  <2> QED
    BY <2>1, <2>2
<1> QED
  <2>1. line.size \in Nat /\ line.words \in Nat
    BY <1>c, PartTypes
  <2>2. \/ line.words > MaxWords \/ Heading + table.header + line.size > Soft
        \/ ~ (line.words > MaxWords) /\ Heading + table.header + line.size <= Soft
    BY <2>1, <1>2, <1>6
  <2> QED
    BY <2>2, <1>k, <1>l

\* The end of a table: one of a header row only becomes text.
LEMMA CloseTableKeeps ==
  ASSUME ChunkInv, CloseTable
  PROVE  ChunkInv'
<1>1. /\ stage = "open" /\ table # NoTable /\ table' = NoTable /\ rows' = <<>> /\ given' = given
  BY DEF CloseTable
<1>2. /\ ChunkTypeOK /\ table.line \in DOMAIN given /\ table.header \in Nat
      /\ given[table.line] = [kind |-> "header", sizes |-> <<table.header>>]
      /\ \A n \in DOMAIN given : n > table.line => given[n].kind = "row"
  BY <1>1 DEF ChunkInv, TableIsLast
<1>3. /\ given' \in Seq(Given) /\ given \in Seq(Given) /\ GivenStep
      /\ \A n \in DOMAIN given' :
           given'[n].kind = "header" => given'[n].sizes = <<given'[n].sizes[1]>>
      /\ held \in Seq(PartRecord)
  BY <1>1, <1>2 DEF GivenStep, ChunkTypeOK
<1>4. ASSUME NEW more \in Seq(Seq(PartRecord)), NEW rest \in Seq(PartRecord),
             Flushing(more, rest), \A k \in DOMAIN more : WithinTarget(more[k])',
             WithinTarget(rest)'
      PROVE  ChunkInv'
  <2>1. PICK left : left = <<>>
    OBVIOUS
  <2>2. left \in Seq(PartRecord) /\ rows' = left
    BY <2>1, <1>1
  <2> QED
    BY <2>1, <2>2, <1>1, <1>3, <1>4, FlushStep
<1>5. PICK header, text, all : /\ header = <<HeaderPart>> /\ text = held
                               /\ all = HeldAndTable
  OBVIOUS
<1>6. header \in Seq(PartRecord)
  BY <1>2, <1>3, <1>5, HeaderPartType, SizeOfOne
<1>7. /\ all \in Seq(PartRecord) /\ WithinTarget(all)'
      /\ text \in Seq(PartRecord) /\ WithinTarget(text)'
  <2>1. WithinTarget(all) /\ all \in Seq(PartRecord)
    BY <1>5, HeldAndTableFits
  <2>2. WithinTarget(text)
    BY <1>5 DEF ChunkInv
  <2> QED
    BY <2>1, <2>2, <1>3, <1>5, TargetStays
<1>8. <<>> \in Seq(Seq(PartRecord)) /\ DOMAIN << >> = {}
  OBVIOUS
<1>9. CASE given[Len(given)].kind # "header"
  <2>1. Flushing(<<>>, all)
    BY <1>5, <1>9 DEF CloseTable
  <2> QED
    BY <2>1, <1>4, <1>7, <1>8
<1>a. CASE given[Len(given)].kind = "header" /\ Fits(text \o header)
  <2>1. PICK rest : rest = text \o header
    OBVIOUS
  <2>2. Flushing(<<>>, rest)
    BY <2>1, <1>5, <1>a DEF CloseTable
  <2>3. rest \in Seq(PartRecord) /\ WithinTarget(rest)'
    BY <2>1, <1>6, <1>7, <1>a DEF Fits, WithinTarget
  <2> QED
    BY <2>2, <2>3, <1>4, <1>8
<1>b. CASE given[Len(given)].kind = "header" /\ ~Fits(text \o header)
  <2>1. PICK more : more = Flush(<<>>, text)
    OBVIOUS
  <2>2. Flushing(more, header)
    BY <2>1, <1>5, <1>b DEF CloseTable
  <2>3. more \in Seq(Seq(PartRecord)) /\ \A k \in DOMAIN more : WithinTarget(more[k])'
    <3>1. more = <<>> \/ more = <<text>>
      BY <2>1 DEF Flush
    <3>2. \A k \in DOMAIN more : more[k] = text
      BY <3>1
    <3>3. <<text>> \in Seq(Seq(PartRecord))
      BY <1>7, OneIsSeq
    <3> QED
      BY <3>1, <3>2, <3>3, <1>7, <1>8
  <2>4. PICK n : n = table.line
    OBVIOUS
  <2>5. n = Len(given) /\ n \in DOMAIN given
    <3>1. Len(given) \in Nat /\ DOMAIN given = 1 .. Len(given)
      BY <1>3
    <3>2. n \in 1 .. Len(given)
      BY <3>1, <2>4, <1>2
    <3>3. ~ Len(given) > n
      BY <3>1, <3>2, <2>4, <1>2, <1>b
    <3>4. n = Len(given)
      <4>1. PICK m : m = Len(given)
        OBVIOUS
      <4>2. m \in Nat /\ n \in 1 .. m /\ ~ m > n
        BY <4>1, <3>1, <3>2, <3>3
      <4>3. n = m
        BY <4>2
      <4> QED
        BY <4>1, <4>3
    <3> QED
      BY <3>1, <3>2, <3>4
  <2>6. LoneHeader(n)'
    BY <2>4, <2>5, <1>1, <1>2, <1>3 DEF LoneHeader
  <2>7. header = <<PartOf(n, 0, given'[n].sizes)>>
    BY <2>4, <1>1, <1>2, <1>5 DEF HeaderPart
  <2>8. WithinTarget(header)'
    BY <2>5, <2>6, <2>7, <1>1 DEF WithinTarget
  <2> QED
    BY <2>2, <2>3, <2>8, <1>6, <1>4
<1> QED
  BY <1>9, <1>a, <1>b

\* The end of the section: what is held is flushed.
LEMMA EndSectionKeeps ==
  ASSUME ChunkInv, EndSection
  PROVE  ChunkInv'
<1>1. /\ stage = "open" /\ table = NoTable /\ chunks' = Flush(chunks, held) /\ held' = <<>>
      /\ stage' = IF held # <<>> /\ TooLarge(held) THEN "failed" ELSE "ended"
      /\ todo' = todo /\ table' = table /\ rows' = rows /\ given' = given
  BY DEF EndSection
<1>2. /\ ChunkTypeOK /\ WithinTarget(held) /\ \A k \in DOMAIN chunks : WithinTarget(chunks[k])
      /\ rows = <<>>
  BY <1>1 DEF ChunkInv, TableIsLast
<1>3. given \in Seq(Given) /\ held \in Seq(PartRecord) /\ chunks \in Seq(Seq(PartRecord))
  BY <1>2 DEF ChunkTypeOK
<1>4. \A c : WithinTarget(c) => WithinTarget(c)'
  BY <1>1 DEF WithinTarget, LoneHeader
<1>5. /\ chunks' \in Seq(Seq(PartRecord))
      /\ \A k \in DOMAIN chunks' : \/ chunks'[k] = held
                                   \/ k \in DOMAIN chunks /\ chunks'[k] = chunks[k]
  <2>1. PICK c : c = held
    OBVIOUS
  <2>2. c \in Seq(PartRecord)
    BY <2>1, <1>3
  <2> DEFINE T == Seq(PartRecord)
  <2>3. c \in T /\ chunks \in Seq(T)
    BY <2>2, <1>3
  <2> HIDE DEF T
  <2>4. chunks' = chunks \/ chunks' = Append(chunks, c)
    BY <2>1, <1>1 DEF Flush
  <2>5. /\ chunks' \in Seq(T)
        /\ \A k \in DOMAIN chunks' : \/ chunks'[k] = c
                                     \/ k \in DOMAIN chunks /\ chunks'[k] = chunks[k]
    BY <2>3, <2>4
  <2>6. chunks' \in Seq(Seq(PartRecord))
    BY <2>5 DEF T
  <2>7. \A k \in DOMAIN chunks' : \/ chunks'[k] = c
                                  \/ k \in DOMAIN chunks /\ chunks'[k] = chunks[k]
    BY <2>5
  <2> QED
    BY <2>1, <2>6, <2>7
<1>6. ASSUME NEW k \in DOMAIN chunks' PROVE WithinTarget(chunks[k])'
  <2>1. PICK c : c = chunks'[k]
    OBVIOUS
  <2>2. WithinTarget(c)
    BY <2>1, <1>2, <1>5
  <2>3. WithinTarget(c)'
    BY <2>2, <1>4
  <2> QED
    BY <2>1, <2>3 DEF WithinTarget
<1>7. WithinTarget(held)' /\ held' \in Seq(PartRecord)
  BY <1>1, NothingFits DEF WithinTarget, FittingChunk
<1>8. ChunkTypeOK' /\ TableIsLast' /\ RowsFit'
  BY <1>1, <1>2, <1>5, <1>7 DEF ChunkTypeOK, TableIsLast, RowsFit
<1>9. FailedForHeader'
  <2>1. SUFFICES ASSUME TooLarge(held)
                 PROVE  \E n \in DOMAIN given : LoneHeader(n) /\ Heading + given[n].sizes[1] > Hard
    BY <1>1 DEF FailedForHeader, LoneHeader
  <2>2. SizeOf(held) \in Nat /\ Heading \in Nat /\ Hard \in Nat /\ Soft \in Nat /\ Soft <= Hard
    BY <1>3, SizeOfType, ChunkingAssumption
  <2>3. Heading + SizeOf(held) > Hard /\ ~ (Heading + SizeOf(held) <= Soft)
    BY <2>1, <2>2 DEF TooLarge
  <2>4. PICK n \in DOMAIN given : LoneHeader(n) /\ held = <<PartOf(n, 0, given[n].sizes)>>
    BY <2>3, <1>2 DEF WithinTarget
  <2>5. PICK g : g = given[n]
    OBVIOUS
  <2>6. g \in Given /\ g.kind = "header" /\ g.sizes = <<g.sizes[1]>> /\ n \in Nat
    BY <2>4, <2>5, <1>2, <1>3 DEF LoneHeader, ChunkTypeOK
  <2>7. SizeOf(held) = given[n].sizes[1]
    BY <2>4, <2>5, <2>6, SizeOfHeader
  <2> QED
    BY <2>3, <2>4, <2>7
<1> QED
  BY <1>6, <1>7, <1>8, <1>9 DEF ChunkInv

\* The steps of a section leave the invariant as it is before, and when, one is chunked.
LEMMA ChunkKeeps ==
  ASSUME ChunkInv, NEW kinds, Chunk(kinds)
  PROVE  ChunkInv'
<1>1. /\ stage = "idle" /\ stage' = "open"
      /\ table' = table /\ held' = held /\ rows' = rows /\ chunks' = chunks /\ given' = given
  BY DEF Chunk
<1>2. table = NoTable
  BY <1>1 DEF ChunkInv, TableIsLast
<1>3. ChunkTypeOK' /\ TableIsLast' /\ RowsFit'
  BY <1>1, <1>2 DEF ChunkInv, ChunkTypeOK, TableIsLast, RowsFit
<1>4. /\ WithinTarget(held)' /\ \A k \in DOMAIN chunks' : WithinTarget(chunks[k])'
      /\ FailedForHeader'
  BY <1>1 DEF ChunkInv, WithinTarget, LoneHeader, FailedForHeader
<1> QED
  BY <1>3, <1>4 DEF ChunkInv

LEMMA ChunkStep == ChunkInv /\ [Next]_vars => ChunkInv'
<1>1. SUFFICES ASSUME ChunkInv, [Next]_vars PROVE ChunkInv'
  OBVIOUS
<1>2. CASE UNCHANGED chunkVars
  BY <1>1, <1>2 DEF chunkVars, ChunkInv, ChunkTypeOK, TableIsLast, RowsFit, WithinTarget,
                    LoneHeader, FailedForHeader, PartOf, Part, HeaderPart
<1>3. ASSUME NEW k \in DOMAIN sections, ChunkSection(sections[k]) PROVE ChunkInv'
  BY <1>1, <1>3, ChunkKeeps DEF ChunkSection
<1>4. CASE ChunkNext
  BY <1>1, <1>4, AddLineKeeps, OpenTableKeeps, AddRowKeeps, SkipTableKeeps, CloseTableKeeps,
     EndSectionKeeps DEF ChunkNext
<1> QED
  BY <1>1, <1>2, <1>3, <1>4 DEF Next, vars

LEMMA ChunkStart == Init => ChunkInv
<1>1. SUFFICES ASSUME Init PROVE ChunkInv
  OBVIOUS
<1>2. /\ stage = "idle" /\ table = NoTable /\ held = <<>> /\ rows = <<>> /\ chunks = <<>>
      /\ given = <<>>
  BY <1>1 DEF Init, ChunkInit
<1>3. WithinTarget(held)
  BY <1>2, NothingFits DEF WithinTarget, FittingChunk
<1>4. ChunkTypeOK /\ TableIsLast /\ RowsFit /\ FailedForHeader
  BY <1>2 DEF ChunkTypeOK, TableIsLast, RowsFit, FailedForHeader
<1> QED
  BY <1>2, <1>3, <1>4 DEF ChunkInv

LEMMA ChunkAlways == Spec => []ChunkInv
BY ChunkStart, ChunkStep, PTL DEF Spec

(* Every chunk of semantic_chunker.py, heading and repeated context included, keeps to the   *)
(* soft target, and indexing fails there only for a table that is nothing but one header row *)
(* too long for the embedding: whatever the budgets, the lines, the tables and their order.  *)
THEOREM EveryChunkKeepsToTheTarget == Spec => []SoftTargetIsKept
<1>1. ChunkInv => SoftTargetIsKept
  BY DEF ChunkInv, WithinTarget, FailedForHeader, LoneHeader, SoftTargetIsKept
<1> QED
  BY <1>1, ChunkAlways, PTL

-----------------------------------------------------------------------------
(* Nothing is lost: all of a text is in its fragments.                      *)

\* A word that is taken is in the fragments, whole or cut.
LEMMA ClosedHasAll ==
  ASSUME NEW room \in Nat \ {0}, NEW acc \in FragmentsSoFar(room)
  PROVE  /\ acc.parts \in Seq(Nat) /\ acc.size \in Nat /\ Closed(acc) \in Seq(Nat)
         /\ Total(Closed(acc)) = Total(acc.parts) + acc.size /\ Total(acc.parts) \in Nat
<1>1. acc.parts \in Seq(0 .. room) /\ acc.size \in 0 .. room
  BY DEF FragmentsSoFar
<1>2. acc.parts \in Seq(Nat) /\ acc.size \in Nat
  <2>1. \A k \in DOMAIN acc.parts : acc.parts[k] \in Nat
    BY <1>1
  <2> QED
    BY <2>1, <1>1, SequenceOf
<1>3. Closed(acc) \in Seq(Nat) /\ Total(Closed(acc)) = Total(acc.parts) + acc.size
      /\ Total(acc.parts) \in Nat
  <2>1. Total(acc.parts) \in Nat
    BY <1>2, TotalType
  <2>2. CASE acc.size > 0
    <3>1. PICK p, n : p = acc.parts /\ n = acc.size
      OBVIOUS
    <3>2. Closed(acc) = Append(p, n)
      BY <2>2, <3>1 DEF Closed
    <3>3. p \in Seq(Nat) /\ n \in Nat
      BY <3>1, <1>2
    <3>4. Append(p, n) \in Seq(Nat) /\ Total(Append(p, n)) = Total(p) + n
      BY <3>3, TotalOfAppend
    <3> QED
      BY <3>1, <3>2, <3>4, <2>1
  <2>3. CASE ~ (acc.size > 0)
    <3>1. Closed(acc) = acc.parts /\ acc.size = 0
      BY <2>3, <1>2 DEF Closed
    <3> QED
      BY <3>1, <1>2, <2>1
  <2> QED
    BY <2>2, <2>3
<1> QED
  BY <1>2, <1>3

LEMMA TakeAdds ==
  ASSUME NEW room \in Nat \ {0}, NEW acc \in FragmentsSoFar(room), NEW word \in Nat
  PROVE  Total(Closed(Take(room, acc, word))) >= Total(Closed(acc)) + word
<1>1. PICK next \in FragmentsSoFar(room) : next = Take(room, acc, word)
  BY TakeKeeps
<1>2. /\ Total(Closed(next)) = Total(next.parts) + next.size
      /\ Total(Closed(acc)) = Total(acc.parts) + acc.size
      /\ acc.size \in Nat /\ next.size \in Nat /\ Total(acc.parts) \in Nat
      /\ Total(next.parts) \in Nat /\ Closed(acc) \in Seq(Nat)
  BY ClosedHasAll
<1>3. CASE acc.size + word <= room /\ acc.words < MaxWords
  <2>1. next = [acc EXCEPT !.size = @ + word, !.words = @ + 1]
    BY <1>1, <1>3 DEF Take
  <2>2. next.parts = acc.parts /\ next.size = acc.size + word
    BY <2>1 DEF FragmentsSoFar
  <2> QED
    BY <1>1, <1>2, <2>2
<1>4. CASE ~ (acc.size + word <= room /\ acc.words < MaxWords)
  <2> DEFINE cuts == (word - 1) \div room
             cut == [k \in 1 .. cuts |-> room]
             left == word - cuts * room
  <2>1. next = [parts |-> Closed(acc) \o cut, size |-> left, words |-> 1]
    BY <1>1, <1>4 DEF Take
  <2>2. cuts \in Int /\ left \in Nat
    OBVIOUS
  <2>3. cut \in Seq(Nat) /\ Total(cut) + left >= word /\ Total(cut) \in Nat
    <3>1. CASE cuts \in Nat
      <4>1. cut \in Seq(Nat) /\ Total(cut) = cuts * room
        <5> HIDE DEF cuts
        <5> QED
          BY <3>1, TotalOfSame
      <4>2. Total(cut) + left = word
        <5>1. PICK m : m = cuts * room
          OBVIOUS
        <5>2. m \in Int /\ left = word - m
          BY <5>1, <2>2
        <5> HIDE DEF left, cut
        <5> QED
          BY <5>1, <5>2, <4>1
      <4> HIDE DEF cut, left, cuts
      <4> QED
        BY <4>1, <4>2, TotalType
    <3>2. CASE cuts \notin Nat
      <4>1. cuts < 0 /\ 1 .. cuts = {}
        BY <3>2, <2>2
      <4>2. cut = <<>> /\ <<>> \in Seq(Nat)
        BY <4>1
      <4>3. left >= word
        <5> HIDE DEF cuts
        <5>1. cuts * room <= 0
          BY <4>1, <2>2
        <5> QED
          BY <5>1, <2>2
      <4> HIDE DEF cut, left
      <4> QED
        BY <4>2, <4>3, <2>2, TotalOfNone
    <3> QED
      BY <3>1, <3>2
  <2>4. next.parts = Closed(acc) \o cut /\ next.size = left
    BY <2>1
  <2> HIDE DEF cut, left
  <2>5. Total(next.parts) = Total(Closed(acc)) + Total(cut)
    BY <2>3, <2>4, <1>2, TotalOfConcat
  <2> QED
    BY SMTT(20), <1>1, <1>2, <2>2, <2>3, <2>4, <2>5
<1> QED
  BY <1>3, <1>4

\* Together the fragments are at least as long as the text.
LEMMA FragmentsHaveAll ==
  ASSUME NEW text \in Seq(Nat), NEW room \in Nat \ {0}
  PROVE  Fragments(text, room) \in Seq(Nat) /\ Total(Fragments(text, room)) >= Total(text)
<1>1. PICK h : /\ h[1 .. 0] = [parts |-> <<>>, size |-> 0, words |-> 0]
               /\ Fragments(text, room) = Closed(h[1 .. Len(text)])
               /\ \A n \in 0 .. Len(text) : h[1 .. n] \in FragmentsSoFar(room)
               /\ \A n \in 0 .. Len(text) - 1 :
                    h[1 .. n + 1] = Take(room, h[1 .. n], text[n + 1])
  BY FragmentsRuns
<1>2. PICK g : /\ g[1 .. 0] = 0 /\ Total(text) = g[1 .. Len(text)]
               /\ \A n \in 0 .. Len(text) : g[1 .. n] \in Nat
               /\ \A n \in 0 .. Len(text) - 1 : g[1 .. n + 1] = g[1 .. n] + text[n + 1]
  BY TotalRuns
<1>3. PICK m \in Nat : m = Len(text) /\ \A n \in 0 .. m - 1 : text[n + 1] \in Nat
  <2>1. \A n \in 0 .. Len(text) - 1 : n + 1 \in 1 .. Len(text) /\ text[n + 1] \in Nat
    OBVIOUS
  <2> QED
    BY <2>1
<1> DEFINE T == {n \in Nat : n <= m => Total(Closed(h[1 .. n])) >= g[1 .. n]}
<1>4. 0 \in T
  <2>1. 0 \in 0 .. m
    OBVIOUS
  <2>2. h[1 .. 0] \in FragmentsSoFar(room)
    BY <2>1, <1>1, <1>3
  <2>3. Total(Closed(h[1 .. 0])) \in Nat
    BY <2>2, ClosedHasAll, TotalType
  <2> QED
    BY <2>3, <1>2
<1>5. ASSUME NEW n \in Nat, n \in T PROVE n + 1 \in T
  <2>1. SUFFICES ASSUME n + 1 <= m PROVE Total(Closed(h[1 .. n + 1])) >= g[1 .. n + 1]
    OBVIOUS
  <2>2. n \in 0 .. m - 1 /\ n \in 0 .. m /\ n + 1 \in 0 .. m /\ n <= m
    BY <2>1
  <2>3. PICK acc, next, word : acc = h[1 .. n] /\ next = h[1 .. n + 1] /\ word = text[n + 1]
    OBVIOUS
  <2>4. /\ acc \in FragmentsSoFar(room) /\ next \in FragmentsSoFar(room) /\ word \in Nat
        /\ next = Take(room, acc, word) /\ g[1 .. n] \in Nat /\ g[1 .. n + 1] = g[1 .. n] + word
    BY <2>2, <2>3, <1>1, <1>2, <1>3
  <2>5. Total(Closed(next)) >= Total(Closed(acc)) + word
    BY <2>4, TakeAdds
  <2>6. Total(Closed(acc)) \in Nat /\ Total(Closed(next)) \in Nat
    BY <2>4, ClosedHasAll, TotalType
  <2>7. Total(Closed(acc)) >= g[1 .. n]
    BY <2>2, <2>3, <1>5
  <2> QED
    BY <2>3, <2>4, <2>5, <2>6, <2>7
<1>6. m \in T
  <2> HIDE DEF T
  <2> QED
    BY <1>4, <1>5, SetInduction
<1>7. m \in 0 .. m
  OBVIOUS
<1>8. Fragments(text, room) \in Seq(Nat)
  BY <1>1, <1>3, <1>7, ClosedHasAll
<1> QED
  BY <1>1, <1>2, <1>3, <1>6, <1>8

-----------------------------------------------------------------------------
(* What parts show.                                                         *)

\* A piece is in a part once, so that what the part shows of it is its size.
ClearPart ==
  {p \in PartRecord : \A x, y \in p.pieces : x[1] = y[1] /\ x[2] = y[2] => x = y}

LEMMA FoldOfNone == FoldSet(+, 0, {}) = 0
<1> DEFINE fold(f, u) == IF u = {} THEN 0
                         ELSE LET x == CHOOSE x \in u : TRUE IN x + f[u \ {x}]
<1>1. \E f : f = [u \in SUBSET {} |-> fold(f, u)]
  <2>1. [u \in SUBSET {} |-> 0] = [u \in SUBSET {} |-> fold([v \in SUBSET {} |-> 0], u)]
    OBVIOUS
  <2> QED
    BY <2>1
<1>2. PICK f : f = [u \in SUBSET {} |-> fold(f, u)] /\ FoldSet(+, 0, {}) = f[{}]
  <2>1. FoldSet(+, 0, {}) = (CHOOSE f : f = [u \in SUBSET {} |-> fold(f, u)])[{}]
    BY DEF FoldSet, MapThenFoldSet
  <2> QED
    BY <2>1, <1>1
<1> QED
  BY <1>2

LEMMA FoldOfOne ==
  ASSUME NEW a \in Nat
  PROVE  FoldSet(+, 0, {a}) = a
<1> DEFINE fold(f, u) == IF u = {} THEN 0
                         ELSE LET x == CHOOSE x \in u : TRUE IN x + f[u \ {x}]
           g == [u \in SUBSET {a} |-> IF u = {} THEN 0 ELSE a]
<1>0. /\ \A u \in SUBSET {a} : u = {} \/ u = {a}
      /\ (CHOOSE x \in {a} : TRUE) = a /\ {a} \ {a} = {}
  OBVIOUS
<1>1. \E f : f = [u \in SUBSET {a} |-> fold(f, u)]
  <2>1. \A u \in SUBSET {a} : fold(g, u) = IF u = {} THEN 0 ELSE a
    <3>1. g[{}] = 0 /\ a + 0 = a
      OBVIOUS
    <3>2. fold(g, {a}) = a
      <4> HIDE DEF g
      <4> QED
        BY <3>1, <1>0
    <3> QED
      BY <3>2, <1>0
  <2>2. g = [u \in SUBSET {a} |-> fold(g, u)]
    BY <2>1
  <2> QED
    BY <2>2
<1>2. PICK f : f = [u \in SUBSET {a} |-> fold(f, u)] /\ FoldSet(+, 0, {a}) = f[{a}]
  <2>1. FoldSet(+, 0, {a}) = (CHOOSE f : f = [u \in SUBSET {a} |-> fold(f, u)])[{a}]
    BY DEF FoldSet, MapThenFoldSet
  <2> QED
    BY <2>1, <1>1
<1>3. f[{}] = 0
  BY <1>2
<1>6. \A z : fold(z, {a}) = a + z[{}]
  BY <1>0
<1>4. f[{a}] = fold(f, {a})
  <2>1. {a} \in SUBSET {a}
    OBVIOUS
  <2> HIDE DEF fold
  <2> QED
    BY <2>1, <1>2
<1>5. fold(f, {a}) = a + 0
  BY <1>3, <1>6
<1> HIDE DEF fold
<1>7. FoldSet(+, 0, {a}) = f[{a}]
  BY <1>2
<1>8. f[{a}] = a
  BY <1>4, <1>5
<1> QED
  BY <1>7, <1>8

LEMMA AmountIs ==
  ASSUME NEW p \in ClearPart, NEW n, NEW c
  PROVE  /\ Amount(p, n, c) \in Nat
         /\ \A x \in p.pieces : x[1] = n /\ x[2] = c => Amount(p, n, c) = x[3]
         /\ (\A x \in p.pieces : ~ (x[1] = n /\ x[2] = c)) => Amount(p, n, c) = 0
<1> DEFINE shown == {x \in p.pieces : x[1] = n /\ x[2] = c}
<1>1. Amount(p, n, c) = FoldSet(+, 0, {x[3] : x \in shown})
  BY DEF Amount
<1>2. /\ \A x \in p.pieces : x[3] \in Nat
      /\ \A x, y \in shown : x = y
  BY DEF ClearPart, PartRecord
<1>3. CASE shown = {}
  <2>1. {x[3] : x \in shown} = {}
    BY <1>3
  <2>2. Amount(p, n, c) = 0
    BY <1>1, <2>1, FoldOfNone
  <2> QED
    BY <2>2, <1>3
<1>4. CASE shown # {}
  <2>1. PICK x \in shown : TRUE
    BY <1>4
  <2>2. {y[3] : y \in shown} = {x[3]}
    BY <2>1, <1>2
  <2>3. x[3] \in Nat /\ Amount(p, n, c) = x[3]
    BY <1>1, <1>2, <2>2, FoldOfOne
  <2> QED
    BY <2>1, <2>3, <1>2
<1> QED
  BY <1>3, <1>4

LEMMA AmountGrows ==
  ASSUME NEW p \in ClearPart, NEW q \in ClearPart, p.pieces \subseteq q.pieces, NEW n, NEW c
  PROVE  Amount(p, n, c) <= Amount(q, n, c)
<1>1. CASE \E x \in p.pieces : x[1] = n /\ x[2] = c
  <2>1. PICK x \in p.pieces : x[1] = n /\ x[2] = c
    BY <1>1
  <2>2. Amount(p, n, c) = x[3] /\ Amount(q, n, c) = x[3] /\ Amount(p, n, c) \in Nat
    BY <2>1, AmountIs
  <2> QED
    BY <2>2
<1>2. CASE ~ \E x \in p.pieces : x[1] = n /\ x[2] = c
  <2>1. Amount(p, n, c) = 0 /\ Amount(q, n, c) \in Nat
    BY <1>2, AmountIs
  <2> QED
    BY <2>1
<1> QED
  BY <1>1, <1>2

Amounts(parts, n, c) == [k \in DOMAIN parts |-> Amount(parts[k], n, c)]

LEMMA ShownIs ==
  ASSUME NEW parts \in Seq(ClearPart), NEW n, NEW c
  PROVE  /\ Amounts(parts, n, c) \in Seq(Nat) /\ Len(Amounts(parts, n, c)) = Len(parts)
         /\ DOMAIN Amounts(parts, n, c) = DOMAIN parts
         /\ \A k \in DOMAIN parts : Amounts(parts, n, c)[k] = Amount(parts[k], n, c)
         /\ Shown(parts, n, c) = Total(Amounts(parts, n, c)) /\ Shown(parts, n, c) \in Nat
<1>1. PICK m, f : m = Len(parts) /\ f = Amounts(parts, n, c)
  OBVIOUS
<1>2. m \in Nat /\ DOMAIN parts = 1 .. m /\ \A k \in 1 .. m : parts[k] \in ClearPart
  BY <1>1, ElementOfSeq
<1>3. DOMAIN f = 1 .. m /\ \A k \in 1 .. m : f[k] = Amount(parts[k], n, c)
  BY <1>1, <1>2 DEF Amounts
<1>4. f \in [1 .. m -> Nat]
  <2>1. \A k \in 1 .. m : f[k] \in Nat
    BY <1>2, <1>3, AmountIs
  <2>2. f = [k \in 1 .. m |-> f[k]]
    BY <1>1, <1>2 DEF Amounts
  <2> QED
    BY <2>1, <2>2
<1>5. f \in Seq(Nat) /\ Len(f) = m
  <2>1. f \in Seq(Nat)
    BY <1>2, <1>4, SeqDef
  <2> QED
    BY <2>1, <1>2, <1>3
<1>6. Shown(parts, n, c) = Total(f)
  BY <1>1 DEF Shown, Size, Total, Amounts
<1> QED
  BY <1>1, <1>2, <1>3, <1>5, <1>6, TotalType

LEMMA ConcatIs ==
  ASSUME NEW E, NEW s \in Seq(E), NEW t \in Seq(E)
  PROVE  /\ s \o t \in Seq(E) /\ Len(s \o t) = Len(s) + Len(t)
         /\ \A i \in 1 .. Len(s) : (s \o t)[i] = s[i]
         /\ \A i \in 1 .. Len(t) : (s \o t)[Len(s) + i] = t[i]
OBVIOUS

LEMMA ShownJoined ==
  ASSUME NEW s \in Seq(ClearPart), NEW t \in Seq(ClearPart), NEW n, NEW c
  PROVE  /\ s \o t \in Seq(ClearPart) /\ Shown(s, n, c) \in Nat /\ Shown(t, n, c) \in Nat
         /\ Shown(s \o t, n, c) = Shown(s, n, c) + Shown(t, n, c)
<1>1. PICK f, g, h : /\ f = Amounts(s, n, c) /\ g = Amounts(t, n, c)
                     /\ h = Amounts(s \o t, n, c)
  OBVIOUS
<1>2. PICK both \in Seq(ClearPart) : both = s \o t
  <2>1. s \o t \in Seq(ClearPart)
    OBVIOUS
  <2> QED
    BY <2>1
<1>3. PICK k \in Nat, l \in Nat : k = Len(s) /\ l = Len(t)
  OBVIOUS
<1>4. /\ Len(both) = k + l
      /\ \A i \in 1 .. k : both[i] = s[i]
      /\ \A i \in 1 .. l : both[k + i] = t[i]
  BY <1>2, <1>3
<1>5. /\ f \in Seq(Nat) /\ g \in Seq(Nat) /\ h \in Seq(Nat)
      /\ Len(f) = k /\ Len(g) = l /\ Len(h) = k + l
      /\ \A i \in 1 .. k : f[i] = Amount(s[i], n, c)
      /\ \A i \in 1 .. l : g[i] = Amount(t[i], n, c)
      /\ \A i \in 1 .. k + l : h[i] = Amount(both[i], n, c)
  <2>1. DOMAIN s = 1 .. k /\ DOMAIN t = 1 .. l /\ DOMAIN both = 1 .. k + l
    BY <1>2, <1>3, <1>4
  <2>2. /\ f \in Seq(Nat) /\ Len(f) = Len(s)
        /\ \A i \in DOMAIN s : f[i] = Amount(s[i], n, c)
    BY <1>1, ShownIs
  <2>3. /\ g \in Seq(Nat) /\ Len(g) = Len(t)
        /\ \A i \in DOMAIN t : g[i] = Amount(t[i], n, c)
    BY <1>1, ShownIs
  <2>4. /\ h \in Seq(Nat) /\ Len(h) = Len(both)
        /\ \A i \in DOMAIN both : h[i] = Amount(both[i], n, c)
    <3>1. h = Amounts(both, n, c)
      BY <1>1, <1>2
    <3> QED
      BY <3>1, ShownIs
  <2> QED
    BY <2>1, <2>2, <2>3, <2>4, <1>3, <1>4
<1>6. h = f \o g
  <2>1. PICK fg : fg = f \o g
    OBVIOUS
  <2>2. /\ fg \in Seq(Nat) /\ Len(fg) = k + l
        /\ \A i \in 1 .. k : fg[i] = f[i]
        /\ \A i \in 1 .. l : fg[k + i] = g[i]
    <3>1. f \in Seq(Nat) /\ g \in Seq(Nat)
      BY <1>5
    <3>2. /\ f \o g \in Seq(Nat) /\ Len(f \o g) = Len(f) + Len(g)
          /\ \A i \in 1 .. Len(f) : (f \o g)[i] = f[i]
          /\ \A i \in 1 .. Len(g) : (f \o g)[Len(f) + i] = g[i]
      BY <3>1, ConcatIs
    <3> QED
      BY <3>2, <2>1, <1>5
  <2>3. ASSUME NEW i \in 1 .. k + l PROVE h[i] = fg[i]
    <3>1. CASE i \in 1 .. k
      BY <3>1, <2>2, <1>4, <1>5
    <3>2. CASE i \notin 1 .. k
      <4>1. PICK j \in 1 .. l : i = k + j
        <5>1. i - k \in 1 .. l /\ i = k + (i - k)
          BY <3>2
        <5> QED
          BY <5>1
      <4>2. h[i] = Amount(t[j], n, c)
        BY <4>1, <1>4, <1>5
      <4> QED
        BY <4>1, <4>2, <2>2, <1>5
    <3> QED
      BY <3>1, <3>2
  <2>4. h = fg
    BY <2>2, <2>3, <1>5, SeqEqual
  <2> QED
    BY <2>1, <2>4
<1>7. /\ Shown(s, n, c) = Total(f) /\ Shown(t, n, c) = Total(g)
      /\ Shown(both, n, c) = Total(h)
      /\ Shown(s, n, c) \in Nat /\ Shown(t, n, c) \in Nat
  BY <1>1, <1>2, ShownIs
<1>8. Total(f \o g) = Total(f) + Total(g)
  BY <1>5, TotalOfConcat
<1> QED
  BY <1>2, <1>6, <1>7, <1>8

LEMMA ShownAtLeast ==
  ASSUME NEW parts \in Seq(ClearPart), NEW k \in DOMAIN parts, NEW x \in parts[k].pieces
  PROVE  x[3] <= Shown(parts, x[1], x[2])
<1>1. PICK f : f = Amounts(parts, x[1], x[2])
  OBVIOUS
<1>2. /\ f \in Seq(Nat) /\ k \in DOMAIN f /\ f[k] = Amount(parts[k], x[1], x[2])
      /\ Shown(parts, x[1], x[2]) = Total(f)
  BY <1>1, ShownIs
<1>3. parts[k] \in ClearPart
  BY ElementOfSeq
<1>4. f[k] = x[3]
  BY <1>2, <1>3, AmountIs
<1> QED
  BY <1>2, <1>4, TotalAtLeast

LEMMA ShownOfNone ==
  ASSUME NEW n, NEW c
  PROVE  Shown(<<>>, n, c) = 0
<1>1. PICK none \in Seq(ClearPart) : none = <<>>
  <2>1. <<>> \in Seq(ClearPart)
    OBVIOUS
  <2> QED
    BY <2>1
<1>2. PICK f : f = Amounts(none, n, c)
  OBVIOUS
<1>3. f \in Seq(Nat) /\ Len(f) = 0 /\ Shown(none, n, c) = Total(f)
  BY <1>1, <1>2, ShownIs
<1>4. f = <<>>
  BY <1>3
<1> QED
  BY <1>1, <1>3, <1>4, TotalOfNone

LEMMA ShownOfOne ==
  ASSUME NEW p \in ClearPart, NEW n, NEW c
  PROVE  <<p>> \in Seq(ClearPart) /\ Shown(<<p>>, n, c) = Amount(p, n, c)
<1>1. PICK one \in Seq(ClearPart) : one = <<p>>
  <2>1. <<p>> \in Seq(ClearPart)
    OBVIOUS
  <2> QED
    BY <2>1
<1>2. PICK f : f = Amounts(one, n, c)
  OBVIOUS
<1>3. Len(one) = 1 /\ 1 \in DOMAIN one /\ one[1] = p
  BY <1>1
<1>4. f \in Seq(Nat) /\ Len(f) = 1 /\ f[1] = Amount(p, n, c) /\ Shown(one, n, c) = Total(f)
  BY <1>2, <1>3, ShownIs
<1> QED
  BY <1>1, <1>4, TotalType

\* The parts of one line, which may show headers beside its own pieces.
LinePart(m) == {p \in ClearPart : \A x \in p.pieces : x[2] > 0 => x[1] = m}

LEMMA PieceJoins ==
  ASSUME NEW m \in Nat, NEW p \in LinePart(m), NEW q \in PartRecord,
         NEW x \in Nat \X Nat \X Nat, q.pieces = {x}, x[2] > 0 => x[1] = m,
         \A y \in p.pieces : ~ (y[1] = x[1] /\ y[2] = x[2])
  PROVE  Joined(p, q) \in LinePart(m) /\ Joined(p, q).pieces = p.pieces \union {x}
<1>1. PICK r : r = Joined(p, q)
  OBVIOUS
<1>2. r.pieces = p.pieces \union {x}
  BY <1>1 DEF Joined, Part
<1>3. r \in PartRecord
  BY <1>1, PartTypes DEF LinePart, ClearPart
<1>4. \A y, z \in p.pieces \union {x} : y[1] = z[1] /\ y[2] = z[2] => y = z
  BY DEF LinePart, ClearPart
<1>5. r \in ClearPart
  BY <1>2, <1>3, <1>4 DEF ClearPart
<1>6. \A y \in r.pieces : y[2] > 0 => y[1] = m
  BY <1>2 DEF LinePart
<1> QED
  BY <1>1, <1>2, <1>5, <1>6 DEF LinePart

\* Text that is spread out is shown whole, and its context with every fragment.
LEMMA SpreadShows ==
  ASSUME NEW m \in Nat, NEW n \in Nat, NEW piece \in Nat, NEW text \in Seq(Nat),
         NEW context \in LinePart(m), Heading + context.size < Soft,
         piece > 0 => n = m, \A x \in context.pieces : ~ (x[1] = n /\ x[2] = piece),
         NEW parts, parts = Spread(n, piece, text, context)
  PROVE  /\ parts \in Seq(LinePart(m)) /\ parts \in Seq(ClearPart)
         /\ Shown(parts, n, piece) >= Size(text)
         /\ \A k \in DOMAIN parts : context.pieces \subseteq parts[k].pieces
         /\ Size(text) > 0 => parts # <<>>
<1> DEFINE room == Soft - Heading - context.size
           fs == Fragments(text, room)
           part(k) == Joined(context, Part({<<n, piece, fs[k]>>}, fs[k], 1))
<1>0. context \in PartRecord
  BY DEF LinePart, ClearPart
<1>1. room \in Nat \ {0}
  <2>1. Heading \in Nat /\ Soft \in Nat /\ context.size \in Nat
    BY <1>0, ChunkingAssumption, PartTypes
  <2> QED
    BY <2>1
<1>2. fs \in Seq(Nat) /\ Total(fs) >= Total(text)
  <2> HIDE DEF room
  <2> QED
    BY <1>1, FragmentsHaveAll
<1>3. parts = [k \in DOMAIN fs |-> part(k)]
  BY DEF Spread
<1> HIDE DEF fs, room
<1>4. Len(fs) \in Nat /\ DOMAIN fs = 1 .. Len(fs) /\ \A k \in 1 .. Len(fs) : fs[k] \in Nat
  BY <1>2, ElementOfSeq
<1>5. ASSUME NEW k \in DOMAIN fs
      PROVE  /\ part(k) \in LinePart(m)
             /\ part(k).pieces = context.pieces \union {<<n, piece, fs[k]>>}
  <2>1. PICK size, x, new : /\ size = fs[k] /\ x = <<n, piece, size>>
                             /\ new = Part({x}, size, 1)
    OBVIOUS
  <2>2. /\ x \in Nat \X Nat \X Nat /\ {x} \in SUBSET (Nat \X Nat \X Nat)
        /\ x[1] = n /\ x[2] = piece /\ size \in Nat /\ 1 \in Nat
    BY <2>1, <1>4
  <2>3. new \in PartRecord
    BY <2>1, <2>2, PartTypes
  <2>4. new.pieces = {x}
    BY <2>1 DEF Part
  <2>5. \A y \in context.pieces : ~ (y[1] = x[1] /\ y[2] = x[2])
    BY <2>2
  <2>6. x[2] > 0 => x[1] = m
    BY <2>2
  <2>7. /\ Joined(context, new) \in LinePart(m)
        /\ Joined(context, new).pieces = context.pieces \union {x}
    BY <2>2, <2>3, <2>4, <2>5, <2>6, PieceJoins
  <2> QED
    BY <2>1, <2>7
<1> HIDE DEF part
<1>6. parts \in [1 .. Len(fs) -> LinePart(m)]
  BY <1>3, <1>4, <1>5
<1>7. parts \in Seq(LinePart(m)) /\ Len(parts) = Len(fs) /\ DOMAIN parts = DOMAIN fs
  <2>1. PICK S : S = LinePart(m)
    OBVIOUS
  <2>2. parts \in Seq(S)
    BY SMTT(20), <2>1, <1>4, <1>6, SeqDef
  <2>3. DOMAIN parts = 1 .. Len(fs)
    BY <1>6
  <2>4. Len(parts) = Len(fs)
    BY <2>2, <2>3, <1>4
  <2> QED
    BY <2>1, <2>2, <2>3, <2>4, <1>4
<1>8. parts \in Seq(ClearPart)
  <2>1. \A k \in DOMAIN parts : parts[k] \in ClearPart
    BY <1>3, <1>5, <1>7 DEF LinePart
  <2> QED
    BY <2>1, <1>7, SequenceOf
<1>9. \A k \in DOMAIN parts : context.pieces \subseteq parts[k].pieces
  BY <1>3, <1>5, <1>7
<1>a. Shown(parts, n, piece) = Total(fs)
  <2>1. PICK f : f = Amounts(parts, n, piece)
    OBVIOUS
  <2>2. /\ f \in Seq(Nat) /\ Len(f) = Len(fs) /\ Shown(parts, n, piece) = Total(f)
        /\ \A k \in DOMAIN parts : f[k] = Amount(parts[k], n, piece)
    BY <2>1, <1>7, <1>8, ShownIs
  <2>3. ASSUME NEW k \in 1 .. Len(fs) PROVE f[k] = fs[k]
    <3>1. PICK p, x : p = parts[k] /\ x = <<n, piece, fs[k]>>
      OBVIOUS
    <3>2. p \in ClearPart /\ x \in p.pieces /\ x[1] = n /\ x[2] = piece /\ x[3] = fs[k]
      <4>1. p = part(k) /\ k \in DOMAIN fs
        BY <3>1, <1>3, <1>4
      <4> QED
        BY <4>1, <3>1, <1>5 DEF LinePart
    <3>3. f[k] = Amount(p, n, piece)
      BY <3>1, <2>2, <1>4, <1>7
    <3> QED
      BY <3>2, <3>3, AmountIs
  <2>4. f = fs
    BY <2>2, <2>3, <1>2, SeqEqual
  <2> QED
    BY <2>2, <2>4
<1>b. Size(text) = Total(text)
  BY DEF Size, Total
<1>c. ASSUME Size(text) > 0 PROVE parts # <<>>
  <2>1. Total(fs) \in Nat /\ Total(text) \in Nat
    BY <1>2, TotalType
  <2>2. fs # <<>>
    <3>1. Total(fs) > 0
      BY <2>1, <1>2, <1>b, <1>c
    <3> QED
      BY <3>1, TotalOfNone
  <2>3. Len(parts) # 0
    BY <2>2, <1>2, <1>7
  <2> QED
    BY <2>3
<1> QED
  BY <1>2, <1>7, <1>8, <1>9, <1>a, <1>b, <1>c

LEMMA LineSequence ==
  ASSUME NEW m, NEW s \in Seq(LinePart(m))
  PROVE  s \in Seq(ClearPart) /\ \A k \in DOMAIN s : s[k] \in LinePart(m) /\ s[k] \in ClearPart
<1>1. \A k \in DOMAIN s : s[k] \in LinePart(m)
  BY ElementOfSeq
<1>2. \A k \in DOMAIN s : s[k] \in ClearPart
  BY <1>1 DEF LinePart
<1> QED
  BY <1>1, <1>2, SequenceOf

\* A whole text as a part of its line.
LEMMA TextJoins ==
  ASSUME NEW m \in Nat, NEW p \in LinePart(m), NEW n \in Nat, NEW c \in Nat, NEW text \in Seq(Nat),
         c > 0 => n = m, \A y \in p.pieces : ~ (y[1] = n /\ y[2] = c)
  PROVE  /\ Joined(p, PartOf(n, c, text)) \in LinePart(m)
         /\ Joined(p, PartOf(n, c, text)).pieces = p.pieces \union {<<n, c, Size(text)>>}
<1>1. PICK q, x : q = PartOf(n, c, text) /\ x = <<n, c, Size(text)>>
  OBVIOUS
<1>2. q \in PartRecord /\ x \in Nat \X Nat \X Nat /\ x[1] = n /\ x[2] = c
  <2>1. Size(text) \in Nat
    BY SizeRuns
  <2> QED
    BY <1>1, <2>1, PartOfType
<1>3. q.pieces = {x}
  BY <1>1 DEF PartOf, Part
<1>4. x[2] > 0 => x[1] = m
  BY <1>2
<1>5. \A y \in p.pieces : ~ (y[1] = x[1] /\ y[2] = x[2])
  BY <1>2
<1>6. q \in PartRecord /\ x \in Nat \X Nat \X Nat
  BY <1>2
<1>7. Joined(p, q) \in LinePart(m) /\ Joined(p, q).pieces = p.pieces \union {x}
  BY <1>3, <1>4, <1>5, <1>6, PieceJoins
<1> QED
  BY <1>1, <1>7

LEMMA EmptyPart ==
  ASSUME NEW m \in Nat, NEW size \in Nat, NEW words \in Nat
  PROVE  /\ Part({}, size, words) \in LinePart(m) /\ Part({}, size, words).pieces = {}
         /\ Part({}, size, words).size = size
<1>1. PICK p : p = Part({}, size, words)
  OBVIOUS
<1>2. {} \in SUBSET (Nat \X Nat \X Nat)
  OBVIOUS
<1>3. p \in PartRecord /\ p.pieces = {} /\ p.size = size
  BY <1>1, <1>2, PartTypes DEF Part
<1> QED
  BY <1>1, <1>3 DEF LinePart, ClearPart

\* A row as one part shows each of its cells.
LEMMA WholeShows ==
  ASSUME NEW n \in Nat, NEW row \in Seq(Seq(Nat)), NEW line, line = Whole(n, row)
  PROVE  /\ line \in LinePart(n)
         /\ \A c \in DOMAIN row : <<n, c, Size(row[c])>> \in line.pieces
<1>1. PICK h : /\ h[1 .. 0] = Separators /\ Whole(n, row) = h[1 .. Len(row)]
               /\ \A i \in 0 .. Len(row) - 1 :
                    h[1 .. i + 1] = Joined(h[1 .. i], PartOf(n, i + 1, row[i + 1]))
  BY WholeRuns
<1>2. PICK m \in Nat : m = Len(row) /\ DOMAIN row = 1 .. m
  OBVIOUS
<1> DEFINE T == {i \in Nat : i <= m =>
                   /\ h[1 .. i] \in LinePart(n)
                   /\ \A x \in h[1 .. i].pieces : x[2] <= i
                   /\ \A c \in 1 .. i : <<n, c, Size(row[c])>> \in h[1 .. i].pieces}
<1>3. 0 \in T
  <2>1. Bars \in Nat
    BY ChunkingAssumption
  <2>2. Separators \in LinePart(n) /\ Separators.pieces = {}
    BY <2>1, EmptyPart DEF Separators
  <2> QED
    BY <2>2, <1>1
<1>4. ASSUME NEW i \in Nat, i \in T PROVE i + 1 \in T
  <2>1. SUFFICES ASSUME i + 1 <= m
                 PROVE  /\ h[1 .. i + 1] \in LinePart(n)
                        /\ \A x \in h[1 .. i + 1].pieces : x[2] <= i + 1
                        /\ \A c \in 1 .. i + 1 :
                             <<n, c, Size(row[c])>> \in h[1 .. i + 1].pieces
    OBVIOUS
  <2>2. i <= m /\ i \in 0 .. Len(row) - 1 /\ i + 1 \in DOMAIN row /\ i + 1 \in Nat
    BY <2>1, <1>2
  <2>3. PICK p, q, text, c : p = h[1 .. i] /\ q = h[1 .. i + 1] /\ c = i + 1 /\ text = row[c]
    OBVIOUS
  <2>4. /\ p \in LinePart(n) /\ \A x \in p.pieces : x[2] <= i
        /\ \A d \in 1 .. i : <<n, d, Size(row[d])>> \in p.pieces
    BY <2>2, <2>3, <1>4
  <2>5. q = Joined(p, PartOf(n, c, text))
    BY <2>2, <2>3, <1>1
  <2>6. text \in Seq(Nat) /\ c \in Nat /\ \A x \in p.pieces : ~ (x[1] = n /\ x[2] = c)
    BY <2>2, <2>3, <2>4
  <2>7. q \in LinePart(n) /\ q.pieces = p.pieces \union {<<n, c, Size(text)>>}
    BY <2>4, <2>5, <2>6, TextJoins
  <2>8. \A x \in q.pieces : x[2] <= c
    <3>1. \A x \in p.pieces : x[2] \in Nat
      BY <2>4 DEF LinePart, ClearPart, PartRecord
    <3> QED
      BY <3>1, <2>3, <2>4, <2>6, <2>7
  <2>9. ASSUME NEW d \in 1 .. c PROVE <<n, d, Size(row[d])>> \in q.pieces
    <3>1. d = c \/ d \in 1 .. i
      BY <2>3
    <3> QED
      BY <3>1, <2>3, <2>4, <2>7
  <2> QED
    BY <2>3, <2>7, <2>8, <2>9
<1>5. m \in T
  <2> HIDE DEF T
  <2> QED
    BY <1>3, <1>4, SetInduction
<1> QED
  BY <1>1, <1>2, <1>5

\* Spread out under its coordinates, a row is shown whole, and its headers before it.
LEMMA ByCoordinatesShows ==
  ASSUME NEW n \in Nat, NEW row \in Seq(Seq(Nat)), row # <<>>,
         table.line \in Nat, table.header \in Nat, NEW parts, parts = ByCoordinates(n, row)
  PROVE  /\ parts \in Seq(LinePart(n)) /\ Shown(parts, table.line, 0) >= table.header
         /\ \A c \in DOMAIN row : Shown(parts, n, c) >= Size(row[c])
<1>0. PICK at, first : /\ at = Part({}, Anchor, 0)
                       /\ first = Spread(table.line, 0, <<table.header>>, at)
  OBVIOUS
<1>1. PICK h : /\ h[1 .. 0] = first /\ parts = h[1 .. Len(row)]
               /\ \A i \in 0 .. Len(row) - 1 :
                    h[1 .. i + 1] = h[1 .. i] \o Spread(n, i + 1, row[i + 1], at)
  <2>1. PICK h : IsSpreadRun(h, n, row)
    BY ByCoordinatesRuns
  <2> QED
    BY <2>1, <1>0 DEF IsSpreadRun
<1>2. PICK m \in Nat : m = Len(row) /\ DOMAIN row = 1 .. m
  OBVIOUS
<1>3. /\ at \in LinePart(n) /\ at.pieces = {} /\ Heading + at.size < Soft
  <2>1. Anchor \in Nat /\ 0 \in Nat /\ Heading + Anchor < Soft
    BY ChunkingAssumption
  <2> QED
    BY <2>1, <1>0, EmptyPart
<1>4. /\ first \in Seq(LinePart(n)) /\ Shown(first, table.line, 0) >= table.header
  <2>1. PICK text, zero, l : text = <<table.header>> /\ zero = 0 /\ l = table.line
    OBVIOUS
  <2>2. /\ text \in Seq(Nat) /\ Size(text) = table.header /\ zero \in Nat /\ l \in Nat
        /\ (zero > 0 => l = n) /\ \A x \in at.pieces : ~ (x[1] = l /\ x[2] = zero)
    BY <2>1, <1>3, SizeOfWord
  <2>3. first = Spread(l, zero, text, at)
    BY <2>1, <1>0
  <2>4. first \in Seq(LinePart(n)) /\ Shown(first, l, zero) >= Size(text)
    BY <2>2, <2>3, <1>3, SpreadShows
  <2> QED
    BY <2>1, <2>2, <2>4
<1> DEFINE T == {i \in Nat : i <= m =>
                   /\ h[1 .. i] \in Seq(LinePart(n))
                   /\ Shown(h[1 .. i], table.line, 0) >= table.header
                   /\ \A c \in 1 .. i : Shown(h[1 .. i], n, c) >= Size(row[c])}
<1>5. 0 \in T
  BY <1>1, <1>4
<1>6. ASSUME NEW i \in Nat, i \in T PROVE i + 1 \in T
  <2>1. SUFFICES ASSUME i + 1 <= m
                 PROVE  /\ h[1 .. i + 1] \in Seq(LinePart(n))
                        /\ Shown(h[1 .. i + 1], table.line, 0) >= table.header
                        /\ \A c \in 1 .. i + 1 : Shown(h[1 .. i + 1], n, c) >= Size(row[c])
    OBVIOUS
  <2>2. i <= m /\ i \in 0 .. Len(row) - 1 /\ i + 1 \in DOMAIN row /\ i + 1 \in Nat
    BY <2>1, <1>2
  <2>3. PICK s, next, text, c, more :
          /\ s = h[1 .. i] /\ next = h[1 .. i + 1] /\ c = i + 1 /\ text = row[c]
          /\ more = Spread(n, c, text, at)
    OBVIOUS
  <2>4. /\ s \in Seq(LinePart(n)) /\ Shown(s, table.line, 0) >= table.header
        /\ \A d \in 1 .. i : Shown(s, n, d) >= Size(row[d])
        /\ next = s \o more
    BY <2>2, <2>3, <1>1, <1>6
  <2>5. text \in Seq(Nat) /\ c \in Nat
    BY <2>2, <2>3
  <2>6. more \in Seq(LinePart(n)) /\ Shown(more, n, c) >= Size(text)
    <3>1. \A x \in at.pieces : ~ (x[1] = n /\ x[2] = c)
      BY <1>3
    <3> QED
      BY <3>1, <2>3, <2>5, <1>3, SpreadShows
  <2>7. /\ next \in Seq(LinePart(n))
        /\ \A l, d : /\ Shown(next, l, d) = Shown(s, l, d) + Shown(more, l, d)
                     /\ Shown(s, l, d) \in Nat /\ Shown(more, l, d) \in Nat
    <3>1. s \in Seq(ClearPart) /\ more \in Seq(ClearPart)
      BY <2>4, <2>6, LineSequence
    <3>2. next \in Seq(LinePart(n))
      BY <2>4, <2>6, ConcatIs
    <3> QED
      BY <3>1, <3>2, <2>4, ShownJoined
  <2>8. Shown(next, table.line, 0) >= table.header
    BY <2>4, <2>7
  <2>9. ASSUME NEW d \in 1 .. c PROVE Shown(next, n, d) >= Size(row[d])
    <3>0. d \in DOMAIN row /\ row[d] \in Seq(Nat)
      BY <2>3, <2>2, <1>2
    <3>1. d = c \/ d \in 1 .. i
      BY <2>3
    <3>2. Size(row[d]) \in Nat
      BY <3>0, SizeRuns
    <3>3. CASE d = c
      BY <3>2, <3>3, <2>3, <2>6, <2>7
    <3>4. CASE d \in 1 .. i
      <4>1. Shown(s, n, d) >= Size(row[d])
        BY <3>4, <2>4
      <4> QED
        BY <4>1, <3>2, <2>7
    <3> QED
      BY <3>1, <3>3, <3>4
  <2> QED
    BY <2>3, <2>7, <2>8, <2>9
<1>7. m \in T
  <2> HIDE DEF T
  <2> QED
    BY <1>5, <1>6, SetInduction
<1> QED
  BY <1>1, <1>2, <1>7

-----------------------------------------------------------------------------
(* Cells under their key.                                                   *)

\* The parts that repeat the key of their row.
KeyPart(n, key) == {p \in LinePart(n) : key.pieces \subseteq p.pieces}

\* The parts of a row so far, the open one if it has more than the key.
PartsSoFar(acc, key) == IF acc.open = key THEN acc.parts ELSE Append(acc.parts, acc.open)

\* After the i-th cell: every cell from the second to it is shown.
CellsShown(n, row, key, acc, i) ==
  /\ acc.parts \in Seq(KeyPart(n, key)) /\ acc.open \in KeyPart(n, key)
  /\ \A x \in acc.open.pieces : x[2] <= i
  /\ \A c \in 2 .. i : Shown(PartsSoFar(acc, key), n, c) >= Size(row[c])

LEMMA KeySequence ==
  ASSUME NEW n, NEW key, NEW s \in Seq(KeyPart(n, key))
  PROVE  /\ s \in Seq(LinePart(n)) /\ s \in Seq(ClearPart)
         /\ \A k \in DOMAIN s : s[k] \in KeyPart(n, key)
<1>1. \A k \in DOMAIN s : s[k] \in KeyPart(n, key)
  BY ElementOfSeq
<1>2. \A k \in DOMAIN s : s[k] \in LinePart(n)
  BY <1>1 DEF KeyPart
<1>3. s \in Seq(LinePart(n))
  BY <1>2, SequenceOf
<1> QED
  BY <1>1, <1>3, LineSequence

LEMMA CellJoins ==
  ASSUME NEW n \in Nat, NEW p \in LinePart(n), NEW c \in Nat, NEW text \in Seq(Nat),
         \A y \in p.pieces : ~ (y[1] = n /\ y[2] = c)
  PROVE  /\ Joined(p, PartOf(n, c, text)) \in LinePart(n)
         /\ Joined(p, PartOf(n, c, text)).pieces = p.pieces \union {<<n, c, Size(text)>>}
BY TextJoins

LEMMA CellSpreads ==
  ASSUME NEW n \in Nat, NEW key \in LinePart(n), NEW c \in Nat, NEW text \in Seq(Nat),
         Heading + key.size < Soft, \A y \in key.pieces : ~ (y[1] = n /\ y[2] = c)
  PROVE  /\ Spread(n, c, text, key) \in Seq(LinePart(n))
         /\ Spread(n, c, text, key) \in Seq(ClearPart)
         /\ Shown(Spread(n, c, text, key), n, c) >= Size(text)
         /\ \A k \in DOMAIN Spread(n, c, text, key) :
              key.pieces \subseteq Spread(n, c, text, key)[k].pieces
         /\ Size(text) > 0 => Spread(n, c, text, key) # <<>>
<1>1. PICK s : s = Spread(n, c, text, key)
  OBVIOUS
<1>2. c > 0 => n = n
  OBVIOUS
<1>3. \A y \in key.pieces : ~ (y[1] = n /\ y[2] = c)
  OBVIOUS
<1>4. /\ s \in Seq(LinePart(n)) /\ s \in Seq(ClearPart)
      /\ Shown(s, n, c) >= Size(text)
      /\ \A k \in DOMAIN s : key.pieces \subseteq s[k].pieces
      /\ Size(text) > 0 => s # <<>>
  BY <1>1, <1>2, <1>3, SpreadShows
<1> QED
  BY <1>1, <1>4

LEMMA KeyShows ==
  ASSUME NEW n \in Nat, NEW row \in Seq(Seq(Nat)), row # <<>>,
         table.line \in Nat, table.header \in Nat, NEW key, key = Key(n, row)
  PROVE  /\ key \in LinePart(n) /\ key \in KeyPart(n, key)
         /\ <<table.line, 0, table.header>> \in key.pieces
         /\ <<n, 1, Size(row[1])>> \in key.pieces
         /\ \A x \in key.pieces : x[2] <= 1
<1>1. PICK first, text, one : /\ first = Joined(HeaderPart, Separators) /\ text = row[1] /\ one = 1
                              /\ key = Joined(first, PartOf(n, one, text))
  BY DEF Key
<1>2. text \in Seq(Nat) /\ one \in Nat
  BY <1>1, PlacesType
<1>3. HeaderPart.pieces = {<<table.line, 0, table.header>>}
  <2>1. Size(<<table.header>>) = table.header
    BY SizeOfWord
  <2> QED
    BY <2>1 DEF HeaderPart, PartOf, Part
<1>4. first.pieces = {<<table.line, 0, table.header>>}
  BY <1>1, <1>3 DEF Joined, Separators, Part
<1>5. first \in LinePart(n)
  <2>1. first \in PartRecord
    BY <1>1, HeaderPartType, PartTypes
  <2>2. \A y, z \in first.pieces : y = z
    BY <1>4
  <2>3. \A y \in first.pieces : y[2] = 0
    BY <1>4
  <2>4. first \in ClearPart
    BY <2>1, <2>2 DEF ClearPart
  <2>5. \A y \in first.pieces : y[2] > 0 => y[1] = n
    BY <2>3
  <2> QED
    BY <2>4, <2>5 DEF LinePart
<1>6. \A x \in first.pieces : ~ (x[1] = n /\ x[2] = one)
  BY <1>1, <1>4
<1>6a. one > 0 => n = n
  OBVIOUS
<1>7. key \in LinePart(n) /\ key.pieces = first.pieces \union {<<n, one, Size(text)>>}
  <2>1. text \in Seq(Nat)
    BY <1>2
  <2>2. one \in Nat
    BY <1>2
  <2>3. /\ Joined(first, PartOf(n, one, text)) \in LinePart(n)
        /\ Joined(first, PartOf(n, one, text)).pieces
             = first.pieces \union {<<n, one, Size(text)>>}
    BY <1>5, <1>6, <1>6a, <2>1, <2>2, TextJoins
  <2> QED
    BY <2>3, <1>1
<1>8. key \in KeyPart(n, key)
  BY <1>7 DEF KeyPart
<1>9. /\ <<table.line, 0, table.header>> \in key.pieces
      /\ <<n, one, Size(text)>> \in key.pieces
  BY <1>4, <1>7
<1>a. \A x \in key.pieces : x[2] <= 1
  <2>1. \A x \in first.pieces : x[2] = 0
    BY <1>4
  <2>2. <<n, one, Size(text)>>[2] = 1
    BY <1>1
  <2> QED
    BY <2>1, <2>2, <1>7
<1>b. <<n, 1, Size(row[1])>> \in key.pieces
  BY <1>1, <1>9
<1> QED
  BY <1>7, <1>8, <1>9, <1>a, <1>b

\* A cell is placed: it is shown, and what was shown before still is.
LEMMA PlaceShows ==
  ASSUME NEW n \in Nat, NEW row \in Seq(Seq(Nat)), row # <<>>,
         table.line \in Nat, table.header \in Nat,
         NEW key, key = Key(n, row), Heading + key.size < Soft,
         NEW c \in DOMAIN row, c > 1,
         NEW acc \in RowSoFar, CellsShown(n, row, key, acc, c - 1),
         NEW next, next = Place(n, row, acc, c)
  PROVE  CellsShown(n, row, key, next, c)
<1> DEFINE cell == PartOf(n, c, row[c])
           alone == Joined(key, cell)
           joined == Joined(acc.open, cell)
           closed == IF acc.open = key THEN acc.parts ELSE Append(acc.parts, acc.open)
           row_words == joined.words - HeaderPart.words
           spread == Spread(n, c, row[c], key)
           x == <<n, c, Size(row[c])>>
<1>1. /\ acc.parts \in Seq(KeyPart(n, key)) /\ acc.open \in KeyPart(n, key)
      /\ \A y \in acc.open.pieces : y[2] <= c - 1
      /\ \A d \in 2 .. c - 1 : Shown(closed, n, d) >= Size(row[d])
  BY DEF CellsShown, PartsSoFar
<1>2. /\ c \in Nat /\ c > 0 /\ c > 1 /\ row[c] \in Seq(Nat) /\ Size(row[c]) \in Nat
      /\ \A d \in 2 .. c : d = c \/ d \in 2 .. c - 1
      /\ \A d \in 2 .. c - 1 : d \in DOMAIN row /\ Size(row[d]) \in Nat
  <2>1. c \in Nat /\ row[c] \in Seq(Nat) /\ DOMAIN row = 1 .. Len(row) /\ Len(row) \in Nat
    BY PlacesType
  <2>2. c > 0 /\ c > 1 /\ \A d \in 2 .. c : d = c \/ d \in 2 .. c - 1
    BY SMTT(20), <2>1
  <2>3. \A d \in 2 .. c - 1 : d \in DOMAIN row
    BY <2>1
  <2> QED
    BY SMTT(20), <2>1, <2>2, <2>3, SizeRuns
<1>3. /\ key \in LinePart(n) /\ key \in KeyPart(n, key)
      /\ \A y \in key.pieces : y[2] <= 1
  BY KeyShows
<1>4. next = IF row[c] = <<>> THEN acc
             ELSE IF Len(row[c]) > MaxWords \/ Heading + alone.size > Soft
             THEN [parts |-> closed \o spread, open |-> key]
             ELSE IF acc.open = key \/ (row_words <= MaxWords /\ Heading + joined.size <= Soft)
             THEN [acc EXCEPT !.open = joined]
             ELSE [parts |-> closed, open |-> alone]
  BY DEF Place
<1> HIDE DEF cell, x, row_words
<1>5. closed \in Seq(KeyPart(n, key)) /\ closed \in Seq(ClearPart)
  <2>1. closed \in Seq(KeyPart(n, key))
    BY <1>1
  <2> HIDE DEF closed
  <2> QED
    BY <2>1, KeySequence
<1>6. /\ \A y \in key.pieces : y[2] \in Nat /\ ~ (y[1] = n /\ y[2] = c)
      /\ \A y \in acc.open.pieces : y[2] \in Nat /\ ~ (y[1] = n /\ y[2] = c)
      /\ acc.open \in LinePart(n) /\ key.pieces \subseteq acc.open.pieces
  <2>1. acc.open \in LinePart(n) /\ key.pieces \subseteq acc.open.pieces
    BY <1>1 DEF KeyPart
  <2>2. /\ \A y \in key.pieces : y[2] \in Nat
        /\ \A y \in acc.open.pieces : y[2] \in Nat
    BY <2>1, <1>3 DEF LinePart, ClearPart, PartRecord
  <2> QED
    BY SMTT(20), <2>1, <2>2, <1>1, <1>2, <1>3
<1>0. ASSUME NEW p \in LinePart(n), \A y \in p.pieces : ~ (y[1] = n /\ y[2] = c)
      PROVE  Joined(p, cell) \in LinePart(n) /\ Joined(p, cell).pieces = p.pieces \union {x}
  <2>1. PICK d \in Nat, text \in Seq(Nat) : d = c /\ text = row[c]
    BY <1>2
  <2>2. \A y \in p.pieces : ~ (y[1] = n /\ y[2] = d)
    BY <1>0, <2>1
  <2>3. Joined(p, PartOf(n, d, text)) \in LinePart(n)
    BY <2>2, CellJoins
  <2>4. Joined(p, PartOf(n, d, text)).pieces = p.pieces \union {<<n, d, Size(text)>>}
    BY DEF Joined, PartOf, Part
  <2> QED
    BY <2>1, <2>3, <2>4 DEF cell, x
<1>7. alone \in LinePart(n) /\ alone.pieces = key.pieces \union {x}
  BY <1>3, <1>6, <1>0
<1>8. joined \in LinePart(n) /\ joined.pieces = acc.open.pieces \union {x}
  BY <1>6, <1>0
<1>9. x[1] = n /\ x[2] = c /\ x[3] = Size(row[c])
  BY DEF x
<1>a. alone \in KeyPart(n, key) /\ joined \in KeyPart(n, key) /\ alone # key /\ joined # key
  <2>1. x \notin key.pieces
    BY <1>6, <1>9
  <2> HIDE DEF alone, joined
  <2> QED
    BY <2>1, <1>6, <1>7, <1>8 DEF KeyPart
<1> HIDE DEF alone, joined
<1>b. /\ spread \in Seq(LinePart(n)) /\ spread \in Seq(ClearPart)
      /\ Shown(spread, n, c) >= Size(row[c])
      /\ \A k \in DOMAIN spread : key.pieces \subseteq spread[k].pieces
  <2>1. \A y \in key.pieces : ~ (y[1] = n /\ y[2] = c)
    BY <1>6
  <2>2. row[c] \in Seq(Nat) /\ c \in Nat
    BY <1>2
  <2> QED
    BY <2>1, <2>2, <1>3, CellSpreads
<1>c. spread \in Seq(KeyPart(n, key))
  <2> HIDE DEF spread
  <2>1. \A k \in DOMAIN spread : spread[k] \in LinePart(n)
    BY <1>b, LineSequence
  <2>2. \A k \in DOMAIN spread : spread[k] \in KeyPart(n, key)
    BY <2>1, <1>b DEF KeyPart
  <2> QED
    BY <2>2, <1>b, SequenceOf
<1> HIDE DEF closed, spread
\* What follows the parts so far leaves what they show.
<1>d. ASSUME NEW more \in Seq(KeyPart(n, key)), Shown(more, n, c) >= Size(row[c])
      PROVE  /\ closed \o more \in Seq(KeyPart(n, key))
             /\ \A d \in 2 .. c : Shown(closed \o more, n, d) >= Size(row[d])
  <2>1. more \in Seq(ClearPart)
    BY KeySequence
  <2>2. \A d : /\ Shown(closed \o more, n, d) = Shown(closed, n, d) + Shown(more, n, d)
               /\ Shown(closed, n, d) \in Nat /\ Shown(more, n, d) \in Nat
    BY <2>1, <1>5, ShownJoined
  <2>3. closed \o more \in Seq(KeyPart(n, key))
    BY <1>5, ConcatIs
  <2>4. ASSUME NEW d \in 2 .. c PROVE Shown(closed \o more, n, d) >= Size(row[d])
    <3>1. CASE d = c
      BY <3>1, <2>2, <1>2, <1>d
    <3>2. CASE d \in 2 .. c - 1
      <4>1. Shown(closed, n, d) >= Size(row[d]) /\ Size(row[d]) \in Nat
        BY <3>2, <1>1, <1>2 DEF closed
      <4> QED
        BY <4>1, <2>2
    <3> QED
      BY <3>1, <3>2, <1>2
  <2> QED
    BY <2>3, <2>4
\* One part that shows the cell.
<1>e. ASSUME NEW p \in KeyPart(n, key), x \in p.pieces
      PROVE  <<p>> \in Seq(KeyPart(n, key)) /\ Shown(<<p>>, n, c) >= Size(row[c])
  <2>1. p \in ClearPart
    BY DEF KeyPart, LinePart
  <2>2. Shown(<<p>>, n, c) = Amount(p, n, c) /\ Amount(p, n, c) = x[3]
    BY <2>1, <1>e, <1>9, ShownOfOne, AmountIs
  <2>3. <<p>> \in Seq(KeyPart(n, key))
    OBVIOUS
  <2> QED
    BY <2>2, <2>3, <1>2, <1>9
<1>f. CASE row[c] = <<>>
  <2>1. next = acc
    BY <1>f, <1>4
  <2>2. Size(row[c]) = 0
    BY <1>f, TotalOfNone DEF Size, Total
  <2>3. Shown(closed, n, c) \in Nat
    BY <1>5, ShownIs
  <2>4. \A d \in 2 .. c : Shown(closed, n, d) >= Size(row[d])
    <3>1. \A d \in 2 .. c - 1 : Shown(closed, n, d) >= Size(row[d])
      BY <1>1 DEF closed
    <3> QED
      BY <3>1, <2>2, <2>3, <1>2
  <2>5. \A y \in acc.open.pieces : y[2] <= c
    BY SMTT(20), <1>1, <1>6, <1>2
  <2> QED
    BY <2>1, <2>4, <2>5, <1>1 DEF CellsShown, PartsSoFar, closed
<1>g. CASE next = [parts |-> closed \o spread, open |-> key]
  <2>1. PICK s : s = closed \o spread
    OBVIOUS
  <2>2. s \in Seq(KeyPart(n, key)) /\ \A d \in 2 .. c : Shown(s, n, d) >= Size(row[d])
    BY <2>1, <1>b, <1>c, <1>d
  <2>3. next.parts = s /\ next.open = key /\ PartsSoFar(next, key) = s
    <3>1. next.parts = closed \o spread /\ next.open = key
      BY SMTT(20), <1>g
    <3> QED
      BY <2>1, <3>1 DEF PartsSoFar
  <2>4. \A y \in key.pieces : y[2] <= c
    BY SMTT(20), <1>3, <1>6, <1>2
  <2> QED
    BY <2>2, <2>3, <2>4, <1>3 DEF CellsShown
<1>h. ASSUME next.open = joined, next.parts = acc.parts
      PROVE  CellsShown(n, row, key, next, c)
  <2>1. PartsSoFar(next, key) = Append(acc.parts, joined)
    BY <1>h, <1>a DEF PartsSoFar
  <2>2. \A y \in joined.pieces : y[2] <= c
    BY SMTT(20), <1>1, <1>2, <1>6, <1>8, <1>9
  <2>3. <<joined>> \in Seq(KeyPart(n, key)) /\ Shown(<<joined>>, n, c) >= Size(row[c])
    BY <1>8, <1>a, <1>e
  <2>4. \A d \in 2 .. c : Shown(Append(acc.parts, joined), n, d) >= Size(row[d])
    <3>1. CASE acc.open = key
      <4>1. closed = acc.parts
        BY <3>1 DEF closed
      <4>2. closed \o <<joined>> = Append(acc.parts, joined)
        BY <4>1, <1>1
      <4> QED
        BY <4>2, <2>3, <1>d
    <3>2. CASE acc.open # key
      <4>1. closed = Append(acc.parts, acc.open)
        BY <3>2 DEF closed
      <4>2. PICK s, p, q : s = acc.parts /\ p = acc.open /\ q = joined
        OBVIOUS
      <4>3. /\ s \in Seq(ClearPart) /\ p \in ClearPart /\ q \in ClearPart
            /\ p.pieces \subseteq q.pieces
        <5>1. s \in Seq(ClearPart)
          BY <4>2, <1>1, KeySequence
        <5> QED
          BY <5>1, <4>2, <1>6, <1>8 DEF LinePart
      <4>4. ASSUME NEW d
            PROVE  /\ Shown(s \o <<p>>, n, d) = Shown(s, n, d) + Amount(p, n, d)
                   /\ Shown(s \o <<q>>, n, d) = Shown(s, n, d) + Amount(q, n, d)
                   /\ Shown(s, n, d) \in Nat /\ Amount(p, n, d) \in Nat
                   /\ Amount(q, n, d) \in Nat /\ Amount(p, n, d) <= Amount(q, n, d)
        <5>1. /\ <<p>> \in Seq(ClearPart) /\ Shown(<<p>>, n, d) = Amount(p, n, d)
              /\ <<q>> \in Seq(ClearPart) /\ Shown(<<q>>, n, d) = Amount(q, n, d)
          BY <4>3, ShownOfOne
        <5>2. /\ Shown(s \o <<p>>, n, d) = Shown(s, n, d) + Shown(<<p>>, n, d)
              /\ Shown(s \o <<q>>, n, d) = Shown(s, n, d) + Shown(<<q>>, n, d)
              /\ Shown(s, n, d) \in Nat
          <6>1. /\ s \in Seq(ClearPart) /\ <<p>> \in Seq(ClearPart) /\ <<q>> \in Seq(ClearPart)
            BY <4>3, <5>1
          <6>2. PICK a, b : a = <<p>> /\ b = <<q>>
            OBVIOUS
          <6>3. a \in Seq(ClearPart) /\ b \in Seq(ClearPart)
            BY <6>1, <6>2
          <6>4. /\ Shown(s \o a, n, d) = Shown(s, n, d) + Shown(a, n, d)
                /\ Shown(s, n, d) \in Nat
            BY <6>1, <6>3, ShownJoined
          <6>5. Shown(s \o b, n, d) = Shown(s, n, d) + Shown(b, n, d)
            BY <6>1, <6>3, ShownJoined
          <6> QED
            BY <6>2, <6>4, <6>5
        <5>3. Amount(p, n, d) \in Nat /\ Amount(q, n, d) \in Nat
          BY <4>3, AmountIs
        <5>4. Amount(p, n, d) <= Amount(q, n, d)
          BY <4>3, AmountGrows
        <5> QED
          BY <5>1, <5>2, <5>3, <5>4
      <4>5. closed = s \o <<p>> /\ Append(acc.parts, joined) = s \o <<q>>
        <5>1. s \in Seq(ClearPart) /\ p \in ClearPart /\ q \in ClearPart
          BY <4>3
        <5>2. Append(s, p) = s \o <<p>> /\ Append(s, q) = s \o <<q>>
          BY <5>1, AppendIsConcat
        <5> QED
          BY <4>1, <4>2, <5>2
      <4>6. ASSUME NEW d \in 2 .. c PROVE Shown(s \o <<q>>, n, d) >= Size(row[d])
        <5>1. CASE d = c
          <6>1. Amount(q, n, c) = x[3]
            <7>1. x \in q.pieces
              BY <4>2, <1>8
            <7>2. q \in ClearPart
              BY <4>3
            <7> HIDE DEF x
            <7> QED
              BY <7>1, <7>2, <1>9, AmountIs
          <6>2. Amount(q, n, c) = Size(row[c]) /\ Size(row[c]) \in Nat
            BY <6>1, <1>2, <1>9
          <6>3. /\ Shown(s \o <<q>>, n, c) = Shown(s, n, c) + Amount(q, n, c)
                /\ Shown(s, n, c) \in Nat
            BY <4>4
          <6>4. Shown(s \o <<q>>, n, c) >= Size(row[c])
            BY <6>2, <6>3
          <6> QED
            BY <6>4, <5>1
        <5>2. CASE d \in 2 .. c - 1
          <6>1. Shown(s \o <<p>>, n, d) >= Size(row[d]) /\ Size(row[d]) \in Nat
            <7>1. Shown(closed, n, d) >= Size(row[d])
              BY <5>2, <1>1 DEF closed
            <7> QED
              BY <7>1, <5>2, <4>5, <1>2
          <6>2. /\ Shown(s \o <<p>>, n, d) = Shown(s, n, d) + Amount(p, n, d)
                /\ Shown(s \o <<q>>, n, d) = Shown(s, n, d) + Amount(q, n, d)
                /\ Shown(s, n, d) \in Nat /\ Amount(p, n, d) \in Nat
                /\ Amount(q, n, d) \in Nat /\ Amount(p, n, d) <= Amount(q, n, d)
            BY <4>4
          <6> QED
            BY <6>1, <6>2
        <5> QED
          BY <5>1, <5>2, <1>2
      <4> QED
        BY <4>5, <4>6
    <3> QED
      BY <3>1, <3>2
  <2> QED
    BY <2>1, <2>2, <2>4, <1>1, <1>a, <1>h DEF CellsShown
<1>i. CASE next = [parts |-> closed, open |-> alone]
  <2>1. PICK s : s = closed \o <<alone>>
    OBVIOUS
  <2>2. <<alone>> \in Seq(KeyPart(n, key)) /\ Shown(<<alone>>, n, c) >= Size(row[c])
    BY <1>7, <1>a, <1>e
  <2>3. \A d \in 2 .. c : Shown(s, n, d) >= Size(row[d])
    BY <2>1, <2>2, <1>d
  <2>4. next.parts = closed /\ next.open = alone /\ PartsSoFar(next, key) = s
    <3>1. next.parts = closed /\ next.open = alone
      BY <1>i
    <3>2. s = Append(closed, alone)
      BY <2>1, <1>5
    <3> QED
      BY <3>1, <3>2, <1>a DEF PartsSoFar
  <2>5. \A y \in alone.pieces : y[2] <= c
    BY <1>3, <1>2, <1>6, <1>7, <1>9
  <2> QED
    BY <2>3, <2>4, <2>5, <1>5, <1>a DEF CellsShown
<1> QED
  <2>1. \/ row[c] = <<>>
        \/ next = [parts |-> closed \o spread, open |-> key]
        \/ next = [acc EXCEPT !.open = joined]
        \/ next = [parts |-> closed, open |-> alone]
    BY <1>4
  <2>2. CASE next = [acc EXCEPT !.open = joined]
    <3>1. next.open = joined /\ next.parts = acc.parts
      BY <2>2 DEF RowSoFar
    <3> QED
      BY <3>1, <1>h
  <2> QED
    BY <2>1, <2>2, <1>f, <1>g, <1>i

\* Each round shows one cell more.
LEMMA CellsAreShown ==
  ASSUME NEW n \in Nat, NEW row \in Seq(Seq(Nat)), row # <<>>,
         table.line \in Nat, table.header \in Nat,
         NEW key, key = Key(n, row), Heading + key.size < Soft,
         NEW h, IsRowRun(h, n, row, key)
  PROVE  CellsShown(n, row, key, h[1 .. Len(row) - 1], Len(row))
<1> DEFINE T == {i \in Nat : i <= Len(row) - 1 => CellsShown(n, row, key, h[1 .. i], i + 1)}
<1>1. /\ key \in KeyPart(n, key) /\ \A x \in key.pieces : x[2] <= 1
  BY KeyShows
<1>2. 0 \in T
  <2>1. PICK acc : acc = h[1 .. 0]
    OBVIOUS
  <2>2. acc = [parts |-> <<>>, open |-> key]
    BY <2>1 DEF IsRowRun
  <2>3. acc.parts = <<>> /\ acc.open = key /\ 0 + 1 = 1 /\ 2 .. 1 = {}
    BY <2>2
  <2>4. acc.parts \in Seq(KeyPart(n, key))
    BY <2>3
  <2>5. CellsShown(n, row, key, acc, 1)
    BY <2>3, <2>4, <1>1 DEF CellsShown
  <2> QED
    BY <2>1, <2>3, <2>5
<1>3. ASSUME NEW i \in Nat, i \in T PROVE i + 1 \in T
  <2>1. SUFFICES ASSUME i + 1 <= Len(row) - 1
                 PROVE  CellsShown(n, row, key, h[1 .. i + 1], i + 2)
    OBVIOUS
  <2>2. /\ i \in 0 .. Len(row) - 2 /\ i \in 0 .. Len(row) - 1 /\ i <= Len(row) - 1
        /\ i + 2 \in DOMAIN row /\ i + 2 > 1 /\ (i + 2) - 1 = i + 1
    <3>1. Len(row) \in Nat /\ DOMAIN row = 1 .. Len(row)
      BY PlacesAre
    <3> QED
      BY <2>1, <3>1
  <2>3. PICK acc, next, c : acc = h[1 .. i] /\ next = h[1 .. i + 1] /\ c = i + 2
    OBVIOUS
  <2>4. acc \in RowSoFar /\ next = Place(n, row, acc, c)
    BY <2>2, <2>3 DEF IsRowRun
  <2>5. CellsShown(n, row, key, acc, c - 1)
    BY <2>2, <2>3, <1>3
  <2>6. c \in DOMAIN row /\ c > 1
    BY <2>2, <2>3
  <2>7. CellsShown(n, row, key, next, c)
    BY <2>4, <2>5, <2>6, PlaceShows
  <2> QED
    BY <2>3, <2>7
<1>4. Len(row) - 1 \in T /\ Len(row) - 1 \in Nat /\ (Len(row) - 1) + 1 = Len(row)
  <2>1. Len(row) - 1 \in Nat /\ (Len(row) - 1) + 1 = Len(row)
    BY PlacesAre
  <2> HIDE DEF T
  <2>2. \A i \in Nat : i \in T
    BY <1>2, <1>3, SetInduction
  <2> QED
    BY <2>1, <2>2
<1>5. PICK m \in Nat : m = Len(row) - 1
  BY <1>4
<1>6. CellsShown(n, row, key, h[1 .. m], m + 1)
  BY <1>4, <1>5
<1> QED
  BY <1>4, <1>5, <1>6

\* Under its key, a row is shown whole, and its headers with each part.
LEMMA ByKeyShows ==
  ASSUME NEW n \in Nat, NEW row \in Seq(Seq(Nat)), row # <<>>,
         table.line \in Nat, table.header \in Nat, NEW key, key = Key(n, row),
         Heading + key.size < Soft, NEW parts, parts = ByKey(n, row)
  PROVE  /\ parts \in Seq(LinePart(n)) /\ Shown(parts, table.line, 0) >= table.header
         /\ \A c \in DOMAIN row : Shown(parts, n, c) >= Size(row[c])
<1>0. /\ key \in LinePart(n) /\ key \in KeyPart(n, key) /\ key \in PartRecord
      /\ <<table.line, 0, table.header>> \in key.pieces
      /\ <<n, 1, Size(row[1])>> \in key.pieces
  <2>1. key \in LinePart(n) /\ key \in KeyPart(n, key)
    BY KeyShows
  <2>2. key \in PartRecord
    BY <2>1 DEF LinePart, ClearPart
  <2> QED
    BY <2>1, <2>2, KeyShows
<1>1. PICK h : IsRowRun(h, n, row, key)
  BY <1>0, ByKeyRuns
<1>2. PICK acc : acc = h[1 .. Len(row) - 1]
  OBVIOUS
<1>3. CellsShown(n, row, key, acc, Len(row)) /\ parts = LastClosed(acc, key)
  <2>1. CellsShown(n, row, key, h[1 .. Len(row) - 1], Len(row))
    BY <1>1, CellsAreShown
  <2> QED
    BY <2>1, <1>1, <1>2 DEF IsRowRun
<1>4. /\ acc.parts \in Seq(KeyPart(n, key)) /\ acc.open \in KeyPart(n, key)
      /\ \A c \in 2 .. Len(row) : Shown(PartsSoFar(acc, key), n, c) >= Size(row[c])
  BY <1>3 DEF CellsShown
<1>5. /\ parts \in Seq(KeyPart(n, key)) /\ parts # <<>>
      /\ \/ parts = PartsSoFar(acc, key)
         \/ PartsSoFar(acc, key) = <<>>
  <2>1. CASE acc.open # key
    <3>1. parts = Append(acc.parts, acc.open) /\ parts = PartsSoFar(acc, key)
      BY <2>1, <1>3 DEF LastClosed, PartsSoFar
    <3>2. parts \in Seq(KeyPart(n, key)) /\ parts # <<>>
      <4>1. PICK s, e : s = acc.parts /\ e = acc.open
        OBVIOUS
      <4>2. s \in Seq(KeyPart(n, key)) /\ e \in KeyPart(n, key) /\ parts = Append(s, e)
        BY <4>1, <3>1, <1>4
      <4> QED
        BY <4>2
    <3> QED
      BY <3>1, <3>2
  <2>2. CASE acc.open = key /\ acc.parts = <<>>
    <3>1. parts = Append(acc.parts, acc.open) /\ PartsSoFar(acc, key) = <<>>
      BY <2>2, <1>3 DEF LastClosed, PartsSoFar
    <3> QED
      BY SMTT(20), <3>1, <1>4
  <2>3. CASE acc.open = key /\ acc.parts # <<>>
    BY <2>3, <1>3, <1>4 DEF LastClosed, PartsSoFar
  <2> QED
    BY <2>1, <2>2, <2>3
<1>6. /\ parts \in Seq(LinePart(n)) /\ parts \in Seq(ClearPart)
      /\ \A k \in DOMAIN parts : parts[k] \in KeyPart(n, key)
  BY <1>5, KeySequence
<1>7. PICK k \in DOMAIN parts : key.pieces \subseteq parts[k].pieces
  <2>1. 1 \in DOMAIN parts
    BY <1>5
  <2> QED
    BY <2>1, <1>6 DEF KeyPart
<1>8. \A x \in key.pieces : x[3] <= Shown(parts, x[1], x[2])
  BY <1>6, <1>7, ShownAtLeast
<1>9. Shown(parts, table.line, 0) >= table.header /\ Shown(parts, n, 1) >= Size(row[1])
  <2>1. PICK l, z, s, x : /\ l = table.line /\ z = 0 /\ s = table.header
                          /\ x = <<l, z, s>>
    OBVIOUS
  <2>2. PICK one, t, y : one = 1 /\ t = Size(row[1]) /\ y = <<n, one, t>>
    OBVIOUS
  <2>3. x \in key.pieces /\ y \in key.pieces
    BY <2>1, <2>2, <1>0
  <2>4. x[3] <= Shown(parts, x[1], x[2]) /\ y[3] <= Shown(parts, y[1], y[2])
    BY <2>3, <1>8
  <2>5. /\ x[1] = l /\ x[2] = z /\ x[3] = s
        /\ y[1] = n /\ y[2] = one /\ y[3] = t
    BY <2>1, <2>2
  <2>6. s <= Shown(parts, l, z) /\ t <= Shown(parts, n, one)
    BY <2>4, <2>5
  <2>7. s \in Nat /\ t \in Nat /\ \A a, b : Shown(parts, a, b) \in Nat
    <3>1. row[1] \in Seq(Nat)
      BY PlacesType
    <3>2. Size(row[1]) \in Nat
      BY <3>1, SizeRuns
    <3> QED
      BY <3>2, <2>1, <2>2, <1>6, ShownIs
  <2>8. Shown(parts, l, z) >= s /\ Shown(parts, n, one) >= t
    BY <2>6, <2>7
  <2> QED
    BY <2>8, <2>1, <2>2
<1>a. ASSUME NEW c \in DOMAIN row PROVE Shown(parts, n, c) >= Size(row[c])
  <2>1. c = 1 \/ c \in 2 .. Len(row)
    BY PlacesAre
  <2>2. row[c] \in Seq(Nat)
    BY PlacesType
  <2>3. Size(row[c]) \in Nat
    BY <2>2, SizeRuns
  <2>4. CASE c \in 2 .. Len(row)
    <3>1. Shown(PartsSoFar(acc, key), n, c) >= Size(row[c])
      BY <2>4, <1>4
    <3>2. CASE PartsSoFar(acc, key) = <<>>
      <4>1. 0 >= Size(row[c])
        BY <3>1, <3>2, ShownOfNone
      <4>2. Shown(parts, n, c) \in Nat
        BY <1>6, ShownIs
      <4> QED
        BY <4>1, <4>2, <2>3
    <3> QED
      BY <3>1, <3>2, <1>5
  <2> QED
    BY <2>1, <2>4, <1>9
<1> QED
  BY <1>6, <1>9, <1>a

LEMMA WholeOfOne ==
  ASSUME NEW n \in Nat, NEW row \in Seq(Seq(Nat)), Len(row) = 1
  PROVE  /\ Whole(n, row).size = Bars + Size(row[1])
         /\ Whole(n, row).words = Bars + Len(row[1])
<1>1. PICK h : /\ h[1 .. 0] = Separators /\ Whole(n, row) = h[1 .. Len(row)]
               /\ \A i \in 0 .. Len(row) - 1 :
                    h[1 .. i + 1] = Joined(h[1 .. i], PartOf(n, i + 1, row[i + 1]))
  BY WholeRuns
<1>2. 0 \in 0 .. Len(row) - 1 /\ 0 + 1 = 1
  OBVIOUS
<1>3. h[1 .. 1] = Joined(h[1 .. 0], PartOf(n, 1, row[1]))
  BY <1>1, <1>2
<1>4. Whole(n, row) = Joined(Separators, PartOf(n, 1, row[1]))
  BY <1>1, <1>3
<1> QED
  BY <1>4 DEF Joined, Separators, PartOf, Part

\* A word has tokens: a text without any has no words.
LEMMA NoTokensNoWords ==
  ASSUME NEW text \in Seq(Nat), \A k \in DOMAIN text : text[k] > 0, Size(text) = 0
  PROVE  Len(text) = 0
<1>1. SUFFICES ASSUME Len(text) # 0 PROVE FALSE
  OBVIOUS
<1>2. 1 \in DOMAIN text /\ text[1] \in Nat
  BY <1>1
<1>3. text[1] <= Total(text) /\ text[1] > 0
  BY <1>2, TotalAtLeast
<1>4. Total(text) = 0
  BY DEF Size, Total
<1> QED
  BY <1>2, <1>3, <1>4

\* A row too large for a chunk is shown whole, and the headers of its table with it.
LEMMA SplitRowShows ==
  ASSUME NEW n \in Nat, NEW row \in Seq(Seq(Nat)), row # <<>>,
         \A c \in DOMAIN row : \A k \in DOMAIN row[c] : row[c][k] > 0,
         table.line \in Nat, table.header \in Nat, NEW line, line = Whole(n, row),
         line.words > MaxWords \/ Heading + table.header + line.size > Soft,
         NEW parts, parts = SplitRow(n, row)
  PROVE  /\ parts \in Seq(LinePart(n)) /\ Shown(parts, table.line, 0) >= table.header
         /\ \A c \in DOMAIN row : Shown(parts, n, c) >= Size(row[c])
<1>1. /\ HeaderPart \in PartRecord /\ HeaderPart.size = table.header
      /\ Separators \in PartRecord /\ Separators.size = Bars
  BY HeaderPartType
<1>2. 1 \in DOMAIN row /\ row[1] \in Seq(Nat) /\ 1 \in Nat /\ Len(row[1]) \in Nat
  BY PlacesType
<1>3. /\ Heading \in Nat /\ Soft \in Nat /\ Bars \in Nat /\ Margin \in Nat /\ Bars < Margin
      /\ MaxWords \in Nat /\ Margin <= MaxWords /\ Size(row[1]) \in Nat
  BY <1>2, SizeRuns, ChunkingAssumption
<1>4. CASE Heading + table.header + Size(row[1]) > Soft - Margin
  <2>1. parts = ByCoordinates(n, row)
    BY <1>4 DEF SplitRow
  <2> QED
    BY <2>1, ByCoordinatesShows
<1>5. CASE ~ (Heading + table.header + Size(row[1]) > Soft - Margin)
  <2>1. PICK both : both = Joined(HeaderPart, Separators)
    OBVIOUS
  <2>2. /\ both \in PartRecord /\ both.size = table.header + Bars
        /\ both.pieces = {<<table.line, 0, table.header>>}
    <3>1. Size(<<table.header>>) = table.header
      BY SizeOfWord
    <3>2. HeaderPart.pieces = {<<table.line, 0, table.header>>}
      BY <3>1 DEF HeaderPart, PartOf, Part
    <3>3. both.pieces = {<<table.line, 0, table.header>>}
      BY <3>2, <2>1 DEF Joined, Separators, Part
    <3> QED
      BY <3>3, <2>1, <1>1, PartTypes
  <2>3. CASE Len(row) = 1
    <3>1. Heading + both.size < Soft
      BY SMTT(20), <2>2, <1>3, <1>5
    <3>2. both \in LinePart(n)
      <4>1. \A y, z \in both.pieces : y = z
        BY <2>2
      <4>2. \A y \in both.pieces : y[2] = 0
        BY <2>2
      <4>3. both \in ClearPart
        BY <2>2, <4>1 DEF ClearPart
      <4>4. \A y \in both.pieces : y[2] > 0 => y[1] = n
        BY <4>2
      <4> QED
        BY <4>3, <4>4 DEF LinePart
    <3>3. \A y \in both.pieces : ~ (y[1] = n /\ y[2] = 1)
      BY <2>2
    <3>4. parts = Spread(n, 1, row[1], both)
      BY <2>1, <2>3, <1>5 DEF SplitRow
    <3>5. Size(row[1]) > 0
      <4>1. SUFFICES ASSUME Size(row[1]) = 0 PROVE FALSE
        BY <1>3
      <4>2. \A k \in DOMAIN row[1] : row[1][k] > 0
        BY <1>2
      <4>3. PICK text \in Seq(Nat) : text = row[1]
        BY <1>2
      <4>4. Size(text) = 0
        BY <4>1, <4>3
      <4>5. \A k \in DOMAIN text : text[k] > 0
        BY <4>2, <4>3
      <4>6. Len(text) = 0
        BY <4>4, <4>5, NoTokensNoWords
      <4>7. line.size = Bars + Size(row[1]) /\ line.words = Bars + Len(row[1])
        BY <2>3, WholeOfOne
      <4>8. line.size = Bars /\ line.words = Bars
        BY SMTT(20), <4>1, <4>3, <4>6, <4>7, <1>3
      <4> QED
        BY SMTT(20), <4>8, <4>1, <1>3, <1>5
    <3>6. PICK text \in Seq(Nat), one \in Nat : text = row[1] /\ one = 1
      BY <1>2
    <3>7. \A y \in both.pieces : ~ (y[1] = n /\ y[2] = one)
      BY <3>3, <3>6
    <3>8. /\ Spread(n, one, text, both) \in Seq(LinePart(n))
          /\ Spread(n, one, text, both) \in Seq(ClearPart)
          /\ Shown(Spread(n, one, text, both), n, one) >= Size(text)
          /\ \A k \in DOMAIN Spread(n, one, text, both) :
               both.pieces \subseteq Spread(n, one, text, both)[k].pieces
          /\ Size(text) > 0 => Spread(n, one, text, both) # <<>>
      BY <3>1, <3>2, <3>7, CellSpreads
    <3>9. parts = Spread(n, one, text, both)
      BY <3>4, <3>6
    <3>a. /\ parts \in Seq(LinePart(n)) /\ parts \in Seq(ClearPart) /\ parts # <<>>
          /\ Shown(parts, n, 1) >= Size(row[1])
          /\ \A k \in DOMAIN parts : both.pieces \subseteq parts[k].pieces
      BY <3>5, <3>6, <3>8, <3>9
    <3>b. Shown(parts, table.line, 0) >= table.header
      <4>1. PICK l, z, s, x : l = table.line /\ z = 0 /\ s = table.header /\ x = <<l, z, s>>
        OBVIOUS
      <4>2. 1 \in DOMAIN parts
        BY <3>a
      <4>3. x \in parts[1].pieces
        BY <4>1, <4>2, <3>a, <2>2
      <4>4. x[3] <= Shown(parts, x[1], x[2])
        BY <4>2, <4>3, <3>a, ShownAtLeast
      <4>5. x[1] = l /\ x[2] = z /\ x[3] = s
        BY <4>1
      <4>6. s <= Shown(parts, l, z) /\ s \in Nat /\ Shown(parts, l, z) \in Nat
        BY <4>1, <4>4, <4>5, <3>a, ShownIs
      <4>7. Shown(parts, l, z) >= s
        BY <4>6
      <4> QED
        BY <4>1, <4>7
    <3>c. \A c \in DOMAIN row : c = 1
      BY <2>3
    <3> QED
      BY <3>a, <3>b, <3>c
  <2>4. CASE Len(row) # 1
    <3>1. PICK key : key = Key(n, row)
      OBVIOUS
    <3>2. PartOf(n, 1, row[1]) \in PartRecord /\ PartOf(n, 1, row[1]).size = Size(row[1])
      BY <1>2, PartOfType
    <3>3. key \in PartRecord /\ key.size = table.header + Bars + Size(row[1])
      BY <3>1, <3>2, <2>1, <2>2, PartTypes DEF Key
    <3>4. Heading + key.size < Soft
      BY SMTT(20), <3>3, <1>3, <1>5
    <3>5. parts = ByKey(n, row)
      BY <2>4, <1>5 DEF SplitRow
    <3> QED
      BY <3>1, <3>4, <3>5, ByKeyShows
  <2> QED
    BY <2>3, <2>4
<1> QED
  BY <1>4, <1>5

-----------------------------------------------------------------------------
(* What was read is shown: the inductive invariant of nothing lost.         *)

\* No part goes back before the lines of an earlier one.
InOrder(s) ==
  \A i, j \in DOMAIN s : i < j =>
    \A x \in s[i].pieces, y \in s[j].pieces : x[2] > 0 /\ y[2] > 0 => x[1] <= y[1]

\* Nothing after line n is shown.
UpTo(s, n) == \A i \in DOMAIN s : \A x \in s[i].pieces : x[2] > 0 => x[1] <= n

\* Every piece of what was read at line n is shown, all of it.
IsShown(s, n, g) ==
  \A c \in DOMAIN g.sizes : Shown(s, n, IF g.kind = "header" THEN 0 ELSE c) >= g.sizes[c]

\* The header of the table in hand is shown with the first of its rows.
Waits(g, n, t) == t # NoTable /\ n = Len(g) /\ g[n].kind = "header"

\* The parts s show everything of g, in its order, but for a header that waits.
Kept(s, g, t) ==
  /\ s \in Seq(ClearPart) /\ InOrder(s) /\ UpTo(s, Len(g))
  /\ \A n \in DOMAIN g : Waits(g, n, t) \/ IsShown(s, n, g[n])

LEMMA PartsGrow ==
  ASSUME NEW m \in Nat, NEW s \in Seq(ClearPart), InOrder(s), UpTo(s, m),
         NEW k \in Nat, m <= k, NEW new \in Seq(LinePart(k))
  PROVE  /\ s \o new \in Seq(ClearPart) /\ InOrder(s \o new) /\ UpTo(s \o new, k)
         /\ \A n, c : Shown(s \o new, n, c) >= Shown(s, n, c)
         /\ \A n, c : Shown(s \o new, n, c) >= Shown(new, n, c)
         /\ \A n, c : /\ Shown(s \o new, n, c) \in Nat /\ Shown(s, n, c) \in Nat
                      /\ Shown(new, n, c) \in Nat
<1>1. new \in Seq(ClearPart) /\ \A i \in DOMAIN new : new[i] \in LinePart(k)
  BY LineSequence
<1>2. PICK t : t = s \o new
  OBVIOUS
<1>3. t \in Seq(ClearPart)
  BY <1>1, <1>2, ConcatIs
<1>4. PICK a \in Nat, b \in Nat : a = Len(s) /\ b = Len(new)
  OBVIOUS
<1>5. /\ DOMAIN t = 1 .. a + b /\ DOMAIN s = 1 .. a /\ DOMAIN new = 1 .. b
      /\ \A i \in 1 .. a : t[i] = s[i]
      /\ \A i \in 1 .. b : t[a + i] = new[i]
  <2>1. /\ Len(t) = a + b /\ \A i \in 1 .. a : t[i] = s[i]
        /\ \A i \in 1 .. b : t[a + i] = new[i]
    BY <1>1, <1>2, <1>4, ConcatIs
  <2>2. DOMAIN t = 1 .. a + b
    BY <2>1, <1>3
  <2> QED
    BY <2>1, <2>2, <1>1, <1>4
<1>6. \A i \in 1 .. a + b : \/ i \in 1 .. a
                            \/ i > a /\ i - a \in 1 .. b /\ i = a + (i - a)
  OBVIOUS
<1>7. \A i \in 1 .. a + b : i > a => t[i] \in LinePart(k)
  BY <1>1, <1>5, <1>6
<1>8. \A i \in 1 .. a + b : i > a =>
        \A x \in t[i].pieces : x[1] \in Nat /\ x[2] \in Nat /\ (x[2] > 0 => x[1] = k)
  BY SMTT(20), <1>7 DEF LinePart, ClearPart, PartRecord
<1>9. \A i \in 1 .. a : \A x \in t[i].pieces : /\ x[1] \in Nat /\ x[2] \in Nat
                                               /\ x[2] > 0 => x[1] <= m
  <2>1. \A i \in 1 .. a : t[i] \in ClearPart
    BY <1>3, <1>5, ElementOfSeq
  <2>2. \A i \in 1 .. a : \A x \in t[i].pieces : x[1] \in Nat /\ x[2] \in Nat
    BY <2>1 DEF ClearPart, PartRecord
  <2>3. \A i \in 1 .. a : \A x \in t[i].pieces : x[2] > 0 => x[1] <= m
    BY <1>5 DEF UpTo
  <2> QED
    BY <2>2, <2>3
<1>a. UpTo(t, k)
  <2>1. SUFFICES ASSUME NEW i \in 1 .. a + b, NEW x \in t[i].pieces, x[2] > 0
                 PROVE  x[1] <= k
    BY <1>5 DEF UpTo
  <2>2. CASE i \in 1 .. a
    BY <2>1, <2>2, <1>9
  <2>3. CASE i > a
    BY <2>1, <2>3, <1>8
  <2> QED
    BY <2>2, <2>3, <1>6
<1>b. InOrder(t)
  <2>1. SUFFICES ASSUME NEW i \in 1 .. a + b, NEW j \in 1 .. a + b, i < j,
                        NEW x \in t[i].pieces, NEW y \in t[j].pieces, x[2] > 0, y[2] > 0
                 PROVE  x[1] <= y[1]
    BY <1>5 DEF InOrder
  <2>2. CASE j \in 1 .. a
    <3>1. i \in 1 .. a
      BY <2>1, <2>2
    <3>2. t[i] = s[i] /\ t[j] = s[j] /\ i \in DOMAIN s /\ j \in DOMAIN s
      BY <3>1, <2>2, <1>5
    <3> QED
      BY <3>2, <2>1 DEF InOrder
  <2>3. CASE j > a
    <3>1. y[1] = k
      BY <2>1, <2>3, <1>8
    <3>2. x[1] <= k
      BY <2>1, <1>3, <1>5, <1>a DEF UpTo
    <3> QED
      BY <3>1, <3>2
  <2> QED
    BY <2>2, <2>3, <1>6
<1>c. \A n, c : /\ Shown(t, n, c) = Shown(s, n, c) + Shown(new, n, c)
                /\ Shown(s, n, c) \in Nat /\ Shown(new, n, c) \in Nat
  BY <1>1, <1>2, ShownJoined
<1>d. \A n, c : /\ Shown(t, n, c) \in Nat /\ Shown(t, n, c) >= Shown(s, n, c)
                /\ Shown(t, n, c) >= Shown(new, n, c)
  <2>1. SUFFICES ASSUME NEW n, NEW c
                 PROVE  /\ Shown(t, n, c) \in Nat /\ Shown(t, n, c) >= Shown(s, n, c)
                        /\ Shown(t, n, c) >= Shown(new, n, c)
    OBVIOUS
  <2>2. /\ Shown(t, n, c) = Shown(s, n, c) + Shown(new, n, c)
        /\ Shown(s, n, c) \in Nat /\ Shown(new, n, c) \in Nat
    BY <1>c
  <2> QED
    BY <2>2
<1> QED
  BY <1>2, <1>3, <1>a, <1>b, <1>c, <1>d

LEMMA ShownStays ==
  ASSUME NEW s, NEW t, NEW n, NEW g \in Given, IsShown(s, n, g),
         \A c : /\ Shown(t, n, c) >= Shown(s, n, c)
                /\ Shown(t, n, c) \in Nat /\ Shown(s, n, c) \in Nat
  PROVE  IsShown(t, n, g)
<1>1. SUFFICES ASSUME NEW c \in DOMAIN g.sizes
               PROVE  Shown(t, n, IF g.kind = "header" THEN 0 ELSE c) >= g.sizes[c]
  BY DEF IsShown
<1>2. PICK d : d = IF g.kind = "header" THEN 0 ELSE c
  OBVIOUS
<1>3. Shown(s, n, d) >= g.sizes[c]
  BY <1>2 DEF IsShown
<1>4. g.sizes[c] \in Nat
  <2>1. PICK sizes \in Seq(Nat) : sizes = g.sizes
    BY DEF Given
  <2>2. sizes[c] \in Nat
    BY <2>1
  <2> QED
    BY <2>1, <2>2
<1>5. Shown(t, n, d) >= Shown(s, n, d) /\ Shown(t, n, d) \in Nat /\ Shown(s, n, d) \in Nat
  OBVIOUS
<1>6. Shown(t, n, d) >= g.sizes[c]
  BY <1>3, <1>4, <1>5
<1> QED
  BY <1>2, <1>6

\* The parts of what is read next, and of a header that waited for it.
LEMMA KeptGrows ==
  ASSUME NEW s, NEW g \in Seq(Given), NEW t, Kept(s, g, t), NEW x \in Given, NEW u,
         NEW k, k = Len(g) + 1, NEW new \in Seq(LinePart(k)),
         (u # NoTable /\ x.kind = "header") \/ IsShown(new, k, x),
         \A n \in DOMAIN g : Waits(g, n, t) => IsShown(new, n, g[n])
  PROVE  Kept(s \o new, Append(g, x), u)
<1>1. PICK m \in Nat : m = Len(g)
  OBVIOUS
<1>2. /\ s \in Seq(ClearPart) /\ InOrder(s) /\ UpTo(s, m)
      /\ \A n \in DOMAIN g : Waits(g, n, t) \/ IsShown(s, n, g[n])
  BY <1>1 DEF Kept
<1>3. k \in Nat /\ m <= k /\ k = m + 1
  BY <1>1
<1>4. PICK both, after : both = s \o new /\ after = Append(g, x)
  OBVIOUS
<1>5. /\ both \in Seq(ClearPart) /\ InOrder(both) /\ UpTo(both, k)
      /\ \A n, c : /\ Shown(both, n, c) >= Shown(s, n, c)
                   /\ Shown(both, n, c) >= Shown(new, n, c)
                   /\ Shown(both, n, c) \in Nat /\ Shown(s, n, c) \in Nat
                   /\ Shown(new, n, c) \in Nat
  BY <1>2, <1>3, <1>4, PartsGrow
<1>6. /\ after \in Seq(Given) /\ Len(after) = k /\ after[k] = x /\ DOMAIN g = 1 .. m
      /\ \A n \in 1 .. m : after[n] = g[n] /\ g[n] \in Given
      /\ \A n \in DOMAIN after : n = k \/ n \in 1 .. m
  <2>1. /\ after \in Seq(Given) /\ Len(after) = k /\ after[k] = x /\ DOMAIN g = 1 .. m
        /\ \A n \in 1 .. m : after[n] = g[n] /\ g[n] \in Given
    BY <1>1, <1>3, <1>4
  <2>2. DOMAIN after = 1 .. k
    BY <2>1
  <2>3. \A n \in 1 .. k : n = k \/ n \in 1 .. m
    BY <1>3
  <2> QED
    BY <2>1, <2>2, <2>3
<1>7. ASSUME NEW n \in DOMAIN after PROVE Waits(after, n, u) \/ IsShown(both, n, after[n])
  <2>1. CASE n = k
    <3>1. CASE u # NoTable /\ x.kind = "header"
      BY <2>1, <3>1, <1>6 DEF Waits
    <3>2. CASE IsShown(new, k, x)
      <4>1. IsShown(both, k, x)
        BY <3>2, <1>5, ShownStays
      <4> QED
        BY <4>1, <2>1, <1>6
    <3> QED
      BY <3>1, <3>2
  <2>2. CASE n \in 1 .. m
    <3>1. n \in DOMAIN g /\ after[n] = g[n] /\ g[n] \in Given
      BY <2>2, <1>6
    <3>2. IsShown(new, n, g[n]) \/ IsShown(s, n, g[n])
      BY <3>1, <1>2
    <3>3. IsShown(both, n, g[n])
      BY <3>1, <3>2, <1>5, ShownStays
    <3> QED
      BY <3>1, <3>3
  <2> QED
    BY <2>1, <2>2, <1>6
<1>8. Kept(both, after, u)
  BY <1>5, <1>6, <1>7 DEF Kept
<1> QED
  BY <1>4, <1>8

\* The header of a table without rows.
LEMMA KeptCloses ==
  ASSUME NEW s, NEW g \in Seq(Given), NEW t, Kept(s, g, t), NEW new \in Seq(LinePart(Len(g))),
         \A n \in DOMAIN g : Waits(g, n, t) => IsShown(new, n, g[n])
  PROVE  Kept(s \o new, g, NoTable)
<1>1. PICK m \in Nat : m = Len(g)
  OBVIOUS
<1>2. /\ s \in Seq(ClearPart) /\ InOrder(s) /\ UpTo(s, m)
      /\ \A n \in DOMAIN g : Waits(g, n, t) \/ IsShown(s, n, g[n])
  BY <1>1 DEF Kept
<1>3. new \in Seq(LinePart(m)) /\ m <= m
  BY <1>1
<1>4. PICK both : both = s \o new
  OBVIOUS
<1>5. /\ both \in Seq(ClearPart) /\ InOrder(both) /\ UpTo(both, m)
      /\ \A n, c : /\ Shown(both, n, c) >= Shown(s, n, c)
                   /\ Shown(both, n, c) >= Shown(new, n, c)
                   /\ Shown(both, n, c) \in Nat /\ Shown(s, n, c) \in Nat
                   /\ Shown(new, n, c) \in Nat
  BY <1>2, <1>3, <1>4, PartsGrow
<1>6. ASSUME NEW n \in DOMAIN g PROVE IsShown(both, n, g[n])
  <2>1. g[n] \in Given
    OBVIOUS
  <2>2. IsShown(new, n, g[n]) \/ IsShown(s, n, g[n])
    BY <1>2
  <2> QED
    BY <2>1, <2>2, <1>5, ShownStays
<1>7. Kept(both, g, NoTable)
  BY <1>1, <1>5, <1>6 DEF Kept
<1> QED
  BY <1>4, <1>7

\* Unless the section has failed, what was flushed and what is held, rows with their header,
\* show everything that was read.
KeptInv ==
  stage # "failed" =>
    /\ chunks \in Seq(Seq(ClearPart)) /\ held \in Seq(ClearPart) /\ rows \in Seq(ClearPart)
    /\ Kept(Flat(chunks) \o HeldAndTable, given, table)
    /\ rows # <<>> => given # <<>> /\ given[Len(given)].kind = "row"

LEMMA FlatOfOne ==
  ASSUME NEW E, NEW s \in Seq(E)
  PROVE  <<s>> \in Seq(Seq(E)) /\ Flat(<<s>>) = s /\ Flat(<<s>>) \in Seq(E)
<1> DEFINE S == Seq(E)
<1>1. PICK none : none = <<>>
  OBVIOUS
<1>2. Joins(S) /\ s \in S
  BY SeqJoins
<1>5. none \in S /\ none \o s = s
  BY <1>1
<1> HIDE DEF S
<1>3. none \in Seq(S) /\ Append(none, s) = <<s>> /\ <<s>> \in Seq(S)
  BY <1>1, <1>2
<1>4. Flat(Append(none, s)) = Flat(none) \o s
  BY <1>2, <1>3, FlatOfAppend
<1>6. Flat(none) = none
  BY <1>1, FlatOfNone
<1>7. Flat(<<s>>) = s
  BY <1>3, <1>4, <1>5, <1>6
<1> QED
  BY <1>2, <1>3, <1>7 DEF S

LEMMA FlatOfSome ==
  ASSUME NEW E, NEW text \in Seq(E)
  PROVE  /\ Flush(<<>>, text) \in Seq(Seq(E)) /\ Flat(Flush(<<>>, text)) = text
         /\ Flush(<<>>, text) = <<>> \/ Flush(<<>>, text) = <<text>>
<1>1. CASE text = <<>>
  <2>1. Flush(<<>>, text) = <<>>
    BY <1>1 DEF Flush
  <2>2. PICK none : none = <<>>
    OBVIOUS
  <2> DEFINE S == Seq(E)
  <2> HIDE DEF S
  <2>3. none \in Seq(S)
    BY <2>2
  <2> USE DEF S
  <2>4. Flat(none) = none
    BY <2>2, FlatOfNone
  <2> QED
    BY <2>1, <2>2, <2>3, <2>4, <1>1
<1>2. CASE text # <<>>
  <2>1. Flush(<<>>, text) = <<text>>
    BY <1>2 DEF Flush
  <2> QED
    BY <2>1, FlatOfOne
<1> QED
  BY <1>1, <1>2

\* Each part in a chunk of its own.
Singles(parts) == [k \in DOMAIN parts |-> <<parts[k]>>]

LEMMA SinglesType ==
  ASSUME NEW E, NEW parts \in Seq(E)
  PROVE  Singles(parts) \in Seq(Seq(E)) /\ Flat(Singles(parts)) = parts
<1> DEFINE S == Seq(E)
           singles == [k \in DOMAIN parts |-> <<parts[k]>>]
<1>1. \A k \in DOMAIN parts : <<parts[k]>> \in S
  <2>1. ASSUME NEW k \in DOMAIN parts PROVE <<parts[k]>> \in S
    <3>1. parts[k] \in E
      BY ElementOfSeq
    <3> QED
      BY <3>1, OneIsSeq
  <2> QED
    BY <2>1
<1>2. DOMAIN parts = 1 .. Len(parts) /\ Len(parts) \in Nat
  OBVIOUS
<1>5. Flat(singles) = parts
  BY FlatOfSingles
<1> HIDE DEF S
<1>3. singles \in [1 .. Len(parts) -> S]
  BY <1>1, <1>2
<1> HIDE DEF singles
<1>4. singles \in Seq(S)
  BY <1>2, <1>3, SeqDef
<1>6. singles = Singles(parts)
  BY DEF singles, Singles
<1> QED
  BY <1>4, <1>5, <1>6 DEF S

\* What is held, and then each part in a chunk of its own.
LEMMA FlatOfFlush ==
  ASSUME NEW E, NEW text \in Seq(E), NEW parts \in Seq(E)
  PROVE  /\ Flush(<<>>, text) \o Singles(parts) \in Seq(Seq(E))
         /\ Flat(Flush(<<>>, text) \o Singles(parts)) = text \o parts
<1>1. PICK first, singles : first = Flush(<<>>, text) /\ singles = Singles(parts)
  OBVIOUS
<1>2. first \in Seq(Seq(E)) /\ Flat(first) = text
  BY <1>1, FlatOfSome
<1>3. singles \in Seq(Seq(E)) /\ Flat(singles) = parts
  BY <1>1, SinglesType
<1>4. Flat(first \o singles) = Flat(first) \o Flat(singles)
  BY <1>2, <1>3, FlatOfConcat
<1>5. first \o singles \in Seq(Seq(E))
  <2> DEFINE S == Seq(E)
  <2>1. first \in Seq(S) /\ singles \in Seq(S)
    BY <1>2, <1>3
  <2> HIDE DEF S
  <2>2. first \o singles \in Seq(S)
    BY <2>1, ConcatIs
  <2> QED
    BY <2>2 DEF S
<1> QED
  BY <1>1, <1>2, <1>3, <1>4, <1>5

LEMMA Brackets ==
  ASSUME NEW E, NEW f, NEW m, NEW a,
         f \in Seq(E) /\ m \in Seq(E) /\ a \in Seq(E)
  PROVE  (f \o m) \o a = f \o (m \o a)
BY SMTT(20), ConcatIsAssociative

\* A step that does not fail: what was flushed and what waits, after what was there before.
LEMMA FlushSays ==
  ASSUME NEW text, NEW more, NEW rest, NEW left, NEW after, NEW new
  PROVE  /\ KeptInv /\ stage = "open" /\ Flushing(more, rest) /\ rows' = left
         /\ more \in Seq(Seq(ClearPart)) /\ rest \in Seq(ClearPart) /\ left \in Seq(ClearPart)
         /\ text \in Seq(ClearPart) /\ after \in Seq(ClearPart) /\ new \in Seq(ClearPart)
         /\ text = HeldAndTable
         /\ after = IF left = <<>> THEN rest ELSE rest \o <<HeaderPart>> \o left
         /\ Flat(more) \o after = text \o new
         /\ Kept((Flat(chunks) \o text) \o new, given', table')
         /\ left # <<>> => /\ table' = table
                           /\ given' # <<>> /\ given'[Len(given')].kind = "row"
         => KeptInv'
<1>0. SUFFICES ASSUME
         /\ KeptInv /\ stage = "open" /\ Flushing(more, rest) /\ rows' = left
         /\ more \in Seq(Seq(ClearPart)) /\ rest \in Seq(ClearPart) /\ left \in Seq(ClearPart)
         /\ text \in Seq(ClearPart) /\ after \in Seq(ClearPart) /\ new \in Seq(ClearPart)
         /\ text = HeldAndTable
         /\ after = IF left = <<>> THEN rest ELSE rest \o <<HeaderPart>> \o left
         /\ Flat(more) \o after = text \o new
         /\ Kept((Flat(chunks) \o text) \o new, given', table')
         /\ left # <<>> => /\ table' = table
                           /\ given' # <<>> /\ given'[Len(given')].kind = "row"
               PROVE KeptInv'
  OBVIOUS
<1>1. SUFFICES ASSUME stage' # "failed"
               PROVE  /\ chunks' \in Seq(Seq(ClearPart)) /\ held' \in Seq(ClearPart)
                      /\ Kept(Flat(chunks') \o HeldAndTable', given', table')
  BY <1>0 DEF KeptInv
<1>2. chunks \in Seq(Seq(ClearPart)) /\ more \in Seq(Seq(ClearPart))
  BY <1>0 DEF KeptInv
<1>3. chunks' = chunks \o more /\ held' = rest
  BY <1>0, <1>1 DEF Flushing
<1>4. /\ Flat(chunks \o more) = Flat(chunks) \o Flat(more)
      /\ Flat(chunks) \in Seq(ClearPart) /\ Flat(more) \in Seq(ClearPart)
  BY <1>2, FlatOfConcat
<1>5. chunks \o more \in Seq(Seq(ClearPart))
  <2> DEFINE S == Seq(ClearPart)
  <2>1. chunks \in Seq(S) /\ more \in Seq(S)
    BY <1>2
  <2> HIDE DEF S
  <2>2. chunks \o more \in Seq(S)
    BY <2>1, ConcatIs
  <2> QED
    BY <2>2 DEF S
<1>6. HeldAndTable' = after
  <2>1. CASE left = <<>>
    BY <2>1, <1>0, <1>3 DEF HeldAndTable
  <2>2. CASE left # <<>>
    <3>1. HeaderPart' = HeaderPart
      BY <2>2, <1>0 DEF HeaderPart
    <3> QED
      BY <3>1, <2>2, <1>0, <1>3 DEF HeldAndTable
  <2> QED
    BY <2>1, <2>2
<1>7. (Flat(chunks) \o Flat(more)) \o after = (Flat(chunks) \o text) \o new
  <2>1. /\ Flat(chunks) \in Seq(ClearPart) /\ Flat(more) \in Seq(ClearPart)
        /\ after \in Seq(ClearPart)
    BY <1>0, <1>4
  <2>2. (Flat(chunks) \o Flat(more)) \o after = Flat(chunks) \o (Flat(more) \o after)
    BY <2>1, Brackets
  <2>3. /\ Flat(chunks) \in Seq(ClearPart) /\ text \in Seq(ClearPart)
        /\ new \in Seq(ClearPart)
    BY <1>0, <1>4
  <2>4. (Flat(chunks) \o text) \o new = Flat(chunks) \o (text \o new)
    BY <2>3, Brackets
  <2>5. Flat(more) \o after = text \o new
    BY <1>0
  <2> QED
    BY <2>2, <2>4, <2>5
<1>8. Flat(chunks') \o HeldAndTable' = (Flat(chunks) \o text) \o new
  BY <1>3, <1>4, <1>6, <1>7
<1> QED
  BY <1>0, <1>3, <1>5, <1>8

LEMMA HeaderShows ==
  ASSUME table.line \in Nat, table.header \in Nat
  PROVE  /\ HeaderPart.pieces = {<<table.line, 0, table.header>>}
         /\ \A m : HeaderPart \in LinePart(m)
         /\ HeaderPart \in ClearPart
<1>1. HeaderPart.pieces = {<<table.line, 0, table.header>>}
  <2>1. Size(<<table.header>>) = table.header
    BY SizeOfWord
  <2> QED
    BY <2>1 DEF HeaderPart, PartOf, Part
<1>2. HeaderPart \in PartRecord
  BY HeaderPartType
<1>3. \A y, z \in HeaderPart.pieces : y = z
  BY <1>1
<1>4. \A y \in HeaderPart.pieces : y[2] = 0
  BY <1>1
<1>5. HeaderPart \in ClearPart
  BY <1>2, <1>3 DEF ClearPart
<1>6. \A m : HeaderPart \in LinePart(m)
  <2>1. \A y \in HeaderPart.pieces : ~ y[2] > 0
    BY <1>4
  <2> QED
    BY <1>5, <2>1 DEF LinePart
<1> QED
  BY <1>1, <1>5, <1>6

LEMMA TableTypes ==
  ASSUME ChunkInv, table # NoTable
  PROVE  /\ table.line \in Nat /\ table.header \in Nat /\ table.line \in DOMAIN given
         /\ given \in Seq(Given) /\ given # <<>> /\ Len(given) \in DOMAIN given
         /\ given[table.line] = [kind |-> "header", sizes |-> <<table.header>>]
         /\ \A n \in DOMAIN given : n > table.line => given[n].kind = "row"
<1>1. /\ table.line \in DOMAIN given /\ table.header \in Nat /\ given \in Seq(Given)
      /\ given[table.line] = [kind |-> "header", sizes |-> <<table.header>>]
      /\ \A n \in DOMAIN given : n > table.line => given[n].kind = "row"
  BY DEF ChunkInv, ChunkTypeOK, TableIsLast
<1>2. table.line \in Nat /\ given # <<>> /\ Len(given) \in DOMAIN given
  BY <1>1
<1> QED
  BY <1>1, <1>2

\* What waits is clear.
LEMMA HeldIsClear ==
  ASSUME ChunkInv, KeptInv, stage # "failed"
  PROVE  HeldAndTable \in Seq(ClearPart)
<1>1. held \in Seq(ClearPart) /\ rows \in Seq(ClearPart)
  BY DEF KeptInv
<1>2. CASE rows = <<>>
  BY <1>1, <1>2 DEF HeldAndTable
<1>3. CASE rows # <<>>
  <2>1. table # NoTable
    BY <1>3 DEF ChunkInv, TableIsLast
  <2>2. HeaderPart \in ClearPart
    BY <2>1, TableTypes, HeaderShows
  <2>3. PICK p, a, b : p = HeaderPart /\ a = held /\ b = rows
    OBVIOUS
  <2>4. p \in ClearPart /\ a \in Seq(ClearPart) /\ b \in Seq(ClearPart)
    BY <2>2, <2>3, <1>1
  <2>5. a \o <<p>> \o b \in Seq(ClearPart)
    BY <2>4
  <2> QED
    BY <2>3, <2>5, <1>3 DEF HeldAndTable
<1> QED
  BY <1>2, <1>3

\* Only the header of the table in hand can wait.
LEMMA WaitingIsShown ==
  ASSUME ChunkInv, NEW new, table # NoTable => Shown(new, table.line, 0) >= table.header,
         NEW n \in DOMAIN given, Waits(given, n, table)
  PROVE  IsShown(new, n, given[n])
<1>1. table # NoTable /\ n = Len(given) /\ given[n].kind = "header"
  BY DEF Waits
<1>2. /\ table.line \in Nat /\ table.line \in DOMAIN given /\ given \in Seq(Given)
      /\ given[table.line] = [kind |-> "header", sizes |-> <<table.header>>]
      /\ ~ n > table.line
  BY <1>1, TableTypes
<1>3. n = table.line
  <2>1. PICK l, m : l = table.line /\ m = Len(given)
    OBVIOUS
  <2>2. m \in Nat /\ l \in 1 .. m /\ ~ m > l
    BY <2>1, <1>1, <1>2
  <2>3. m = l
    BY <2>2
  <2> QED
    BY <2>1, <2>3, <1>1
<1>4. PICK g : g = given[n]
  OBVIOUS
<1>5. g.kind = "header" /\ g.sizes = <<table.header>>
  BY <1>2, <1>3, <1>4
<1>6. \A c \in DOMAIN g.sizes : g.sizes[c] = table.header
  BY <1>5
<1>7. Shown(new, n, 0) >= table.header
  BY <1>1, <1>3
<1>8. IsShown(new, n, g)
  BY <1>5, <1>6, <1>7 DEF IsShown
<1> QED
  BY <1>4, <1>8

LEMMA FlatPlain ==
  ASSUME NEW E, NEW text \in Seq(E), NEW rest \in Seq(E)
  PROVE  /\ <<>> \in Seq(Seq(E)) /\ Flat(<<>>) \o rest = rest
         /\ <<text>> \in Seq(Seq(E)) /\ Flat(<<text>>) \o rest = text \o rest
         /\ Flush(<<>>, text) \in Seq(Seq(E))
         /\ Flat(Flush(<<>>, text)) \o rest = text \o rest
<1>1. PICK none : none = <<>>
  OBVIOUS
<1>2. none \o rest = rest
  BY <1>1
<1>3. Flat(none) = none
  BY <1>1, FlatOfNone
<1>4. none \in Seq(Seq(E))
  <2> DEFINE S == Seq(E)
  <2> HIDE DEF S
  <2>1. none \in Seq(S)
    BY <1>1
  <2> QED
    BY <2>1 DEF S
<1>5. Flat(none) \o rest = rest
  BY <1>2, <1>3
<1>6. <<text>> \in Seq(Seq(E)) /\ Flat(<<text>>) = text
  BY FlatOfOne
<1>7. Flush(<<>>, text) \in Seq(Seq(E)) /\ Flat(Flush(<<>>, text)) = text
  BY FlatOfSome
<1> HIDE DEF Flush
<1> QED
  BY <1>1, <1>4, <1>5, <1>6, <1>7, Zenon

LEMMA FlatSplit ==
  ASSUME NEW E, NEW text \in Seq(E), NEW parts \in Seq(E)
  PROVE  /\ Flush(<<>>, text) \o Singles(parts) \in Seq(Seq(E))
         /\ Flat(Flush(<<>>, text) \o Singles(parts)) \o <<>> = text \o parts
<1>1. /\ Flush(<<>>, text) \o Singles(parts) \in Seq(Seq(E))
      /\ Flat(Flush(<<>>, text) \o Singles(parts)) = text \o parts
  BY FlatOfFlush
<1>2. PICK s : s = text \o parts
  OBVIOUS
<1>3. s \in Seq(E)
  BY <1>2, ConcatIs
<1>4. s \o <<>> = s
  BY <1>3
<1> QED
  BY <1>1, <1>2, <1>4

\* One more line, header or row is read: its parts are shown after what was read before it.
LEMMA GivenGrows ==
  ASSUME NEW text, NEW more, NEW rest, NEW left, NEW after, NEW new, NEW x
  PROVE  /\ ChunkInv /\ KeptInv /\ stage = "open" /\ Flushing(more, rest) /\ rows' = left
         /\ more \in Seq(Seq(ClearPart)) /\ rest \in Seq(ClearPart) /\ left \in Seq(ClearPart)
         /\ after \in Seq(ClearPart) /\ text = HeldAndTable
         /\ after = IF left = <<>> THEN rest ELSE rest \o <<HeaderPart>> \o left
         /\ Flat(more) \o after = text \o new
         /\ x \in Given /\ given' = Append(given, x) /\ new \in Seq(LinePart(Line))
         /\ (table' # NoTable /\ x.kind = "header") \/ IsShown(new, Line, x)
         /\ table # NoTable => rows # <<>> \/ Shown(new, table.line, 0) >= table.header
         /\ left # <<>> => table' = table /\ x.kind = "row"
         => KeptInv'
<1>0. SUFFICES ASSUME
         /\ ChunkInv /\ KeptInv /\ stage = "open" /\ Flushing(more, rest) /\ rows' = left
         /\ more \in Seq(Seq(ClearPart)) /\ rest \in Seq(ClearPart) /\ left \in Seq(ClearPart)
         /\ after \in Seq(ClearPart) /\ text = HeldAndTable
         /\ after = IF left = <<>> THEN rest ELSE rest \o <<HeaderPart>> \o left
         /\ Flat(more) \o after = text \o new
         /\ x \in Given /\ given' = Append(given, x) /\ new \in Seq(LinePart(Line))
         /\ (table' # NoTable /\ x.kind = "header") \/ IsShown(new, Line, x)
         /\ table # NoTable => rows # <<>> \/ Shown(new, table.line, 0) >= table.header
         /\ left # <<>> => table' = table /\ x.kind = "row"
               PROVE KeptInv'
  OBVIOUS
<1>1. /\ Kept(Flat(chunks) \o text, given, table)
      /\ rows # <<>> => given # <<>> /\ given[Len(given)].kind = "row"
  BY <1>0 DEF KeptInv
<1>2. given \in Seq(Given) /\ Line = Len(given) + 1
  BY <1>0 DEF ChunkInv, ChunkTypeOK, Line
<1>3. \A n \in DOMAIN given : Waits(given, n, table) => IsShown(new, n, given[n])
  <2>1. SUFFICES ASSUME NEW n \in DOMAIN given, Waits(given, n, table)
                 PROVE  IsShown(new, n, given[n])
    OBVIOUS
  <2>2. table # NoTable /\ rows = <<>>
    BY <2>1, <1>1 DEF Waits
  <2>3. table # NoTable => Shown(new, table.line, 0) >= table.header
    BY <2>2, <1>0
  <2>4. ChunkInv
    BY <1>0
  <2> QED
    BY <2>1, <2>3, <2>4, WaitingIsShown
<1>4. PICK s, k : s = Flat(chunks) \o text /\ k = Line
  OBVIOUS
<1>5. Kept(s, given, table) /\ k = Len(given) + 1 /\ x \in Given /\ new \in Seq(LinePart(k))
  BY <1>0, <1>1, <1>2, <1>4
<1>6. (table' # NoTable /\ x.kind = "header") \/ IsShown(new, k, x)
  BY <1>0, <1>4
<1>7. Kept(s \o new, Append(given, x), table')
  BY <1>2, <1>3, <1>5, <1>6, KeptGrows
<1>8. Kept((Flat(chunks) \o text) \o new, given', table')
  BY <1>0, <1>4, <1>7
<1>9. new \in Seq(ClearPart)
  BY <1>5, LineSequence
<1>a. text \in Seq(ClearPart)
  <2>1. ChunkInv /\ KeptInv /\ stage # "failed"
    BY <1>0
  <2> QED
    BY <2>1, <1>0, HeldIsClear
<1>b. left # <<>> => /\ table' = table
                     /\ given' # <<>> /\ given'[Len(given')].kind = "row"
  <2>1. SUFFICES ASSUME left # <<>>
                 PROVE  /\ table' = table
                        /\ given' # <<>> /\ given'[Len(given')].kind = "row"
    OBVIOUS
  <2>2. table' = table /\ x.kind = "row" /\ given' = Append(given, x) /\ x \in Given
    BY <2>1, <1>0
  <2>3. given' # <<>> /\ given'[Len(given')] = x
    BY <2>2, <1>2
  <2> QED
    BY <2>2, <2>3
<1> QED
  BY <1>0, <1>8, <1>9, <1>a, <1>b, FlushSays

LEMMA GivenTypes ==
  ASSUME ChunkInv, KeptInv, stage = "open"
  PROVE  /\ held \in Seq(ClearPart) /\ rows \in Seq(ClearPart) /\ Line \in Nat
         /\ given \in Seq(Given) /\ chunks \in Seq(Seq(ClearPart))
BY DEF ChunkInv, ChunkTypeOK, KeptInv, Line

\* A line is shown whole, or spread out over chunks of its own.
LEMMA AddLineSays ==
  ASSUME ChunkInv, KeptInv, NEW l \in Lines, AddLine(l)
  PROVE  KeptInv'
<1>1. /\ l.context \in Nat /\ l.words \in Seq(Nat)
      /\ Heading \in Nat /\ MaxContext \in Nat /\ Soft \in Nat /\ Heading + MaxContext < Soft
  BY ChunkingAssumption
<1>2. /\ stage = "open" /\ Head(todo) = "lines" /\ Give("line", <<Size(l.words)>>)
      /\ table' = table /\ rows' = rows
  BY DEF AddLine, Room
<1>3. table = NoTable /\ rows = <<>>
  BY <1>2, NoTableInHand
<1>4. held \in Seq(ClearPart) /\ Line \in Nat /\ given \in Seq(Given)
  BY <1>2, GivenTypes
<1>5. Size(l.words) \in Nat
  BY <1>1, SizeRuns
<1>6. PICK x : x = [kind |-> "line", sizes |-> <<Size(l.words)>>]
  OBVIOUS
<1>7. /\ x \in Given /\ x.kind = "line" /\ x.sizes = <<Size(l.words)>>
      /\ given' = Append(given, x)
  <2>1. <<Size(l.words)>> \in Seq(Nat)
    BY <1>5
  <2> QED
    BY <2>1, <1>2, <1>6 DEF Given, Give
<1>8. PICK text, none : text = held /\ none = <<>>
  OBVIOUS
<1>9. text \in Seq(ClearPart) /\ text = HeldAndTable
  BY <1>3, <1>4, <1>8 DEF HeldAndTable
<1>a. ASSUME NEW more, NEW rest, NEW new,
             more \in Seq(Seq(ClearPart)) /\ rest \in Seq(ClearPart),
             new \in Seq(LinePart(Line)), Shown(new, Line, 1) >= Size(l.words),
             Flushing(more, rest), Flat(more) \o rest = text \o new
      PROVE  KeptInv'
  <2>1. IsShown(new, Line, x)
    BY <1>7, <1>a DEF IsShown
  <2>2. none \in Seq(ClearPart) /\ rows' = none
    BY <1>2, <1>3, <1>8
  <2>3. rest = IF none = <<>> THEN rest ELSE rest \o <<HeaderPart>> \o none
    BY <1>8
  <2>4. /\ table # NoTable => rows # <<>> \/ Shown(new, table.line, 0) >= table.header
        /\ none # <<>> => table' = table /\ x.kind = "row"
    BY <1>3, <1>8
  <2> QED
    BY <2>1, <2>2, <2>3, <2>4, <1>2, <1>7, <1>9, <1>a, GivenGrows
<1>b. PICK line : line = PartOf(Line, 1, l.words)
  OBVIOUS
<1>c. PICK context : context = Part({}, IF l.context > MaxContext THEN 0 ELSE l.context, 0)
  OBVIOUS
<1>d. context \in LinePart(Line) /\ context.pieces = {} /\ Heading + context.size < Soft
  <2>1. PICK size : size = IF l.context > MaxContext THEN 0 ELSE l.context
    OBVIOUS
  <2>2. size \in Nat /\ size <= MaxContext
    BY <2>1, <1>1
  <2>3. context \in LinePart(Line) /\ context.pieces = {} /\ context.size = size
    BY <2>1, <2>2, <1>4, <1>c, EmptyPart
  <2> QED
    BY <2>2, <2>3, <1>1
<1>e. PICK parts : parts = Spread(Line, 1, l.words, context)
  OBVIOUS
<1>f. parts \in Seq(LinePart(Line)) /\ Shown(parts, Line, 1) >= Size(l.words)
  <2>1. \A y \in context.pieces : ~ (y[1] = Line /\ y[2] = 1)
    BY <1>d
  <2>2. PICK n, words, one : n = Line /\ words = l.words /\ one = 1
    OBVIOUS
  <2>3. n \in Nat /\ words \in Seq(Nat) /\ one \in Nat /\ context \in LinePart(n)
    BY <2>2, <1>1, <1>4, <1>d
  <2>4. \A y \in context.pieces : ~ (y[1] = n /\ y[2] = one)
    BY <2>1, <2>2
  <2>5. Heading + context.size < Soft
    BY <1>d
  <2>6. /\ Spread(n, one, words, context) \in Seq(LinePart(n))
        /\ Shown(Spread(n, one, words, context), n, one) >= Size(words)
    BY <2>3, <2>4, <2>5, CellSpreads
  <2> QED
    BY <2>2, <2>6, <1>e
<1>g. line \in LinePart(Line) /\ <<Line, 1, Size(l.words)>> \in line.pieces
  <2>1. line \in PartRecord
    BY <1>1, <1>4, <1>b, PartOfType
  <2>2. line.pieces = {<<Line, 1, Size(l.words)>>}
    BY <1>b DEF PartOf, Part
  <2>3. \A y, z \in line.pieces : y = z
    BY <2>2
  <2>4. \A y \in line.pieces : y[1] = Line
    BY <2>2
  <2> QED
    BY <2>1, <2>2, <2>3, <2>4 DEF LinePart, ClearPart
<1>h. PICK alone : alone = <<line>>
  OBVIOUS
<1>i. /\ alone \in Seq(LinePart(Line)) /\ alone \in Seq(ClearPart)
      /\ Shown(alone, Line, 1) >= Size(l.words)
  <2>1. alone \in Seq(LinePart(Line))
    BY <1>g, <1>h
  <2>2. line \in ClearPart
    BY <1>g DEF LinePart
  <2>3. alone \in Seq(ClearPart) /\ Shown(alone, Line, 1) = Amount(line, Line, 1)
    BY <2>2, <1>h, ShownOfOne
  <2>4. PICK y : y = <<Line, 1, Size(l.words)>>
    OBVIOUS
  <2>5. y \in line.pieces /\ y[1] = Line /\ y[2] = 1 /\ y[3] = Size(l.words)
    BY <2>4, <1>g
  <2>6. Amount(line, Line, 1) = y[3]
    BY <2>2, <2>5, AmountIs
  <2> QED
    BY <2>1, <2>3, <2>5, <2>6, <1>5
<1>j. PICK fit : fit = [k \in DOMAIN parts |-> <<parts[k]>>] /\ fit = Singles(parts)
  BY DEF Singles
<1>k. IF ~Fits(<<line>>) THEN Flushing(Flush(<<>>, text) \o fit, <<>>)
      ELSE IF ~Fits(Append(text, line)) /\ text # <<>> THEN Flushing(<<text>>, <<line>>)
      ELSE Flushing(<<>>, Append(text, line))
  BY <1>8, <1>b, <1>c, <1>e, <1>j DEF AddLine
<1>l. CASE Flushing(Flush(<<>>, text) \o fit, <<>>)
  <2>1. PICK more : more = Flush(<<>>, text) \o fit
    OBVIOUS
  <2>2. parts \in Seq(ClearPart)
    BY <1>f, LineSequence
  <2>3. /\ Flush(<<>>, text) \o Singles(parts) \in Seq(Seq(ClearPart))
        /\ Flat(Flush(<<>>, text) \o Singles(parts)) \o <<>> = text \o parts
    <3>1. text \in Seq(ClearPart)
      BY <1>9
    <3> QED
      BY <3>1, <2>2, FlatSplit
  <2>5. more = Flush(<<>>, text) \o Singles(parts)
    BY <2>1, <1>j, Zenon
  <2>7. <<>> \in Seq(ClearPart)
    OBVIOUS
  <2>6. more \in Seq(Seq(ClearPart))
    BY <2>3, <2>5
  <2>4. Flushing(more, none) /\ Flat(more) \o none = text \o parts /\ none \in Seq(ClearPart)
    BY <2>3, <2>5, <2>7, <1>8, <1>j, <1>l
  <2> QED
    BY <2>4, <2>6, <1>f, <1>a
<1>m. CASE Flushing(<<text>>, <<line>>)
  <2>1. <<text>> \in Seq(Seq(ClearPart)) /\ Flat(<<text>>) \o alone = text \o alone
    BY <1>9, <1>i, FlatPlain
  <2>2. Flushing(<<text>>, alone)
    BY <1>h, <1>m
  <2> QED
    BY <2>1, <2>2, <1>i, <1>a
<1>n. CASE Flushing(<<>>, Append(text, line))
  <2>1. PICK rest : rest = Append(text, line)
    OBVIOUS
  <2>2. line \in ClearPart
    BY <1>g DEF LinePart
  <2>3. rest \in Seq(ClearPart) /\ rest = text \o alone
    <3>1. Append(text, line) \in Seq(ClearPart)
      BY <2>2, <1>9
    <3>2. Append(text, line) = text \o <<line>>
      BY <2>2, <1>9, AppendIsConcat
    <3> QED
      BY <3>1, <3>2, <2>1, <1>h
  <2>4. none \in Seq(Seq(ClearPart)) /\ Flat(none) \o rest = rest
    BY <2>3, <1>8, FlatPlain
  <2>5. Flushing(none, rest)
    BY <2>1, <1>8, <1>n
  <2> QED
    BY <2>3, <2>4, <2>5, <1>i, <1>a
<1> QED
  BY <1>k, <1>l, <1>m, <1>n

LEMMA PieceIsShown ==
  ASSUME NEW s \in Seq(ClearPart), NEW k \in DOMAIN s, NEW n, NEW c, NEW m \in Nat,
         <<n, c, m>> \in s[k].pieces
  PROVE  Shown(s, n, c) >= m
<1>1. PICK x : x = <<n, c, m>>
  OBVIOUS
<1>2. x \in s[k].pieces /\ x[1] = n /\ x[2] = c /\ x[3] = m
  BY <1>1
<1>3. x[3] <= Shown(s, x[1], x[2])
  BY <1>2, ShownAtLeast
<1>4. m <= Shown(s, n, c)
  BY <1>2, <1>3
<1>5. Shown(s, n, c) \in Nat
  BY ShownIs
<1> QED
  BY <1>4, <1>5

LEMMA RowsAfter ==
  ASSUME NEW E, NEW a \in Seq(E), NEW b \in Seq(E), NEW p \in E, NEW x \in E
  PROVE  a \o <<p>> \o Append(b, x) = (a \o <<p>> \o b) \o <<x>>
OBVIOUS

LEMMA FirstRowAfter ==
  ASSUME NEW E, NEW a \in Seq(E), NEW p \in E, NEW x \in E
  PROVE  a \o <<p>> \o <<x>> = a \o <<p, x>>
<1>1. PICK one, two : one = <<p>> /\ two = <<p, x>>
  OBVIOUS
<1>2. one \in Seq(E) /\ two = Append(one, x)
  BY <1>1
<1>3. a \o Append(one, x) = Append(a \o one, x)
  BY <1>2
<1>4. Append(a \o one, x) = (a \o one) \o <<x>>
  <2>1. a \o one \in Seq(E)
    BY <1>2
  <2> QED
    BY <2>1, AppendIsConcat
<1> QED
  BY <1>1, <1>2, <1>3, <1>4

LEMMA FirstRowAlone ==
  ASSUME NEW E, NEW p \in E, NEW x \in E
  PROVE  /\ <<>> \o <<p>> \o <<x>> = <<p, x>> /\ <<p, x>> \in Seq(E) /\ <<x>> \in Seq(E)
         /\ 1 \in DOMAIN <<p, x>> /\ 2 \in DOMAIN <<p, x>>
         /\ <<p, x>>[1] = p /\ <<p, x>>[2] = x
         /\ 1 \in DOMAIN <<x>> /\ <<x>>[1] = x
<1>1. <<p, x>> \in Seq(E) /\ <<x>> \in Seq(E)
  OBVIOUS
<1>2. 1 \in DOMAIN <<p, x>> /\ 2 \in DOMAIN <<p, x>> /\ 1 \in DOMAIN <<x>>
  OBVIOUS
<1>3. <<p, x>>[1] = p /\ <<p, x>>[2] = x /\ <<x>>[1] = x
  OBVIOUS
<1>4. <<>> \o <<p>> \o <<x>> = <<p, x>>
  <2>1. PICK none : none = <<>>
    OBVIOUS
  <2>2. none \in Seq(E)
    BY <2>1
  <2>3. none \o <<p>> \o <<x>> = none \o <<p, x>>
    BY <2>2, FirstRowAfter
  <2>4. PICK two : two = <<p, x>>
    OBVIOUS
  <2>5. none \o two = two
    BY <2>1, <2>4, <1>1
  <2> QED
    BY <2>1, <2>3, <2>4, <2>5
<1> QED
  BY <1>1, <1>2, <1>3, <1>4

\* What a row shows, alone or after the header of its table.
LEMMA RowShows ==
  ASSUME table.line \in Nat, table.header \in Nat, NEW m \in Nat, NEW row \in Seq(Seq(Nat)),
         NEW line, line = Whole(m, row)
  PROVE  /\ line \in LinePart(m) /\ line \in ClearPart /\ HeaderPart \in ClearPart
         /\ <<line>> \in Seq(LinePart(m)) /\ <<HeaderPart, line>> \in Seq(LinePart(m))
         /\ \A c \in DOMAIN row : /\ Shown(<<line>>, m, c) >= Size(row[c])
                                  /\ Shown(<<HeaderPart, line>>, m, c) >= Size(row[c])
         /\ Shown(<<HeaderPart, line>>, table.line, 0) >= table.header
<1>1. line \in LinePart(m) /\ \A c \in DOMAIN row : <<m, c, Size(row[c])>> \in line.pieces
  BY WholeShows
<1>2. /\ HeaderPart \in LinePart(m) /\ HeaderPart \in ClearPart
      /\ <<table.line, 0, table.header>> \in HeaderPart.pieces
  BY HeaderShows
<1>3. PICK one, two, p : one = <<line>> /\ two = <<p, line>> /\ p = HeaderPart
  OBVIOUS
<1>4. /\ one \in Seq(LinePart(m)) /\ two \in Seq(LinePart(m))
      /\ 1 \in DOMAIN one /\ one[1] = line
      /\ 1 \in DOMAIN two /\ 2 \in DOMAIN two /\ two[1] = p /\ two[2] = line
  BY <1>1, <1>2, <1>3, FirstRowAlone
<1>5. one \in Seq(ClearPart) /\ two \in Seq(ClearPart) /\ line \in ClearPart
  BY <1>1, <1>4, LineSequence DEF LinePart
<1>6. ASSUME NEW c \in DOMAIN row
      PROVE  Shown(one, m, c) >= Size(row[c]) /\ Shown(two, m, c) >= Size(row[c])
  <2>1. row[c] \in Seq(Nat)
    OBVIOUS
  <2>2. PICK size \in Nat : size = Size(row[c])
    BY <2>1, SizeRuns
  <2>3. <<m, c, size>> \in one[1].pieces /\ <<m, c, size>> \in two[2].pieces
    BY <2>2, <1>1, <1>4
  <2>4. Shown(one, m, c) >= size /\ Shown(two, m, c) >= size
    BY <2>3, <1>4, <1>5, PieceIsShown
  <2> QED
    BY <2>2, <2>4
<1>7. Shown(two, table.line, 0) >= table.header
  <2>1. PICK l, zero, size \in Nat : l = table.line /\ zero = 0 /\ size = table.header
    OBVIOUS
  <2>2. <<l, zero, size>> \in two[1].pieces
    BY <2>1, <1>2, <1>3, <1>4
  <2>3. Shown(two, l, zero) >= size
    BY <2>2, <1>4, <1>5, PieceIsShown
  <2> QED
    BY <2>1, <2>3
<1> QED
  BY <1>1, <1>2, <1>3, <1>4, <1>5, <1>6, <1>7

\* The header of a table waits for its first row.
LEMMA OpenTableSays ==
  ASSUME ChunkInv, KeptInv, NEW h \in Headers, OpenTable(h)
  PROVE  KeptInv'
<1>1. /\ stage = "open" /\ table = NoTable /\ Give("header", <<h.size>>)
      /\ table' = [line |-> Line, header |-> h.size, columns |-> h.columns]
      /\ UNCHANGED <<stage, held, chunks>> /\ rows' = rows /\ h.size \in Nat
  BY ChunkingAssumption DEF OpenTable, Room
<1>2. rows = <<>>
  BY <1>1 DEF ChunkInv, TableIsLast
<1>3. /\ held \in Seq(ClearPart) /\ Line \in Nat /\ given \in Seq(Given)
      /\ chunks \in Seq(Seq(ClearPart))
  BY <1>1, GivenTypes
<1>4. PICK text, none : text = held /\ none = <<>>
  OBVIOUS
<1>5. text \in Seq(ClearPart) /\ text = HeldAndTable
  BY <1>2, <1>3, <1>4 DEF HeldAndTable
<1>6. PICK x : x = [kind |-> "header", sizes |-> <<h.size>>]
  OBVIOUS
<1>7. x \in Given /\ x.kind = "header" /\ given' = Append(given, x)
  <2>1. <<h.size>> \in Seq(Nat)
    BY <1>1
  <2> QED
    BY <2>1, <1>1, <1>6 DEF Given, Give
<1>8. table' # NoTable
  <2>1. table'.line = Line /\ NoTable.line = 0 /\ Line # 0
    BY <1>1, <1>3 DEF NoTable, Line, Give
  <2> QED
    BY <2>1
<1>9. none \in Seq(Seq(ClearPart)) /\ Flat(none) \o text = text
  BY <1>4, <1>5, FlatPlain
<1>a. Flushing(none, text)
  <2>1. chunks \o none = chunks
    <3> DEFINE S == Seq(ClearPart)
    <3>1. chunks \in Seq(S)
      BY <1>3
    <3> HIDE DEF S
    <3> QED
      BY <3>1, <1>4
  <2>2. DOMAIN none = {}
    BY <1>4
  <2> QED
    BY <2>1, <2>2, <1>1, <1>4 DEF Flushing
<1>b. none \in Seq(ClearPart) /\ none \in Seq(LinePart(Line)) /\ text \o none = text
  BY <1>4, <1>5
<1>c. rows' = none /\ text = IF none = <<>> THEN text ELSE text \o <<HeaderPart>> \o none
  BY <1>1, <1>2, <1>4
<1>d. Flat(none) \o text = text \o none
  BY <1>9, <1>b
<1>e. /\ table # NoTable => rows # <<>> \/ Shown(none, table.line, 0) >= table.header
      /\ none # <<>> => table' = table /\ x.kind = "row"
  BY <1>1, <1>4
<1> QED
  BY <1>1, <1>5, <1>7, <1>8, <1>9, <1>a, <1>b, <1>c, <1>d, <1>e, GivenGrows

\* A row is shown whole, after the header of its table or with it, or split with it.
LEMMA AddRowSays ==
  ASSUME ChunkInv, KeptInv, NEW row \in Rows, AddRow(row)
  PROVE  KeptInv'
<1>1. /\ row \in Seq(Seq(Nat)) /\ row # <<>>
      /\ \A c \in DOMAIN row : \A k \in DOMAIN row[c] : row[c][k] > 0
  BY ChunkingAssumption
<1>2. PICK x : x = [kind |-> "row", sizes |-> [c \in DOMAIN row |-> Size(row[c])]]
  OBVIOUS
<1>3. /\ x \in Given /\ x.kind = "row" /\ DOMAIN x.sizes = DOMAIN row
      /\ \A c \in DOMAIN row : x.sizes[c] = Size(row[c])
  <2>1. \A c \in DOMAIN row : Size(row[c]) \in Nat
    BY <1>1, SizeRuns, PlacesType
  <2>2. DOMAIN row = 1 .. Len(row) /\ Len(row) \in Nat
    BY <1>1
  <2>3. [c \in DOMAIN row |-> Size(row[c])] \in Seq(Nat)
    BY <2>1, <2>2, SeqDef
  <2>4. x \in Given /\ x.kind = "row"
    BY <2>3, <1>2 DEF Given
  <2> QED
    BY <2>4, <1>2
<1>4. /\ stage = "open" /\ table # NoTable /\ given' = Append(given, x) /\ table' = table
  BY <1>2 DEF AddRow, Room, Give
<1>5. table.line \in Nat /\ table.header \in Nat
  BY <1>4, TableTypes
<1>6. /\ held \in Seq(ClearPart) /\ rows \in Seq(ClearPart) /\ Line \in Nat
  BY <1>4, GivenTypes
<1>7. PICK text, none : text = HeldAndTable /\ none = <<>>
  OBVIOUS
<1>8. text \in Seq(ClearPart)
  BY <1>4, <1>7, HeldIsClear
<1>9. PICK line, parts, fit : /\ line = Whole(Line, row) /\ parts = SplitRow(Line, row)
                              /\ fit = [k \in DOMAIN parts |-> <<parts[k]>>]
                              /\ fit = Singles(parts)
  BY DEF Singles
<1>a. PICK p, one, two : p = HeaderPart /\ one = <<line>> /\ two = <<p, line>>
  OBVIOUS
<1>b. /\ line \in ClearPart /\ p \in ClearPart
      /\ one \in Seq(LinePart(Line)) /\ two \in Seq(LinePart(Line))
      /\ \A c \in DOMAIN row : /\ Shown(one, Line, c) >= Size(row[c])
                               /\ Shown(two, Line, c) >= Size(row[c])
      /\ Shown(two, table.line, 0) >= table.header
  BY <1>1, <1>5, <1>6, <1>9, <1>a, RowShows
<1>c. one \in Seq(ClearPart) /\ two \in Seq(ClearPart) /\ none \in Seq(ClearPart)
  BY <1>b, <1>7, LineSequence
<1>d. PICK all : all = held \o rows \o <<line>>
  OBVIOUS
<1>e. IF line.words > MaxWords \/ Heading + table.header + line.size > Soft
      THEN Flushing(Flush(<<>>, text) \o fit, <<>>) /\ rows' = <<>>
      ELSE IF (WordsOf(all) > MaxWords \/ Heading + table.header + SizeOf(all) > Soft)
              /\ text # <<>>
      THEN Flushing(<<text>>, <<>>) /\ rows' = <<line>>
      ELSE Flushing(<<>>, held) /\ rows' = Append(rows, line)
  BY <1>7, <1>9, <1>d DEF AddRow, Whole
<1>f. ASSUME NEW more, NEW rest, NEW left, NEW after, NEW new,
             more \in Seq(Seq(ClearPart)) /\ rest \in Seq(ClearPart) /\ left \in Seq(ClearPart),
             after \in Seq(ClearPart), rows' = left, Flushing(more, rest),
             after = IF left = <<>> THEN rest ELSE rest \o <<HeaderPart>> \o left,
             Flat(more) \o after = text \o new, new \in Seq(LinePart(Line)),
             \A c \in DOMAIN row : Shown(new, Line, c) >= Size(row[c]),
             rows # <<>> \/ Shown(new, table.line, 0) >= table.header
      PROVE  KeptInv'
  <2>1. IsShown(new, Line, x)
    BY <1>3, <1>f DEF IsShown
  <2>2. /\ table # NoTable => rows # <<>> \/ Shown(new, table.line, 0) >= table.header
        /\ left # <<>> => table' = table /\ x.kind = "row"
    BY <1>3, <1>4, <1>f
  <2> QED
    BY <2>1, <2>2, <1>3, <1>4, <1>7, <1>f, GivenGrows
<1>g. CASE line.words > MaxWords \/ Heading + table.header + line.size > Soft
  <2>1. /\ parts \in Seq(LinePart(Line)) /\ Shown(parts, table.line, 0) >= table.header
        /\ \A c \in DOMAIN row : Shown(parts, Line, c) >= Size(row[c])
    BY <1>1, <1>5, <1>6, <1>9, <1>g, SplitRowShows
  <2>2. PICK more : more = Flush(<<>>, text) \o Singles(parts)
    OBVIOUS
  <2>3. parts \in Seq(ClearPart)
    BY <2>1, LineSequence
  <2>4. /\ Flush(<<>>, text) \o Singles(parts) \in Seq(Seq(ClearPart))
        /\ Flat(Flush(<<>>, text) \o Singles(parts)) \o <<>> = text \o parts
    BY <2>3, <1>8, FlatSplit
  <2>5. /\ more \in Seq(Seq(ClearPart)) /\ Flat(more) \o none = text \o parts
    BY <2>2, <2>4, <1>7
  <2>6. Flushing(more, none) /\ rows' = none
    BY <2>2, <1>7, <1>9, <1>e, <1>g
  <2>7. none = IF none = <<>> THEN none ELSE none \o <<HeaderPart>> \o none
    BY <1>7
  <2> QED
    BY <2>1, <2>5, <2>6, <2>7, <1>c, <1>f
<1>h. CASE Flushing(<<text>>, <<>>) /\ rows' = <<line>>
  <2>1. <<text>> \in Seq(Seq(ClearPart)) /\ Flat(<<text>>) \o two = text \o two
    BY <1>8, <1>c, FlatPlain
  <2>2. Flushing(<<text>>, none) /\ rows' = one
    BY <1>7, <1>a, <1>h
  <2>3. none \o <<HeaderPart>> \o one = two /\ one # <<>>
    BY <1>7, <1>a, <1>b, FirstRowAlone
  <2>4. two = IF one = <<>> THEN none ELSE none \o <<HeaderPart>> \o one
    BY <2>3
  <2> QED
    BY <2>1, <2>2, <2>4, <1>b, <1>c, <1>f
<1>i. CASE Flushing(<<>>, held) /\ rows' = Append(rows, line)
  <2>1. PICK left, after : left = Append(rows, line) /\ after = held \o <<p>> \o left
    OBVIOUS
  <2>2. left \in Seq(ClearPart) /\ left # <<>>
    BY <2>1, <1>6, <1>b
  <2>3. after \in Seq(ClearPart)
    <3>1. PICK a, b : a = held /\ b = left
      OBVIOUS
    <3>2. a \in Seq(ClearPart) /\ b \in Seq(ClearPart) /\ p \in ClearPart
      BY <3>1, <2>2, <1>6, <1>b
    <3>3. a \o <<p>> \o b \in Seq(ClearPart)
      BY <3>2
    <3> QED
      BY <3>1, <3>3, <2>1
  <2>4. none \in Seq(Seq(ClearPart)) /\ Flat(none) \o after = after
    BY <2>3, <1>7, FlatPlain
  <2>5. Flushing(none, held) /\ rows' = left
    BY <2>1, <1>7, <1>i
  <2>6. after = IF left = <<>> THEN held ELSE held \o <<HeaderPart>> \o left
    BY <2>1, <2>2, <1>a
  <2>7. CASE rows = <<>>
    <3>1. text = held /\ left = <<line>>
      BY <2>7, <2>1, <1>7 DEF HeldAndTable
    <3>2. held \o <<p>> \o <<line>> = held \o <<p, line>>
      BY <1>6, <1>b, FirstRowAfter
    <3>3. after = text \o two
      BY <3>1, <3>2, <2>1, <1>a
    <3> QED
      BY <3>3, <2>2, <2>3, <2>4, <2>5, <2>6, <1>6, <1>b, <1>f
  <2>8. CASE rows # <<>>
    <3>1. text = held \o <<p>> \o rows
      BY <2>8, <1>7, <1>a DEF HeldAndTable
    <3>2. held \o <<p>> \o Append(rows, line) = (held \o <<p>> \o rows) \o <<line>>
      BY SMTT(20), <1>6, <1>b, RowsAfter
    <3>3. after = text \o one
      BY <3>1, <3>2, <2>1, <1>a
    <3> QED
      BY <3>3, <2>2, <2>3, <2>4, <2>5, <2>6, <2>8, <1>6, <1>b, <1>f
  <2> QED
    BY <2>7, <2>8
<1> QED
  BY <1>e, <1>g, <1>h, <1>i

\* Nothing is held when the section has ended.
EndedIsAll == stage = "ended" => held = <<>> /\ rows = <<>> /\ table = NoTable

\* A table that closes: its rows were shown with its header, or the header alone is text.
LEMMA CloseTableSays ==
  ASSUME ChunkInv, KeptInv, CloseTable
  PROVE  KeptInv'
<1>1. /\ stage = "open" /\ table # NoTable /\ table' = NoTable /\ rows' = <<>>
      /\ given' = given
  BY DEF CloseTable
<1>2. IF given[Len(given)].kind # "header" THEN Flushing(<<>>, HeldAndTable)
      ELSE IF Fits(held \o <<HeaderPart>>) THEN Flushing(<<>>, held \o <<HeaderPart>>)
      ELSE Flushing(Flush(<<>>, held), <<HeaderPart>>)
  BY DEF CloseTable
<1>3. PICK text, none, one : text = HeldAndTable /\ none = <<>> /\ one = <<HeaderPart>>
  OBVIOUS
<1>4. /\ table.line \in Nat /\ table.header \in Nat /\ given \in Seq(Given)
      /\ Len(given) \in DOMAIN given
  BY <1>1, TableTypes
<1>5. text \in Seq(ClearPart)
  <2>1. stage # "failed"
    BY <1>1
  <2> QED
    BY <2>1, <1>3, HeldIsClear
<1>6. /\ Kept(Flat(chunks) \o text, given, table)
      /\ rows # <<>> => given[Len(given)].kind = "row"
  BY <1>1, <1>3 DEF KeptInv
<1>7. PICK m \in Nat : m = Len(given)
  BY <1>4
<1>8. /\ HeaderPart \in ClearPart /\ HeaderPart \in LinePart(m)
      /\ <<table.line, 0, table.header>> \in HeaderPart.pieces
  BY <1>4, HeaderShows
<1>9. /\ one \in Seq(ClearPart) /\ one \in Seq(LinePart(m)) /\ 1 \in DOMAIN one
      /\ one[1] = HeaderPart
  BY <1>3, <1>8, FirstRowAlone
<1>a. Shown(one, table.line, 0) >= table.header
  <2>1. PICK l, zero, size \in Nat : l = table.line /\ zero = 0 /\ size = table.header
    BY <1>4
  <2>2. <<l, zero, size>> \in one[1].pieces
    BY <2>1, <1>8, <1>9
  <2>3. Shown(one, l, zero) >= size
    BY <2>2, <1>9, PieceIsShown
  <2> QED
    BY <2>1, <2>3
<1>b. none \in Seq(ClearPart) /\ none \in Seq(LinePart(m)) /\ text \o none = text
  BY <1>3, <1>5
<1>c. ASSUME NEW more, NEW rest, NEW new,
             more \in Seq(Seq(ClearPart)), rest \in Seq(ClearPart), new \in Seq(ClearPart),
             Flushing(more, rest), Flat(more) \o rest = text \o new,
             Kept((Flat(chunks) \o text) \o new, given, NoTable)
      PROVE  KeptInv'
  <2>1. /\ KeptInv /\ stage = "open" /\ Flushing(more, rest) /\ rows' = none
        /\ more \in Seq(Seq(ClearPart)) /\ rest \in Seq(ClearPart) /\ none \in Seq(ClearPart)
        /\ text \in Seq(ClearPart) /\ new \in Seq(ClearPart) /\ text = HeldAndTable
    BY <1>1, <1>3, <1>5, <1>b, <1>c
  <2>2. rest = IF none = <<>> THEN rest ELSE rest \o <<HeaderPart>> \o none
    BY <1>3
  <2>3. Kept((Flat(chunks) \o text) \o new, given', table')
    BY <1>1, <1>c
  <2>4. none # <<>> => /\ table' = table
                       /\ given' # <<>> /\ given'[Len(given')].kind = "row"
    BY <1>3
  <2>5. Flat(more) \o rest = text \o new
    BY <1>c
  <2> QED
    BY <2>1, <2>2, <2>3, <2>4, <2>5, FlushSays
<1>d. PICK s : s = Flat(chunks) \o text
  OBVIOUS
<1>e. Kept(s, given, table)
  BY <1>6, <1>d
<1>f. CASE given[Len(given)].kind # "header"
  <2>1. \A n \in DOMAIN given : Waits(given, n, table) => IsShown(none, n, given[n])
    BY <1>f DEF Waits
  <2>2. none \in Seq(LinePart(Len(given)))
    BY <1>7, <1>b
  <2>3. Kept(s \o none, given, NoTable)
    BY <2>1, <2>2, <1>4, <1>e, KeptCloses
  <2>4. Kept((Flat(chunks) \o text) \o none, given, NoTable)
    BY <2>3, <1>d
  <2>5. none \in Seq(Seq(ClearPart)) /\ Flat(none) \o text = text
    BY <1>3, <1>5, FlatPlain
  <2>6. Flushing(none, text)
    BY <1>2, <1>3, <1>f
  <2>7. Flat(none) \o text = text \o none
    BY <2>5, <1>b
  <2> QED
    BY <2>4, <2>5, <2>6, <2>7, <1>5, <1>b, <1>c
<1>g. CASE given[Len(given)].kind = "header"
  <2>1. rows = <<>> /\ text = held
    <3>1. rows = <<>>
      BY <1>6, <1>g
    <3> QED
      BY <3>1, <1>3 DEF HeldAndTable
  <2>2. ASSUME NEW n \in DOMAIN given, Waits(given, n, table) PROVE IsShown(one, n, given[n])
    <3>1. table # NoTable => Shown(one, table.line, 0) >= table.header
      BY <1>a
    <3> QED
      BY <3>1, <2>2, WaitingIsShown
  <2>3. one \in Seq(LinePart(Len(given)))
    BY <1>7, <1>9
  <2>4. Kept(s \o one, given, NoTable)
    BY <2>2, <2>3, <1>4, <1>e, KeptCloses
  <2>5. Kept((Flat(chunks) \o text) \o one, given, NoTable)
    BY <2>4, <1>d
  <2>6. CASE Flushing(<<>>, held \o <<HeaderPart>>)
    <3>1. PICK rest : rest = text \o one
      OBVIOUS
    <3>2. rest \in Seq(ClearPart)
      BY <3>1, <1>5, <1>9, ConcatIs
    <3>3. none \in Seq(Seq(ClearPart)) /\ Flat(none) \o rest = rest
      BY <3>2, <1>3, FlatPlain
    <3>4. Flushing(none, rest)
      BY <3>1, <2>1, <2>6, <1>3
    <3> QED
      BY <3>1, <3>2, <3>3, <3>4, <2>5, <1>9, <1>c
  <2>7. CASE Flushing(Flush(<<>>, held), <<HeaderPart>>)
    <3>1. PICK more : more = Flush(<<>>, text)
      OBVIOUS
    <3>2. more \in Seq(Seq(ClearPart)) /\ Flat(more) \o one = text \o one
      BY <3>1, <1>5, <1>9, FlatPlain
    <3>3. Flushing(more, one)
      BY <3>1, <2>1, <2>7, <1>3
    <3> QED
      BY <3>2, <3>3, <2>5, <1>9, <1>c
  <2> QED
    BY <2>6, <2>7, <1>2, <1>g
<1> QED
  BY <1>f, <1>g

LEMMA EndSectionSays ==
  ASSUME ChunkInv, KeptInv, EndSection
  PROVE  KeptInv'
<1>1. /\ stage = "open" /\ table = NoTable /\ held' = <<>> /\ chunks' = Flush(chunks, held)
      /\ table' = table /\ rows' = rows /\ given' = given
  BY DEF EndSection
<1>2. rows = <<>>
  BY <1>1 DEF ChunkInv, TableIsLast
<1>3. held \in Seq(ClearPart) /\ chunks \in Seq(Seq(ClearPart))
  BY <1>1, GivenTypes
<1>4. HeldAndTable = held /\ HeldAndTable' = <<>>
  BY <1>1, <1>2 DEF HeldAndTable
<1>5. Kept(Flat(chunks) \o held, given, table)
  BY <1>1, <1>4 DEF KeptInv
<1>6. PICK text, none : text = held /\ none = <<>>
  OBVIOUS
<1>7. /\ chunks' \in Seq(Seq(ClearPart))
      /\ Flat(chunks') \o none = Flat(chunks) \o text
  <2> DEFINE S == Seq(ClearPart)
  <2>1. Joins(S) /\ chunks \in Seq(S) /\ text \in S
    BY <1>3, <1>6, SeqJoins
  <2>2. \A s \in S : s \o none = s
    BY <1>6
  <2> HIDE DEF S
  <2>3. Flat(chunks) \in S /\ Flat(Append(chunks, text)) = Flat(chunks) \o text
    BY <2>1, FlatOfAppend
  <2>4. CASE text = none
    <3>1. chunks' = chunks
      BY <2>4, <1>1, <1>6 DEF Flush
    <3>2. Flat(chunks) \o none = Flat(chunks)
      BY <2>2, <2>3
    <3> QED
      BY <3>1, <3>2, <2>1, <2>4 DEF S
  <2>5. CASE text # none
    <3>1. chunks' = Append(chunks, text)
      BY <2>5, <1>1, <1>6 DEF Flush
    <3>2. Append(chunks, text) \in Seq(S)
      BY <2>1
    <3>3. Flat(Append(chunks, text)) \in S
      BY <2>1, <2>3 DEF Joins
    <3>4. Flat(Append(chunks, text)) \o none = Flat(chunks) \o text
      BY <3>3, <2>2, <2>3
    <3> QED
      BY <3>1, <3>2, <3>4 DEF S
  <2> QED
    BY <2>4, <2>5
<1>8. Kept(Flat(chunks') \o HeldAndTable', given', table')
  BY <1>1, <1>4, <1>5, <1>6, <1>7
<1>9. held' \in Seq(ClearPart) /\ rows' \in Seq(ClearPart) /\ rows' = <<>>
  BY <1>1, <1>2
<1> QED
  BY <1>7, <1>8, <1>9 DEF KeptInv

LEMMA KeptStays ==
  ASSUME KeptInv, UNCHANGED <<table, held, rows, chunks, given>>,
         stage' # "failed" => stage # "failed"
  PROVE  KeptInv'
<1>1. SUFFICES ASSUME stage' # "failed"
               PROVE  /\ chunks' \in Seq(Seq(ClearPart)) /\ held' \in Seq(ClearPart)
                      /\ rows' \in Seq(ClearPart)
                      /\ Kept(Flat(chunks') \o HeldAndTable', given', table')
                      /\ rows' # <<>> => given' # <<>> /\ given'[Len(given')].kind = "row"
  BY DEF KeptInv
<1>2. stage # "failed"
  BY <1>1
<1>3. HeldAndTable' = HeldAndTable
  BY DEF HeldAndTable, HeaderPart
<1>4. /\ chunks \in Seq(Seq(ClearPart)) /\ held \in Seq(ClearPart) /\ rows \in Seq(ClearPart)
      /\ Kept(Flat(chunks) \o HeldAndTable, given, table)
      /\ rows # <<>> => given # <<>> /\ given[Len(given)].kind = "row"
  BY <1>2 DEF KeptInv
<1>5. Kept(Flat(chunks') \o HeldAndTable', given', table')
  BY <1>3, <1>4
<1> QED
  BY <1>4, <1>5

LEMMA KeptStep == ChunkInv /\ KeptInv /\ [Next]_vars => KeptInv'
<1>1. SUFFICES ASSUME ChunkInv, KeptInv, [Next]_vars PROVE KeptInv'
  OBVIOUS
<1>2. CASE UNCHANGED chunkVars
  BY <1>1, <1>2, KeptStays DEF chunkVars
<1>3. ASSUME NEW k \in DOMAIN sections, ChunkSection(sections[k]) PROVE KeptInv'
  <2>1. UNCHANGED <<table, held, rows, chunks, given>> /\ stage = "idle"
    BY <1>3 DEF ChunkSection, Chunk
  <2> QED
    BY <2>1, <1>1, KeptStays
<1>4. CASE ChunkNext
  <2>1. CASE SkipTable
    <3>1. UNCHANGED <<table, held, rows, chunks, given>> /\ stage' = stage
      BY <2>1 DEF SkipTable
    <3> QED
      BY <3>1, <1>1, KeptStays
  <2> QED
    BY <2>1, <1>1, <1>4, AddLineSays, OpenTableSays, AddRowSays, CloseTableSays, EndSectionSays
       DEF ChunkNext
<1> QED
  BY <1>1, <1>2, <1>3, <1>4 DEF Next, vars

LEMMA KeptStart == Init => KeptInv
<1>1. SUFFICES ASSUME Init PROVE KeptInv
  OBVIOUS
<1>2. /\ table = NoTable /\ held = <<>> /\ rows = <<>> /\ chunks = <<>> /\ given = <<>>
  BY <1>1 DEF Init, ChunkInit
<1>3. PICK none : none = <<>>
  OBVIOUS
<1>4. none \in Seq(Seq(ClearPart)) /\ none \in Seq(ClearPart) /\ DOMAIN none = {}
  BY <1>3
<1>5. Flat(none) = none
  BY <1>3, FlatOfNone
<1>6. none \o none = none
  BY <1>3
<1>7. Flat(chunks) \o HeldAndTable = none
  BY <1>2, <1>3, <1>5, <1>6 DEF HeldAndTable
<1>8. Kept(none, none, table)
  BY <1>4 DEF Kept, InOrder, UpTo
<1> QED
  BY <1>2, <1>3, <1>4, <1>7, <1>8 DEF KeptInv

LEMMA EndedStep == ChunkInv /\ EndedIsAll /\ [Next]_vars => EndedIsAll'
<1>1. SUFFICES ASSUME ChunkInv, EndedIsAll, [Next]_vars, stage' = "ended"
               PROVE  held' = <<>> /\ rows' = <<>> /\ table' = NoTable
  BY DEF EndedIsAll
<1>2. CASE UNCHANGED chunkVars
  BY <1>1, <1>2 DEF chunkVars, EndedIsAll
<1>3. CASE EndSection
  BY <1>1, <1>3 DEF EndSection, ChunkInv, TableIsLast
<1>4. ASSUME stage = "open", NEW more, NEW rest, Flushing(more, rest) PROVE FALSE
  BY <1>1, <1>4 DEF Flushing
<1>5. ASSUME NEW l \in Lines, AddLine(l) PROVE FALSE
  <2> HIDE DEF Flushing
  <2> QED
    BY <1>4, <1>5 DEF AddLine, Room
<1>6. ASSUME NEW h \in Headers, OpenTable(h) PROVE FALSE
  BY <1>1, <1>6 DEF OpenTable, Room
<1>7. ASSUME NEW row \in Rows, AddRow(row) PROVE FALSE
  <2>1. stage = "open" /\ \E more, rest : Flushing(more, rest)
    BY <1>7 DEF AddRow, Room
  <2> QED
    BY <2>1, <1>4
<1>8. CASE SkipTable
  BY <1>1, <1>8 DEF SkipTable, Room
<1>9. CASE CloseTable
  <2>1. stage = "open" /\ \E more, rest : Flushing(more, rest)
    BY <1>9 DEF CloseTable
  <2> QED
    BY <2>1, <1>4
<1>a. ASSUME NEW k \in DOMAIN sections, ChunkSection(sections[k]) PROVE FALSE
  BY <1>1, <1>a DEF ChunkSection, Chunk
<1> QED
  BY <1>1, <1>2, <1>3, <1>5, <1>6, <1>7, <1>8, <1>9, <1>a DEF Next, vars, ChunkNext

LEMMA KeptAlways == Spec => [](ChunkInv /\ KeptInv /\ EndedIsAll)
<1>1. Init => ChunkInv /\ KeptInv /\ EndedIsAll
  <2>1. Init => EndedIsAll
    BY DEF Init, ChunkInit, EndedIsAll
  <2> QED
    BY <2>1, ChunkStart, KeptStart
<1>2. ChunkInv /\ KeptInv /\ EndedIsAll /\ [Next]_vars => (ChunkInv /\ KeptInv /\ EndedIsAll)'
  BY ChunkStep, KeptStep, EndedStep
<1> QED
  BY <1>1, <1>2, PTL DEF Spec

(* What a section says is in its chunks, whatever is read and however it is split: each line, *)
(* header and cell of semantic_chunker.py is shown by fragments that are together at least as *)
(* long, and the lines keep their order from chunk to chunk.                                  *)
THEOREM NothingIsEverLost == Spec => []NothingIsLost
<1>1. ASSUME KeptInv, ChunkInv, EndedIsAll, stage = "ended"
      PROVE  /\ \A n \in DOMAIN given : \A c \in DOMAIN given[n].sizes :
                  Shown(Parts, n, PieceOf(n, c)) >= given[n].sizes[c]
             /\ \A i, j \in DOMAIN Parts : i < j =>
                  \A x \in Parts[i].pieces, y \in Parts[j].pieces :
                    x[2] > 0 /\ y[2] > 0 => x[1] <= y[1]
  <2>1. held = <<>> /\ rows = <<>> /\ table = NoTable
    BY <1>1 DEF EndedIsAll
  <2>2. PICK none : none = <<>>
    OBVIOUS
  <2>3. HeldAndTable = none
    BY <2>1, <2>2 DEF HeldAndTable
  <2>4. chunks \in Seq(Seq(ClearPart)) /\ Kept(Flat(chunks) \o none, given, NoTable)
    BY <1>1, <2>1, <2>3 DEF KeptInv
  <2>5. Flat(chunks) \in Seq(ClearPart)
    BY <2>4, FlatOfConcat
  <2>6. PICK s : s = Flat(chunks)
    OBVIOUS
  <2>7. s \o none = s
    BY <2>2, <2>5, <2>6
  <2>8. Kept(s, given, NoTable)
    BY <2>4, <2>6, <2>7
  <2>9. Parts = s
    BY <2>6 DEF Parts, Flat
  <2>a. ASSUME NEW n \in DOMAIN given, NEW c \in DOMAIN given[n].sizes
        PROVE  Shown(s, n, PieceOf(n, c)) >= given[n].sizes[c]
    <3>1. IsShown(s, n, given[n])
      BY <2>8 DEF Kept, Waits
    <3> QED
      BY <3>1 DEF IsShown, PieceOf
  <2>b. InOrder(s)
    BY <2>8 DEF Kept
  <2> QED
    BY <2>9, <2>a, <2>b DEF InOrder
<1>2. ChunkInv /\ KeptInv /\ EndedIsAll => NothingIsLost
  BY <1>1 DEF NothingIsLost
<1> QED
  BY <1>2, KeptAlways, PTL
=============================================================================
