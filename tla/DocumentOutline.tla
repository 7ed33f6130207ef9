---------------------------- MODULE DocumentOutline ----------------------------
(***************************************************************************)
(* Canonicalizer.canonicalize: the blocks an extractor found, read one     *)
(* after the other, become the sections of a canonical SOP.  A heading and *)
(* a section are named by the place of the heading among the blocks, 0     *)
(* for what stands before the first one.                                   *)
(***************************************************************************)
EXTENDS Integers, Sequences, SequencesExt, FiniteSetsExt

CONSTANTS
  Headings,    \* headings a document may have: [kind, level, note, number]
  Blocks,      \* other blocks: [kind, level, ordered]
  TitleNumber, \* the policy number in the title, or None
  MaxBlocks,   \* bound: blocks of a document
  None

ASSUME OutlineAssumption ==
  /\ MaxBlocks \in Nat
  /\ \A h \in Headings : h.kind = "heading" /\ h.level \in Nat \ {0} /\ h.note \in BOOLEAN
  /\ \A b \in Blocks : b.kind \in {"text", "table", "item"} /\ b.level \in Nat
  /\ None \notin Int

VARIABLES
  read,      \* the blocks read so far
  stack,     \* heading_stack, as places
  current,   \* place of the current heading
  blocks,    \* places of the blocks since then
  sections,  \* the sections made so far
  done

outlineVars == <<read, stack, current, blocks, sections, done>>

OutlineInit ==
  /\ read = <<>> /\ stack = <<>> /\ current = 0 /\ blocks = <<>> /\ sections = <<>>
  /\ done = FALSE

LevelOf(i) == IF i = 0 THEN 1 ELSE read[i].level

-----------------------------------------------------------------------------
(* Lists: items nest by their level; a list ends with another kind of block *)
(* or, at the outermost level, with another kind of marker.                 *)

PoppedOne(s, level) ==
  IF s # <<>> /\ LevelOf(Last(s)) >= level THEN Front(s) ELSE s

\* What is left when places are popped until the last one is above the level.
Popped(s, level) == SubSeq(s, 1, Max({0} \union {k \in DOMAIN s : LevelOf(s[k]) < level}))

NoList == [kind |-> None, stack |-> <<>>, first |-> None, nodes |-> {}]

\* One round of the loop of _blocks: each item with the first item of its list and its parent.
Nest(acc, i) ==
  IF read[i].kind # "item" THEN [NoList EXCEPT !.nodes = acc.nodes]
  ELSE LET item == read[i]
           breaks == acc.first = None \/ (item.level = 0 /\ item.ordered # acc.kind)
           above == IF breaks THEN <<>> ELSE Popped(acc.stack, item.level)
           first == IF breaks THEN i ELSE acc.first
           parent == IF above = <<>> THEN None ELSE Last(above)
       IN [kind |-> IF breaks THEN item.ordered ELSE acc.kind, first |-> first,
           stack |-> Append(above, i),
           nodes |-> acc.nodes \union {[item |-> i, list |-> first, parent |-> parent]}]

Lists(bs) == FoldLeft(Nest, NoList, bs).nodes

-----------------------------------------------------------------------------
(* Sections.                                                                *)

\* The last place of a path that is in a set.
LastIn(path, set) ==
  LET at == {k \in DOMAIN path : path[k] \in set}
  IN IF at = {} THEN None ELSE path[Max(at)]

Section ==
  LET listed == {sections[k].id : k \in DOMAIN sections}
      numbered == {i \in ToSet(stack) : read[i].number # None}
  IN [id |-> current, path |-> stack, blocks |-> blocks,
      parent |-> LastIn(Front(stack), listed),
      number |-> IF stack = <<>> THEN TitleNumber
                 ELSE IF numbered = {} THEN None ELSE read[LastIn(stack, numbered)].number,
      note |-> \E k \in DOMAIN stack : read[stack[k]].note,
      lists |-> Lists(blocks)]

\* flush: a heading without content is kept only where a deeper one follows it.
Flushed(keep) == IF blocks = <<>> /\ ~keep THEN sections ELSE Append(sections, Section)

KeepsNothing(h) == FALSE
KeepsParent(h) == stack # <<>> /\ LevelOf(current) > 1 /\ h.level > LevelOf(current)

ReadHeading(h) ==
  /\ ~done /\ Len(read) < MaxBlocks
  /\ sections' = Flushed(KeepsParent(h))
  /\ read' = Append(read, h) /\ current' = Len(read) + 1 /\ blocks' = <<>>
  /\ stack' = Append(Popped(stack, h.level), Len(read) + 1)
  /\ UNCHANGED done

ReadBlock(b) ==
  /\ ~done /\ Len(read) < MaxBlocks
  /\ read' = Append(read, b) /\ blocks' = Append(blocks, Len(read) + 1)
  /\ UNCHANGED <<stack, current, sections, done>>

Finish ==
  /\ ~done /\ done' = TRUE /\ sections' = Flushed(FALSE)
  /\ UNCHANGED <<read, stack, current, blocks>>

OutlineNext ==
  \/ \E h \in Headings : ReadHeading(h)
  \/ \E b \in Blocks : ReadBlock(b)
  \/ Finish

-----------------------------------------------------------------------------
(* What the document itself says, read as a whole.                          *)

IsHeading(i) == read[i].kind = "heading"
HeadingsOf == {i \in DOMAIN read : IsHeading(i)}

\* Heading i is above place j: nothing at its level or higher lies between.
Above(i, j) ==
  /\ i \in HeadingsOf /\ i < j
  /\ \A k \in i + 1 .. j : IsHeading(k) => read[k].level > read[i].level

Chain(i) == {j \in HeadingsOf : j = i \/ Above(j, i)}
Nearest(S) == IF S = {} THEN None ELSE Max(S)
HeadingBefore(i) == Nearest({j \in HeadingsOf : j < i} \union {0})

Listed == {sections[k].id : k \in DOMAIN sections}

\* Items of one list: only items between them, and no other marker at the outermost level.
SameList(i, j) ==
  \A k \in i .. j : /\ read[k].kind = "item"
                    /\ k > i /\ read[k].level = 0 => read[k].ordered = read[i].ordered

(* The outline is the document's own: a section's path is the chain of      *)
(* headings above it, its parent the nearest of them that has a section,    *)
(* and every policy heading above a section has one, with or without        *)
(* content; it takes the number of the nearest numbered heading and is a    *)
(* source annotation when any heading of its path is.                       *)
OutlineIsSound ==
  \A k \in DOMAIN sections :
    LET s == sections[k]
        chain == Chain(s.id)
    IN /\ ToSet(s.path) = chain /\ \A n \in 1 .. Len(s.path) - 1 : s.path[n] < s.path[n + 1]
       /\ s.parent = Nearest((chain \ {s.id}) \intersect Listed)
       /\ \A j \in chain \ {s.id} : LevelOf(j) > 1 => j \in Listed
       /\ s.number = (LET n == Nearest({j \in chain : read[j].number # None})
                      IN IF s.id = 0 THEN TitleNumber
                         ELSE IF n = None THEN None ELSE read[n].number)
       /\ s.note <=> \E j \in chain : read[j].note

(* No block is dropped or moved: when the document ends, each block is in   *)
(* the section of the last heading before it, once and in order, and each   *)
(* list item under the nearest item of its list that is further out.        *)
BlocksKeepTheirPlace ==
  done =>
    /\ \A i \in DOMAIN read \ HeadingsOf :
         \E k \in DOMAIN sections :
           /\ sections[k].id = HeadingBefore(i)
           /\ i \in ToSet(sections[k].blocks)
           /\ \A m \in DOMAIN sections \ {k} : i \notin ToSet(sections[m].blocks)
           /\ read[i].kind = "item" =>
                LET parent == Nearest({j \in ToSet(sections[k].blocks) :
                                         /\ j < i /\ SameList(j, i)
                                         /\ read[j].level < read[i].level})
                IN \E node \in sections[k].lists : node.item = i /\ node.parent = parent
    /\ \A k \in DOMAIN sections :
         \A n \in 1 .. Len(sections[k].blocks) - 1 :
           sections[k].blocks[n] < sections[k].blocks[n + 1]
=============================================================================
