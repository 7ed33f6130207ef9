-------------------------- MODULE DocumentPreparation --------------------------
(***************************************************************************)
(* From an extracted document to the chunks of one of its sections: the    *)
(* canonical document is made and, when the version is prepared for        *)
(* publication, its sections are chunked one by one, each on its own.      *)
(***************************************************************************)
EXTENDS DocumentOutline, Chunking

vars == <<outlineVars, chunkVars>>

Init == OutlineInit /\ ChunkInit

\* The items of one list are lines of one block.
KindsOf(s) ==
  LET inner == {x.item : x \in {x \in s.lists : x.item # x.list}}
      outer == SelectSeq(s.blocks, LAMBDA i : i \notin inner)
  IN [k \in DOMAIN outer |-> IF read[outer[k]].kind = "table" THEN "table" ELSE "lines"]

\* Marginal notes are no evidence of a rule: they are not chunked.
ChunkSection(s) ==
  /\ done /\ ~s.note /\ Chunk(KindsOf(s))
  /\ read' = <<>> /\ stack' = <<>> /\ current' = 0 /\ blocks' = <<>> /\ sections' = <<>>
  /\ UNCHANGED done

Next ==
  \/ OutlineNext /\ UNCHANGED chunkVars
  \/ \E k \in DOMAIN sections : ChunkSection(sections[k])
  \/ ChunkNext /\ UNCHANGED outlineVars

Spec == Init /\ [][Next]_vars
=============================================================================
