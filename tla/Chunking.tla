------------------------------- MODULE Chunking --------------------------------
(***************************************************************************)
(* SemanticChunker: the blocks of one section become the chunks that are   *)
(* embedded, each within a budget of tokens that the heading, and whatever *)
(* context is repeated, share.  A text is the sequence of the sizes of its *)
(* words; the size of a whole is taken as the sum of its parts.            *)
(***************************************************************************)
EXTENDS Integers, Sequences, SequencesExt, FiniteSetsExt

CONSTANTS
  Soft,        \* SOFT_TARGET_TOKENS (480)
  Hard,        \* HARD_MAX_TOKENS (507)
  MaxWords,    \* MAX_WORDS (350)
  Margin,      \* of the check for headers too long to be repeated (20)
  MaxContext,  \* the longest list context that is repeated (100)
  Heading,     \* size of the heading prefix (at most 75)
  Anchor,      \* size of the coordinates of a cell
  Bars,        \* what the separators add to a row, in tokens and in words
  Lines,       \* lines of a block: [context, words], the context a part of the words
  Headers,     \* header rows: [size, columns], the caption included
  Rows,        \* rows: sequences of cells, each a sequence of words
  MaxLines     \* bound: lines, headers and rows of a section

\* A table so wide that its separators alone exceed the margin is left out; a word is at
\* least one token.
ASSUME ChunkingAssumption ==
  /\ {Soft, Hard, MaxWords, Margin, MaxContext, Heading, Anchor, Bars, MaxLines} \subseteq Nat
  /\ Soft <= Hard /\ Heading + Anchor < Soft /\ Heading + MaxContext < Soft
  /\ Bars < Margin /\ Margin <= MaxWords
  /\ \A l \in Lines : l.context \in Nat /\ l.words \in Seq(Nat)
  /\ \A h \in Headers : {h.size, h.columns} \subseteq Nat
  /\ \A row \in Rows : row \in Seq(Seq(Nat)) \ {<<>>}
  /\ \A row \in Rows : \A c \in DOMAIN row : \A k \in DOMAIN row[c] : row[c][k] > 0

VARIABLES
  stage,   \* of the section: idle, open, ended, or failed by the ValueError
  todo,    \* its blocks that are left, the first one in hand
  table,   \* the table in hand, or NoTable
  held,    \* current_text, as parts
  rows,    \* the rows of temp_table_lines, after the header
  chunks,  \* what was flushed, each a sequence of parts
  given    \* every line, header and row read: its kind and the sizes of its pieces

chunkVars == <<stage, todo, table, held, rows, chunks, given>>

NoTable == [line |-> 0, header |-> 0, columns |-> 0]

ChunkInit ==
  /\ stage = "idle" /\ todo = <<>> /\ table = NoTable
  /\ held = <<>> /\ rows = <<>> /\ chunks = <<>> /\ given = <<>>

\* A part of a chunk shows pieces <<line, piece, size>>; its own size and words count
\* the context that is repeated with them.
Part(pieces, size, words) == [pieces |-> pieces, size |-> size, words |-> words]
Joined(p, q) == Part(p.pieces \union q.pieces, p.size + q.size, p.words + q.words)

Size(text) == FoldLeft(+, 0, text)
SizeOf(parts) == FoldLeft(LAMBDA n, p : n + p.size, 0, parts)
WordsOf(parts) == FoldLeft(LAMBDA n, p : n + p.words, 0, parts)
PartOf(n, piece, text) == Part({<<n, piece, Size(text)>>}, Size(text), Len(text))

Flush(cs, parts) == IF parts = <<>> THEN cs ELSE Append(cs, parts)
TooLarge(parts) == Heading + SizeOf(parts) > Hard

FitsBody(parts) == SizeOf(parts) <= Soft /\ WordsOf(parts) <= MaxWords
Fits(parts) == Heading + SizeOf(parts) <= Soft /\ WordsOf(parts) <= MaxWords

-----------------------------------------------------------------------------
(* _text_fragments: whole words while they fit, a word that does not fit    *)
(* alone by as much as does, beside the context repeated with each.         *)

Closed(acc) == IF acc.size > 0 THEN Append(acc.parts, acc.size) ELSE acc.parts

Take(room, acc, word) ==
  IF acc.size + word <= room /\ acc.words < MaxWords
  THEN [acc EXCEPT !.size = @ + word, !.words = @ + 1]
  ELSE LET cuts == (word - 1) \div room
       IN [parts |-> Closed(acc) \o [k \in 1 .. cuts |-> room],
           size |-> word - cuts * room, words |-> 1]

Fragments(text, room) ==
  Closed(FoldLeft(LAMBDA acc, word : Take(room, acc, word),
                  [parts |-> <<>>, size |-> 0, words |-> 0], text))

Spread(n, piece, text, context) ==
  LET fs == Fragments(text, Soft - Heading - context.size)
  IN [k \in DOMAIN fs |-> Joined(context, Part({<<n, piece, fs[k]>>}, fs[k], 1))]

-----------------------------------------------------------------------------
(* _split_oversized_table_row: each part becomes a chunk of its own.        *)

HeaderPart == PartOf(table.line, 0, <<table.header>>)
Separators == Part({}, Bars, Bars)
Places(row) == [c \in DOMAIN row |-> c]

\* The key or the headers are too long to repeat: all is spread out under its coordinates.
ByCoordinates(n, row) ==
  LET at == Part({}, Anchor, 0)
  IN FoldLeft(LAMBDA ps, c : ps \o Spread(n, c, row[c], at),
              Spread(table.line, 0, <<table.header>>, at), Places(row))

\* Under the headers and the key: as many cells as fit, a long cell in fragments.
Key(n, row) == Joined(Joined(HeaderPart, Separators), PartOf(n, 1, row[1]))

Place(n, row, acc, c) ==
  LET key == Key(n, row)
      alone == Joined(key, PartOf(n, c, row[c]))
      joined == Joined(acc.open, PartOf(n, c, row[c]))
      closed == IF acc.open = key THEN acc.parts ELSE Append(acc.parts, acc.open)
      row_words == joined.words - HeaderPart.words
  IN IF row[c] = <<>> THEN acc
     ELSE IF Len(row[c]) > MaxWords \/ Heading + alone.size > Soft
     THEN [parts |-> closed \o Spread(n, c, row[c], key), open |-> key]
     ELSE IF acc.open = key \/ (row_words <= MaxWords /\ Heading + joined.size <= Soft)
     THEN [acc EXCEPT !.open = joined]
     ELSE [parts |-> closed, open |-> alone]

ByKey(n, row) ==
  LET all == FoldLeft(LAMBDA acc, c : Place(n, row, acc, c),
                      [parts |-> <<>>, open |-> Key(n, row)], Tail(Places(row)))
  IN IF all.open # Key(n, row) \/ all.parts = <<>> THEN Append(all.parts, all.open)
     ELSE all.parts

SplitRow(n, row) ==
  IF Heading + table.header + Size(row[1]) > Soft - Margin THEN ByCoordinates(n, row)
  ELSE IF Len(row) = 1 THEN Spread(n, 1, row[1], Joined(HeaderPart, Separators))
  ELSE ByKey(n, row)

-----------------------------------------------------------------------------

\* flush raises on the first chunk over the hard maximum, and the section has none.
Flushing(more, rest) ==
  /\ chunks' = chunks \o more
  /\ IF \E k \in DOMAIN more : TooLarge(more[k])
     THEN stage' = "failed" /\ held' = <<>> ELSE held' = rest /\ UNCHANGED stage

Give(kind, sizes) == given' = Append(given, [kind |-> kind, sizes |-> sizes])
Room == stage = "open" /\ todo # <<>> /\ Len(given) < MaxLines
Line == Len(given) + 1

Chunk(kinds) ==
  /\ stage = "idle" /\ stage' = "open" /\ todo' = kinds
  /\ UNCHANGED <<table, held, rows, chunks, given>>

AddLine(l) ==
  LET line == PartOf(Line, 1, l.words)
      context == Part({}, IF l.context > MaxContext THEN 0 ELSE l.context, 0)
      parts == Spread(Line, 1, l.words, context)
  IN /\ Room /\ Head(todo) = "lines" /\ Give("line", <<Size(l.words)>>)
     /\ todo' \in {todo, Tail(todo)}
     /\ IF ~Fits(<<line>>)
        THEN Flushing(Flush(<<>>, held) \o [k \in DOMAIN parts |-> <<parts[k]>>], <<>>)
        ELSE IF ~Fits(Append(held, line)) /\ held # <<>> THEN Flushing(<<held>>, <<line>>)
        ELSE Flushing(<<>>, Append(held, line))
     /\ UNCHANGED <<table, rows>>

\* A table; one without cells is skipped.
OpenTable(h) ==
  /\ Room /\ Head(todo) = "table" /\ table = NoTable /\ Give("header", <<h.size>>)
  /\ table' = [line |-> Line, header |-> h.size, columns |-> h.columns]
  /\ UNCHANGED <<stage, todo, held, rows, chunks>>

SkipTable ==
  /\ Room /\ Head(todo) = "table" /\ table = NoTable /\ todo' = Tail(todo)
  /\ UNCHANGED <<stage, table, held, rows, chunks, given>>

HeldAlone == held
HeldAndTable == IF rows = <<>> THEN held ELSE held \o <<HeaderPart>> \o rows

AddRow(row) ==
  LET line == FoldLeft(Joined, Separators, [c \in DOMAIN row |-> PartOf(Line, c, row[c])])
      parts == SplitRow(Line, row)
      all == held \o rows \o <<line>>
  IN /\ Room /\ table # NoTable /\ Len(row) = table.columns
     /\ Give("row", [c \in DOMAIN row |-> Size(row[c])])
     /\ IF line.words > MaxWords \/ Heading + table.header + line.size > Soft
        THEN /\ Flushing(Flush(<<>>, HeldAndTable) \o [k \in DOMAIN parts |-> <<parts[k]>>], <<>>)
             /\ rows' = <<>>
        ELSE IF (WordsOf(all) > MaxWords \/ Heading + table.header + SizeOf(all) > Soft)
                 /\ HeldAndTable # <<>>
        THEN Flushing(<<HeldAndTable>>, <<>>) /\ rows' = <<line>>
        ELSE Flushing(<<>>, held) /\ rows' = Append(rows, line)
     /\ UNCHANGED <<todo, table>>

\* A table of a header row only is text like any other.
CloseTable ==
  LET header == <<HeaderPart>>
  IN /\ stage = "open" /\ table # NoTable /\ table' = NoTable
     /\ todo' = Tail(todo) /\ rows' = <<>>
     /\ IF given[Len(given)].kind # "header" THEN Flushing(<<>>, HeldAndTable)
        ELSE IF Fits(held \o header) THEN Flushing(<<>>, held \o header)
        ELSE Flushing(Flush(<<>>, held), header)
     /\ UNCHANGED given

\* The last flush; blocks beyond the bound are not read.
EndSection ==
  /\ stage = "open" /\ table = NoTable /\ (todo = <<>> \/ Len(given) = MaxLines)
  /\ chunks' = Flush(chunks, held) /\ held' = <<>>
  /\ stage' = IF held # <<>> /\ TooLarge(held) THEN "failed" ELSE "ended"
  /\ UNCHANGED <<todo, table, rows, given>>

ChunkNext ==
  \/ \E l \in Lines : AddLine(l)
  \/ \E h \in Headers : OpenTable(h)
  \/ \E row \in Rows : AddRow(row)
  \/ SkipTable \/ CloseTable
  \/ EndSection

-----------------------------------------------------------------------------
Parts == FoldLeft(\o, <<>>, chunks)
\* How much of a piece a part shows, and parts together.
Amount(p, n, c) == FoldSet(+, 0, {x[3] : x \in {x \in p.pieces : x[1] = n /\ x[2] = c}})
Shown(parts, n, c) == Size([k \in DOMAIN parts |-> Amount(parts[k], n, c)])

\* A piece's own index: lines and cells from 1; a header is piece 0.
PieceOf(n, c) == IF given[n].kind = "header" THEN 0 ELSE c

(* Nothing a section says is lost between its blocks and its chunks: every  *)
(* line, header and cell is shown, all its fragments together are at least  *)
(* as long as it is, and no chunk goes back before an earlier one's lines.  *)
NothingIsLost ==
  stage = "ended" =>
    /\ \A n \in DOMAIN given : \A c \in DOMAIN given[n].sizes :
         Shown(Parts, n, PieceOf(n, c)) >= given[n].sizes[c]
    /\ \A i, j \in DOMAIN Parts : i < j =>
         \A x \in Parts[i].pieces, y \in Parts[j].pieces :
           x[2] > 0 /\ y[2] > 0 => x[1] <= y[1]

(* Every chunk keeps to the soft target, its heading and repeated context   *)
(* included; only a table of nothing but a header row may exceed it, and    *)
(* only when such a table exceeds the hard maximum can indexing fail here.  *)
SoftTargetIsKept ==
  LET Lone(n) == /\ given[n].kind = "header"
                 /\ n < Len(given) => given[n + 1].kind # "row"
  IN /\ \A k \in DOMAIN chunks :
          \/ Heading + SizeOf(chunks[k]) <= Soft
          \/ \E n \in DOMAIN given : Lone(n) /\ chunks[k] = <<PartOf(n, 0, given[n].sizes)>>
     /\ stage = "failed" =>
          \E n \in DOMAIN given : Lone(n) /\ Heading + given[n].sizes[1] > Hard
=============================================================================
