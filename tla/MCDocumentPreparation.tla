------------------------- MODULE MCDocumentPreparation -------------------------
(* Documents of four blocks, with headings of three levels, a marginal note and a numbered     *)
(* policy, and lists of two levels; budgets scaled down so that single words, lines, rows,     *)
(* keys and headers each overflow them.                                                        *)
EXTENDS DocumentPreparation

Plain(level) == [kind |-> "heading", level |-> level, note |-> FALSE, number |-> None]
MCHeadings ==
  {Plain(1), Plain(2), Plain(3), [Plain(2) EXCEPT !.note = TRUE], [Plain(2) EXCEPT !.number = 7]}
MCBlocks ==
  {[kind |-> k, level |-> 0, ordered |-> FALSE] : k \in {"text", "table"}}
    \union [kind : {"item"}, level : {0, 1}, ordered : BOOLEAN]

MCLines ==
  {[context |-> 0, words |-> <<1>>], [context |-> 0, words |-> <<2, 2>>],
   [context |-> 1, words |-> <<1, 9, 1>>], [context |-> 3, words |-> <<4, 1, 1, 1>>]}
MCHeaders == {[size |-> s, columns |-> 2] : s \in {1, 5, 8, 10}} \union {[size |-> 2, columns |-> 1]}
MCRows ==
  {<< <<1>>, <<1>> >>, << <<1>>, <<3, 3>> >>, << <<4>>, <<12>> >>, << <<>>, <<5, 5>> >>,
   << <<1, 1, 1>> >>, << <<9>> >>}
=============================================================================
