----------------------------- MODULE MCRetrieval -----------------------------
(* Five chunks in batches of at most two, of which three are wanted; texts shorter and      *)
(* longer than a share.                                                                        *)
EXTENDS Retrieval

MCMatches ==
  {[counts |-> <<0>>, phrase |-> FALSE, code |-> FALSE],
   [counts |-> <<4>>, phrase |-> TRUE, code |-> FALSE],
   [counts |-> <<0>>, phrase |-> FALSE, code |-> TRUE]}
=============================================================================
