---------------------------- MODULE MCChatTransport ----------------------------
(* Three callers over one connection; a Retry-After may ask for more than is honoured. *)
EXTENDS ChatTransport, TLC

Symmetry == Permutations(Callers)
=============================================================================
