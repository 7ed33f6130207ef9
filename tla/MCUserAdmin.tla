------------------------------ MODULE MCUserAdmin ------------------------------
(* Two users and two e-mail addresses: the first user is there from the start. *)
EXTENDS UserAdmin

CONSTANTS u1, u2, e1, e2

MCFounders == [u \in {u1, u2} |-> IF u = u1 THEN e1 ELSE None]
=============================================================================
