---------------------------- MODULE MCAnswerRelease ----------------------------
(* Two chunks, which are interchangeable, and answers of two slices. *)
EXTENDS AnswerRelease
=============================================================================
