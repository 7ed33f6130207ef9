-------------------------- MODULE PublishedKnowledge --------------------------
(***************************************************************************)
(* What the publication workflow promises employees, with nothing of how   *)
(* it is done.  The content shown for a policy is at every moment either   *)
(* nothing or the whole approved content of one of its versions; it        *)
(* changes in one step; and a version's content is settled for good when   *)
(* it is first released, so that restoring it later shows the same thing.  *)
(***************************************************************************)
CONSTANTS Policies, Versions, PolicyOf, Chunk

VARIABLES
  live,      \* the content shown for each policy
  approved,  \* the content of each version, {} while a reviewer has not approved it all
  released   \* the versions that were shown at some time

vars == <<live, approved, released>>

Init ==
  /\ live = [p \in Policies |-> {}]
  /\ approved = [v \in Versions |-> {}]
  /\ released = {}

Edit(v) ==
  /\ v \notin released
  /\ \E content \in SUBSET Chunk : approved' = [approved EXCEPT ![v] = content]
  /\ UNCHANGED <<live, released>>

Show(v) == live' = [live EXCEPT ![PolicyOf[v]] = approved[v]]

Release(v) ==
  /\ v \notin released /\ approved[v] # {}
  /\ released' = released \union {v}
  /\ Show(v)
  /\ UNCHANGED approved

Restore(v) ==
  /\ v \in released
  /\ Show(v)
  /\ UNCHANGED <<approved, released>>

Withdraw(p) ==
  /\ live' = [live EXCEPT ![p] = {}]
  /\ UNCHANGED <<approved, released>>

Next ==
  \/ \E v \in Versions : Edit(v) \/ Release(v) \/ Restore(v)
  \/ \E p \in Policies : Withdraw(p)

Spec == Init /\ [][Next]_vars
=============================================================================
