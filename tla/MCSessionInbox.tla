--------------------------- MODULE MCSessionInbox ---------------------------
(* Instance of SessionInbox for TLC. *)
EXTENDS SessionInbox, TLC

Symmetry == Permutations(Procs) \cup Permutations(Keys)
=============================================================================
