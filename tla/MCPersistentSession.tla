------------------------- MODULE MCPersistentSession -------------------------
(***************************************************************************)
(* Small instances of PersistentSession.                                   *)
(***************************************************************************)
EXTENDS PersistentSession, TLC

Symmetry == Permutations(Procs) \cup Permutations(Keys)
=============================================================================
