------------------------- MODULE MCConnectionStack -------------------------
(* Small instances of ConnectionStack and its properties for TLC.          *)
EXTENDS ConnectionProperties, TLC

Symmetry == Permutations(Peers) \cup Permutations(RemoteRefs)

(* sent is output only: no action reads it.                                *)
StateView == <<connVars, lockVars, history>>

=============================================================================
