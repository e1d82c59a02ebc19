---------------------------- MODULE MCReassembly ----------------------------
(* Small instances of Reassembly and its properties for TLC.               *)
EXTENDS ReassemblyProperties, TLC

Symmetry == Permutations(Peers) \cup Permutations(References) \cup Permutations(Contents)

(* The Result is output only: no action reads it.                          *)
StateView == <<[stack EXCEPT !.res = <<>>], locked, lag, recordAge>>

=============================================================================
