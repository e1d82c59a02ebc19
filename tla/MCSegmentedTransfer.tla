------------------------ MODULE MCSegmentedTransfer ------------------------
(* Small instances of SegmentedTransfer for TLC.                           *)
EXTENDS SegmentedTransfer, TLC

=============================================================================
