--------------------------- MODULE MCSegmentation ---------------------------
(* Small instances of Segmentation and its properties for TLC.             *)
EXTENDS SegmentationProperties, TLC

=============================================================================
