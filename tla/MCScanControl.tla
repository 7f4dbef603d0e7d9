--------------------------- MODULE MCScanControl ---------------------------
(* ScanControl with three clients and scans of up to two roots. *)
EXTENDS ScanControl
=============================================================================
