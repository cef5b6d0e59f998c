-------------------------- MODULE MCUploadSession --------------------------
(* Two files, a queue they fill, and an ingestor that lets one upload       *)
(* through in a window of one second.                                       *)
EXTENDS UploadSession, TLC

CONSTANTS f1, f2, t1, t2, i1, i2

=============================================================================
