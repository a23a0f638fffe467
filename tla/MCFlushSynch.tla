---------------------------- MODULE MCFlushSynch ----------------------------
(***************************************************************************)
(* FlushSynch for TLC: three threads, so that two can be stopped by the    *)
(* third and flush in their turn.                                          *)
(***************************************************************************)
EXTENDS FlushSynch
=============================================================================
