--------------------------- MODULE MCThreadSynch ---------------------------
(***************************************************************************)
(* ThreadSynch for TLC: three threads, each of which may end the group, so *)
(* that two can be each other's target while the third only runs.  One     *)
(* signal of the application is enough to meet any one of theirs.          *)
(***************************************************************************)
EXTENDS ThreadSynch
=============================================================================
