---------------------------- MODULE MCHashtable ----------------------------
(***************************************************************************)
(* Hashtable for TLC: 4-bit tags that collide at every table size and wrap *)
(* around the end, and the tables whose size is not bounded, or is bounded *)
(* for a shared table, which is rebuilt when it is full, from the start or *)
(* once it has grown.                                                      *)
(***************************************************************************)
EXTENDS Hashtable

Kinds == {[kind |-> "primary", max_capacity_bits |-> 0, groom_factor |-> 0],
          [kind |-> "private", max_capacity_bits |-> 0, groom_factor |-> 60],
          [kind |-> "shared", max_capacity_bits |-> 0, groom_factor |-> 0],
          [kind |-> "shared", max_capacity_bits |-> 2, groom_factor |-> 0],
          [kind |-> "shared", max_capacity_bits |-> 3, groom_factor |-> 0]}
=============================================================================
