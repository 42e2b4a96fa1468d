------------------------------- MODULE MCLSU -------------------------------
(***************************************************************************)
(* The load/store unit with programs of MaxOps operations on one word of   *)
(* two bytes: loads, byte and word stores and store-conditionals in every  *)
(* order, with every timing of the cache, of issue and of one flush.       *)
(***************************************************************************)
EXTENDS LSUSystem

CONSTANTS b0, b1

MCIds   == 0 .. MaxOps
MCLanes == {b0, b1}
MCMasks == {{b0}, {b0, b1}}
=============================================================================
