----------------------------- MODULE MCTaskHelper -----------------------------
(* Arrays for TLC: two of different sizes.                                *)
EXTENDS TaskHelper

MCCapacity == <<2, 1>>

===============================================================================
