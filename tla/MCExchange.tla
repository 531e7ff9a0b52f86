------------------------------ MODULE MCExchange ------------------------------
(* Exchange for TLC: the command lines. *)
EXTENDS Exchange

CONSTANTS s1, s2,
          Malformed   (* an option that is not a number *)

(* "Hi\n" *)
Hello == [len |-> 3, newline |-> TRUE]

(* s1 sends without end.  s2 sends once, truncated to "Hi"; or its       *)
(* options are refused.                                                    *)
(* The receiver has a buffer for either message, and counts without end;   *)
(* or one for the shorter, and counts two messages; or one for '\0' only;  *)
(* or its options are refused.                                             *)
MCLines ==
  [p \in Programs |->
     CASE p = s1 -> {[s |-> 3, r |-> -1, m |-> Hello]}
       [] p = s2 -> {[s |-> 2, r |-> 1, m |-> Hello], [s |-> 3, r |-> Malformed, m |-> Hello]}
       [] OTHER  -> {[s |-> 4, r |-> -1], [s |-> 3, r |-> 2],
                     [s |-> 1, r |-> 0], [s |-> 65508, r |-> -1]}]

===============================================================================
