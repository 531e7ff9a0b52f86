------------------------------ MODULE MCAsyncLog ------------------------------
(* AsyncLog for TLC: the messages that MaxMessages timestamps allow; its   *)
(* clients are symmetric, which only a run without liveness may use.       *)
EXTENDS AsyncLog, TLC

MCItems == [from : Threads, timestamp : 1 .. MaxMessages]

ClientSymmetry == Permutations(Clients)

===============================================================================
