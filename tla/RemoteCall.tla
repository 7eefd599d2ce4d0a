----------------------------- MODULE RemoteCall ----------------------------
(***************************************************************************)
(* What the host may rely on when it calls the panda: a call that returns  *)
(* was carried out, at least once, with its own data, and what it returns  *)
(* is the answer of the run that came last.  A call that fails was carried *)
(* out any number of times.  Nothing else is ever carried out.             *)
(*                                                                         *)
(* The abstract counterpart of Spi.                                        *)
(***************************************************************************)
EXTENDS Naturals

CONSTANT NoCall     \* not a call

VARIABLES call,     \* the call made last, numbered from 1
          busy,     \* the host waits for it
          runs,     \* how often the panda carried something out
          done,     \* the call it carried out last, or NoCall
          answer    \* the run whose answer the last call returned, or 0

vars == <<call, busy, runs, done, answer>>

Init == /\ call = 0
        /\ busy = FALSE
        /\ runs = 0
        /\ done = NoCall
        /\ answer = 0

Call == /\ ~busy
        /\ call' = call + 1
        /\ busy' = TRUE
        /\ answer' = 0
        /\ UNCHANGED <<runs, done>>

CarryOut == /\ busy
            /\ runs' = runs + 1
            /\ done' = call
            /\ UNCHANGED <<call, busy, answer>>

Return == /\ busy
          /\ done = call
          /\ busy' = FALSE
          /\ answer' = runs
          /\ UNCHANGED <<call, runs, done>>

Fail == /\ busy
        /\ busy' = FALSE
        /\ UNCHANGED <<call, runs, done, answer>>

Next == Call \/ CarryOut \/ Return \/ Fail

Spec == Init /\ [][Next]_vars
=============================================================================
