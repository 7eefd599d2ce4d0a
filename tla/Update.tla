------------------------------- MODULE Update ------------------------------
(***************************************************************************)
(* What replacing the firmware of a panda promises, whatever is cut off in *)
(* the middle: an application that runs was installed as a whole, and is   *)
(* only ever replaced, as a whole, while it does not run.  What was taken  *)
(* away comes back as the new version, never as the old one.               *)
(***************************************************************************)
VARIABLES installed,  \* "old", "new" or, in between, "none"
          running     \* the application that runs, or "none"

vars == <<installed, running>>

Init == installed = "old" /\ running = "none"

Start == /\ running = "none"
         /\ installed # "none"
         /\ running' = installed
         /\ UNCHANGED installed

Stop == /\ running # "none"
        /\ running' = "none"
        /\ UNCHANGED installed

Remove == /\ running = "none"
          /\ installed # "none"
          /\ installed' = "none"
          /\ UNCHANGED running

Install == /\ running = "none"
           /\ installed = "none"
           /\ installed' = "new"
           /\ UNCHANGED running

Next == Start \/ Stop \/ Remove \/ Install

Spec == Init /\ [][Next]_vars
=============================================================================
