------------------------------- MODULE MCTrust -----------------------------
(***************************************************************************)
(* What the car's messages do to the controls: what all safety modes share *)
(* (Safety) and what each does in its own way (Modes), one after the       *)
(* other; a behaviour is one of the part its first state names.            *)
(*   A small car for Safety: two checks, one with a counter, one that two  *)
(* messages can serve, and a message the stock ECU sends unchecked.        *)
(***************************************************************************)
EXTENDS Safety, Modes, TLC

CONSTANTS pcm, speed, pedals, pedals2

CarMsg == {pcm, speed, pedals, pedals2}
CarCheck == {"cruise", "pedals"}
CarCarries == (pcm :> {"cruise"}) @@ (speed :> {"moving"})
                @@ (pedals :> {"brake"}) @@ (pedals2 :> {"brake"})
CarAlternatives == [c \in CarCheck |-> IF c = "cruise" THEN {pcm}
                                       ELSE {pedals, pedals2}]
CarCounter == [c \in CarCheck |-> IF c = "cruise" THEN 1 ELSE 0]
CarLag == [c \in CarCheck |-> 1]
\* The two brake messages serve the same check: nothing tells them apart.
Swapped == Permutations({pedals, pedals2})

VARIABLE part

trustVars == <<part, vars, modesVars>>

TrustInit == /\ Init /\ ModesInit /\ part \in {"shared", "brands"}
             /\ part = "brands" => now = 0 /\ alternative_experience = FALSE

TrustNext ==
    /\ UNCHANGED part
    /\ \/ part = "shared" /\ Next /\ UNCHANGED modesVars
       \/ part = "brands" /\ ModesNext /\ UNCHANGED vars

TrustSpec == TrustInit /\ [][TrustNext]_trustVars
=============================================================================
