------------------------------ MODULE MashHold ------------------------------
(***************************************************************************)
(* What the mash interlock promises the brewer, without the handlers that  *)
(* keep it (module MashFlow has them): from Mash-In Complete the mash goes *)
(* up a ladder, settling, low flow, normal flow, released.  No rung is     *)
(* passed over and none is gone down; each has to be earned on the one     *)
(* below it, by time or by a press, since that Complete.  The pump runs no *)
(* faster than the rung allows, and faster only after a press for it.      *)
(***************************************************************************)
EXTENDS Naturals

VARIABLES
    rung,       \* where on the ladder; "none" before it, "stuck" beside it
    earned,     \* what happened since the last Complete
    flow        \* the pump: off, low or normal

holdVars == <<rung, earned, flow>>

Rungs == {"none", "settling", "settled", "low", "ramped", "normal",
          "released", "stuck"}

Above == [settling |-> "settled", settled |-> "low", low |-> "ramped",
          ramped |-> "normal", normal |-> "released"]

(* Two rungs are earned by time, two by the operator's presses.            *)
Timer == [settling |-> "settling", low |-> "low_flow"]
Press == [settled |-> "recirculation_ready", ramped |-> "normal_ready"]

Needs == [settled  |-> {"settling"},
          low      |-> {"settling", "recirculation_ready"},
          ramped   |-> {"settling", "recirculation_ready", "low_flow"},
          normal   |-> {"settling", "recirculation_ready", "low_flow",
                        "normal_ready"},
          released |-> {"settling", "recirculation_ready", "low_flow",
                        "normal_ready", "held"}]

Init == rung = "none" /\ earned = {} /\ flow = 0

(* Complete: a new ladder, or none when it is refused.  A hold that was    *)
(* over by then is one that had been over.                                 *)
Begin ==
    /\ rung' \in {"settling", "stuck"}
    /\ earned' \in SUBSET {"held"}

Rises(r) ==
    /\ rung \in DOMAIN Above /\ Above[rung] = r
    /\ Needs[r] \subseteq earned

Climb ==
    /\ rung' \in Rungs /\ Rises(rung')
    /\ UNCHANGED earned

(* A press that was under way when the ladder got stuck still counts.      *)
Resume ==
    /\ rung = "stuck" /\ rung' \in {"low", "normal"}
    /\ Needs[rung'] \subseteq earned
    /\ UNCHANGED earned

Stick == rung' = "stuck" /\ UNCHANGED earned

TimePasses ==
    /\ rung \in DOMAIN Timer
    /\ earned' = earned \cup {Timer[rung]}
    /\ UNCHANGED rung

(* The button may be the first to notice that the time is up.              *)
OperatorPresses ==
    /\ rung' \in DOMAIN Press
    /\ rung = rung' \/ Rises(rung')
    /\ earned' = earned \cup {Press[rung']}

HoldIsOver == earned' = earned \cup {"held"} /\ UNCHANGED rung

(* A restart forgets the ladder.                                           *)
Forget == rung' = "none" /\ earned' = {}

OnLadder == DOMAIN Above
Slow     == {"settled", "low", "ramped"}

(* What the pump may do meanwhile.                                         *)
Flows ==
    /\ rung' \in Slow => flow' <= 1
    /\ rung \in OnLadder /\ rung' \in OnLadder /\ flow' > flow =>
          rung \in DOMAIN Press /\ Press[rung] \in earned

Moves ==
    \/ Begin \/ Climb \/ Resume \/ Stick \/ TimePasses \/ OperatorPresses
    \/ HoldIsOver \/ Forget \/ UNCHANGED <<rung, earned>>

Next == Moves /\ Flows

Spec == Init /\ [][Next]_holdVars

(* Whoever is on a rung has earned it and all of those below it.           *)
EarnedSoFar == rung \in DOMAIN Needs => Needs[rung] \subseteq earned
=============================================================================
