---------------------------- MODULE KegeratorFan ----------------------------
(***************************************************************************)
(* The kegerator's circulation fan: one timer, and the select of the mode, *)
(* run an evaluation under a lock. It infers the compressor from measured  *)
(* power, keeps the fan on for a while after a stop, and in Smart auto     *)
(* runs it on what the air and its trend ask. What it remembers is gone    *)
(* after a restart; what it decides goes through the policy router.        *)
(***************************************************************************)
EXTENDS ControllerBounds, PolicyRouter

Modes == {"off", "cooling_only", "afterrun", "smart", "always"}
AfterrunModes == {"afterrun", "smart"}
Powers == {"active", "idle"}     \* > 20 W; less, and no reading at all
(* The air against the thermostat's target, and its trend: inside the stop *)
(* band, too cold or without a target; between stop and start; past start. *)
Contexts == {"stable", "between", "warm"}

VARIABLES
    auto,       \* fan-auto is on
    mode,       \* the selected mode
    policy,     \* the section's policy
    pending,    \* the fan's command in the supervised slot
    power,      \* the measured power of the compressor
    cooling,    \* the thermostat says that it cools
    context,    \* the air and its trend
    fan,        \* the fan's switch: on, off, or no state of it
    previous,   \* previous_compressor_active
    lastMode,   \* last_mode
    left,       \* afterrun_until: what is left of it; None when cleared
    idle,       \* time since a run saw the compressor active (capped)
    kept        \* since then auto stayed on, in a mode with an afterrun

vars == <<auto, mode, policy, pending, power, cooling, context, fan,
          previous, lastMode, left, idle, kept>>
knobs == <<auto, mode, policy>>
world == <<power, cooling, context>>
memory == <<previous, lastMode, left>>
history == <<idle, kept>>

Init ==
    /\ auto = FALSE /\ mode = "smart" /\ policy = "direct" /\ pending = None
    /\ power \in Powers /\ cooling = FALSE /\ context \in Contexts
    /\ fan \in {"on", "off"}
    /\ previous = None /\ lastMode = None /\ left = None
    /\ idle = AfterRun /\ kept = FALSE

-----------------------------------------------------------------------------
(* The decision                                                            *)

Active == power = "active"
Running(f) == f = "on"

(* Smart auto, _smart_state.                                               *)
SmartRuns(afterrun) ==
    \/ Active
    \/ afterrun
    \/ cooling
    \/ context = "warm"
    \/ context = "between" /\ Running(fan)

Runs(afterrun) ==
    CASE mode = "off"          -> FALSE
      [] mode = "always"       -> TRUE
      [] mode = "cooling_only" -> Active
      [] mode = "afterrun"     -> Active \/ afterrun
      [] mode = "smart"        -> SmartRuns(afterrun)

(* decide: the command, when the fan's switch is there and differs.        *)
Command(afterrun) ==
    IF ~auto \/ fan = None \/ Runs(afterrun) = Running(fan) THEN None
    ELSE IF Running(fan) THEN "off" ELSE "on"

-----------------------------------------------------------------------------
(* What an evaluation remembers                                            *)

(* Mutant: every change of the mode forgets the afterrun.                  *)
ForgetsOnAnyChange == lastMode # mode

(* A change of the mode forgets it unless both have an afterrun.           *)
Forgets == lastMode # mode /\ ~({lastMode, mode} \subseteq AfterrunModes)

(* _sync_mode_runtime, then _sync_compressor_runtime, then the expiry.     *)
Left ==
    IF ~auto \/ Active THEN None
    ELSE IF previous = TRUE THEN IF mode \in AfterrunModes THEN AfterRun ELSE None
    ELSE IF Forgets \/ left = 0 THEN None
    ELSE left

Remember ==
    /\ previous' = IF auto THEN Active ELSE None
    /\ lastMode' = mode
    /\ left' = Left

Afterrun == Left # None /\ mode \in AfterrunModes

-----------------------------------------------------------------------------
(* Actions                                                                 *)

(* One evaluation; a call that the fan does not follow is tried again by   *)
(* the next one.                                                           *)
EvaluateTo(done) ==
    LET c == Command(Afterrun)
        route == Routed(policy, TRUE)
    IN /\ Remember
       /\ fan' = IF c # None /\ route = "executed" /\ done THEN c ELSE fan
       /\ pending' = IF c # None /\ route = "pending" THEN c ELSE pending
       /\ idle' = IF auto /\ Active THEN 0 ELSE idle
       /\ kept' = IF auto /\ Active THEN mode \in AfterrunModes
                  ELSE kept /\ auto /\ mode \in AfterrunModes
       /\ UNCHANGED <<knobs, world>>

Evaluate == \E done \in BOOLEAN : EvaluateTo(done)

(* The operator's switch. Off forgets the afterrun and leaves the fan as   *)
(* it is; on evaluates, as the timer does.                                 *)
SetAuto ==
    /\ auto' = ~auto /\ kept' = FALSE
    /\ IF auto THEN left' = None /\ previous' = None
               ELSE UNCHANGED <<left, previous>>
    /\ UNCHANGED <<mode, policy, pending, world, fan, lastMode, idle>>

(* The select, which evaluates after; that may wait for the lock.          *)
SelectMode ==
    /\ mode' \in Modes \ {mode}
    /\ kept' = (kept /\ mode' \in AfterrunModes)
    /\ UNCHANGED <<auto, policy, pending, world, fan, memory, idle>>

SetPolicy ==
    /\ policy' \in Policies \ {policy}
    /\ pending' = IF policy' = "read_only" THEN None ELSE pending
    /\ UNCHANGED <<auto, mode, world, fan, memory, history>>

(* CONFIRM calls the recorded service.                                     *)
Confirm ==
    /\ pending # None /\ pending' = None
    /\ fan' = IF fan = None THEN None ELSE pending
    /\ UNCHANGED <<knobs, world, memory, history>>

(* The compressor, the air, people at the switch, and lost entities.       *)
World ==
    /\ \/ power' \in Powers \ {power} /\ UNCHANGED <<cooling, context, fan>>
       \/ cooling' = ~cooling /\ UNCHANGED <<power, context, fan>>
       \/ context' \in Contexts \ {context} /\ UNCHANGED <<power, cooling, fan>>
       \/ fan' \in {"on", "off", None} \ {fan} /\ UNCHANGED world
    /\ UNCHANGED <<knobs, pending, memory, history>>

Elapse ==
    /\ left' = IF left \in 1 .. AfterRun THEN left - 1 ELSE left
    /\ idle' = IF idle < AfterRun THEN idle + 1 ELSE idle
    /\ <<left, idle>> # <<left', idle'>>
    /\ UNCHANGED <<knobs, pending, world, fan, previous, lastMode, kept>>

(* A restart restores the switch and the mode and nothing else.            *)
Restart ==
    /\ pending' = None
    /\ previous' = None /\ lastMode' = None /\ left' = None
    /\ kept' = FALSE
    /\ UNCHANGED <<knobs, world, fan, idle>>

Next ==
    \/ Evaluate \/ SetAuto \/ SelectMode \/ SetPolicy \/ Confirm
    \/ World \/ Elapse \/ Restart

Spec == Init /\ [][Next]_vars

-----------------------------------------------------------------------------
(* Properties                                                              *)

TypeOK ==
    /\ auto \in BOOLEAN /\ mode \in Modes /\ policy \in Policies
    /\ pending \in {"on", "off", None}
    /\ power \in Powers /\ cooling \in BOOLEAN /\ context \in Contexts
    /\ fan \in {"on", "off", None}
    /\ previous \in BOOLEAN \cup {None} /\ lastMode \in Modes \cup {None}
    /\ left \in (0 .. AfterRun) \cup {None}
    /\ idle \in 0 .. AfterRun /\ kept \in BOOLEAN

(* No evaluation stops the fan before the afterrun is over, when fan-auto  *)
(* saw the compressor run and kept a mode with an afterrun since: not when *)
(* the power reading was lost, and not when the mode changed to the other. *)
AfterRunIsKept ==
    [][(Evaluate /\ fan = "on" /\ fan' = "off" /\ kept) => idle >= AfterRun]_vars
=============================================================================
