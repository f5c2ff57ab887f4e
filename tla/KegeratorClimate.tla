-------------------------- MODULE KegeratorClimate --------------------------
(***************************************************************************)
(* Who sets the target of the kegerator's thermostat: the preset that the  *)
(* operator selects, the Climate Supervisor that corrects it while a keg   *)
(* carbonates, the guard and the boot helper that bring a thermostat that  *)
(* is off back to cooling at a target of their own. Each makes two or      *)
(* three service calls in a row, awaits each, and looks only once, at the  *)
(* start. The thermostat restores its own mode and target.                 *)
(*                                                                         *)
(* Temperatures are in tenths of a degree.                                 *)
(***************************************************************************)
EXTENDS ControllerBounds, Sequences

Modes == {"missing", "unavailable", "off", "cool"}
Up == {"off", "cool"}                     \* the thermostat takes a call
Tasks == {"boot", "restore", "preset", "supervise"}

VARIABLES
    preset,     \* the selected preset, saved over a restart
    mode,       \* the thermostat's mode as Home Assistant has it
    target,     \* its target
    last,       \* the mode that the thermostat restores
    guard,      \* the guard is on
    supervisor, \* the supervisor is on
    carbonating,\* a keg carbonates or conditions
    delta,      \* the air above the preset's target
    calls,      \* of each task, the service calls still to be made
    booting,    \* what has still to happen after a restart
    faults      \* how many of the bounded faults happened

vars == <<preset, mode, target, last, guard, supervisor, carbonating, delta,
          calls, booting, faults>>
world == <<carbonating, delta>>

Idle == [t \in Tasks |-> <<>>]

Init ==
    /\ preset = RestartTarget /\ target = preset
    /\ mode = "cool" /\ last = "cool"
    /\ guard = FALSE /\ supervisor = FALSE /\ carbonating = FALSE
    /\ delta \in Deltas
    /\ calls = Idle /\ booting = {} /\ faults = 0

Fault == faults < MaxFaults /\ faults' = faults + 1

-----------------------------------------------------------------------------
(* Service calls                                                           *)

Cool     == [call |-> "cool", to |-> None]
Aim(t)   == [call |-> "aim", to |-> t]
GuardOff == [call |-> "guard_off", to |-> None]

(* The next call of a task: it reaches a thermostat that is there, and a   *)
(* task ends at a call that fails.                                         *)
Call(t) ==
    LET c == Head(calls[t])
        reaches == mode \in Up
    IN /\ calls[t] # <<>>
       /\ mode' = IF c.call = "cool" /\ reaches THEN "cool" ELSE mode
       /\ last' = IF c.call = "cool" /\ reaches THEN "cool" ELSE last
       /\ target' = IF c.call = "aim" /\ reaches THEN c.to ELSE target
       /\ guard' = IF c.call = "guard_off" THEN FALSE ELSE guard
       /\ calls' = [calls EXCEPT ![t] = Tail(@)]
       /\ UNCHANGED <<preset, supervisor, world, booting, faults>>

Fails(t) ==
    /\ Fault
    /\ calls[t] # <<>>
    /\ calls' = [calls EXCEPT ![t] = <<>>]
    /\ UNCHANGED <<preset, mode, target, last, guard, supervisor, world, booting>>

Starts(t, todo) == calls[t] = <<>> /\ calls' = [calls EXCEPT ![t] = todo]

-----------------------------------------------------------------------------
(* The guard's run brings back a thermostat that does not cool.            *)
Restore ==
    /\ guard /\ mode # "cool"
    /\ Starts("restore", <<Aim(RestartTarget), Cool>>)
    /\ UNCHANGED <<preset, mode, target, last, guard, supervisor, world, booting, faults>>

(* A minute after the start so does the boot helper, of a thermostat that  *)
(* is known by then.                                                       *)
Boot ==
    /\ "helper" \in booting /\ booting' = booting \ {"helper"}
    /\ IF mode \in {"cool", "missing"}
       THEN UNCHANGED calls
       ELSE Starts("boot", <<Aim(RestartTarget), Cool>>)
    /\ UNCHANGED <<preset, mode, target, last, guard, supervisor, world, faults>>

(* async_apply_temperature_preset.                                         *)
PresetCalls(p) ==
    IF mode = "missing" THEN <<>>
    ELSE (IF mode = "off" THEN <<Cool>> ELSE <<>>) \o <<Aim(p)>>

(* The operator selects a preset, or a restart brings the selection back.  *)
Select(p) ==
    /\ preset' = p
    /\ Starts("preset", PresetCalls(p))
    /\ UNCHANGED <<mode, target, last, guard, supervisor, world, booting, faults>>

Reselected ==
    /\ "preset" \in booting /\ booting' = booting \ {"preset"}
    /\ Starts("preset", PresetCalls(preset))
    /\ UNCHANGED <<preset, mode, target, last, guard, supervisor, world, faults>>

-----------------------------------------------------------------------------
(* The Climate Supervisor                                                  *)

Correction(d) == CASE d = None -> 0
                   [] d >= 20  -> -6
                   [] d >= 10  -> -4
                   [] d >= 5   -> -2
                   [] d <= -7  -> 4
                   [] d <= -3  -> 2
                   [] OTHER    -> 0

Clamped(t) == IF t < 10 THEN 10 ELSE IF t > 120 THEN 120 ELSE t

EffectiveTarget == Clamped(preset + Correction(delta))

InScope == supervisor /\ carbonating /\ delta # None /\ mode \in Up

(* Mutant: a thermostat that is off is corrected only once it has drifted. *)
NeedsApplyOnDrift == target # EffectiveTarget

NeedsApply == target # EffectiveTarget \/ mode = "off"

(* Its run, by its timer or when it is turned on.                          *)
Supervise ==
    /\ InScope /\ NeedsApply
    /\ Starts("supervise",
           (IF guard THEN <<GuardOff>> ELSE <<>>)
           \o (IF mode = "off" THEN <<Cool>> ELSE <<>>)
           \o <<Aim(EffectiveTarget)>>)
    /\ UNCHANGED <<preset, mode, target, last, guard, supervisor, world, booting, faults>>

(* The operator's switches of the guard and the supervisor.                *)
SetGuard(to) ==
    /\ guard # to /\ guard' = to
    /\ UNCHANGED <<preset, mode, target, last, supervisor, world, calls, booting, faults>>

SetSupervisor(to) ==
    /\ supervisor # to /\ supervisor' = to
    /\ UNCHANGED <<preset, mode, target, last, guard, world, calls, booting, faults>>

-----------------------------------------------------------------------------
(* The thermostat, the keg and Home Assistant                              *)

Keg ==
    /\ \/ carbonating' = ~carbonating /\ UNCHANGED delta
       \/ delta' \in Deltas \ {delta} /\ UNCHANGED carbonating
    /\ UNCHANGED <<preset, mode, target, last, guard, supervisor, calls, booting, faults>>

(* The operator turns the thermostat off, or on.                           *)
Turn(to) ==
    /\ Fault
    /\ mode \in Up \ {to} /\ mode' = to /\ last' = to
    /\ UNCHANGED <<preset, target, guard, supervisor, world, calls, booting>>

(* The thermostat is lost for a while; it is there again as it was.        *)
Lost ==
    /\ Fault
    /\ mode \in Up /\ mode' = "unavailable"
    /\ UNCHANGED <<preset, target, last, guard, supervisor, world, calls, booting>>

Back ==
    /\ mode \notin Up /\ mode' = last
    /\ UNCHANGED <<preset, target, last, guard, supervisor, world, calls, booting, faults>>

(* Home Assistant restarts: the thermostat is loaded before BA or after.   *)
Restart ==
    /\ Fault
    /\ booting = {} /\ booting' = {"helper", "preset"}
    /\ mode' \in {"missing", "unavailable", last}
    /\ calls' = Idle
    /\ UNCHANGED <<preset, target, last, guard, supervisor, world>>

Next ==
    \/ \E t \in Tasks : Call(t) \/ Fails(t)
    \/ Restore \/ Boot \/ Reselected \/ Supervise
    \/ \E p \in Presets : Select(p)
    \/ \E to \in BOOLEAN : SetGuard(to) \/ SetSupervisor(to)
    \/ \E to \in Up : Turn(to)
    \/ Keg \/ Lost \/ Back \/ Restart

(* The timers run, and a call ends.                                        *)
Fairness ==
    /\ WF_vars(Boot) /\ WF_vars(Reselected) /\ WF_vars(Supervise)
    /\ \A t \in Tasks : WF_vars(Call(t))

Spec == Init /\ [][Next]_vars /\ Fairness

-----------------------------------------------------------------------------
(* Properties                                                              *)

Goals == {Clamped(p + Correction(d)) : p \in Presets, d \in Deltas}
Targets == Presets \cup Goals
Todo == {Cool, GuardOff} \cup {Aim(t) : t \in Targets}

TypeOK ==
    /\ preset \in Presets /\ target \in Targets
    /\ mode \in Modes /\ last \in Up
    /\ guard \in BOOLEAN /\ supervisor \in BOOLEAN /\ carbonating \in BOOLEAN
    /\ delta \in Deltas
    /\ \A t \in Tasks : Len(calls[t]) <= 3 /\ \A i \in DOMAIN calls[t] : calls[t][i] \in Todo
    /\ booting \subseteq {"helper", "preset"} /\ faults \in 0 .. MaxFaults

(* While it stays in scope the supervisor brings the thermostat to cool at *)
(* the corrected target of the selected preset, whatever calls of an older *)
(* preset, a restoration or an older correction were still on their way.   *)
SupervisedTargetSettles ==
    \A t \in Goals :
        []<>(InScope /\ EffectiveTarget = t => mode = "cool" /\ target = t)
=============================================================================
