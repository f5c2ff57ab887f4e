-------------------------- MODULE ControllerBounds --------------------------
(***************************************************************************)
(* The constants of the controllers that one run checks side by side: the  *)
(* kegerator's, in ticks and degrees, the heat plan's and the simulated    *)
(* heater's.                                                               *)
(***************************************************************************)
EXTENDS Integers

CONSTANTS
    None,
    Timers,        \* what runs the guard
    MinOn,         \* minimum time on
    MinOff,        \* minimum time off
    Presets,       \* the targets of the presets
    Deltas,        \* air above the preset's target, None when unavailable
    RestartTarget, \* what a restoration sets
    MaxFaults,     \* bound: calls that fail, thermostat turned or lost, restarts
    AfterRun,      \* evaluations that the fan's afterrun lasts
    Target,        \* target temperature of each step of the mash
    Readings,      \* what a tick of the mash may read
    Observe,       \* ticks that the BrewZilla is left alone with a plan
    TrustAge,      \* ticks that a written target is believed
    HltSamples,    \* what a tick of the sparge water's simulation may read
    MaxClock       \* bound: periods that the simulation runs

ASSUME GuardAssumption ==
    MinOn \in Nat \ {0} /\ MinOff \in Nat \ {0}

ASSUME ClimateAssumption ==
    /\ Presets \subseteq Int /\ Presets # {} /\ RestartTarget \in Presets
    /\ Deltas \subseteq Int \cup {None} /\ None \in Deltas /\ MaxFaults \in Nat

ASSUME FanAssumption ==
    /\ AfterRun \in Nat \ {0}
    /\ None \notin Nat /\ None \notin BOOLEAN /\ None \notin {"on", "off", "afterrun", "smart"}

ASSUME HeatAssumption ==
    /\ Target \in [{"strike", "rest", "ramp", "paus"} -> Int]
    /\ Readings \subseteq
         [mash : Int \cup {None}, wort : Int, rate : Int, conn : BOOLEAN, fresh : BOOLEAN,
          late : Int \cup {None}, heatAuto : BOOLEAN, pumpAuto : BOOLEAN,
          setHeat : 0 .. 100, setPump : 0 .. 100]
    /\ None \notin Int
    /\ {Observe, TrustAge} \subseteq Nat

(* The simulator: whose it is, its estimate and virtual switch, the        *)
(* thermostat it saw, and when.                                            *)
SimulatorStates == {"IDLE", "READY", "HEATING", "YIELDING", "WAITING_FOR_POWER"}
Simulators == [key : Nat \X (Nat \cup {None}), temp : Int, on : BOOLEAN, was : BOOLEAN \cup {None},
               last : Int \cup {None}, state : SimulatorStates]

ASSUME HltAssumption ==
    /\ MaxClock \in Nat
    /\ HltSamples \subseteq
         [watts : Nat \cup {None}, util : Nat \cup {None}, actual : Int \cup {None},
          device : Int \cup {None}, wanted : Int \cup {None}, stage : BOOLEAN, ramp : BOOLEAN,
          probe : Int \cup {None}, thermostat : BOOLEAN \cup {None}]
    /\ None \notin Int /\ None \notin BOOLEAN /\ None \notin Simulators
=============================================================================
