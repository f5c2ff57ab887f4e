---------------------------- MODULE MCControllers ----------------------------
(***************************************************************************)
(* Controllers that share no memory are checked side by side in one run,   *)
(* each against an environment that does whatever the others could: the    *)
(* kegerator's relay, the target of its thermostat, its fan, the heat plan *)
(* of the mash, and the simulation of the sparge water's heater.           *)
(***************************************************************************)
EXTENDS ControllerBounds, Sequences

MCTarget == [strike |-> 700, rest |-> 660, ramp |-> 720, paus |-> 720]

Reading(mash, wort, rate) ==
    [mash |-> mash, wort |-> wort, rate |-> rate, conn |-> TRUE, fresh |-> TRUE, late |-> None,
     heatAuto |-> TRUE, pumpAuto |-> TRUE, setHeat |-> 60, setPump |-> 60]
MCReadings ==
    {Reading(600, 712, 5), Reading(690, 723, 70),
     [Reading(None, 698, 5) EXCEPT !.late = 660],
     [Reading(600, 698, 5) EXCEPT !.conn = FALSE, !.heatAuto = FALSE, !.fresh = FALSE]}

Sample(watts, device, stage, ramp, probe, thermostat) ==
    [watts |-> watts, util |-> 50, actual |-> 660, device |-> device, wanted |-> 660,
     stage |-> stage, ramp |-> ramp, probe |-> probe, thermostat |-> thermostat]
MCHltSamples ==
    {Sample(0, 660, TRUE, FALSE, None, TRUE), Sample(22, 660, TRUE, FALSE, None, FALSE),
     Sample(0, 660, TRUE, TRUE, None, None), Sample(None, None, FALSE, FALSE, 2, None)}

VARIABLES part,
    enabled, saved, relayPolicy, unlocked, relayPending, confirming, relay,
    heard, elapsed, since, air, awaiting,
    preset, mode, target, last, guard, supervisor, carbonating, delta, calls,
    booting, faults,
    auto, fanMode, fanPolicy, fanPending, power, cooling, context, fan,
    previous, lastMode, left, idle, kept,
    source, step, state, gate, dev, latch, lease, trust, owed, did,
    clock, session, sim, status, writing, metrics, hitches, fits

Relay   == INSTANCE KegeratorGuard WITH policy <- relayPolicy, pending <- relayPending
Climate == INSTANCE KegeratorClimate
Fan     == INSTANCE KegeratorFan WITH policy <- fanPolicy, pending <- fanPending,
                                      mode <- fanMode
Heat    == INSTANCE HeatPlan
Hlt     == INSTANCE HltSimulation

relayVars == <<enabled, saved, relayPolicy, unlocked, relayPending, confirming,
               relay, heard, elapsed, since, air, awaiting>>
climateVars == <<preset, mode, target, last, guard, supervisor, carbonating,
                 delta, calls, booting, faults>>
fanVars == <<auto, fanMode, fanPolicy, fanPending, power, cooling, context, fan,
             previous, lastMode, left, idle, kept>>
heatVars == <<source, step, state, gate, dev, latch, lease, trust, owed, did>>
hltVars == <<clock, session, sim, status, writing, metrics, hitches, fits>>
vars == <<part, relayVars, climateVars, fanVars, heatVars, hltVars>>

RelayStill ==
    /\ enabled = FALSE /\ saved = FALSE /\ relayPolicy = "direct" /\ unlocked = TRUE
    /\ relayPending = None /\ confirming = None /\ relay = "off" /\ heard = TRUE
    /\ elapsed = 0 /\ since = 0 /\ air = "band" /\ awaiting = {}

ClimateStill ==
    /\ preset = RestartTarget /\ mode = "cool" /\ target = RestartTarget /\ last = "cool"
    /\ guard = FALSE /\ supervisor = FALSE /\ carbonating = FALSE /\ delta = None
    /\ calls = Climate!Idle /\ booting = {} /\ faults = 0

FanStill ==
    /\ auto = FALSE /\ fanMode = "smart" /\ fanPolicy = "direct" /\ fanPending = None
    /\ power = "idle" /\ cooling = FALSE /\ context = "stable" /\ fan = "off"
    /\ previous = None /\ lastMode = None /\ left = None
    /\ idle = AfterRun /\ kept = FALSE

Init ==
    /\ Heat!Init /\ Hlt!Init
    /\ \/ part = "relay"   /\ Relay!Init /\ ClimateStill /\ FanStill
       \/ part = "climate" /\ RelayStill /\ Climate!Init /\ FanStill
       \/ part = "fan"     /\ RelayStill /\ ClimateStill /\ Fan!Init
       \/ part \in {"heat", "hlt"} /\ RelayStill /\ ClimateStill /\ FanStill

RelayOnly   == part = "relay" /\ UNCHANGED <<part, climateVars, fanVars, heatVars, hltVars>>
ClimateOnly == part = "climate" /\ UNCHANGED <<part, relayVars, fanVars, heatVars, hltVars>>
FanOnly     == part = "fan" /\ UNCHANGED <<part, relayVars, climateVars, heatVars, hltVars>>
HeatOnly    == part = "heat" /\ UNCHANGED <<part, relayVars, climateVars, fanVars, hltVars>>
HltOnly     == part = "hlt" /\ UNCHANGED <<part, relayVars, climateVars, fanVars, heatVars>>

(* The simulation's clock has reached its bound. *)
OutOfTime == HltOnly /\ clock = MaxClock /\ UNCHANGED hltVars

Next ==
    \/ RelayOnly /\ Relay!Next
    \/ ClimateOnly /\ Climate!Next
    \/ FanOnly /\ Fan!Next
    \/ HeatOnly /\ Heat!Next
    \/ HltOnly /\ Hlt!Next
    \/ OutOfTime

Fairness ==
    /\ WF_vars(ClimateOnly /\ Climate!Boot)
    /\ WF_vars(ClimateOnly /\ Climate!Reselected)
    /\ WF_vars(ClimateOnly /\ Climate!Supervise)
    /\ \A t \in Climate!Tasks : WF_vars(ClimateOnly /\ Climate!Call(t))

Spec == Init /\ [][Next]_vars /\ Fairness

TypeOK == Relay!TypeOK /\ Climate!TypeOK /\ Fan!TypeOK /\ Heat!TypeOK /\ Hlt!TypeOK
(* The kegerator's machines are spared: the compressor its minimum times   *)
(* and the fan's afterrun.                                                 *)
TimesAreKept == Relay!CyclesAreKept /\ Fan!AfterRunIsKept
SupervisedTargetSettles == Climate!SupervisedTargetSettles
(* What a mash tick keeps to: the cap on the strike water's heat, the      *)
(* strike's target until the brewer has come, and a quiet state's quiet.   *)
HeatKeepsItsBounds == Heat!StrikeHeatIsCapped /\ Heat!StrikeIsHeld /\ Heat!QuietOnlyLowers
DashboardIsTrue == Hlt!DashboardIsTrue
=============================================================================
