---------------------------- MODULE MCStartGate ----------------------------
(***************************************************************************)
(* StartGate on two sessions: enough for a session that replaces the one   *)
(* START confirmed, while START, ABORT and REARM each run once at a time.  *)
(* Beside it, in the same run, the mash's thermometer, the brewing advice, *)
(* the records of the equipment, the fermenter and the fermentation, each  *)
(* in an environment that does whatever the others could. The corrected SG *)
(* are the formula's.                                                      *)
(***************************************************************************)
EXTENDS StartGate, RecordBounds, TLC

CONSTANTS s1, s2

TwoSessions == {s1, s2}

Place(state, step, profile) == [state |-> state, step |-> step, profile |-> profile]
MCSpots ==
    {Place("active", "strike", FALSE), Place("active", "mash", FALSE), Place("active", "mash", TRUE),
     Place("lost", "mash", FALSE), Place("lost", "boil", FALSE)}

Scene(words, owned, water, recipe) ==
    [words |-> words, profile |-> FALSE, strike |-> TRUE, active |-> TRUE, owned |-> owned,
     manual |-> ~owned, water |-> water, entered |-> {"grain"}, recipe |-> recipe]
MCScenes ==
    {Scene({"ramp", "hold"}, FALSE, TRUE, {"water"}), Scene({"ramp"}, TRUE, FALSE, {"grain"}),
     Scene({"hold"}, FALSE, FALSE, {}), Scene({"boil", "ramp"}, FALSE, FALSE, {})}
MCDevices ==
    {[heat |-> 42, heater |-> TRUE, pump |-> TRUE, flow |-> 30],
     [heat |-> 100, heater |-> FALSE, pump |-> FALSE, flow |-> 0]}

MCViews == {[key |-> "ramp", sight |-> 1], [key |-> "ramp", sight |-> 2], [key |-> "hold", sight |-> 3]}

Settings(og, mode) == [og |-> og, fg |-> 10090, factor |-> 104, hours |-> 2, mode |-> mode]
MCConfigs == {Settings(None, "hybrid"), Settings(10500, "hybrid"), Settings(10600, "manual")}
Hydrometer == [unit |-> "sg", value |-> 10100]
Brix(v) == [unit |-> "brix", value |-> v]
MCRecords ==
    {<<Hydrometer>>, <<Brix(60)>>, <<Brix(300)>>, <<Hydrometer, [unit |-> "c", value |-> 18]>>}
MCCorrected ==
    (<<10500, 104, 60>> :> 10105) @@ (<<10500, 104, 300>> :> 17734) @@
    (<<10600, 104, 60>> :> 10080) @@ (<<10600, 104, 300>> :> 17710)
MCSensors == {None, [at |-> 2, sg |-> 10100]}

VARIABLES part,
    reading, inside, choice, where, lock, verified, process, mine, proved,
    scene, device, report, quiet, clock, last, previous, rate, pending, denied, notified, onScreen,
    call, sound, changes,
    view, model, disk, setup, task, savingModel, written,
    runtime, stored, saving, taken,
    hour, pill, observations, kept, saves

Probe  == INSTANCE MashProbe
Advice == INSTANCE LearningAdvice
Kit    == INSTANCE EquipmentLearning WITH saving <- savingModel
Beer   == INSTANCE FermentationTracking
Pairing == INSTANCE FermenterPreflight

probeVars == <<reading, inside, choice, where, lock, verified, process, mine, proved>>
adviceVars ==
    <<scene, device, report, quiet, clock, last, previous, rate, pending, denied, notified, onScreen,
      call, sound, changes>>
kitVars == <<view, model, disk, setup, task, savingModel, written>>
beerVars == <<runtime, stored, saving, taken>>
pairVars == <<hour, pill, observations, kept, saves>>
allVars == <<part, vars, probeVars, adviceVars, kitVars, beerVars, pairVars>>

(* The advice starts where it is most often given, in the ramp to mash.    *)
AllInit ==
    /\ part \in Parts
    /\ Init /\ Kit!Init /\ Beer!Init /\ Pairing!Init
    /\ Probe!Init /\ (part # "probe" => where = Place("active", "mash", FALSE))
    /\ Advice!Init /\ scene.water /\ device.heat = 42

GateOnly == part = "gate" /\ UNCHANGED <<part, probeVars, adviceVars, kitVars, beerVars, pairVars>>
ProbeOnly == part = "probe" /\ UNCHANGED <<part, vars, adviceVars, kitVars, beerVars, pairVars>>
AdviceOnly == part = "advice" /\ UNCHANGED <<part, vars, probeVars, kitVars, beerVars, pairVars>>
KitOnly == part = "kit" /\ UNCHANGED <<part, vars, probeVars, adviceVars, beerVars, pairVars>>
BeerOnly == part = "beer" /\ UNCHANGED <<part, vars, probeVars, adviceVars, kitVars, pairVars>>
PairOnly == part = "pair" /\ UNCHANGED <<part, vars, probeVars, adviceVars, kitVars, beerVars>>

AllNext ==
    \/ GateOnly /\ Next
    \/ ProbeOnly /\ Probe!Next
    \/ AdviceOnly /\ Advice!Next
    \/ KitOnly /\ Kit!Next
    \/ BeerOnly /\ Beer!Next
    \/ PairOnly /\ Pairing!Next

AllSpec == AllInit /\ [][AllNext]_allVars

(* The types of the parts beside the gate.                                 *)
RecordTypesOK == Probe!TypeOK /\ Advice!TypeOK /\ Kit!TypeOK /\ Beer!TypeOK /\ Pairing!TypeOK

(* The types of the gate and of the parts beside it.                       *)
AllTypesOK == TypeOK /\ RecordTypesOK

ProbeIsKept == Probe!ProbeIsKept
OwnNeverDecides == Probe!OwnNeverDecides
AdviceIsTrue == Advice!AdviceIsTrue
(* What is recorded earns what is made of it: the equipment's evidence is  *)
(* kept, the fermenter's rests on different reports of the Pill, and the   *)
(* beer is ready only by readings that say so.                             *)
EvidenceIsEarned == Kit!EvidenceIsKept /\ Pairing!LearningIsEarned /\ Beer!ReadyIsEarned
=============================================================================
