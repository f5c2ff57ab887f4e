---------------------------- MODULE RecordBounds ----------------------------
(***************************************************************************)
(* The constants of the mash's thermometer, the brewing advice and the     *)
(* records of the equipment, the fermenter and the fermentation, which one *)
(* run checks side by side.                                                *)
(***************************************************************************)
EXTENDS Naturals, Sequences

CONSTANTS
    None,
    Parts,      \* the parts that a run checks
    \* MashProbe
    Spots,      \* where the brewday may be: [state, step, profile]
    \* LearningAdvice: temperatures in 0.1 C, a time unit of 15 minutes
    Scenes,     \* where the brewday may be, and what is known of the batch
    Devices,    \* what the BrewZilla may be set to: [heat, heater, pump, flow]
    Temps,      \* what a thermometer may report
    Target,     \* the target temperature
    MaxClock,   \* bound: time
    MaxChanges, \* bound: changes of what the advice is built from
    MaxDenied,  \* bound: advices that are denied
    \* EquipmentLearning
    Views,      \* what an observation may see: [key, sight]
    SaveEvery,  \* AUTO observations between two saves
    MaxRecent,  \* recent observations that are kept
    MaxTotal,   \* bound: observations
    \* FermenterPreflight, a time unit of 15 minutes
    MaxPairs,   \* entries that are kept
    FewPairs,   \* pairs below which evidence is insufficient
    EnoughPairs,\* pairs below which evidence is early
    MaxQuarter, \* bound: time
    \* FermentationTracking, SG in units of 0.0001
    Configs,    \* settings of a fermentation
    Records,    \* what one record of it holds: readings with one time
    Corrected,  \* SG of a refractometer's reading: [<<og, factor, brix>> -> sg]
    Sensors,    \* what the gravity sensor may read
    MaxKept,    \* observations that are kept
    MaxHour,    \* bound: times of the records
    MaxTaken    \* bound: observations that are accepted

ASSUME SpotsAssumption ==
    /\ None \notin {"ble", "control", "internal"}
    /\ Spots \subseteq [state : {"active", "lost", "idle"}, step : {"strike", "mash", "boil", "after"},
                         profile : BOOLEAN]

ASSUME AdviceAssumption ==
    /\ Scenes \subseteq
         [words : SUBSET {"cooling", "boil", "ramp", "hold"}, profile : BOOLEAN, strike : BOOLEAN,
          active : BOOLEAN, owned : BOOLEAN, manual : BOOLEAN, water : BOOLEAN,
          entered : SUBSET {"grain", "water"}, recipe : SUBSET {"grain", "water"}]
    /\ Devices \subseteq [heat : 0..100, heater : BOOLEAN, pump : BOOLEAN, flow : 0..100]
    /\ Temps \subseteq Nat /\ {Target, MaxClock, MaxChanges, MaxDenied} \subseteq Nat

ASSUME EquipmentAssumption ==
    /\ SaveEvery \in Nat \ {0} /\ {MaxRecent, MaxTotal} \subseteq Nat
    /\ None \notin Views
    /\ None \notin [total : Nat, counts : [{v.key : v \in Views} -> Nat],
                     sight : {v.sight : v \in Views} \cup {None}, recent : Nat]

ASSUME PreflightAssumption ==
    /\ {FewPairs, EnoughPairs, MaxQuarter} \subseteq Nat /\ MaxPairs \in Nat \ {0}
    /\ 1 < FewPairs /\ FewPairs <= EnoughPairs

ASSUME FermentationAssumption ==
    /\ \E c \in Configs : c.og = None
    /\ \A c \in Configs : c.hours \in Nat
    /\ \A rs \in Records : rs \in Seq([unit : {"sg", "brix", "c"}, value : Nat])
    /\ MaxKept \in Nat \ {0} /\ {MaxHour, MaxTaken} \subseteq Nat
=============================================================================
