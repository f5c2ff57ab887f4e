------------------------- MODULE FermenterPreflight -------------------------
(***************************************************************************)
(* The GF30's thermal preflight (grainfather_fermenter/preflight_runtime,  *)
(* learning, thermal): the operator enters what a reference thermometer    *)
(* showed and when, each entry is paired with what the Pill's entity shows *)
(* at that moment, and the pairs that were both fresh are the evidence.    *)
(* A time unit is 15 minutes. Temperatures, differences and rates are      *)
(* display; the Pill's value counts as missing when it is implausible, and *)
(* an entry that is not evidence only takes its place.                     *)
(***************************************************************************)
EXTENDS RecordBounds, Integers

Fresh == 1    \* the age up to which an observation is fresh
MinSpan == 4  \* the span of time that observational evidence covers

VARIABLES
    hour,         \* the time
    pill,         \* the Pill's entity: its last update, None without a plausible value
    observations, \* the entries in memory
    kept,         \* the stored ones
    saves         \* whether a save is under way

preflightVars == <<hour, pill, observations, kept, saves>>

Init == hour = 0 /\ pill = None /\ observations = <<>> /\ kept = <<>> /\ saves = FALSE

(* The entity reports, or becomes unreadable.                              *)
Report ==
    /\ pill' \in {hour, None}
    /\ UNCHANGED <<hour, observations, kept, saves>>

Pass == hour < MaxQuarter /\ hour' = hour + 1 /\ UNCHANGED <<pill, observations, kept, saves>>

(* A time ahead of the clock is not fresh.                                 *)
IsFresh(at) == at <= hour /\ hour - at <= Fresh

(* Mutant: the Pill's value counts for as long as it stands.               *)
PairedByValue(manualAt) ==
    IF pill # None /\ IsFresh(manualAt) THEN [at |-> manualAt, pill |-> pill] ELSE None

(* What is evidence of an entry and the Pill beside it.                    *)
Paired(manualAt) ==
    IF pill # None /\ IsFresh(pill) /\ IsFresh(manualAt) THEN [at |-> manualAt, pill |-> pill] ELSE None

Trimmed(s) == IF Len(s) > MaxPairs THEN SubSeq(s, Len(s) - MaxPairs + 1, Len(s)) ELSE s

(* The service: an entry may be dated back, or ahead. The operator enters  *)
(* the next one when this one is stored.                                   *)
Record ==
    /\ ~saves
    /\ \E manualAt \in {a \in 0..hour + 1 : a + 2 >= hour} :
         observations' = Trimmed(Append(observations, Paired(manualAt)))
    /\ saves' = TRUE
    /\ UNCHANGED <<hour, pill, kept>>

(* Mutant: the history is only cleared in memory.                          *)
ClearMemory ==
    /\ observations' = <<>> /\ UNCHANGED <<hour, pill, kept, saves>>

Clear ==
    /\ observations' = <<>> /\ saves' = TRUE /\ UNCHANGED <<hour, pill, kept>>

(* A save writes what was last given to it.                                *)
Save == saves /\ kept' = observations /\ saves' = FALSE /\ UNCHANGED <<hour, pill, observations>>

(* The entries are loaded before anything else; the Pill's entity is added *)
(* anew and keeps its value or not.                                        *)
Restart ==
    /\ observations' = Trimmed(kept) /\ saves' = FALSE
    /\ pill' \in {None} \cup (IF pill = None THEN {} ELSE {hour})
    /\ UNCHANGED <<hour, kept>>

Next == Report \/ Pass \/ Record \/ Clear \/ Save \/ Restart

Spec == Init /\ [][Next]_preflightVars

-----------------------------------------------------------------------------
(* The entries that are evidence.                                          *)
Pairs == {observations[i] : i \in {j \in DOMAIN observations : observations[j] # None}}
Count == Len(SelectSeq(observations, LAMBDA e : e # None))
Spans(times, span) == \E a, b \in times : a - b >= span

(* Mutant: the number of pairs decides.                                    *)
ConfidenceByNumber ==
    CASE Count = 0 -> "none"
      [] Count > 0 /\ Count < FewPairs -> "insufficient"
      [] Count >= FewPairs /\ Count < EnoughPairs -> "early"
      [] OTHER -> "observational"

Confidence ==
    CASE Count = 0 -> "none"
      [] Count > 0 /\ Count < FewPairs -> "insufficient"
      [] Count >= EnoughPairs /\ Spans({e.at : e \in Pairs}, MinSpan) -> "observational"
      [] OTHER -> "early"

Entry == [at : 0..MaxQuarter, pill : 0..MaxQuarter] \cup {None}
IsHistory(s) == Len(s) <= MaxPairs /\ \A i \in DOMAIN s : s[i] \in Entry

TypeOK ==
    /\ hour \in 0..MaxQuarter /\ pill \in 0..MaxQuarter \cup {None}
    /\ IsHistory(observations) /\ IsHistory(kept) /\ saves \in BOOLEAN

(* However entries are dated, cleared, dropped and restored: evidence that *)
(* is called observational rests on two updates of the Pill that are apart *)
(* by the span less what freshness allows on both sides, never on one      *)
(* value looked at often; and what a finished save left is the memory.     *)
LearningIsEarned ==
    /\ Confidence = "observational" =>
         Spans({e.pill : e \in Pairs}, MinSpan - 2 * Fresh)
    /\ ~saves => kept = observations
=============================================================================
