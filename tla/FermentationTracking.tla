------------------------ MODULE FermentationTracking ------------------------
(***************************************************************************)
(* The fermentation's record (fermentation_tracking/): settings and        *)
(* observations that services change, the SG a refractometer's Brix are    *)
(* corrected to, the store, and what says that the beer may be crashed.    *)
(* The provider of the temperature is SupervisedApply's; a reading on a    *)
(* refractometer's SG scale is the Brix it converts to.                    *)
(***************************************************************************)
EXTENDS RecordBounds, Integers, SequencesExt

Tolerance   == 10           \* DEFAULT_STABILITY_TOLERANCE
FgTolerance == 20           \* DEFAULT_FG_TOLERANCE
Plausible   == 9000..12000  \* valid_sg

VARIABLES
    runtime,  \* in memory: whether active, the settings, the observations
    stored,   \* on disk
    saving,   \* whether a call awaits the store
    taken     \* the readings accepted since the session or the program began (ghost)

trackingVars == <<runtime, stored, saving, taken>>

NoFermentation == [active |-> FALSE, config |-> CHOOSE c \in Configs : c.og = None, seen |-> <<>>]

Init == runtime = NoFermentation /\ stored = NoFermentation /\ saving = FALSE /\ taken = {}

-----------------------------------------------------------------------------
(* Observations. *)

IsGravity(r) == r.unit \in {"sg", "brix"}

(* The SG that is stored beside a reading. *)
Normalized(r, c) ==
    IF r.unit = "brix" THEN Corrected[<<c.og, c.factor, r.value>>] ELSE r.value

Observation(r, at, c) == [at |-> at, unit |-> r.unit, value |-> r.value, sg |-> Normalized(r, c)]

Newest(s) == SubSeq(s, IF Len(s) > MaxKept THEN Len(s) - MaxKept + 1 ELSE 1, Len(s))

KeptLast(s, at, new) == Newest(s \o new)

(* How many of the records, which are sorted by time, are not after it.    *)
NotAfter(s, at) == CHOOSE p \in 0..Len(s) : \A i \in DOMAIN s : s[i].at <= at <=> i <= p

(* Sorted by time, the older record first among equals.                    *)
Kept(s, at, new) ==
    LET p == NotAfter(s, at)
    IN  Newest(SubSeq(s, 1, p) \o new \o SubSeq(s, p + 1, Len(s)))

NeedsOg(s) == \E i \in DOMAIN s : s[i].unit = "brix"

(* The services refuse settings that do not fit together. *)
Accepted(c) == c.og # None /\ c.fg # None => c.og > c.fg

Recalculated(s, c) == [i \in DOMAIN s |-> [s[i] EXCEPT !.sg = Normalized(s[i], c)]]

-----------------------------------------------------------------------------
(* The services.  Each changes the memory and then awaits the store; that  *)
(* one call comes after the store of the last is no restriction: a crash   *)
(* leaves what was stored, as one before both calls would.                 *)

Served == ~saving /\ saving' = TRUE /\ UNCHANGED stored

Start ==
    /\ Served
    /\ \E c \in Configs : Accepted(c) /\ runtime' = [active |-> TRUE, config |-> c, seen |-> <<>>]
    /\ taken' = {}

UpdateKeepingSg ==
    /\ Served
    /\ \E c \in Configs :
         /\ Accepted(c)
         /\ c.og = None => ~NeedsOg(runtime.seen)
         /\ runtime' = [runtime EXCEPT !.config = c]
    /\ UNCHANGED taken
Update ==
    /\ Served
    /\ \E c \in Configs :
         /\ Accepted(c)
         /\ c.og = None => ~NeedsOg(runtime.seen)
         /\ runtime' = [runtime EXCEPT !.config = c, !.seen = Recalculated(runtime.seen, c)]
    /\ UNCHANGED taken

Record ==
    /\ Served
    /\ \E rs \in Records, at \in 0..MaxHour :
         /\ (\E r \in Range(rs) : r.unit = "brix") => runtime.config.og # None
         /\ Cardinality(taken) + Len(rs) <= MaxTaken
         /\ LET new == [i \in DOMAIN rs |-> Observation(rs[i], at, runtime.config)]
            IN  runtime' = [runtime EXCEPT !.seen = Kept(runtime.seen, at, new)]
         /\ taken' = taken \cup {[at |-> at, unit |-> r.unit, value |-> r.value] : r \in Range(rs)}

Reset ==
    /\ Served
    /\ runtime' = NoFermentation
    /\ taken' = {}

Save ==
    /\ saving /\ saving' = FALSE
    /\ stored' = runtime
    /\ UNCHANGED <<runtime, taken>>

(* An implausible SG is not read back. *)
ReadBack(o) == IsGravity(o) => o.sg \in Plausible

(* The records at the positions I, in their order. *)
Chosen(s, I) ==
    LET nth(n) == CHOOSE i \in I : Cardinality({j \in I : j <= i}) = n
    IN  [n \in 1..Cardinality(I) |-> s[nth(n)]]

Loaded(t) == [t EXCEPT !.seen = Chosen(t.seen, {i \in DOMAIN t.seen : ReadBack(t.seen[i])})]

Restart ==
    /\ runtime' = Loaded(stored) /\ saving' = FALSE
    /\ taken' = {[at |-> o.at, unit |-> o.unit, value |-> o.value] : o \in Range(runtime'.seen)}
    /\ UNCHANGED stored

Next == Start \/ Update \/ Record \/ Reset \/ Save \/ Restart

-----------------------------------------------------------------------------
(* The snapshot. *)

At(i) == runtime.seen[i].at

(* Where the gravities are among the observations. *)
Gravities == {i \in DOMAIN runtime.seen : IsGravity(runtime.seen[i])}

(* They, from the last one before the stable time onward. *)
StableWindow ==
    LET Older == {i \in Gravities : At(i) < At(Max(Gravities)) - runtime.config.hours}
    IN  {i \in Gravities : \A j \in Older : j <= i}

Stable ==
    /\ Cardinality(Gravities) >= 2
    /\ At(Max(StableWindow)) - At(Min(StableWindow)) >= runtime.config.hours
    /\ \A i, j \in StableWindow : runtime.seen[i].sg - runtime.seen[j].sg <= Tolerance

(* The first record of the newest time. *)
Manual ==
    IF Gravities = {} THEN None
    ELSE runtime.seen[Min({i \in Gravities : At(i) = At(Max(Gravities))})]

(* The sensor's reading and the newest record, as the mode resolves them. *)
CurrentSg(sensor) ==
    IF runtime.config.mode = "manual" \/ (sensor = None /\ runtime.config.mode = "hybrid")
    THEN Manual
    ELSE IF runtime.config.mode = "hybrid" /\ Manual # None /\ Manual.at >= sensor.at THEN Manual
    ELSE sensor

ReadyForColdCrash(sensor) ==
    /\ runtime.active /\ Stable
    /\ CurrentSg(sensor) # None /\ runtime.config.fg # None
    /\ CurrentSg(sensor).sg <= runtime.config.fg + FgTolerance

-----------------------------------------------------------------------------
TypeOK ==
    /\ runtime.config \in Configs /\ stored.config \in Configs
    /\ Len(runtime.seen) <= MaxKept /\ Len(stored.seen) <= MaxKept
    /\ \A i, j \in DOMAIN runtime.seen : i < j => runtime.seen[i].at <= runtime.seen[j].at

(* A beer is called ready for its cold crash only by readings of this      *)
(* session that span the stable time and, corrected with the settings in   *)
(* force, lie within the tolerance, every reading that was ever accepted   *)
(* for that time among them: over back-dated records, the limit of what is *)
(* kept, changed settings that may be refused, and restarts.               *)
ReadyIsEarned ==
    LET readings == {r \in taken : IsGravity(r) /\ (runtime.config.og = None => r.unit = "sg")}
        Apart(r, q) == Normalized(r, runtime.config) - Normalized(q, runtime.config)
        hours == runtime.config.hours
    IN  \A sensor \in Sensors : ReadyForColdCrash(sensor) =>
          \E first, last \in readings :
            /\ last.at - first.at >= hours
            /\ \A r \in readings : r.at <= last.at
            /\ \A r, q \in {first} \cup {r \in readings : r.at > last.at - hours} :
                 Apart(r, q) <= Tolerance
=============================================================================
