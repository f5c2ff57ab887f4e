------------------------------ MODULE MashProbe ------------------------------
(***************************************************************************)
(* Which thermometer is the mash (brewzilla_temperature.py and             *)
(* brewzilla_temperature_roles.py). A probe that hangs in the mash is      *)
(* reported beside BrewZilla's own; one that is not there may repeat       *)
(* BrewZilla's own value. Two resolvers run: the first, with a latch, for  *)
(* those who took its name before it was replaced (learning and the        *)
(* hot-side contract, which regulate), the second for those who look it up *)
(* (readiness, the fail-passive guard, the entities). The fail-passive     *)
(* guard has put its own resolver around the first one's choice.           *)
(* BrewZilla's own value is recent whenever there is one; sparge and       *)
(* pre-boil are not told apart from the mash.                              *)
(***************************************************************************)
EXTENDS RecordBounds, FiniteSetsExt

Probes == {"ble", "control"}
Order == [auto |-> <<"ble", "control", "internal">>, ble |-> <<"ble", "internal">>,
          control |-> <<"control", "internal">>, internal |-> <<"internal">>]
Settled == {"boil", "after"}    \* from the boil on, by the names of stage and step

(* A reading of a probe: up to 90 s, up to 180 s old or older; a value     *)
(* apart from BrewZilla's own, an alias of it, or equal by its own report. *)
Old == [age |-> "stale", kind |-> "alias"]
Readings == [age : {"fresh", "old"}, kind : {"apart", "alias", "plain"}] \cup {Old}

VARIABLES
    reading,  \* of each probe: a reading, or None
    inside,   \* whether BrewZilla's own temperature is readable
    choice,   \* the operator's select
    where,    \* where the brewday is: its state, its step, RAPT's profile in the boil
    lock,     \* latched_auto_entity
    verified, \* verified_external_entities
    process,  \* the mash of the last snapshot by the first resolver
    mine,     \* the probe that this stretch of ownership began with (ghost)
    proved    \* the probes that ever were usable and no alias (ghost)

sights == <<reading, inside, choice, where>>
probeVars == <<sights, lock, verified, process, mine, proved>>

Init ==
    /\ reading = [p \in Probes |-> None] /\ inside = TRUE /\ choice = "auto"
    /\ where \in Spots
    /\ lock = None /\ verified = {} /\ process = None
    /\ mine = None /\ proved = {}

(* One thing that a snapshot reads changes.                                *)
Change ==
    /\ \/ /\ \E p \in Probes, r \in Readings \cup {None} : reading' = [reading EXCEPT ![p] = r]
          /\ UNCHANGED <<inside, choice, where>>
       \/ inside' = ~inside /\ UNCHANGED <<reading, choice, where>>
       \/ choice' \in DOMAIN Order /\ UNCHANGED <<reading, inside, where>>
       \/ where' \in Spots /\ UNCHANGED <<reading, inside, choice>>
    /\ \A p \in Probes : reading'[p] # None /\ reading'[p].kind = "apart" => inside'
    /\ UNCHANGED <<lock, verified, process, mine, proved>>

-----------------------------------------------------------------------------
(* What both resolvers read.                                               *)

Owned == where.state = "active" /\ where.step \notin Settled

Boiling == where.profile \/ (where.state # "idle" /\ where.step = "boil")

Usable(p) == reading[p] # None /\ reading[p].age # "stale"
Apart(p)  == Usable(p) /\ reading[p].kind = "apart"
Alias(p)  == reading[p].kind = "alias"

Foremost(order, Fit(_)) ==
    LET fit == {i \in DOMAIN order : Fit(order[i])}
    IN  IF fit = {} THEN None ELSE order[Min(fit)]

-----------------------------------------------------------------------------
(* The first resolver.                                                     *)

Eligible(c) ==
    IF c = "internal" THEN inside ELSE Usable(c) /\ (choice = "auto" => ~Alias(c))

Resolved == Foremost(Order[choice], Eligible)

(* Mutant: a probe that repeats BrewZilla's own is remembered too.         *)
RememberedOnceUsable == verified \cup {p \in Probes : Usable(p)}

(* A probe that once was apart is no alias for the rest of the run.        *)
Remembered == verified \cup {p \in Probes : Apart(p)}

(* Mutant: the latched probe must still be one that is no alias.           *)
KeepsIfEligible(p) == Eligible(p)
Keeps(p) == Usable(p)

(* With no probe of its own yet, ownership takes an eligible one, or one   *)
(* that once was apart.                                                    *)
Taken ==
    LET Proven(p) == p \in Remembered /\ Usable(p)
    IN  IF Resolved \in Probes THEN Resolved ELSE Foremost(<<"ble", "control">>, Proven)

(* Mutant: the resolver without the guard around it.                       *)
Unguarded == Resolved

(* What the latch's probe leaves when it is not usable: its fallback is    *)
(* what is eligible, which the fail-passive guard takes away again.        *)
InGap == None

BoilSnapshot ==
    /\ Boiling
    /\ lock' = None /\ process' = IF inside THEN "internal" ELSE None
    /\ UNCHANGED verified

FreeSnapshot ==
    /\ ~Boiling /\ ~(choice = "auto" /\ Owned)
    /\ lock' = None /\ process' = Resolved /\ verified' = Remembered

OwnedSnapshot ==
    /\ ~Boiling /\ choice = "auto" /\ Owned
    /\ verified' = Remembered
    /\ \/ lock # None /\ Keeps(lock) /\ process' = lock /\ UNCHANGED lock
       \/ lock # None /\ ~Keeps(lock) /\ process' = InGap /\ UNCHANGED lock
       \/ lock = None /\ Taken # None /\ lock' = Taken /\ process' = Taken
       \/ lock = None /\ Taken = None /\ process' = Resolved /\ UNCHANGED lock

Stretch == Owned /\ ~Boiling /\ choice = "auto"

Snapshot ==
    /\ BoilSnapshot \/ FreeSnapshot \/ OwnedSnapshot
    /\ mine' = IF ~Stretch THEN None ELSE IF mine = None /\ process' \in Probes THEN process' ELSE mine
    /\ proved' = proved \cup {p \in Probes : Usable(p) /\ ~Alias(p)}
    /\ UNCHANGED sights

(* Latch and memory of the probes are lost.                                *)
Restart ==
    /\ lock' = None /\ verified' = {} /\ process' = None
    /\ mine' = None /\ proved' = {}
    /\ UNCHANGED sights

Next == Change \/ Snapshot \/ Restart

-----------------------------------------------------------------------------
(* What the advice, and the heat that follows it, takes for the            *)
(* temperature in strike and mash.                                         *)
Advised == IF process # None THEN process ELSE IF inside THEN "internal" ELSE None

(* The second resolver, and the guard that looks at it.                    *)

Fit(c) == IF c = "internal" THEN inside ELSE Usable(c) /\ ~Alias(c)

Shown ==
    IF Boiling THEN (IF inside THEN "internal" ELSE None) ELSE Foremost(Order[choice], Fit)

(* The temperatures that make the fail-passive guard stop new writes. It   *)
(* also asks for a lock and for the ownership, which this resolver does    *)
(* not report. Before Mash-In the hot-side contract tells it of the gap.   *)
Passive ==
    \/ Boiling /\ Shown = None
    \/ Shown \in Probes /\ reading[Shown].age = "old"
    \/ where.step = "strike" /\ process = None

-----------------------------------------------------------------------------
TypeOK ==
    /\ reading \in [Probes -> Readings \cup {None}] /\ where \in Spots
    /\ lock \in Probes \cup {None} /\ mine \in Probes \cup {None}
    /\ process \in Probes \cup {"internal", None}
    /\ verified \subseteq proved

(* From Heat strike to the boil, with the select on Auto, the probe that   *)
(* was taken for the mash is the mash in every snapshot that finds it      *)
(* usable, however close it comes to BrewZilla's own thermometer; in its   *)
(* gaps the mash is unknown and no other thermometer's, so that the same   *)
(* probe resumes; and nothing that only ever repeated BrewZilla's own is   *)
(* taken for the mash.                                                     *)
ProbeIsKept ==
    [][Snapshot =>
         /\ Stretch /\ mine # None => process' = IF Usable(mine) THEN mine ELSE None
         /\ choice = "auto" /\ process' \in Probes => process' \in proved']_probeVars

(* docs/backends/brewzilla-backend.md:88: while the owned probe is         *)
(* degraded BrewZilla's own thermometer does not decide that the target is *)
(* reached; the fail-passive guard (line 66) means to be passive then.     *)
OwnNeverDecides ==
    [][Snapshot /\ Stretch /\ mine # None /\ ~Usable(mine) /\ Advised' = "internal"
         => Passive']_probeVars
=============================================================================
