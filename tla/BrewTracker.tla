----------------------------- MODULE BrewTracker -----------------------------
(***************************************************************************)
(* Brewfather's BrewTracker as BA sees it. The tracker runs in the cloud;  *)
(* BA has entities that are refreshed now and then, on BA's request or by  *)
(* the service's own poll. Between two snapshots BA goes on by itself: the *)
(* remaining time less the snapshot's age says which step is on. A batch   *)
(* owns the hot side only when its tracker has been started, which BA      *)
(* remembers for the tracker's identity. A ramp that has not reached its   *)
(* temperature holds the step back.                                        *)
(*                                                                         *)
(* One tick is BA's shortest refresh interval (15 s). The entities of one  *)
(* update are read together; ABORT, which outranks the ownership, is left  *)
(* to StartGate, and what a stale snapshot leads to, to RaptSource.        *)
(***************************************************************************)
EXTENDS BrewdayBounds

VARIABLES
    truth,     \* the tracker: batch, phase, stage, step, time left, paused
    played,    \* the batches whose tracker has been started (for the properties)
    snap,      \* the entities' copy of truth
    age,       \* its age
    held,      \* the tracker has paused since (for the properties)
    warm,      \* the kettle has reached the step's temperature
    latch,     \* BA: identity and whether its tracker has been started
    asked,     \* a refresh is requested
    since,     \* ticks since the last one, or None
    burst,     \* how many the awaited snapshot has got
    opened,    \* ticks since the first of them, or None
    manual     \* ticks since the operator's last one, or None

vars == <<truth, played, snap, age, held, warm, latch, asked, since, burst, opened, manual>>
policy == <<since, burst, opened, manual>>

Length(s) == Recipe[s][1].at
Parked(b) == [batch |-> b, phase |-> "brewing", stage |-> 1, step |-> 1,
              left |-> Length(1), paused |-> TRUE]
NoBatch == [batch |-> None, phase |-> "inactive", stage |-> 1, step |-> 1,
            left |-> 0, paused |-> TRUE]

Init ==
    /\ truth = NoBatch /\ played = {} /\ snap = NoBatch /\ age = 0 /\ held = FALSE
    /\ warm = FALSE /\ latch = [id |-> None, started |-> FALSE] /\ asked = FALSE
    /\ since = None /\ burst = 0 /\ opened = None /\ manual = None

Later(t, max) == IF t = None THEN None ELSE IF t < max THEN t + 1 ELSE t

-----------------------------------------------------------------------------
(* What BA makes of a snapshot                                             *)

Steps(v) == Recipe[v.stage]
Running(v) == v.phase = "brewing" /\ ~v.paused

(* The stage's time left: only a running one goes on without a snapshot.   *)
Left == IF snap.paused THEN snap.left
        ELSE IF snap.left > age THEN snap.left - age ELSE 0

(* Mutant: a step begins after its time, not at it.                        *)
ResolvedAfter ==
    LET begun == {i \in DOMAIN Steps(snap) : Steps(snap)[i].at > Left}
    IN IF snap.paused \/ begun = {} THEN snap.step
       ELSE CHOOSE i \in begun : \A j \in begun : j <= i

(* The last step that has begun; a paused tracker names it itself.         *)
Resolved ==
    LET begun == {i \in DOMAIN Steps(snap) : Steps(snap)[i].at >= Left}
    IN IF snap.paused \/ begun = {} THEN snap.step
       ELSE CHOOSE i \in begun : \A j \in begun : j <= i

StepLeft == IF Resolved = Len(Steps(snap)) THEN Left
            ELSE Left - Steps(snap)[Resolved + 1].at

LastStage == snap.stage = Len(Recipe)
Completed == Running(snap) /\ LastStage /\ Left = 0
Awaiting == Running(snap) /\ ~LastStage /\ Left = 0

(* The published step is a ramp that has not got there.                    *)
RampHolds == Steps(snap)[snap.step].ramp /\ ~warm
Shown == IF RampHolds THEN snap.step ELSE Resolved

-----------------------------------------------------------------------------
(* Who owns the hot side                                                   *)

Prestart ==
    /\ snap.paused /\ snap.stage = 1 /\ snap.step = 1 /\ snap.left = Length(1)

StartedEvidence ==
    \/ ~snap.paused
    \/ snap.stage > 1 \/ snap.step > 1
    \/ snap.left < Length(snap.stage)

(* Mutant: the memory is not for one batch.                                *)
BuildAnyBatch ==
    /\ snap.phase = "brewing"
    /\ latch' = [id |-> snap.batch, started |-> latch.started \/ (~Prestart /\ StartedEvidence)]
    /\ UNCHANGED <<truth, played, snap, age, held, warm, asked, policy>>

(* Any of BA's builds asks who owns, and remembers. In another phase the   *)
(* memory is left alone.                                                   *)
Build ==
    /\ snap.phase = "brewing"
    /\ LET known == IF latch.id = snap.batch THEN latch.started ELSE FALSE
       IN latch' = [id |-> snap.batch, started |-> known \/ (~Prestart /\ StartedEvidence)]
    /\ UNCHANGED <<truth, played, snap, age, held, warm, asked, policy>>

Owned == snap.phase = "brewing" /\ latch = [id |-> snap.batch, started |-> TRUE]

-----------------------------------------------------------------------------
(* Refreshing the entities                                                 *)

(* Mutant: a burst that has been spent is spent for good.                  *)
BurstOf == IF Awaiting THEN burst ELSE 0

(* The burst so far, if it still counts.                                   *)
Spent == IF ~Awaiting \/ (opened # None /\ opened > Window) THEN 0 ELSE burst

EndsSoon == StepLeft <= Interval
Due ==
    /\ Owned /\ ~Completed
    /\ since # None => since >= (IF Awaiting \/ EndsSoon THEN 1 ELSE Interval)
    /\ ~(Awaiting /\ Spent >= BurstMax)

Performed(awaited) ==
    /\ since' = 0 /\ asked' = TRUE
    /\ IF ~awaited THEN burst' = 0 /\ opened' = None
       ELSE IF opened = None \/ opened > Window THEN burst' = 1 /\ opened' = 0
       ELSE burst' = burst + 1 /\ UNCHANGED opened

(* BA's coordinator asks when the policy says so.                          *)
Refresh ==
    /\ Due /\ Performed(Awaiting) /\ UNCHANGED manual
    /\ UNCHANGED <<truth, played, snap, age, held, warm, latch>>

(* The operator's button.                                                  *)
ForceRefresh ==
    /\ manual # None => manual >= Cooldown
    /\ manual' = 0 /\ Performed(FALSE)
    /\ UNCHANGED <<truth, played, snap, age, held, warm, latch>>

(* An update of the entities. The same data again is no update.            *)
Publish ==
    /\ snap' = truth
    /\ IF truth = snap THEN UNCHANGED <<age, held>> ELSE age' = 0 /\ held' = FALSE
    /\ UNCHANGED <<truth, played, warm, latch, policy>>

Answer == asked /\ asked' = FALSE /\ Publish   \* to BA's request
Poll == UNCHANGED asked /\ Publish             \* the service's own

-----------------------------------------------------------------------------
(* The tracker                                                             *)

World == UNCHANGED <<snap, latch, asked, policy, age>>

(* A batch is planned, brewed, and leaves for the fermenter.               *)
Batch ==
    /\ \/ /\ truth.phase # "brewing" /\ \E b \in Batches :
             /\ truth.batch # b /\ b \notin played
             /\ truth' = [NoBatch EXCEPT !.batch = b, !.phase = "planning"]
       \/ truth.phase = "planning" /\ truth' = Parked(truth.batch)
       \/ /\ truth.phase = "brewing" /\ truth.batch \in played
          /\ truth' = [NoBatch EXCEPT !.batch = truth.batch, !.phase = "fermenting"]
    /\ warm' = FALSE /\ UNCHANGED <<played, held>> /\ World

(* Play; from a step before which the tracker waits, too.                  *)
Play ==
    /\ truth.phase = "brewing" /\ truth.paused
    /\ truth' = [truth EXCEPT !.paused = FALSE,
                    !.step = IF @ < Len(Steps(truth)) /\ Steps(truth)[@ + 1].at = truth.left
                             THEN @ + 1 ELSE @]
    /\ played' = played \cup {truth.batch}
    /\ UNCHANGED <<held, warm>> /\ World

Pause ==
    /\ Running(truth) /\ truth' = [truth EXCEPT !.paused = TRUE] /\ held' = TRUE
    /\ UNCHANGED <<played, warm>> /\ World

(* The next stage, which waits for the brewer if its first step does.      *)
NextStage ==
    /\ Running(truth) /\ truth.left = 0 /\ truth.stage < Len(Recipe)
    /\ truth' = [truth EXCEPT !.stage = @ + 1, !.step = 1, !.left = Length(truth.stage + 1),
                              !.paused = Recipe[truth.stage + 1][1].waits]
    /\ held' = TRUE /\ warm' = FALSE
    /\ UNCHANGED played /\ World

(* The kettle, in a ramp.                                                  *)
Heat ==
    /\ Running(truth) /\ Steps(truth)[truth.step].ramp /\ warm' = ~warm
    /\ UNCHANGED <<truth, played, held>> /\ World

(* Time: the tracker goes on step by step.                                 *)
Runs(left) ==
    IF truth.step < Len(Steps(truth)) /\ Steps(truth)[truth.step + 1].at = left
    THEN [truth EXCEPT !.left = left, !.step = @ + 1,
                       !.paused = Steps(truth)[truth.step + 1].waits]
    ELSE [truth EXCEPT !.left = left]

Tick ==
    /\ truth' = IF Running(truth) /\ truth.left > 0 THEN Runs(truth.left - 1) ELSE truth
    /\ held' = (held \/ (truth'.paused /\ ~truth.paused))
    /\ age' = Later(age, MaxAge) /\ since' = Later(since, Interval)
    /\ opened' = Later(opened, Window + 1) /\ manual' = Later(manual, Cooldown)
    /\ UNCHANGED <<played, snap, warm, latch, asked, burst>>

Next ==
    \/ Build \/ Refresh \/ ForceRefresh \/ Answer \/ Poll
    \/ Batch \/ Play \/ Pause \/ NextStage \/ Heat \/ Tick

(* BA's builds and its coordinator run, a request is answered, time passes.*)
Fairness == WF_vars(Build) /\ WF_vars(Refresh) /\ WF_vars(Answer) /\ WF_vars(Tick)

Spec == Init /\ [][Next]_vars /\ Fairness

-----------------------------------------------------------------------------
(* Properties                                                              *)

TypeOK ==
    /\ snap.batch \in Batches \cup {None} /\ truth.batch \in Batches \cup {None}
    /\ latch.id \in Batches \cup {None} /\ latch.started \in BOOLEAN
    /\ burst \in 0 .. BurstMax /\ since \in 0 .. Interval \cup {None}
    /\ opened \in 0 .. Window + 1 \cup {None} /\ (burst = 0) = (opened = None)
    /\ Resolved \in DOMAIN Steps(snap)

(* What BA goes on with by itself is where the tracker is, as long as the  *)
(* tracker has not paused or changed stage since: the same step, the same  *)
(* time left; or the ramp that has not got there.                          *)
InferenceIsTrue ==
    snap.phase = "brewing" /\ ~held /\ age < MaxAge
    /\ truth.batch = snap.batch /\ truth.phase = "brewing" /\ truth.paused = snap.paused
    => Left = truth.left /\ Resolved = truth.step /\ Shown \in {truth.step, snap.step}

(* A batch owns the hot side only after somebody has started its tracker,  *)
(* whatever batch was latched before it.                                   *)
OwnedOnlyAfterPlay == Owned => snap.batch \in played

(* An awaited snapshot comes, however often it was asked for in vain.      *)
AwaitedComes == (Owned /\ Awaiting /\ snap # truth) ~> (~Awaiting \/ snap = truth)
=============================================================================
