------------------------------ MODULE MCBrewday ------------------------------
(***************************************************************************)
(* The BrewTracker's snapshots, the steps that RAPT runs and the Manual    *)
(* engine, checked side by side in one run, each in an environment that    *)
(* does whatever the others could.                                         *)
(***************************************************************************)
EXTENDS BrewdayBounds

Step(at, ramp, waits) == [at |-> at, ramp |-> ramp, waits |-> waits]
MCRecipe == <<
    <<Step(2, FALSE, TRUE), Step(2, TRUE, FALSE), Step(1, FALSE, TRUE)>>,
    <<Step(1, FALSE, TRUE)>> >>

Timed(dur, waits) == [dur |-> dur, waits |-> waits]
MCPlans == [default  |-> << <<Timed(0, TRUE), Timed(2, TRUE)>>, <<Timed(3, FALSE)>> >>,
            retained |-> << <<Timed(3, TRUE), Timed(0, FALSE)>> >>]

VARIABLES part,
    truth, played, snap, age, held, warm, latch, asked, sinceRefresh, burst,
    opened, manual,
    session, step, timer, link, abort, faults, heat, pct, pump, fresh, sparge, cooling,
    pending, confirming, flight, lifted, approved, armed,
    plan, st, at, since, kept, owner, told, boot, used, known

Tracker == INSTANCE BrewTracker WITH since <- sinceRefresh
Steps   == INSTANCE RaptSteps WITH choice <- cooling
Engine  == INSTANCE ManualBrewday

trackerVars == <<truth, played, snap, age, held, warm, latch, asked, sinceRefresh, burst,
                 opened, manual>>
stepVars == <<session, step, timer, link, abort, faults, heat, pct, pump, fresh, sparge,
              cooling, pending, confirming, flight, lifted, approved, armed>>
engineVars == <<plan, st, at, since, kept, owner, told, boot, used, known>>
vars == <<part, trackerVars, stepVars, engineVars>>

Init ==
    /\ part \in {"tracker", "steps", "engine"}
    /\ Tracker!Init /\ Steps!Init /\ Engine!Init

TrackerOnly == part = "tracker" /\ UNCHANGED <<part, stepVars, engineVars>>
StepsOnly == part = "steps" /\ UNCHANGED <<part, trackerVars, engineVars>>
EngineOnly == part = "engine" /\ UNCHANGED <<part, trackerVars, stepVars>>

Next ==
    \/ TrackerOnly /\ Tracker!Next
    \/ StepsOnly /\ Steps!Next
    \/ EngineOnly /\ Engine!Next

Fairness ==
    /\ WF_vars(TrackerOnly /\ Tracker!Build) /\ WF_vars(TrackerOnly /\ Tracker!Refresh)
    /\ WF_vars(TrackerOnly /\ Tracker!Answer) /\ WF_vars(TrackerOnly /\ Tracker!Tick)
    /\ WF_vars(StepsOnly /\ Steps!Tick) /\ WF_vars(StepsOnly /\ Steps!Execute)
    /\ WF_vars(StepsOnly /\ Steps!Write("tick")) /\ WF_vars(StepsOnly /\ Steps!Write("confirm"))

Spec == Init /\ [][Next]_vars /\ Fairness

TypeOK == Tracker!TypeOK /\ Steps!TypeOK /\ Engine!TypeOK
InferenceIsTrue == Tracker!InferenceIsTrue
OwnedOnlyAfterPlay == Tracker!OwnedOnlyAfterPlay
AwaitedComes == Tracker!AwaitedComes
HeatIsAttested == Steps!HeatIsAttested
PumpNeedsItsBoil == Steps!PumpNeedsItsBoil
StepsSettle == Steps!StepsSettle
StepTimeIsKept == Engine!StepTimeIsKept
=============================================================================
