---------------------------- MODULE Brewday_proofs ----------------------------
(***************************************************************************)
(* Proofs about the brewday's parts as one run checks them side by side:   *)
(* the Manual engine, for any two plans, any jumps and any length of the   *)
(* steps; BrewTracker's snapshots, for any recipe and batches; and the     *)
(* steps that RAPT runs, for any number of sessions and faults.            *)
(***************************************************************************)
EXTENDS MCBrewday, WellFoundedInduction, TLAPS

-----------------------------------------------------------------------------
(* Manual engine: plans, places and times                                  *)

PlanNames == {"default", "retained"}
TimedSteps == [dur : 0 .. LongTime, waits : BOOLEAN]

-----------------------------------------------------------------------------
(* Plans                                                 *)

LEMMA PlanType ==
  ASSUME NEW p \in PlanNames
  PROVE  /\ Plans[p] \in Seq(Seq(TimedSteps) \ {<<>>}) /\ Plans[p] # <<>>
         /\ \A s \in DOMAIN Plans[p] : Plans[p][s] \in Seq(TimedSteps) /\ Plans[p][s] # <<>>
<1> DEFINE Stage == Seq(TimedSteps) \ {<<>>}
<1>1. Plans[p] \in Seq(Stage) /\ Plans[p] # <<>>
  BY PlanAssumption DEF PlanNames, TimedSteps
<1>2. \A s \in DOMAIN Plans[p] : Plans[p][s] \in Stage
  <2> HIDE DEF Stage
  <2> QED
    BY <1>1
<1> QED
  BY <1>1, <1>2

(* A place is a stage of the plan and a step of the stage.                 *)
LEMMA PlaceMeans ==
  ASSUME NEW p \in PlanNames, NEW i \in Engine!Places(p)
  PROVE  /\ i = <<i[1], i[2]>> /\ i[1] \in DOMAIN Plans[p] /\ i[2] \in DOMAIN Plans[p][i[1]]
         /\ Engine!StepAt(p, i) \in TimedSteps
<1>1. PICK s \in DOMAIN Plans[p] : i \in {s} \X DOMAIN Plans[p][s]
  BY DEF Engine!Places
<1>2. i = <<i[1], i[2]>> /\ i[1] = s /\ i[2] \in DOMAIN Plans[p][s]
  BY <1>1
<1>3. Plans[p][s][i[2]] \in TimedSteps
  BY <1>2, PlanType
<1> QED
  BY <1>1, <1>2, <1>3 DEF Engine!StepAt

LEMMA IsPlace ==
  ASSUME NEW p \in PlanNames, NEW s \in 1 .. Len(Plans[p]), NEW t \in 1 .. Len(Plans[p][s])
  PROVE  <<s, t>> \in Engine!Places(p)
<1>1. s \in DOMAIN Plans[p]
  BY PlanType
<1>2. t \in DOMAIN Plans[p][s]
  BY <1>1, PlanType
<1> QED
  BY <1>1, <1>2 DEF Engine!Places

(* Every stage has a first step, and every plan a first stage.             *)
LEMMA FirstStep ==
  ASSUME NEW p \in PlanNames, NEW s \in 1 .. Len(Plans[p])
  PROVE  <<s, 1>> \in Engine!Places(p)
<1>1. Plans[p][s] \in Seq(TimedSteps) /\ Plans[p][s] # <<>>
  BY PlanType
<1>2. 1 \in 1 .. Len(Plans[p][s])
  BY <1>1
<1> QED
  BY <1>2, IsPlace

LEMMA FirstPlace ==
  ASSUME NEW p \in PlanNames
  PROVE  <<1, 1>> \in Engine!Places(p)
<1>1. 1 \in 1 .. Len(Plans[p])
  BY PlanType
<1> QED
  BY <1>1, FirstStep

LEMMA LeftType ==
  ASSUME NEW dur \in Nat, NEW ticks \in Nat
  PROVE  Engine!Left(dur, ticks) \in 0 .. dur
  BY DEF Engine!Left

(* Going on from what is left is as far as the step was.                   *)
LEMMA LeftOfLeft ==
  ASSUME NEW dur \in Nat, NEW ticks \in Nat
  PROVE  Engine!Left(dur, Engine!Left(dur, Engine!Left(dur, ticks))) = Engine!Left(dur, ticks)
  BY DEF Engine!Left

(* The bound on the counted ticks makes no difference to what is left.     *)
LEMMA LeftLater ==
  ASSUME NEW dur \in 0 .. LongTime, NEW a \in 0 .. LongTime, NEW b \in 0 .. LongTime,
         Engine!Left(dur, a) = Engine!Left(dur, b)
  PROVE  /\ Engine!Later(a) \in 0 .. LongTime /\ Engine!Later(a) # None
         /\ Engine!Left(dur, Engine!Later(a)) = Engine!Left(dur, Engine!Later(b))
  BY SMTT(20), PlanAssumption, StepsAssumption DEF Engine!Left, Engine!Later

-----------------------------------------------------------------------------
(* The invariant                                                           *)

(* What the timers say in each state of the session.                       *)
TimersOK ==
    /\ st \in {"idle", "prepared", "completed"} => since = None /\ used = 0
    /\ known /\ Engine!Active.dur # 0 /\ Engine!InProgress =>
         since # None /\ Engine!Left(Engine!Active.dur, since) = Engine!Left(Engine!Active.dur, used)
    /\ known /\ Engine!Active.dur # 0 /\ st = "paused" => kept = Engine!Left(Engine!Active.dur, used)

SessionOK ==
    /\ plan \in PlanNames /\ st \in Engine!States /\ at \in Engine!Places(plan)
    /\ since \in 0 .. LongTime \cup {None} /\ kept \in 0 .. LongTime \cup {None}
    /\ used \in 0 .. LongTime /\ known \in BOOLEAN

EngineInv == SessionOK /\ TimersOK

(* The claims around the session.                                          *)
ClaimsOK == owner \in Engine!Owners /\ told \in BOOLEAN /\ boot \in BOOLEAN

LEMMA ActiveType ==
  ASSUME SessionOK
  PROVE  Engine!Active \in TimedSteps /\ Engine!Active.dur \in 0 .. LongTime /\ Engine!Active.dur \in Nat
<1>1. Engine!Active \in TimedSteps
  BY PlaceMeans DEF SessionOK, Engine!Active, Engine!StepAt, Engine!Stages
<1> QED
  BY <1>1, PlanAssumption DEF TimedSteps

LEMMA BeginInv ==
  ASSUME plan' \in PlanNames, at' \in Engine!Places(plan'),
         NEW state \in {"running", "awaiting_confirm"}, Engine!Begin(state)
  PROVE  EngineInv'
<1>1. 0 \in 0 .. LongTime /\ 0 # None
  BY PlanAssumption, StepsAssumption
<1> QED
  BY <1>1 DEF Engine!Begin, EngineInv, SessionOK, TimersOK, Engine!InProgress, Engine!States

LEMMA FreshInv ==
  ASSUME plan' \in PlanNames, NEW state \in {"idle", "prepared"}, Engine!Fresh(state)
  PROVE  EngineInv'
<1>1. 0 \in 0 .. LongTime
  BY PlanAssumption
<1>2. <<1, 1>> \in Engine!Places(plan')
  BY FirstPlace
<1> QED
  BY <1>1, <1>2 DEF Engine!Fresh, EngineInv, SessionOK, TimersOK, Engine!InProgress, Engine!States

LEMMA FinishInv ==
  ASSUME EngineInv, plan' = plan, Engine!Finish
  PROVE  EngineInv'
<1>1. 0 \in 0 .. LongTime
  BY PlanAssumption
<1> QED
  BY <1>1 DEF Engine!Finish, EngineInv, SessionOK, TimersOK, Engine!InProgress, Engine!States

(* What a pause keeps is the length less the time in progress.             *)
LEMMA RemainingIsLeft ==
  ASSUME EngineInv
  PROVE  /\ Engine!Remaining \in 0 .. LongTime \cup {None}
         /\ known /\ Engine!Active.dur # 0 => Engine!Remaining = Engine!Left(Engine!Active.dur, used)
<1>1. Engine!Active.dur \in 0 .. LongTime /\ LongTime \in Nat /\ None \notin Nat
  BY ActiveType, PlanAssumption, StepsAssumption DEF EngineInv
<1>2. since # None => Engine!Left(Engine!Active.dur, since) \in 0 .. LongTime
  <2> SUFFICES ASSUME since # None PROVE Engine!Left(Engine!Active.dur, since) \in 0 .. LongTime
    OBVIOUS
  <2>1. since \in Nat
    BY <1>1 DEF EngineInv, SessionOK
  <2>2. Engine!Active.dur \in Nat
    BY <1>1
  <2>3. Engine!Left(Engine!Active.dur, since) \in 0 .. Engine!Active.dur
    BY <2>1, <2>2, LeftType
  <2> QED
    BY <1>1, <2>3
<1>3. Engine!Left(Engine!Active.dur, used) \in Nat /\ Engine!Left(Engine!Active.dur, 0) = Engine!Active.dur
  BY <1>1, LeftType DEF EngineInv, SessionOK, Engine!Left
<1>4. Engine!Remaining \in 0 .. LongTime \cup {None}
  BY <1>1, <1>2 DEF Engine!Remaining, EngineInv, SessionOK
<1>5. ASSUME known, Engine!Active.dur # 0 PROVE Engine!Remaining = Engine!Left(Engine!Active.dur, used)
  <2>1. CASE st = "paused"
    BY <1>1, <1>3, <1>5, <2>1 DEF Engine!Remaining, EngineInv, TimersOK
  <2>2. CASE Engine!InProgress
    BY <1>5, <2>2 DEF Engine!Remaining, EngineInv, TimersOK, Engine!InProgress
  <2>3. CASE st \in {"idle", "prepared", "completed"}
    BY <1>3, <1>5, <2>3 DEF Engine!Remaining, EngineInv, TimersOK
  <2> QED
    BY <2>1, <2>2, <2>3 DEF EngineInv, SessionOK, Engine!States, Engine!InProgress
<1> QED
  BY <1>4, <1>5

LEMMA PauseInv ==
  ASSUME EngineInv, Engine!Pause
  PROVE  EngineInv'
<1>1. Engine!Active' = Engine!Active
  BY DEF Engine!Pause, Engine!Active, Engine!Stages
<1>2. SessionOK'
  BY RemainingIsLeft DEF Engine!Pause, EngineInv, SessionOK, Engine!States
<1>3. ASSUME known', Engine!Active'.dur # 0 PROVE kept' = Engine!Left(Engine!Active'.dur, used')
  <2>1. known /\ Engine!Active.dur # 0 /\ used' = used /\ kept' = Engine!Remaining
    BY <1>1, <1>3 DEF Engine!Pause
  <2> QED
    BY <1>1, <2>1, RemainingIsLeft
<1>4. st' = "paused"
  BY DEF Engine!Pause
<1> QED
  BY <1>2, <1>3, <1>4 DEF EngineInv, TimersOK, Engine!InProgress

LEMMA ResumeInv ==
  ASSUME EngineInv, st = "paused", Engine!Resume, plan' = plan, at' = at
  PROVE  EngineInv'
<1>1. Engine!Active' = Engine!Active
  BY DEF Engine!Active, Engine!Stages
<1>2. Engine!Active.dur \in 0 .. LongTime /\ LongTime \in Nat /\ None \notin Nat
  BY ActiveType, PlanAssumption, StepsAssumption DEF EngineInv
<1>3. kept # None => Engine!Left(Engine!Active.dur, kept) \in 0 .. LongTime
  <2> SUFFICES ASSUME kept # None PROVE Engine!Left(Engine!Active.dur, kept) \in 0 .. LongTime
    OBVIOUS
  <2>1. kept \in Nat
    BY <1>2 DEF EngineInv, SessionOK
  <2>2. Engine!Active.dur \in Nat
    BY <1>2
  <2>3. Engine!Left(Engine!Active.dur, kept) \in 0 .. Engine!Active.dur
    BY <2>1, <2>2, LeftType
  <2> QED
    BY <1>2, <2>3
<1>4. SessionOK'
  BY <1>3 DEF EngineInv, SessionOK, Engine!Resume, Engine!States
<1>5. ASSUME known, Engine!Active.dur # 0
      PROVE  since' # None /\ Engine!Left(Engine!Active.dur, since') = Engine!Left(Engine!Active.dur, used)
  <2>1. kept = Engine!Left(Engine!Active.dur, used) /\ used \in Nat
    BY <1>2, <1>5 DEF EngineInv, SessionOK, TimersOK
  <2>2. kept \in Nat /\ kept # None
    BY <1>2, <2>1, LeftType
  <2>3. since' = Engine!Left(Engine!Active.dur, kept)
    BY <1>5, <2>2 DEF Engine!Resume
  <2>4. since' \in Nat
    BY <1>2, <2>2, <2>3, LeftType
  <2> QED
    BY <1>2, <2>1, <2>3, <2>4, LeftOfLeft
<1>6. ASSUME known', Engine!Active'.dur # 0
      PROVE  since' # None /\ Engine!Left(Engine!Active'.dur, since') = Engine!Left(Engine!Active'.dur, used')
  <2>1. known /\ Engine!Active.dur # 0 /\ used' = used
    BY <1>1, <1>6 DEF Engine!Resume
  <2> QED
    BY <1>1, <1>5, <2>1
<1>7. st' = "running"
  BY DEF Engine!Resume
<1> QED
  BY <1>4, <1>6, <1>7 DEF EngineInv, TimersOK, Engine!InProgress

-----------------------------------------------------------------------------
(* The steps                                                               *)

LEMMA PlanStartInv ==
  ASSUME EngineInv, Engine!Start, plan' = plan
  PROVE  EngineInv'
<1>0. plan \in PlanNames /\ at \in Engine!Places(plan) /\ <<1, 1>> \in Engine!Places(plan)
  BY FirstPlace DEF EngineInv, SessionOK
<1>1. CASE st = "completed"
  <2>1. Engine!Begin("running") /\ at' = <<1, 1>>
    BY <1>1 DEF Engine!Start
  <2> QED
    BY <1>0, <2>1, BeginInv
<1>2. CASE st = "paused"
  BY <1>2, ResumeInv DEF Engine!Start
<1>3. CASE st = "running"
  <2>1. UNCHANGED Engine!session
    BY <1>3 DEF Engine!Start, Engine!session
  <2> QED
    BY <2>1 DEF Engine!session, EngineInv, SessionOK, TimersOK, Engine!InProgress, Engine!Active, Engine!Stages
<1>4. CASE st \notin {"completed", "paused", "running"}
  <2>1. Engine!Begin("running") /\ at' = at
    BY <1>4 DEF Engine!Start
  <2> QED
    BY <1>0, <2>1, BeginInv
<1> QED
  BY <1>1, <1>2, <1>3, <1>4

LEMMA GoesInv ==
  ASSUME EngineInv, plan' = plan, NEW i \in Engine!Places(plan), Engine!Goes(i)
  PROVE  EngineInv'
<1>1. PICK state \in {"running", "awaiting_confirm"} : at' = i /\ Engine!Begin(state)
  BY DEF Engine!Goes
<1> QED
  BY <1>1, BeginInv DEF EngineInv, SessionOK

LEMMA NextStepInv ==
  ASSUME EngineInv, Engine!NextStep, plan' = plan
  PROVE  EngineInv'
<1>1. /\ plan \in PlanNames /\ at[1] \in 1 .. Len(Plans[plan])
      /\ at[2] \in 1 .. Len(Plans[plan][at[1]])
  BY PlaceMeans, PlanType DEF EngineInv, SessionOK
<1>2. Len(Plans[plan]) \in Nat /\ Len(Plans[plan][at[1]]) \in Nat
  BY <1>1, PlanType
<1>3. CASE at[2] < Len(Engine!Stages[at[1]])
  <2>1. at[2] + 1 \in 1 .. Len(Plans[plan][at[1]])
    BY <1>1, <1>2, <1>3 DEF Engine!Stages
  <2>2. <<at[1], at[2] + 1>> \in Engine!Places(plan)
    BY <1>1, <2>1, IsPlace
  <2> QED
    BY <1>3, <2>2, GoesInv DEF Engine!NextStep
<1>4. CASE ~(at[2] < Len(Engine!Stages[at[1]])) /\ at[1] < Len(Engine!Stages)
  <2>1. at[1] + 1 \in 1 .. Len(Plans[plan])
    BY <1>1, <1>2, <1>4 DEF Engine!Stages
  <2>2. <<at[1] + 1, 1>> \in Engine!Places(plan)
    BY <1>1, <2>1, FirstStep
  <2> QED
    BY <1>4, <2>2, GoesInv DEF Engine!NextStep
<1>5. CASE ~(at[2] < Len(Engine!Stages[at[1]])) /\ ~(at[1] < Len(Engine!Stages))
  BY <1>5, FinishInv DEF Engine!NextStep
<1> QED
  BY <1>3, <1>4, <1>5

LEMMA JumpInv ==
  ASSUME EngineInv, plan' = plan, NEW s \in Jumps, Engine!Jump(s)
  PROVE  EngineInv'
<1>1. plan \in PlanNames /\ Len(Plans[plan]) \in Nat /\ Len(Plans[plan]) > 0
  BY PlanType DEF EngineInv, SessionOK
<1>2. s \in Nat \ {0}
  BY PlanAssumption
<1>3. (IF s > Len(Engine!Stages) THEN Len(Engine!Stages) ELSE s) \in 1 .. Len(Plans[plan])
  BY <1>1, <1>2 DEF Engine!Stages
<1>4. at' \in Engine!Places(plan)
  BY <1>1, <1>3, FirstStep DEF Engine!Jump
<1> QED
  BY <1>1, <1>4, BeginInv DEF Engine!Jump

LEMMA ServiceInv ==
  ASSUME EngineInv, Engine!Service
  PROVE  EngineInv'
<1>1. plan \in PlanNames /\ "default" \in PlanNames
  BY DEF EngineInv, SessionOK, PlanNames
<1>2. CASE (Engine!Fresh("prepared") /\ UNCHANGED plan) \/ (Engine!Fresh("idle") /\ plan' = "default")
  BY <1>1, <1>2, FreshInv
<1>3. CASE Engine!Start /\ UNCHANGED plan
  BY <1>3, PlanStartInv
<1>4. CASE Engine!Pause
  BY <1>4, PauseInv
<1>5. CASE Engine!NextStep /\ UNCHANGED plan
  BY <1>5, NextStepInv
<1>6. CASE \E s \in Jumps : Engine!Jump(s) /\ UNCHANGED plan
  BY <1>6, JumpInv
<1>7. CASE Engine!Finish /\ UNCHANGED plan
  BY <1>7, FinishInv
<1> QED
  BY <1>2, <1>3, <1>4, <1>5, <1>6, <1>7 DEF Engine!Service

(* A retained plan's timer is known exactly when its rest fits the step.   *)
LEMMA PrimeInv ==
  ASSUME EngineInv, Engine!Prime
  PROVE  EngineInv'
<1>1. "retained" \in PlanNames /\ plan' = "retained" /\ at' \in Engine!Places("retained")
  BY DEF Engine!Prime, PlanNames
<1> DEFINE dur == Engine!StepAt("retained", at').dur
<1>2. Engine!Active'.dur = dur
  BY <1>1 DEF Engine!Active, Engine!Stages, Engine!StepAt
<1>3. dur \in 0 .. LongTime /\ dur \in Nat /\ LongTime \in Nat /\ None \notin Nat
  BY <1>1, PlaceMeans, PlanAssumption, StepsAssumption DEF TimedSteps
<1>4. PICK paused \in BOOLEAN, left \in (IF dur = 0 THEN {None} ELSE 0 .. dur \cup {None}) :
        /\ st' = IF paused THEN "paused" ELSE "running"
        /\ kept' = IF paused THEN left ELSE None
        /\ since' = IF paused \/ left = None THEN None ELSE dur - left
        /\ known' = (left # None) /\ used' = IF left = None THEN 0 ELSE dur - left
  BY DEF Engine!Prime
<1> HIDE DEF dur
<1>5. CASE left = None
  <2>1. kept' = None /\ since' = None /\ ~known' /\ used' = 0
    BY <1>4, <1>5
  <2>2. st' \in {"paused", "running"} /\ known' \in BOOLEAN /\ 0 \in 0 .. LongTime
    BY <1>3, <1>4
  <2> QED
    BY <1>1, <2>1, <2>2 DEF EngineInv, SessionOK, TimersOK, Engine!InProgress, Engine!States
<1>6. CASE left # None
  <2>1. left \in 0 .. dur
    BY <1>4, <1>6
  <2>2. /\ used' = dur - left /\ used' \in 0 .. LongTime
        /\ left \in 0 .. LongTime /\ Engine!Left(dur, used') = left
    BY <1>3, <1>4, <1>6, <2>1 DEF Engine!Left
  <2>3. CASE paused
    <3>1. st' = "paused" /\ kept' = left /\ since' = None /\ known' \in BOOLEAN
      BY <1>4, <2>3
    <3> QED
      BY <1>1, <1>2, <2>2, <3>1 DEF EngineInv, SessionOK, TimersOK, Engine!InProgress, Engine!States
  <2>4. CASE ~paused
    <3>1. st' = "running" /\ kept' = None /\ since' = used' /\ known' \in BOOLEAN
      BY <1>4, <1>6, <2>2, <2>4
    <3>2. since' # None
      BY <1>3, <2>2, <3>1
    <3> QED
      BY <1>1, <1>2, <2>2, <3>1, <3>2 DEF EngineInv, SessionOK, TimersOK, Engine!InProgress, Engine!States
  <2> QED
    BY <2>3, <2>4
<1> QED
  BY <1>5, <1>6

LEMMA SessionStays ==
  ASSUME EngineInv, UNCHANGED Engine!session
  PROVE  EngineInv'
  BY DEF Engine!session, EngineInv, SessionOK, TimersOK, Engine!InProgress, Engine!Active, Engine!Stages

LEMMA EngineTickInv ==
  ASSUME EngineInv, Engine!Tick
  PROVE  EngineInv'
<1>1. /\ Engine!Active' = Engine!Active /\ st' = st /\ plan' = plan /\ at' = at
      /\ kept' = kept /\ known' = known
  BY DEF Engine!Tick, Engine!Active, Engine!Stages
<1>2. Engine!Active.dur \in 0 .. LongTime /\ LongTime \in Nat /\ None \notin Nat
  BY ActiveType, PlanAssumption, StepsAssumption DEF EngineInv
<1>3. since' \in 0 .. LongTime \cup {None} /\ (since = None => since' = None)
  BY <1>2 DEF Engine!Tick, Engine!Later, EngineInv, SessionOK
<1>4. used' \in 0 .. LongTime /\ (~Engine!InProgress => used' = used)
  BY <1>2 DEF Engine!Tick, Engine!Later, EngineInv, SessionOK
<1>5. ASSUME known', Engine!Active'.dur # 0, Engine!InProgress'
      PROVE  since' # None /\ Engine!Left(Engine!Active'.dur, since') = Engine!Left(Engine!Active'.dur, used')
  <2>1. known /\ Engine!Active.dur # 0 /\ Engine!InProgress
    BY <1>1, <1>5 DEF Engine!InProgress
  <2>2. since # None /\ Engine!Left(Engine!Active.dur, since) = Engine!Left(Engine!Active.dur, used)
    BY <2>1 DEF EngineInv, TimersOK
  <2>3. since' = Engine!Later(since) /\ used' = Engine!Later(used)
    BY <2>1 DEF Engine!Tick
  <2>4. since \in 0 .. LongTime /\ used \in 0 .. LongTime
    BY <2>2 DEF EngineInv, SessionOK
  <2> QED
    BY <1>1, <1>2, <2>2, <2>3, <2>4, LeftLater
<1>6. ASSUME known', Engine!Active'.dur # 0, st' = "paused" PROVE kept' = Engine!Left(Engine!Active'.dur, used')
  <2>1. known /\ Engine!Active.dur # 0 /\ st = "paused" /\ used' = used
    BY <1>1, <1>4, <1>6 DEF Engine!InProgress
  <2> QED
    BY <1>1, <2>1 DEF EngineInv, TimersOK
<1>7. st' \in {"idle", "prepared", "completed"} => since' = None /\ used' = 0
  BY <1>1, <1>3, <1>4 DEF EngineInv, TimersOK, Engine!InProgress
<1>8. SessionOK'
  BY <1>1, <1>3, <1>4 DEF EngineInv, SessionOK
<1> QED
  BY <1>5, <1>6, <1>7, <1>8 DEF EngineInv, TimersOK

LEMMA EngineNextInv ==
  ASSUME EngineInv, ClaimsOK, [Engine!Next]_Engine!vars
  PROVE  EngineInv' /\ ClaimsOK'
<1>1. CASE Engine!Service
  BY <1>1, ServiceInv DEF Engine!Service, ClaimsOK
<1>2. CASE Engine!Handoff
  <2>1. Engine!Pause \/ UNCHANGED Engine!session
    BY <1>2 DEF Engine!Handoff
  <2> QED
    BY <1>2, <2>1, PauseInv, SessionStays DEF Engine!Handoff, ClaimsOK
<1>3. CASE Engine!RaptBuild
  BY <1>3, PauseInv DEF Engine!RaptBuild, ClaimsOK
<1>4. CASE Engine!Claim
  <2>1. Engine!Prime \/ UNCHANGED Engine!session
    BY <1>4 DEF Engine!Claim
  <2>2. owner' \in Engine!Owners
    BY <1>4 DEF Engine!Claim, Engine!Claims, Engine!Owners
  <2>3. told' \in BOOLEAN /\ boot' \in BOOLEAN
    BY <1>4 DEF Engine!Claim, ClaimsOK
  <2> QED
    BY <2>1, <2>2, <2>3, PrimeInv, SessionStays DEF ClaimsOK
<1>5. CASE Engine!Restart
  <2>1. EngineInv'
    BY <1>5, FreshInv DEF Engine!Restart, PlanNames
  <2>2. owner' \in Engine!Owners /\ told' \in BOOLEAN /\ boot' \in BOOLEAN
    BY <1>5 DEF Engine!Restart, ClaimsOK, Engine!Owners
  <2> QED
    BY <2>1, <2>2 DEF ClaimsOK
<1>6. CASE Engine!Tick
  BY <1>6, EngineTickInv DEF Engine!Tick, ClaimsOK
<1>7. CASE UNCHANGED Engine!vars
  BY <1>7, SessionStays DEF Engine!vars, ClaimsOK
<1> QED
  BY <1>1, <1>2, <1>3, <1>4, <1>5, <1>6, <1>7 DEF Engine!Next


-----------------------------------------------------------------------------
(* BrewTracker: the steps of a recipe                                      *)

Less == {pair \in Nat \X Nat : pair[1] < pair[2]}

LEMMA LeastNumber ==
  ASSUME NEW S, S \subseteq Nat, S # {}
  PROVE  \E m \in S : \A n \in S : m <= n
<1>1. IsWellFoundedOn(Less, Nat)
  BY NatLessThanWellFounded DEF OpToRel, Less
<1>2. PICK m \in S : \A n \in S : <<n, m>> \notin Less
  BY <1>1, WFMin
<1>3. \A n \in S : ~(n < m)
  BY <1>2 DEF Less
<1> QED
  BY <1>3

LEMMA LastNumber ==
  ASSUME NEW k \in Nat, NEW S, S \subseteq 1 .. k, S # {}
  PROVE  \E m \in S : \A n \in S : n <= m
<1> DEFINE T == {k - i : i \in S}
<1>1. T \subseteq Nat /\ T # {}
  <2>1. \A i \in S : k - i \in Nat
    OBVIOUS
  <2> QED
    BY <2>1
<1>2. PICK t \in T : \A u \in T : t <= u
  BY <1>1, LeastNumber
<1>3. PICK m \in S : t = k - m
  BY <1>2
<1>4. ASSUME NEW n \in S PROVE n <= m
  BY <1>2, <1>3
<1> QED
  BY <1>4

RecipeSteps == [at : Nat, ramp : BOOLEAN, waits : BOOLEAN]

LEMMA RecipeType ==
  ASSUME NEW s \in DOMAIN Recipe
  PROVE  /\ Recipe[s] \in Seq(RecipeSteps) /\ Recipe[s] # <<>> /\ Len(Recipe[s]) \in Nat
         /\ 1 \in DOMAIN Recipe[s] /\ DOMAIN Recipe[s] = 1 .. Len(Recipe[s])
         /\ Recipe[s][1].at \in Nat /\ Recipe[s][1].at > 0
<1> DEFINE Stage == Seq(RecipeSteps) \ {<<>>}
<1>1. Recipe \in Seq(Stage)
  BY TrackerAssumption DEF RecipeSteps
<1>2. Recipe[s] \in Stage
  <2> HIDE DEF Stage
  <2> QED
    BY <1>1
<1>3. Recipe[s] \in Seq(RecipeSteps) /\ Recipe[s] # <<>>
  BY <1>2
<1>4. 1 \in DOMAIN Recipe[s] /\ DOMAIN Recipe[s] = 1 .. Len(Recipe[s]) /\ Len(Recipe[s]) \in Nat
  BY <1>3
<1>5. Recipe[s][1] \in RecipeSteps
  BY <1>3, <1>4
<1>6. Recipe[s][1].at \in Nat /\ Recipe[s][1].at > 0
  BY <1>5, TrackerAssumption DEF RecipeSteps
<1> QED
  BY <1>3, <1>4, <1>6

LEMMA FirstStage == 1 \in DOMAIN Recipe /\ DOMAIN Recipe = 1 .. Len(Recipe) /\ Len(Recipe) \in Nat
<1> DEFINE Stage == Seq(RecipeSteps) \ {<<>>}
<1>1. Recipe \in Seq(Stage) /\ Recipe # <<>>
  BY TrackerAssumption DEF RecipeSteps
<1> HIDE DEF Stage
<1> QED
  BY <1>1

(* What the tracker can be, and a copy of it can say.                      *)
TrackerViews ==
    [batch : Batches \cup {None},
     phase : {"inactive", "planning", "brewing", "fermenting"},
     stage : DOMAIN Recipe, step : Nat, left : Nat, paused : BOOLEAN]
View(v) == v \in TrackerViews /\ v.step \in DOMAIN Recipe[v.stage]

(* A tracker that says so has been started.                                *)
SaysStarted(v) ==
    v.phase = "brewing"
    /\ (~v.paused \/ v.stage > 1 \/ v.step > 1 \/ v.left < Recipe[v.stage][1].at)
    => v.batch \in played

TrackerInv ==
    /\ View(truth) /\ View(snap) /\ age \in Nat
    /\ latch \in [id : Batches \cup {None}, started : BOOLEAN]
    /\ SaysStarted(truth) /\ SaysStarted(snap)
    /\ latch.started => latch.id \in played

(* The refreshes that were spent on an awaited snapshot.                   *)
BurstInv ==
    /\ burst \in 0 .. BurstMax /\ sinceRefresh \in 0 .. Interval \cup {None}
    /\ opened \in 0 .. Window + 1 \cup {None} /\ (burst = 0) = (opened = None)

LEMMA StartsAt ==
  /\ View(Tracker!NoBatch) /\ Tracker!NoBatch.phase = "inactive"
  /\ \A b \in Batches \cup {None} : View(Tracker!Parked(b)) /\ Tracker!Parked(b).left = Recipe[1][1].at
<1>1. 1 \in DOMAIN Recipe /\ 1 \in DOMAIN Recipe[1] /\ Recipe[1][1].at \in Nat
  BY FirstStage, RecipeType
<1> QED
  BY <1>1 DEF View, TrackerViews, Tracker!NoBatch, Tracker!Parked, Tracker!Length

LEMMA ResolvedType ==
  ASSUME View(snap), age \in Nat
  PROVE  Tracker!Resolved \in DOMAIN Tracker!Steps(snap)
<1> DEFINE begun == {i \in DOMAIN Tracker!Steps(snap) : Tracker!Steps(snap)[i].at >= Tracker!Left}
<1>1. Len(Recipe[snap.stage]) \in Nat /\ DOMAIN Recipe[snap.stage] = 1 .. Len(Recipe[snap.stage])
  BY RecipeType DEF View, TrackerViews
<1>2. snap.step \in DOMAIN Tracker!Steps(snap)
  BY DEF View, Tracker!Steps
<1>3. ASSUME begun # {} PROVE \E i \in begun : \A j \in begun : j <= i
  <2>1. begun \subseteq 1 .. Len(Recipe[snap.stage])
    BY <1>1 DEF Tracker!Steps
  <2> HIDE DEF begun
  <2> QED
    BY <1>1, <1>3, <2>1, LastNumber
<1>4. begun # {} => (CHOOSE i \in begun : \A j \in begun : j <= i) \in begun
  <2> HIDE DEF begun
  <2> QED
    BY <1>3
<1> QED
  BY <1>2, <1>4 DEF Tracker!Resolved

-----------------------------------------------------------------------------
(* BrewTracker: the steps preserve the invariant                           *)

(* The tracker goes on within its batch: whoever is brewing has started.   *)
LEMMA TrackerGoesOn ==
  ASSUME TrackerInv, View(truth'), truth'.batch = truth.batch,
         played \subseteq played',
         truth'.phase = "brewing" => truth'.batch \in played',
         UNCHANGED <<snap, latch>>, age' \in Nat
  PROVE  TrackerInv'
  BY DEF TrackerInv, SaysStarted, View

LEMMA BatchInv ==
  ASSUME TrackerInv, Tracker!Batch
  PROVE  TrackerInv'
<1>0. UNCHANGED <<snap, latch, age, played>>
  BY DEF Tracker!Batch, Tracker!World
<1>1. View(truth') /\ SaysStarted(truth')
  <2>1. ASSUME NEW b \in Batches, truth' = [Tracker!NoBatch EXCEPT !.batch = b, !.phase = "planning"]
        PROVE  View(truth') /\ SaysStarted(truth')
    BY <2>1, StartsAt DEF View, TrackerViews, SaysStarted, Tracker!NoBatch
  <2>2. CASE truth.phase = "planning" /\ truth' = Tracker!Parked(truth.batch)
    <3>1. View(truth') /\ truth'.left = Recipe[1][1].at /\ Recipe[1][1].at \in Nat
      BY <2>2, StartsAt, FirstStage, RecipeType DEF TrackerInv, View, TrackerViews
    <3>2. truth'.paused /\ truth'.stage = 1 /\ truth'.step = 1
      BY <2>2 DEF Tracker!Parked
    <3> QED
      BY <3>1, <3>2 DEF SaysStarted
  <2>3. CASE truth' = [Tracker!NoBatch EXCEPT !.batch = truth.batch, !.phase = "fermenting"]
    BY <2>3, StartsAt DEF TrackerInv, View, TrackerViews, SaysStarted, Tracker!NoBatch
  <2> QED
    BY <2>1, <2>2, <2>3 DEF Tracker!Batch
<1> QED
  BY <1>0, <1>1 DEF TrackerInv, SaysStarted, View

LEMMA PlayInv ==
  ASSUME TrackerInv, Tracker!Play
  PROVE  TrackerInv'
<1> DEFINE next == IF truth.step < Len(Tracker!Steps(truth))
                         /\ Tracker!Steps(truth)[truth.step + 1].at = truth.left
                      THEN truth.step + 1 ELSE truth.step
<1>1. /\ truth' = [truth EXCEPT !.paused = FALSE, !.step = next]
      /\ played' = played \cup {truth.batch} /\ UNCHANGED <<snap, latch, age>>
  BY DEF Tracker!Play, Tracker!World
<1>2. /\ truth \in TrackerViews /\ truth.step \in 1 .. Len(Recipe[truth.stage])
      /\ Len(Recipe[truth.stage]) \in Nat
  BY RecipeType DEF TrackerInv, View, TrackerViews
<1>3. next \in 1 .. Len(Recipe[truth.stage]) /\ next \in Nat
  <2>1. truth.step \in Nat
    BY <1>2
  <2> QED
    BY <1>2, <2>1 DEF Tracker!Steps
<1> HIDE DEF next
<1>4. truth' \in TrackerViews /\ truth'.batch = truth.batch /\ truth'.stage = truth.stage
      /\ truth'.step = next
  BY <1>1, <1>2, <1>3 DEF TrackerViews
<1>5. View(truth')
  BY <1>2, <1>3, <1>4, RecipeType DEF View, TrackerViews
<1> QED
  BY <1>1, <1>4, <1>5, TrackerGoesOn DEF TrackerInv

LEMMA PausesInv ==
  ASSUME TrackerInv, Tracker!Pause
  PROVE  TrackerInv'
<1>1. /\ truth' = [truth EXCEPT !.paused = TRUE] /\ truth.phase = "brewing" /\ ~truth.paused
      /\ played' = played /\ UNCHANGED <<snap, latch, age>>
  BY DEF Tracker!Pause, Tracker!World, Tracker!Running
<1>2. View(truth') /\ truth'.batch = truth.batch
  BY <1>1 DEF TrackerInv, View, TrackerViews
<1>3. truth.batch \in played
  BY <1>1 DEF TrackerInv, SaysStarted
<1> QED
  BY <1>1, <1>2, <1>3, TrackerGoesOn DEF TrackerInv

LEMMA NextStageInv ==
  ASSUME TrackerInv, Tracker!NextStage
  PROVE  TrackerInv'
<1> DEFINE s == truth.stage + 1
<1>1. /\ truth.phase = "brewing" /\ ~truth.paused /\ truth.stage < Len(Recipe)
      /\ truth' = [truth EXCEPT !.stage = s, !.step = 1, !.left = Recipe[s][1].at,
                                !.paused = Recipe[s][1].waits]
      /\ played' = played /\ UNCHANGED <<snap, latch, age>>
  BY DEF Tracker!NextStage, Tracker!World, Tracker!Running, Tracker!Length
<1>2. truth \in TrackerViews /\ truth.stage \in Nat /\ s \in DOMAIN Recipe
  BY <1>1, FirstStage DEF TrackerInv, View, TrackerViews
<1>3. Recipe[s][1] \in RecipeSteps /\ 1 \in DOMAIN Recipe[s]
  BY <1>2, RecipeType
<1> HIDE DEF s
<1>4. View(truth') /\ truth'.batch = truth.batch
  BY <1>1, <1>2, <1>3 DEF View, TrackerViews, RecipeSteps
<1>5. truth.batch \in played
  BY <1>1 DEF TrackerInv, SaysStarted
<1> QED
  BY <1>1, <1>4, <1>5, TrackerGoesOn DEF TrackerInv

LEMMA TrackerTickInv ==
  ASSUME TrackerInv, Tracker!Tick
  PROVE  TrackerInv'
<1>1. played' = played /\ UNCHANGED <<snap, latch>>
  BY DEF Tracker!Tick
<1>2. age' \in Nat
  BY TrackerAssumption DEF Tracker!Tick, Tracker!Later, TrackerInv
<1>3. CASE Tracker!Running(truth) /\ truth.left > 0
  <2> DEFINE left == truth.left - 1
             s == truth.step + 1
  <2>1. /\ truth.phase = "brewing" /\ truth.batch \in played /\ truth \in TrackerViews
        /\ left \in Nat /\ truth' = Tracker!Runs(left)
    BY <1>3 DEF Tracker!Tick, Tracker!Running, TrackerInv, SaysStarted, View, TrackerViews
  <2>2. CASE truth.step < Len(Recipe[truth.stage]) /\ Recipe[truth.stage][s].at = left
    <3>1. s \in DOMAIN Recipe[truth.stage] /\ s \in Nat
      BY <2>1, <2>2, RecipeType DEF TrackerInv, View, TrackerViews
    <3>2. Recipe[truth.stage][s] \in RecipeSteps
      BY <2>1, <3>1, RecipeType DEF TrackerViews
    <3>3. truth' = [truth EXCEPT !.left = left, !.step = s, !.paused = Recipe[truth.stage][s].waits]
      BY <2>1, <2>2 DEF Tracker!Runs, Tracker!Steps
    <3> HIDE DEF left, s
    <3>4. View(truth') /\ truth'.batch = truth.batch
      BY <2>1, <3>1, <3>2, <3>3 DEF View, TrackerViews, RecipeSteps
    <3> QED
      BY <1>1, <1>2, <2>1, <3>4, TrackerGoesOn
  <2>3. CASE ~(truth.step < Len(Recipe[truth.stage]) /\ Recipe[truth.stage][s].at = left)
    <3>1. truth' = [truth EXCEPT !.left = left]
      BY <2>1, <2>3 DEF Tracker!Runs, Tracker!Steps
    <3> HIDE DEF left
    <3>2. View(truth') /\ truth'.batch = truth.batch
      BY <2>1, <3>1 DEF TrackerInv, View, TrackerViews
    <3> QED
      BY <1>1, <1>2, <2>1, <3>2, TrackerGoesOn
  <2> QED
    BY <2>2, <2>3
<1>4. CASE ~(Tracker!Running(truth) /\ truth.left > 0)
  <2>1. truth' = truth
    BY <1>4 DEF Tracker!Tick
  <2> QED
    BY <1>1, <1>2, <2>1 DEF TrackerInv, SaysStarted, View
<1> QED
  BY <1>3, <1>4

LEMMA BuildInv ==
  ASSUME TrackerInv, Tracker!Build
  PROVE  TrackerInv'
<1> DEFINE latched == IF latch.id = snap.batch THEN latch.started ELSE FALSE
           evident == ~Tracker!Prestart /\ Tracker!StartedEvidence
<1>1. /\ snap.phase = "brewing" /\ latch' = [id |-> snap.batch, started |-> latched \/ evident]
      /\ UNCHANGED <<truth, played, snap, age>>
  BY DEF Tracker!Build
<1>2. latched \in BOOLEAN /\ (latched => snap.batch \in played)
  BY DEF TrackerInv
<1>3. evident \in BOOLEAN /\ (evident => snap.batch \in played)
  BY <1>1 DEF Tracker!StartedEvidence, Tracker!Prestart, Tracker!Length, TrackerInv, SaysStarted
<1> HIDE DEF latched, evident
<1>4. /\ latch' \in [id : Batches \cup {None}, started : BOOLEAN]
      /\ latch'.started => latch'.id \in played
  BY <1>1, <1>2, <1>3 DEF TrackerInv, View, TrackerViews
<1> QED
  BY <1>1, <1>4 DEF TrackerInv, SaysStarted, View

LEMMA PublishInv ==
  ASSUME TrackerInv, Tracker!Publish
  PROVE  TrackerInv'
<1>1. snap' = truth /\ UNCHANGED <<truth, played, latch>> /\ age' \in {age, 0}
  BY DEF Tracker!Publish
<1> QED
  BY <1>1 DEF TrackerInv, SaysStarted, View

LEMMA TrackerNextInv ==
  ASSUME TrackerInv, [Tracker!Next]_Tracker!vars
  PROVE  TrackerInv'
<1>1. ASSUME UNCHANGED <<truth, played, snap, age, latch>> PROVE TrackerInv'
  BY <1>1 DEF TrackerInv, SaysStarted, View
<1>2. CASE Tracker!Refresh \/ Tracker!ForceRefresh
  BY <1>1, <1>2 DEF Tracker!Refresh, Tracker!ForceRefresh
<1>3. CASE Tracker!Heat
  BY <1>1, <1>3 DEF Tracker!Heat, Tracker!World
<1>4. CASE Tracker!Answer \/ Tracker!Poll
  BY <1>4, PublishInv DEF Tracker!Answer, Tracker!Poll
<1>5. CASE UNCHANGED Tracker!vars
  BY <1>1, <1>5 DEF Tracker!vars
<1> QED
  BY <1>2, <1>3, <1>4, <1>5, BuildInv, BatchInv, PlayInv, PausesInv, NextStageInv,
     TrackerTickInv DEF Tracker!Next

(* An awaited snapshot is asked for at most as often as it is worth.       *)
LEMMA BurstNextInv ==
  ASSUME BurstInv, [Tracker!Next]_Tracker!vars
  PROVE  BurstInv'
<1>0. /\ BurstMax \in Nat \ {0} /\ Interval \in Nat \ {0} /\ Window \in Nat \ {0}
      /\ None \notin Nat
  BY TrackerAssumption, StepsAssumption
<1>1. CASE Tracker!Refresh
  <2>1. CASE ~Tracker!Awaiting \/ opened = None \/ opened > Window
    BY <1>0, <1>1, <2>1 DEF Tracker!Refresh, Tracker!Performed, BurstInv
  <2>2. CASE Tracker!Awaiting /\ opened # None /\ ~(opened > Window)
    <3>1. burst < BurstMax
      BY <1>0, <1>1, <2>2 DEF Tracker!Refresh, Tracker!Due, Tracker!Spent, BurstInv
    <3> QED
      BY <1>0, <1>1, <2>2, <3>1 DEF Tracker!Refresh, Tracker!Performed, BurstInv
  <2> QED
    BY <2>1, <2>2
<1>2. CASE Tracker!ForceRefresh
  BY <1>0, <1>2 DEF Tracker!ForceRefresh, Tracker!Performed, BurstInv
<1>3. CASE Tracker!Tick
  BY <1>0, <1>3 DEF Tracker!Tick, Tracker!Later, BurstInv
<1>4. CASE UNCHANGED <<sinceRefresh, burst, opened>>
  BY <1>4 DEF BurstInv
<1> QED
  BY <1>1, <1>2, <1>3, <1>4
  DEF Tracker!Next, Tracker!vars, Tracker!Build, Tracker!Answer, Tracker!Poll, Tracker!Publish,
      Tracker!Batch, Tracker!Play, Tracker!Pause, Tracker!NextStage, Tracker!Heat,
      Tracker!World, Tracker!policy

-----------------------------------------------------------------------------
(* RAPT's steps: what the operator attested                                *)

Ids == Steps!Sessions
Attested == [phase : {"awaiting_lift", "heat_to_boil"}, session : Ids]

StepsTypes ==
    /\ session \in Ids /\ step \in 1 .. 4 /\ timer \in Steps!Timers
    /\ link \in BOOLEAN /\ abort \in BOOLEAN /\ faults \in 0 .. MaxFaults
    /\ heat \in {0, 1} /\ pct \in {0, 1} /\ pump \in BOOLEAN /\ fresh \in BOOLEAN
    /\ sparge \in Attested \cup {Steps!NoSparge} /\ cooling \in Ids \cup {None}
    /\ pending \in Ids \cup {None} /\ confirming \in Ids \cup {None}
    /\ flight \in [Steps!Tasks -> [boil : Ids \cup {None}, todo : SUBSET Steps!Writes]]

(* The lift was attested in the sparge that may heat, and the plan that    *)
(* waits for CONFIRM is of that sparge.                                    *)
LiftInv ==
    /\ sparge.phase = "heat_to_boil" => lifted = sparge.session
    /\ pending # None => sparge = [phase |-> "heat_to_boil", session |-> pending]

(* What a CONFIRM executes was approved, in this session.                  *)
ConfirmInv ==
    /\ confirming # None => approved = confirming
    /\ flight["confirm"].todo # {} =>
         approved = session /\ pending \in {None, session}

(* The chiller was armed in this boil, or for an earlier session.          *)
ChillerInv ==
    cooling # None => \/ cooling < session
                      \/ cooling = session /\ step >= 3 /\ (step = 3 => armed = session)

StepsInv == StepsTypes /\ LiftInv /\ ConfirmInv /\ ChillerInv

LEMMA StepNames ==
  ASSUME step \in 1 .. 4
  PROVE  (Steps!InSparge <=> step = 2) /\ (Steps!InBoil <=> step = 3)
  BY DEF Steps!InSparge, Steps!InBoil, Steps!Steps

LEMMA IdsAreNumbers == Ids \subseteq Nat /\ None \notin Ids /\ 1 \in Ids
  BY StepsAssumption DEF Ids, Steps!Sessions

(* A look at the sparge keeps its phase, or starts over; heat_to_boil is   *)
(* the attested lift of the session that runs.                             *)
LEMMA SpargeLook ==
  ASSUME StepsTypes
  PROVE  /\ Steps!SpargeNow \in Attested \cup {Steps!NoSparge}
         /\ Steps!SpargeNow.phase = "heat_to_boil" =>
              /\ Steps!SpargeNow = sparge /\ sparge.session = session
              /\ sparge = [phase |-> "heat_to_boil", session |-> session]
  BY DEF Steps!SpargeNow, StepsTypes, Attested, Steps!NoSparge

LEMMA ChoiceLook ==
  Steps!ChoiceNow \in {cooling, None}
  BY DEF Steps!ChoiceNow

LEMMA PlanTypes ==
  ASSUME NEW cold \in BOOLEAN, NEW todo \in Steps!PlansOf(cold)
  PROVE  todo \subseteq Steps!Writes
<1>1. /\ Steps!SafeDown \subseteq Steps!Writes /\ Steps!BoilPlan \subseteq Steps!Writes
      /\ Steps!Changes \subseteq Steps!Writes
  BY DEF Steps!SafeDown, Steps!BoilPlan, Steps!Changes, Steps!Writes
<1>2. Steps!SpargePlan(Steps!SpargeNow.phase, cold) \subseteq Steps!Writes
  BY <1>1 DEF Steps!SpargePlan, Steps!Writes
<1> QED
  BY <1>1, <1>2 DEF Steps!PlansOf

(* A plan that waits for CONFIRM is withdrawn with the lift.               *)
LEMMA LiftKept ==
  ASSUME StepsInv, sparge' = Steps!SpargeNow, lifted' = lifted,
         \/ pending' = None
         \/ pending' = pending /\ Steps!SpargeNow = sparge
         \/ pending' = session /\ Steps!SpargeNow.phase = "heat_to_boil"
  PROVE  LiftInv'
  BY SpargeLook DEF StepsInv, LiftInv

LEMMA SameStepsInv ==
  ASSUME StepsInv,
         UNCHANGED <<session, step, timer, link, abort, faults, heat, pct, pump, fresh, sparge,
                     cooling, pending, confirming, flight, lifted, approved, armed>>
  PROVE  StepsInv'
  BY DEF StepsInv, StepsTypes, LiftInv, ConfirmInv, ChillerInv

LEMMA ObserveInv ==
  ASSUME StepsInv, Steps!Observe
  PROVE  StepsInv'
<1>1. /\ sparge' = Steps!SpargeNow /\ cooling' = Steps!ChoiceNow
      /\ pending' = IF Steps!SpargeNow # sparge THEN None ELSE pending
      /\ UNCHANGED <<session, step, timer, link, abort, faults, heat, pct, pump, fresh,
                     confirming, flight, lifted, approved, armed>>
  BY DEF Steps!Observe, Steps!ObserveSparge, Steps!world, Steps!outputs, Steps!attested
<1>2. StepsTypes'
  BY <1>1, SpargeLook, ChoiceLook DEF StepsInv, StepsTypes
<1>3. LiftInv'
  BY <1>1, LiftKept
<1>4. ConfirmInv' /\ ChillerInv'
  BY <1>1, ChoiceLook DEF StepsInv, ConfirmInv, ChillerInv
<1> QED
  BY <1>2, <1>3, <1>4 DEF StepsInv

LEMMA StepsTickInv ==
  ASSUME StepsInv, Steps!Tick
  PROVE  StepsInv'
<1>0. PICK cold \in BOOLEAN : \E todo \in Steps!PlansOf(cold) :
        /\ pending' = IF Steps!NeedsConfirm(todo) THEN Steps!PlanId ELSE None
        /\ flight' = [flight EXCEPT !["tick"] =
             IF Steps!NeedsConfirm(todo) \/ todo = {} THEN Steps!NoFlight
             ELSE [boil |-> Steps!BoilIdentity, todo |-> todo]]
  BY DEF Steps!Tick
<1>1. PICK todo \in Steps!PlansOf(cold) :
        /\ pending' = IF Steps!NeedsConfirm(todo) THEN Steps!PlanId ELSE None
        /\ flight' = [flight EXCEPT !["tick"] =
             IF Steps!NeedsConfirm(todo) \/ todo = {} THEN Steps!NoFlight
             ELSE [boil |-> Steps!BoilIdentity, todo |-> todo]]
  BY <1>0
<1>2. /\ sparge' = Steps!SpargeNow /\ cooling' = Steps!ChoiceNow
      /\ UNCHANGED <<session, step, timer, link, abort, faults, heat, pct, pump, fresh,
                     confirming, lifted, approved, armed>>
  BY DEF Steps!Tick, Steps!world, Steps!outputs, Steps!attested
<1>3. pending' = None \/ (pending' = session /\ Steps!SpargeNow.phase = "heat_to_boil")
  BY <1>1 DEF Steps!NeedsConfirm, Steps!PlanId
<1>4. StepsTypes'
  <2>1. flight' \in [Steps!Tasks -> [boil : Ids \cup {None}, todo : SUBSET Steps!Writes]]
    BY <1>1, PlanTypes
    DEF StepsInv, StepsTypes, Steps!NoFlight, Steps!BoilIdentity, Steps!Tasks
  <2> QED
    BY <1>2, <1>3, <2>1, SpargeLook, ChoiceLook DEF StepsInv, StepsTypes
<1>5. LiftInv'
  BY <1>2, <1>3, LiftKept
<1>6. flight'["confirm"] = flight["confirm"]
  BY <1>1 DEF StepsInv, StepsTypes, Steps!Tasks
<1>7. ConfirmInv' /\ ChillerInv'
  BY <1>2, <1>3, <1>6, ChoiceLook DEF StepsInv, ConfirmInv, ChillerInv
<1> QED
  BY <1>4, <1>5, <1>7 DEF StepsInv

LEMMA ExecuteInv ==
  ASSUME StepsInv, Steps!Execute
  PROVE  StepsInv'
<1>0. PICK cold \in BOOLEAN : \E todo \in Steps!PlansOf(cold) :
        LET live == Steps!NeedsConfirm(todo) /\ confirming = Steps!PlanId
        IN /\ flight' = [flight EXCEPT !["confirm"] =
                IF live THEN [boil |-> Steps!BoilIdentity, todo |-> todo] ELSE Steps!NoFlight]
           /\ pending' = IF live /\ Steps!SpargeNow = sparge THEN pending ELSE None
  BY DEF Steps!Execute
<1>1. PICK todo \in Steps!PlansOf(cold) :
        LET live == Steps!NeedsConfirm(todo) /\ confirming = Steps!PlanId
        IN /\ flight' = [flight EXCEPT !["confirm"] =
                IF live THEN [boil |-> Steps!BoilIdentity, todo |-> todo] ELSE Steps!NoFlight]
           /\ pending' = IF live /\ Steps!SpargeNow = sparge THEN pending ELSE None
  BY <1>0
<1> DEFINE live == Steps!NeedsConfirm(todo) /\ confirming = Steps!PlanId
<1>2. /\ sparge' = Steps!SpargeNow /\ confirming # None /\ confirming' = None
      /\ UNCHANGED <<session, step, timer, link, abort, faults, heat, pct, pump, fresh,
                     cooling, lifted, approved, armed>>
  BY DEF Steps!Execute, Steps!world, Steps!outputs, Steps!attested
<1>3. pending' = None \/ (pending' = pending /\ Steps!SpargeNow = sparge /\ live)
  BY <1>1
<1>4. StepsTypes'
  <2>1. flight' \in [Steps!Tasks -> [boil : Ids \cup {None}, todo : SUBSET Steps!Writes]]
    BY <1>1, PlanTypes
    DEF StepsInv, StepsTypes, Steps!NoFlight, Steps!BoilIdentity, Steps!Tasks
  <2> QED
    BY <1>2, <1>3, <2>1, SpargeLook DEF StepsInv, StepsTypes
<1>5. LiftInv'
  BY <1>2, <1>3, LiftKept
<1>6. flight'["confirm"] = IF live THEN [boil |-> Steps!BoilIdentity, todo |-> todo]
                           ELSE Steps!NoFlight
  BY <1>1 DEF StepsInv, StepsTypes, Steps!Tasks
<1>7. live => /\ approved = session
              /\ pending \in {None, session}
  <2> SUFFICES ASSUME live PROVE approved = session /\ pending \in {None, session}
    OBVIOUS
  <2>1. confirming = session /\ Steps!SpargeNow.phase = "heat_to_boil"
    BY DEF Steps!PlanId, Steps!NeedsConfirm
  <2>2. sparge = [phase |-> "heat_to_boil", session |-> session]
    BY <2>1, SpargeLook DEF StepsInv
  <2> QED
    BY <1>2, <2>1, <2>2 DEF StepsInv, ConfirmInv, LiftInv
<1>8. ConfirmInv' /\ ChillerInv'
  BY <1>2, <1>3, <1>6, <1>7 DEF StepsInv, ConfirmInv, ChillerInv, Steps!NoFlight
<1> QED
  BY <1>4, <1>5, <1>8 DEF StepsInv

(* A write of a plan: the plan gets shorter, or ends.                      *)
LEMMA WriteInv ==
  ASSUME StepsInv, NEW t \in Steps!Tasks, Steps!Write(t)
  PROVE  StepsInv'
<1>1. PICK w, left :
        /\ left \subseteq flight[t].todo /\ flight[t].todo # {}
        /\ (Steps!Allowed(t, w) /\ Steps!Lands(w)) \/ UNCHANGED <<heat, pct, pump, fresh>>
        /\ flight' = [flight EXCEPT ![t] =
              IF left = {} THEN Steps!NoFlight ELSE [@ EXCEPT !.todo = left]]
        /\ pending' = IF \/ Steps!Verified /\ Steps!SpargeNow # sparge
                         \/ t = "confirm" /\ left = {}
                      THEN None ELSE pending
  <2> DEFINE w == CHOOSE x \in flight[t].todo :
                    \A y \in flight[t].todo : Steps!Rank(x) <= Steps!Rank(y)
             left == IF Steps!Allowed(t, w) THEN flight[t].todo \ {w} ELSE {}
  <2>1. left \subseteq flight[t].todo
    OBVIOUS
  <2>2. /\ flight[t].todo # {}
        /\ IF Steps!Allowed(t, w) THEN Steps!Lands(w) ELSE UNCHANGED <<heat, pct, pump, fresh>>
        /\ flight' = [flight EXCEPT ![t] =
              IF left = {} THEN Steps!NoFlight ELSE [@ EXCEPT !.todo = left]]
        /\ pending' = IF \/ Steps!Verified /\ Steps!SpargeNow # sparge
                         \/ t = "confirm" /\ left = {}
                      THEN None ELSE pending
    BY DEF Steps!Write, Steps!outputs
  <2> HIDE DEF w, left
  <2> QED
    BY <2>1, <2>2
<1>2. /\ sparge' = IF Steps!Verified THEN Steps!SpargeNow ELSE sparge
      /\ cooling' \in {cooling, Steps!ChoiceNow}
      /\ UNCHANGED <<session, step, timer, link, abort, faults, confirming, lifted, approved,
                     armed>>
  BY DEF Steps!Write, Steps!world, Steps!attested
<1>3. heat' \in {0, 1} /\ pct' \in {0, 1} /\ pump' \in BOOLEAN /\ fresh' \in BOOLEAN
  BY <1>1 DEF Steps!Lands, StepsInv, StepsTypes
<1>4. flight' \in [Steps!Tasks -> [boil : Ids \cup {None}, todo : SUBSET Steps!Writes]]
  BY <1>1 DEF StepsInv, StepsTypes, Steps!NoFlight
<1>5. StepsTypes'
  BY <1>1, <1>2, <1>3, <1>4, SpargeLook, ChoiceLook DEF StepsInv, StepsTypes
<1>6. LiftInv'
  <2>1. CASE Steps!Verified
    BY <1>1, <1>2, <2>1, LiftKept
  <2>2. CASE ~Steps!Verified
    BY <1>1, <1>2, <2>2 DEF StepsInv, LiftInv
  <2> QED
    BY <2>1, <2>2
<1>7. flight'["confirm"].todo # {} => flight["confirm"].todo # {}
  BY <1>1 DEF StepsInv, StepsTypes, Steps!NoFlight, Steps!Tasks
<1>8. ConfirmInv' /\ ChillerInv'
  BY <1>1, <1>2, <1>7, ChoiceLook DEF StepsInv, ConfirmInv, ChillerInv
<1> QED
  BY <1>5, <1>6, <1>8 DEF StepsInv

LEMMA ConfirmStepInv ==
  ASSUME StepsInv, Steps!Confirm
  PROVE  StepsInv'
<1>1. /\ pending # None /\ confirming' = pending /\ approved' = pending
      /\ UNCHANGED <<session, step, timer, link, abort, faults, heat, pct, pump, fresh, sparge,
                     cooling, pending, flight, lifted, armed>>
  BY DEF Steps!Confirm, Steps!world, Steps!outputs
<1> QED
  BY <1>1 DEF StepsInv, StepsTypes, LiftInv, ConfirmInv, ChillerInv

LEMMA ConfirmLiftInv ==
  ASSUME StepsInv, Steps!ConfirmLift
  PROVE  StepsInv'
<1>1. /\ Steps!SpargeNow.phase = "awaiting_lift"
      /\ sparge' = [Steps!SpargeNow EXCEPT !.phase = "heat_to_boil"]
      /\ pending' = None /\ lifted' = session
      /\ UNCHANGED <<session, step, timer, link, abort, faults, heat, pct, pump, fresh,
                     cooling, confirming, flight, approved, armed>>
  BY DEF Steps!ConfirmLift, Steps!Attestable, Steps!world, Steps!outputs
<1>2. Steps!SpargeNow \in Attested /\ Steps!SpargeNow.session = session
  BY <1>1, SpargeLook DEF Steps!SpargeNow, StepsInv, StepsTypes, Attested, Steps!NoSparge
<1>3. sparge' \in Attested /\ sparge'.session = session
  BY <1>1, <1>2 DEF Attested
<1> QED
  BY <1>1, <1>3 DEF StepsInv, StepsTypes, LiftInv, ConfirmInv, ChillerInv

LEMMA ChooseCoolingInv ==
  ASSUME StepsInv, NEW ready \in BOOLEAN, Steps!ChooseCooling(ready)
  PROVE  StepsInv'
<1>1. /\ step = 3 /\ cooling' = (IF ready THEN session ELSE None) /\ armed' = cooling'
      /\ UNCHANGED <<session, step, timer, link, abort, faults, heat, pct, pump, fresh, sparge,
                     pending, confirming, flight, lifted, approved>>
  BY StepNames DEF Steps!ChooseCooling, Steps!world, Steps!outputs, Steps!slot, StepsInv,
     StepsTypes
<1> QED
  BY <1>1 DEF StepsInv, StepsTypes, LiftInv, ConfirmInv, ChillerInv

(* A new session leaves no plan behind; the chiller's boil is the past's.  *)
LEMMA MoveInv ==
  ASSUME StepsInv, Steps!Move
  PROVE  StepsInv'
<1>1. /\ \/ step < 4 /\ step' = step + 1 /\ session' = session
         \/ session < MaxSessions /\ Steps!ShortFlights /\ session' = session + 1 /\ step' = 1
      /\ timer' \in Steps!Timers
      /\ UNCHANGED <<link, abort, faults, heat, pct, pump, fresh, sparge,
                     cooling, pending, confirming, flight, lifted, approved>>
  BY DEF Steps!Move, Steps!Steps, Steps!Timers, Steps!outputs, Steps!slot
<1>2. session \in Nat /\ session' \in Ids /\ step' \in 1 .. 4
  BY <1>1, StepsAssumption DEF StepsInv, StepsTypes, Ids, Steps!Sessions
<1>3. StepsTypes' /\ LiftInv'
  BY <1>1, <1>2 DEF StepsInv, StepsTypes, LiftInv
<1>4. ConfirmInv'
  <2>1. Steps!ShortFlights => flight["confirm"].todo = {}
    BY DEF Steps!ShortFlights, Steps!Tasks, Steps!NoFlight
  <2> QED
    BY <1>1, <2>1 DEF StepsInv, ConfirmInv
<1>5. ChillerInv'
  <2> SUFFICES ASSUME cooling # None
               PROVE  \/ cooling < session'
                      \/ cooling = session' /\ step' >= 4
    BY <1>1, <1>2 DEF ChillerInv
  <2>1. cooling \in Nat /\ step \in Nat
    BY IdsAreNumbers DEF StepsInv, StepsTypes
  <2> QED
    BY <1>1, <1>2, <2>1 DEF StepsInv, ChillerInv
<1> QED
  BY <1>3, <1>4, <1>5 DEF StepsInv

LEMMA AbortInv ==
  ASSUME StepsInv, Steps!Abort
  PROVE  StepsInv'
<1>1. /\ faults' = faults + 1 /\ faults < MaxFaults /\ abort' = TRUE
      /\ heat' \in {heat, 0} /\ pct' \in {pct, 0} /\ pump' \in {pump, FALSE}
      /\ sparge' = Steps!NoSparge /\ cooling' = None /\ pending' = None
      /\ UNCHANGED <<session, step, timer, link, fresh, confirming, flight, approved>>
  BY DEF Steps!Abort, Steps!Fault
<1>2. faults' \in 0 .. MaxFaults
  BY <1>1, StepsAssumption DEF StepsInv, StepsTypes
<1>3. heat' \in {0, 1} /\ pct' \in {0, 1} /\ pump' \in BOOLEAN
  BY <1>1 DEF StepsInv, StepsTypes
<1> QED
  BY <1>1, <1>2, <1>3
  DEF StepsInv, StepsTypes, LiftInv, ConfirmInv, ChillerInv, Steps!NoSparge

LEMMA StepsRestartInv ==
  ASSUME StepsInv, Steps!Restart
  PROVE  StepsInv'
<1>1. /\ faults' = faults + 1 /\ faults < MaxFaults
      /\ sparge' = Steps!NoSparge /\ cooling' = None /\ pending' = None /\ confirming' = None
      /\ flight' = [t \in Steps!Tasks |-> Steps!NoFlight]
      /\ UNCHANGED <<session, step, timer, link, abort, heat, pct, pump, fresh, approved>>
  BY DEF Steps!Restart, Steps!Fault, Steps!outputs
<1>2. /\ flight' \in [Steps!Tasks -> [boil : Ids \cup {None}, todo : SUBSET Steps!Writes]]
      /\ flight'["confirm"].todo = {}
  BY <1>1 DEF Steps!NoFlight, Steps!Tasks
<1> QED
  BY <1>1, <1>2, StepsAssumption
  DEF StepsInv, StepsTypes, LiftInv, ConfirmInv, ChillerInv, Steps!NoSparge

LEMMA WorldInv ==
  ASSUME StepsInv,
         \/ Steps!Late \/ Steps!Link \/ Steps!Readback \/ Steps!Hands \/ Steps!Rearm
  PROVE  StepsInv'
<1>1. UNCHANGED <<session, step, sparge, cooling, pending, confirming, flight, lifted, approved,
                  armed>>
  BY DEF Steps!Late, Steps!Link, Steps!Readback, Steps!Hands, Steps!Rearm, Steps!outputs,
     Steps!slot, Steps!attested, Steps!world
<1>2. faults' \in 0 .. MaxFaults
  <2>1. faults' = faults \/ (faults < MaxFaults /\ faults' = faults + 1)
    <3>1. CASE Steps!Link
      BY <3>1 DEF Steps!Link, Steps!Fault
    <3>2. CASE Steps!Hands
      BY <3>2 DEF Steps!Hands, Steps!Fault
    <3>3. CASE Steps!Late \/ Steps!Readback \/ Steps!Rearm
      BY <3>3 DEF Steps!Late, Steps!Readback, Steps!Rearm, Steps!world
    <3> QED
      BY <3>1, <3>2, <3>3
  <2> QED
    BY <2>1, StepsAssumption DEF StepsInv, StepsTypes
<1>3. timer' \in Steps!Timers /\ link' \in BOOLEAN /\ abort' \in BOOLEAN /\ fresh' \in BOOLEAN
  <2>1. timer' \in {timer, "late"} /\ abort' \in {abort, FALSE}
    BY DEF Steps!Late, Steps!Link, Steps!Readback, Steps!Hands, Steps!Rearm, Steps!world
  <2>2. link' = link \/ link' = ~link
    BY DEF Steps!Late, Steps!Link, Steps!Readback, Steps!Hands, Steps!Rearm, Steps!world
  <2>3. fresh' = fresh \/ fresh' = ~fresh
    BY DEF Steps!Late, Steps!Link, Steps!Readback, Steps!Hands, Steps!Rearm, Steps!outputs
  <2> QED
    BY <2>1, <2>2, <2>3 DEF StepsInv, StepsTypes, Steps!Timers
<1>4. heat' \in {0, 1} /\ pct' \in {0, 1}
  <2>1. heat' \in {heat, 1 - heat} /\ pct' \in {pct, 1 - pct}
    BY DEF Steps!Late, Steps!Link, Steps!Readback, Steps!Hands, Steps!Rearm, Steps!outputs
  <2> QED
    BY <2>1 DEF StepsInv, StepsTypes
<1>5. pump' \in BOOLEAN
  <2>1. pump' \in {pump, ~pump}
    BY DEF Steps!Late, Steps!Link, Steps!Readback, Steps!Hands, Steps!Rearm, Steps!outputs
  <2> QED
    BY <2>1 DEF StepsInv, StepsTypes
<1> QED
  BY <1>1, <1>2, <1>3, <1>4, <1>5 DEF StepsInv, StepsTypes, LiftInv, ConfirmInv, ChillerInv

LEMMA StepsNextInv ==
  ASSUME StepsInv, [Steps!Next]_Steps!vars
  PROVE  StepsInv'
<1>1. CASE UNCHANGED Steps!vars
  BY <1>1, SameStepsInv
  DEF Steps!vars, Steps!world, Steps!outputs, Steps!slot, Steps!attested
<1>2. CASE Steps!Next
  BY <1>2, ObserveInv, StepsTickInv, ExecuteInv, WriteInv, ConfirmStepInv, ConfirmLiftInv,
     ChooseCoolingInv, MoveInv, AbortInv, StepsRestartInv, WorldInv DEF Steps!Next
<1> QED
  BY <1>1, <1>2

LEMMA StepsInit == Steps!Init => StepsInv
<1> SUFFICES ASSUME Steps!Init PROVE StepsInv
  OBVIOUS
<1>1. StepsTypes
  <2>1. /\ session \in Ids /\ step \in 1 .. 4 /\ timer \in Steps!Timers
        /\ heat \in {0, 1} /\ pct \in {0, 1}
    BY IdsAreNumbers DEF Steps!Init, Steps!Timers
  <2>3. link \in BOOLEAN /\ abort \in BOOLEAN /\ fresh \in BOOLEAN /\ pump \in BOOLEAN
    BY DEF Steps!Init
  <2>4. faults \in 0 .. MaxFaults
    BY StepsAssumption DEF Steps!Init
  <2>2. flight \in [Steps!Tasks -> [boil : Ids \cup {None}, todo : SUBSET Steps!Writes]]
    BY DEF Steps!Init, Steps!NoFlight
  <2> QED
    BY <2>1, <2>2, <2>3, <2>4 DEF Steps!Init, StepsTypes
<1>2. flight["confirm"].todo = {}
  BY DEF Steps!Init, Steps!Tasks, Steps!NoFlight
<1> QED
  BY <1>1, <1>2 DEF Steps!Init, StepsInv, LiftInv, ConfirmInv, ChillerInv, Steps!NoSparge

-----------------------------------------------------------------------------
(* RAPT's steps: what a write needs                                        *)

(* What a call that raises something has been judged by.                   *)
LEMMA RaisesJudged ==
  ASSUME StepsInv, NEW t \in Steps!Tasks, Steps!Write(t),
         heat' > heat \/ pct' > pct \/ (~pump /\ pump')
  PROVE  \E w \in Steps!Positive :
           /\ Steps!Allowed(t, w) /\ Steps!Verified /\ flight[t].todo # {}
           /\ heat' > heat => w = "heat_up"
           /\ pct' > pct \/ (~pump /\ pump') => w \in {"pct_up", "pump_on"}
<1> DEFINE w == CHOOSE x \in flight[t].todo :
                  \A y \in flight[t].todo : Steps!Rank(x) <= Steps!Rank(y)
<1>1. /\ flight[t].todo # {}
      /\ IF Steps!Allowed(t, w) THEN Steps!Lands(w) ELSE UNCHANGED <<heat, pct, pump, fresh>>
  BY DEF Steps!Write, Steps!outputs
<1>2. heat \in {0, 1} /\ pct \in {0, 1} /\ pump \in BOOLEAN
  BY DEF StepsInv, StepsTypes
<1> HIDE DEF w
<1>3. Steps!Allowed(t, w) /\ Steps!Lands(w)
  BY <1>1, <1>2
<1>4. /\ heat' > heat => w = "heat_up"
      /\ pct' > pct => w = "pct_up"
      /\ ~pump /\ pump' => w = "pump_on"
  BY <1>2, <1>3 DEF Steps!Lands
<1>5. w \in Steps!Positive
  BY <1>4 DEF Steps!Positive
<1>6. Steps!Verified
  BY <1>3, <1>5 DEF Steps!Allowed
<1>7. heat' > heat => w \notin {"pct_up", "pump_on"}
  BY <1>4
<1> QED
  BY <1>1, <1>2, <1>3, <1>4, <1>5, <1>6, <1>7 DEF Steps!Lands

LEMMA HeatStep ==
  ASSUME StepsInv, NEW t \in Steps!Tasks, Steps!Write(t), Steps!InSparge, heat' > heat
  PROVE  lifted = session /\ approved = session
<1>1. /\ Steps!Allowed(t, "heat_up") /\ Steps!Verified /\ flight[t].todo # {}
  BY RaisesJudged
<1>2. Steps!SpargeAllows("heat_up") /\ Steps!TaskAllows(t, "heat_up")
  BY <1>1 DEF Steps!Allowed
<1>3. Steps!SpargeNow.phase # "inactive"
  BY <1>1 DEF Steps!SpargeNow, StepsInv, StepsTypes, Attested, Steps!NoSparge
<1>4. Steps!SpargeNow.phase = "heat_to_boil" /\ t = "confirm"
  BY <1>2, <1>3 DEF Steps!SpargeAllows, Steps!TaskAllows, Steps!Positive
<1>5. sparge = [phase |-> "heat_to_boil", session |-> session]
  BY <1>4, SpargeLook DEF StepsInv
<1> QED
  BY <1>1, <1>4, <1>5 DEF StepsInv, LiftInv, ConfirmInv

LEMMA PumpStep ==
  ASSUME StepsInv, NEW t \in Steps!Tasks, Steps!Write(t), pct' > pct \/ (~pump /\ pump')
  PROVE  /\ ~Steps!InSparge
         /\ Steps!InBoil => armed = session /\ timer = "late"
         /\ flight[t].boil # None => Steps!InBoil
<1>1. PICK w \in {"pct_up", "pump_on"} : Steps!Allowed(t, w) /\ Steps!Verified
  BY RaisesJudged
<1>2. ~Steps!InSparge
  <2> SUFFICES ASSUME Steps!InSparge PROVE FALSE
    OBVIOUS
  <2>1. Steps!SpargeNow.phase # "inactive"
    BY <1>1 DEF Steps!SpargeNow, StepsInv, StepsTypes, Attested, Steps!NoSparge
  <2> QED
    BY <1>1, <2>1 DEF Steps!Allowed, Steps!SpargeAllows, Steps!Positive
<1>3. Steps!InBoil => Steps!Recirculate
  BY <1>1 DEF Steps!Allowed, Steps!BoilAllows
<1>4. Steps!Recirculate => armed = session /\ timer = "late" /\ Steps!InBoil
  <2> SUFFICES ASSUME Steps!Recirculate PROVE armed = session /\ timer = "late" /\ Steps!InBoil
    OBVIOUS
  <2>1. cooling = session /\ timer = "late" /\ Steps!InBoil /\ step = 3
    BY StepNames DEF Steps!Recirculate, StepsInv, StepsTypes
  <2>2. session # None /\ session \in Nat
    BY IdsAreNumbers DEF StepsInv, StepsTypes
  <2> QED
    BY <2>1, <2>2 DEF StepsInv, ChillerInv
<1>5. flight[t].boil # None => Steps!Recirculate
  BY <1>1 DEF Steps!Allowed, Steps!BoilIdentity
<1> QED
  BY <1>2, <1>3, <1>4, <1>5

-----------------------------------------------------------------------------
(* The composition: a step of the run is a step of one part, and leaves    *)
(* the others alone.                                                       *)

LEMMA OneAtATime ==
  [Next]_vars => /\ [Tracker!Next]_Tracker!vars /\ [Steps!Next]_Steps!vars
                 /\ [Engine!Next]_Engine!vars
<1> SUFFICES ASSUME [Next]_vars
             PROVE  /\ [Tracker!Next]_Tracker!vars /\ [Steps!Next]_Steps!vars
                    /\ [Engine!Next]_Engine!vars
  OBVIOUS
<1>1. UNCHANGED trackerVars => UNCHANGED Tracker!vars
  BY DEF trackerVars, Tracker!vars
<1>2. UNCHANGED stepVars => UNCHANGED Steps!vars
  BY DEF stepVars, Steps!vars, Steps!world, Steps!outputs, Steps!slot, Steps!attested
<1>3. UNCHANGED engineVars => UNCHANGED Engine!vars
  BY DEF engineVars, Engine!vars, Engine!session
<1> QED
  BY <1>1, <1>2, <1>3 DEF Next, vars, TrackerOnly, StepsOnly, EngineOnly

LEMMA TrackerAlways == Spec => [](TrackerInv /\ BurstInv)
<1>1. Init => TrackerInv /\ BurstInv
  <2> SUFFICES ASSUME Tracker!Init PROVE TrackerInv /\ BurstInv
    BY DEF Init
  <2>1. TrackerInv
    BY StartsAt DEF Tracker!Init, TrackerInv, SaysStarted, View
  <2>2. BurstInv
    BY TrackerAssumption DEF Tracker!Init, BurstInv
  <2> QED
    BY <2>1, <2>2
<1>2. TrackerInv /\ BurstInv /\ [Next]_vars => (TrackerInv /\ BurstInv)'
  BY OneAtATime, TrackerNextInv, BurstNextInv
<1> QED
  BY <1>1, <1>2, PTL DEF Spec

LEMMA StepsAlways == Spec => []StepsInv
<1>1. Init => StepsInv
  BY StepsInit DEF Init
<1>2. StepsInv /\ [Next]_vars => StepsInv'
  BY OneAtATime, StepsNextInv
<1> QED
  BY <1>1, <1>2, PTL DEF Spec

LEMMA EngineAlways == Spec => [](EngineInv /\ ClaimsOK)
<1>1. Init => EngineInv /\ ClaimsOK
  <2> SUFFICES ASSUME Engine!Init PROVE EngineInv /\ ClaimsOK
    BY DEF Init
  <2>1. <<1, 1>> \in Engine!Places("default") /\ "default" \in PlanNames
    BY FirstPlace DEF PlanNames
  <2>2. 0 \in 0 .. LongTime
    BY PlanAssumption
  <2>3. SessionOK
    BY <2>1, <2>2 DEF Engine!Init, SessionOK, Engine!States
  <2>4. TimersOK
    BY DEF Engine!Init, TimersOK, Engine!InProgress
  <2>5. ClaimsOK
    BY DEF Engine!Init, ClaimsOK, Engine!Owners
  <2> QED
    BY <2>3, <2>4, <2>5 DEF EngineInv
<1>2. EngineInv /\ ClaimsOK /\ [Next]_vars => (EngineInv /\ ClaimsOK)'
  BY EngineNextInv, OneAtATime
<1> QED
  BY <1>1, <1>2, PTL DEF Spec

(* Types: BA's step is one of the snapshot's stage, an awaited snapshot is *)
(* asked for at most as often as it is worth, a heating plan waits for     *)
(* CONFIRM only with its lift attested, and the engine's active step is    *)
(* one of the loaded plan's, whatever was primed, restored or jumped to.   *)
THEOREM TypeCorrect == Spec => []TypeOK
<1>1. TrackerInv /\ BurstInv => Tracker!TypeOK
  <2> SUFFICES ASSUME TrackerInv, BurstInv PROVE Tracker!TypeOK
    OBVIOUS
  <2>1. Tracker!Resolved \in DOMAIN Tracker!Steps(snap)
    BY ResolvedType DEF TrackerInv
  <2> QED
    BY <2>1 DEF Tracker!TypeOK, TrackerInv, BurstInv, View, TrackerViews
<1>2. StepsInv => Steps!TypeOK
  BY DEF StepsInv, StepsTypes, LiftInv, Steps!TypeOK, Steps!Steps, Ids, Attested
<1>3. EngineInv /\ ClaimsOK => Engine!TypeOK
  BY DEF EngineInv, ClaimsOK, SessionOK, Engine!TypeOK, PlanNames
<1> QED
  BY <1>1, <1>2, <1>3, TrackerAlways, StepsAlways, EngineAlways, PTL DEF TypeOK

(* A batch owns the hot side only after somebody has started its tracker,  *)
(* whatever recipe it has and whatever batch was latched before it.        *)
THEOREM OwnedAfterPlay == Spec => []OwnedOnlyAfterPlay
<1>1. TrackerInv => Tracker!OwnedOnlyAfterPlay
  BY DEF TrackerInv, Tracker!OwnedOnlyAfterPlay, Tracker!Owned
<1> QED
  BY <1>1, TrackerAlways, PTL DEF OwnedOnlyAfterPlay

(* BA heats in a sparge only when, in this very session, the operator      *)
(* attested the lift since the last ABORT or restart, and confirmed a plan.*)
THEOREM HeatAttested == Spec => HeatIsAttested
<1>1. StepsInv => [((\E t \in Steps!Tasks : Steps!Write(t)) /\ Steps!InSparge /\ heat' > heat)
                     => lifted = session /\ approved = session]_Steps!vars
  BY HeatStep
<1> QED
  BY <1>1, StepsAlways, PTL DEF HeatIsAttested, Steps!HeatIsAttested

(* BA starts or raises the pump never in a sparge, in a boil only through  *)
(* the chiller that was armed in it and in its last minutes.               *)
THEOREM PumpInItsBoil == Spec => PumpNeedsItsBoil
<1>1. StepsInv => [\A t \in Steps!Tasks :
         (Steps!Write(t) /\ (pct' > pct \/ (~pump /\ pump'))) =>
            /\ ~Steps!InSparge
            /\ Steps!InBoil => armed = session /\ timer = "late"
            /\ flight[t].boil # None => Steps!InBoil]_Steps!vars
  BY PumpStep
<1> QED
  BY <1>1, StepsAlways, PTL DEF PumpNeedsItsBoil, Steps!PumpNeedsItsBoil

(* The remaining time of a step whose timer is known is its length less    *)
(* the time in progress, over any pauses, handoffs and returns, for steps  *)
(* of any length.                                                          *)
THEOREM TimersKept == Spec => []StepTimeIsKept
<1>1. EngineInv => Engine!StepTimeIsKept
  BY RemainingIsLeft DEF Engine!StepTimeIsKept
<1> QED
  BY <1>1, EngineAlways, PTL DEF StepTimeIsKept

-----------------------------------------------------------------------------
(* BrewTracker: what BA goes on with by itself                             *)

(* The steps of a stage follow each other; of two that begin together the  *)
(* first waits for the brewer, and no third begins with them.              *)
TellsApart ==
    \A s \in DOMAIN Recipe : \A i, j \in DOMAIN Recipe[s] : i < j =>
      /\ Recipe[s][j].at <= Recipe[s][i].at
      /\ Recipe[s][j].at = Recipe[s][i].at => j = i + 1 /\ Recipe[s][i].waits

(* The step has begun and the next one has not, unless it begins with the  *)
(* one that waits.                                                         *)
WellPlaced(v) ==
    /\ v.left <= Recipe[v.stage][v.step].at
    /\ v.step + 1 \in DOMAIN Recipe[v.stage] =>
         \/ v.left > Recipe[v.stage][v.step + 1].at
         \/ /\ v.paused /\ v.left = Recipe[v.stage][v.step].at
            /\ v.left = Recipe[v.stage][v.step + 1].at

(* What the snapshot said still holds or is gone on with.                  *)
Follows ==
    /\ snap.paused /\ truth.paused => truth = snap
    /\ ~snap.paused => /\ ~truth.paused /\ truth.stage = snap.stage
                       /\ age < MaxAge => truth.left = Tracker!Left

SameBrew == truth.phase = "brewing" /\ truth.batch = snap.batch

(* A batch that was left, or planned anew, is never brewed again.          *)
FollowInv ==
    /\ truth.phase = "planning" => truth.batch \notin played
    /\ truth.phase = "brewing" => WellPlaced(truth)
    /\ snap.phase = "brewing" =>
         \/ SameBrew /\ (held \/ Follows)
         \/ /\ snap.batch \in played /\ ~SameBrew
            /\ ~(truth.phase = "planning" /\ truth.batch = snap.batch)

LEMMA StartTimes ==
  ASSUME NEW s \in DOMAIN Recipe, NEW i \in DOMAIN Recipe[s]
  PROVE  Recipe[s][i].at \in Nat /\ Recipe[s][i].waits \in BOOLEAN /\ i \in Nat
<1>1. Recipe[s][i] \in RecipeSteps /\ i \in Nat
  BY RecipeType
<1> QED
  BY <1>1 DEF RecipeSteps

(* A stage begins well.                                                    *)
LEMMA BeginsWell ==
  ASSUME TellsApart, NEW s \in DOMAIN Recipe, NEW v, v.stage = s, v.step = 1,
         v.left = Recipe[s][1].at, Recipe[s][1].waits => v.paused
  PROVE  WellPlaced(v)
<1>1. 1 \in DOMAIN Recipe[s] /\ Recipe[s][1].at \in Nat
  BY RecipeType
<1>2. ASSUME 2 \in DOMAIN Recipe[s]
      PROVE  \/ v.left > Recipe[s][2].at
             \/ v.paused /\ v.left = Recipe[s][2].at
  <2>1. Recipe[s][2].at <= Recipe[s][1].at /\ Recipe[s][2].at \in Nat
    BY <1>1, <1>2, StartTimes DEF TellsApart
  <2>2. Recipe[s][2].at = Recipe[s][1].at => v.paused
    BY <1>1, <1>2 DEF TellsApart
  <2> QED
    BY <1>1, <2>1, <2>2
<1> QED
  BY <1>1, <1>2 DEF WellPlaced

LEMMA BatchFollows ==
  ASSUME TellsApart, TrackerInv, FollowInv, Tracker!Batch
  PROVE  FollowInv'
<1>0. UNCHANGED <<snap, age, played, held>>
  BY DEF Tracker!Batch, Tracker!World
<1>1. ASSUME NEW b \in Batches, truth.phase # "brewing", b \notin played,
             truth' = [Tracker!NoBatch EXCEPT !.batch = b, !.phase = "planning"]
      PROVE  FollowInv'
  <2>1. truth'.phase = "planning" /\ truth'.batch = b
    BY <1>1 DEF Tracker!NoBatch
  <2>2. snap.phase = "brewing" => snap.batch \in played
    BY <1>1 DEF FollowInv, SameBrew
  <2> QED
    BY <1>0, <1>1, <2>1, <2>2 DEF FollowInv, SameBrew
<1>2. CASE truth.phase = "planning" /\ truth' = Tracker!Parked(truth.batch)
  <2>1. /\ truth'.phase = "brewing" /\ truth'.batch = truth.batch /\ truth'.stage = 1
        /\ truth'.step = 1 /\ truth'.left = Recipe[1][1].at /\ truth'.paused
    BY <1>2 DEF Tracker!Parked, Tracker!Length
  <2>2. WellPlaced(truth')
    BY <2>1, FirstStage, BeginsWell
  <2>3. snap.phase = "brewing" => snap.batch \in played /\ snap.batch # truth.batch
    BY <1>2 DEF FollowInv, SameBrew
  <2> QED
    BY <1>0, <2>1, <2>2, <2>3 DEF FollowInv, SameBrew
<1>3. CASE /\ truth.phase = "brewing" /\ truth.batch \in played
           /\ truth' = [Tracker!NoBatch EXCEPT !.batch = truth.batch, !.phase = "fermenting"]
  <2>1. truth'.phase = "fermenting"
    BY <1>3 DEF Tracker!NoBatch
  <2>2. snap.phase = "brewing" => snap.batch \in played
    BY <1>3 DEF FollowInv, SameBrew
  <2> QED
    BY <1>0, <2>1, <2>2 DEF FollowInv, SameBrew
<1> QED
  BY <1>1, <1>2, <1>3 DEF Tracker!Batch

(* Within a brew the batch stays, and with it what follows from it.        *)
LEMMA BrewFollows ==
  ASSUME FollowInv, truth.phase = "brewing", truth'.phase = "brewing",
         truth'.batch = truth.batch, snap' = snap, played \subseteq played',
         WellPlaced(truth'),
         SameBrew /\ snap.phase = "brewing" /\ (held \/ Follows) => held' \/ Follows'
  PROVE  FollowInv'
<1>1. SameBrew' <=> SameBrew
  BY DEF SameBrew
<1> QED
  BY <1>1 DEF FollowInv

LEMMA PlayFollows ==
  ASSUME TellsApart, TrackerInv, FollowInv, Tracker!Play
  PROVE  FollowInv'
<1> DEFINE stage == Recipe[truth.stage]
           next == IF truth.step < Len(Tracker!Steps(truth))
                         /\ Tracker!Steps(truth)[truth.step + 1].at = truth.left
                   THEN truth.step + 1 ELSE truth.step
<1>1. /\ truth' = [truth EXCEPT !.paused = FALSE, !.step = next]
      /\ truth.phase = "brewing" /\ truth.paused
      /\ played' = played \cup {truth.batch} /\ UNCHANGED <<snap, age, held>>
  BY DEF Tracker!Play, Tracker!World
<1>2. /\ truth \in TrackerViews /\ truth.stage \in DOMAIN Recipe /\ truth.step \in DOMAIN stage
      /\ DOMAIN stage = 1 .. Len(stage) /\ Len(stage) \in Nat /\ truth.left \in Nat
  BY RecipeType DEF TrackerInv, View, TrackerViews
<1>3. /\ truth'.phase = "brewing" /\ truth'.batch = truth.batch /\ ~truth'.paused
      /\ truth'.stage = truth.stage /\ truth'.left = truth.left /\ truth'.step = next
  BY <1>1, <1>2 DEF TrackerViews
<1>4. WellPlaced(truth)
  BY <1>1 DEF FollowInv
<1>5. WellPlaced(truth')
  <2>1. CASE truth.step + 1 \in DOMAIN stage /\ stage[truth.step + 1].at = truth.left
    <3>1. next = truth.step + 1
      BY <1>2, <2>1 DEF Tracker!Steps
    <3>2. stage[truth.step].at = truth.left
      <4>1. stage[truth.step + 1].at \in Nat
        BY <1>2, <2>1, StartTimes
      <4> QED
        BY <1>2, <1>4, <2>1, <4>1 DEF WellPlaced
    <3>3. ASSUME truth.step + 2 \in DOMAIN stage PROVE truth.left > stage[truth.step + 2].at
      <4>1. /\ stage[truth.step + 2].at <= stage[truth.step].at
            /\ stage[truth.step + 2].at # stage[truth.step].at
        BY <1>2, <3>3 DEF TellsApart
      <4>2. stage[truth.step + 2].at \in Nat
        BY <1>2, <3>3, StartTimes
      <4> QED
        BY <1>2, <3>2, <4>1, <4>2
    <3>4. next + 1 = truth.step + 2
      BY <1>2, <3>1
    <3> HIDE DEF next
    <3> QED
      BY <1>2, <1>3, <2>1, <3>1, <3>3, <3>4 DEF WellPlaced
  <2>2. CASE ~(truth.step + 1 \in DOMAIN stage /\ stage[truth.step + 1].at = truth.left)
    <3>1. next = truth.step
      BY <1>2, <2>2 DEF Tracker!Steps
    <3> HIDE DEF next
    <3> QED
      BY <1>3, <1>4, <2>2, <3>1 DEF WellPlaced
  <2> QED
    BY <2>1, <2>2
<1>6. SameBrew /\ snap.phase = "brewing" /\ (held \/ Follows) => held' \/ Follows'
  BY <1>1, <1>3 DEF Follows
<1> QED
  BY <1>1, <1>3, <1>5, <1>6, BrewFollows

LEMMA PauseFollows ==
  ASSUME TrackerInv, FollowInv, Tracker!Pause
  PROVE  FollowInv'
<1>1. /\ truth' = [truth EXCEPT !.paused = TRUE] /\ truth.phase = "brewing" /\ ~truth.paused
      /\ held' = TRUE /\ played' = played /\ snap' = snap
  BY DEF Tracker!Pause, Tracker!World, Tracker!Running
<1>2. /\ truth'.phase = "brewing" /\ truth'.batch = truth.batch /\ truth'.stage = truth.stage
      /\ truth'.step = truth.step /\ truth'.left = truth.left
  BY <1>1 DEF TrackerInv, View, TrackerViews
<1>3. WellPlaced(truth')
  BY <1>1, <1>2 DEF FollowInv, WellPlaced
<1> QED
  BY <1>1, <1>2, <1>3, BrewFollows

LEMMA NextStageFollows ==
  ASSUME TellsApart, TrackerInv, FollowInv, Tracker!NextStage
  PROVE  FollowInv'
<1> DEFINE s == truth.stage + 1
<1>1. /\ truth.phase = "brewing" /\ truth.stage < Len(Recipe) /\ held' = TRUE
      /\ truth' = [truth EXCEPT !.stage = s, !.step = 1, !.left = Recipe[s][1].at,
                                !.paused = Recipe[s][1].waits]
      /\ played' = played /\ snap' = snap
  BY DEF Tracker!NextStage, Tracker!World, Tracker!Running, Tracker!Length
<1>2. truth \in TrackerViews /\ s \in DOMAIN Recipe
  BY <1>1, FirstStage DEF TrackerInv, View, TrackerViews
<1> HIDE DEF s
<1>3. /\ truth'.phase = "brewing" /\ truth'.batch = truth.batch /\ truth'.stage = s
      /\ truth'.step = 1 /\ truth'.left = Recipe[s][1].at /\ truth'.paused = Recipe[s][1].waits
  BY <1>1, <1>2 DEF TrackerViews
<1>4. WellPlaced(truth')
  BY <1>2, <1>3, BeginsWell
<1> QED
  BY <1>1, <1>3, <1>4, BrewFollows

LEMMA TickFollows ==
  ASSUME TellsApart, TrackerInv, FollowInv, Tracker!Tick
  PROVE  FollowInv'
<1> DEFINE stage == Recipe[truth.stage]
           s == truth.step + 1
           left == truth.left - 1
<1>1. /\ held' = (held \/ (truth'.paused /\ ~truth.paused)) /\ snap' = snap /\ played' = played
      /\ age' = (IF age < MaxAge THEN age + 1 ELSE age)
  BY StepsAssumption DEF Tracker!Tick, Tracker!Later, TrackerInv
<1>2. /\ truth \in TrackerViews /\ truth.stage \in DOMAIN Recipe /\ truth.step \in DOMAIN stage
      /\ DOMAIN stage = 1 .. Len(stage) /\ Len(stage) \in Nat /\ truth.left \in Nat
      /\ snap.left \in Nat /\ snap.paused \in BOOLEAN /\ truth.paused \in BOOLEAN
      /\ age \in Nat /\ MaxAge \in Nat
  BY RecipeType, TrackerAssumption DEF TrackerInv, View, TrackerViews
<1>3. CASE Tracker!Running(truth) /\ truth.left > 0
  <2>1. truth.phase = "brewing" /\ ~truth.paused /\ truth' = Tracker!Runs(left) /\ WellPlaced(truth)
    BY <1>3 DEF Tracker!Tick, Tracker!Running, FollowInv
  <2>2. /\ truth'.phase = "brewing" /\ truth'.batch = truth.batch
        /\ truth'.stage = truth.stage /\ truth'.left = left
    BY <1>2, <2>1 DEF Tracker!Runs, TrackerViews
  <2>3. left \in Nat /\ left < truth.left /\ truth.left = left + 1
    BY <1>2, <1>3
  <2>4. WellPlaced(truth')
    <3>1. CASE s \in DOMAIN stage /\ stage[s].at = left
      <4>1. truth'.step = s /\ truth'.paused = stage[s].waits /\ s \in Nat
        BY <1>2, <2>1, <3>1 DEF Tracker!Runs, Tracker!Steps, TrackerViews
      <4>2. ASSUME s + 1 \in DOMAIN stage
            PROVE  \/ left > stage[s + 1].at
                   \/ stage[s].waits /\ left = stage[s + 1].at
        <5>1. /\ stage[s + 1].at <= stage[s].at
              /\ stage[s + 1].at = stage[s].at => stage[s].waits
          <6>1. /\ truth.stage \in DOMAIN Recipe /\ s \in DOMAIN stage
                /\ s + 1 \in DOMAIN stage /\ s < s + 1
            BY <1>2, <3>1, <4>1, <4>2
          <6> QED
            BY <6>1 DEF TellsApart
        <5>2. stage[s + 1].at \in Nat
          BY <1>2, <4>2, StartTimes
        <5> QED
          BY <2>3, <3>1, <5>1, <5>2
      <4> HIDE DEF s, left
      <4> QED
        BY <2>2, <2>3, <3>1, <4>1, <4>2 DEF WellPlaced
    <3>2. CASE ~(s \in DOMAIN stage /\ stage[s].at = left)
      <4>1. truth'.step = truth.step
        BY <1>2, <2>1, <3>2 DEF Tracker!Runs, Tracker!Steps, TrackerViews
      <4>2. stage[truth.step].at \in Nat /\ (s \in DOMAIN stage => stage[s].at \in Nat)
        BY <1>2, StartTimes
      <4>3. truth.left <= stage[truth.step].at /\ (s \in DOMAIN stage => truth.left > stage[s].at)
        BY <2>1 DEF WellPlaced
      <4>4. left <= stage[truth.step].at /\ (s \in DOMAIN stage => left > stage[s].at)
        BY <2>3, <3>2, <4>2, <4>3
      <4> QED
        BY <2>2, <4>1, <4>4 DEF WellPlaced
    <3> QED
      BY <3>1, <3>2
  <2>5. ASSUME ~held', Follows PROVE Follows'
    <3>1. ~truth'.paused
      BY <1>1, <2>1, <2>5, <2>2
    <3>2. ASSUME ~snap.paused, age' < MaxAge PROVE left = Tracker!Left'
      <4>1. age < MaxAge /\ age' = age + 1
        BY <1>1, <1>2, <3>2
      <4>2. truth.left = IF snap.left > age THEN snap.left - age ELSE 0
        BY <2>5, <3>2, <4>1 DEF Follows, Tracker!Left
      <4>3. left = IF snap.left > age + 1 THEN snap.left - (age + 1) ELSE 0
        BY <1>2, <2>3, <4>2
      <4> QED
        BY <1>1, <3>2, <4>1, <4>3 DEF Tracker!Left
    <3>3. ~snap.paused => truth.stage = snap.stage
      BY <2>5 DEF Follows
    <3> QED
      BY <1>1, <2>2, <3>1, <3>2, <3>3 DEF Follows
  <2>6. SameBrew /\ snap.phase = "brewing" /\ (held \/ Follows) => held' \/ Follows'
    BY <1>1, <2>5
  <2> QED
    BY <1>1, <2>1, <2>2, <2>4, <2>6, BrewFollows
<1>4. CASE ~(Tracker!Running(truth) /\ truth.left > 0)
  <2>1. truth' = truth
    BY <1>4 DEF Tracker!Tick
  <2>2. held' <=> held
    BY <1>1, <2>1
  <2>3. ASSUME SameBrew, Follows PROVE Follows'
    <3>1. ASSUME ~snap.paused, age' < MaxAge PROVE truth.left = Tracker!Left'
      <4>1. age < MaxAge /\ age' = age + 1
        BY <1>1, <1>2, <3>1
      <4>2. truth.left = IF snap.left > age THEN snap.left - age ELSE 0
        BY <2>3, <3>1, <4>1 DEF Follows, Tracker!Left
      <4>3. truth.left = 0
        BY <1>2, <1>4, <2>3, <3>1 DEF Follows, SameBrew, Tracker!Running
      <4>4. ~(snap.left > age + 1)
        BY <1>2, <4>2, <4>3
      <4> QED
        BY <1>1, <3>1, <4>1, <4>3, <4>4 DEF Tracker!Left
    <3> QED
      BY <1>1, <2>1, <2>3, <3>1 DEF Follows
  <2> QED
    BY <1>1, <2>2, <2>1, <2>3 DEF FollowInv, SameBrew
<1> QED
  BY <1>3, <1>4

LEMMA PublishFollows ==
  ASSUME TrackerInv, FollowInv, Tracker!Publish
  PROVE  FollowInv'
<1>1. snap' = truth /\ UNCHANGED <<truth, played>>
  BY DEF Tracker!Publish
<1>2. CASE truth = snap
  <2>1. UNCHANGED <<age, held, snap>>
    BY <1>1, <1>2 DEF Tracker!Publish
  <2> QED
    BY <1>1, <2>1 DEF FollowInv, SameBrew, Follows, Tracker!Left
<1>3. CASE truth # snap
  <2>1. age' = 0 /\ held' = FALSE
    BY <1>3 DEF Tracker!Publish
  <2>2. truth.left \in Nat
    BY DEF TrackerInv, View, TrackerViews
  <2>3. truth.left = Tracker!Left'
    BY <1>1, <2>1, <2>2 DEF Tracker!Left
  <2>4. Follows'
    BY <1>1, <2>3 DEF Follows
  <2> QED
    BY <1>1, <2>4 DEF FollowInv, SameBrew
<1> QED
  BY <1>2, <1>3

LEMMA FollowNextInv ==
  ASSUME TellsApart, TrackerInv, FollowInv, [Tracker!Next]_Tracker!vars
  PROVE  FollowInv'
<1>1. ASSUME UNCHANGED <<truth, played, snap, age, held>> PROVE FollowInv'
  BY <1>1 DEF FollowInv, SameBrew, Follows, Tracker!Left
<1>2. CASE Tracker!Build \/ Tracker!Refresh \/ Tracker!ForceRefresh
  BY <1>1, <1>2 DEF Tracker!Build, Tracker!Refresh, Tracker!ForceRefresh
<1>3. CASE Tracker!Heat
  BY <1>1, <1>3 DEF Tracker!Heat, Tracker!World
<1>4. CASE Tracker!Answer \/ Tracker!Poll
  BY <1>4, PublishFollows DEF Tracker!Answer, Tracker!Poll
<1>5. CASE UNCHANGED Tracker!vars
  BY <1>1, <1>5 DEF Tracker!vars
<1> QED
  BY <1>2, <1>3, <1>4, <1>5, BatchFollows, PlayFollows, PauseFollows, NextStageFollows,
     TickFollows DEF Tracker!Next

(* Of the steps that have begun the tracker's is the last.                 *)
LEMMA LastBegun ==
  ASSUME TellsApart, View(truth), WellPlaced(truth), ~truth.paused, ~snap.paused,
         snap.stage = truth.stage, Tracker!Left = truth.left
  PROVE  Tracker!Resolved = truth.step
<1> DEFINE stage == Recipe[truth.stage]
           begun == {i \in DOMAIN stage : stage[i].at >= truth.left}
<1>1. /\ truth.stage \in DOMAIN Recipe /\ truth.step \in DOMAIN stage /\ truth.left \in Nat
      /\ DOMAIN stage = 1 .. Len(stage) /\ Len(stage) \in Nat
  BY RecipeType DEF View, TrackerViews
<1>2. truth.step \in begun
  <2>1. stage[truth.step].at \in Nat
    BY <1>1, StartTimes
  <2> QED
    BY <1>1, <2>1 DEF WellPlaced
<1>3. ASSUME NEW j \in begun PROVE j <= truth.step
  <2> SUFFICES ASSUME truth.step < j PROVE FALSE
    BY <1>1
  <2>1. truth.step + 1 \in DOMAIN stage
    BY <1>1
  <2>2. truth.left > stage[truth.step + 1].at
    BY <2>1 DEF WellPlaced
  <2>3. stage[j].at <= stage[truth.step + 1].at
    <3>1. CASE j = truth.step + 1
      BY <1>1, <3>1, StartTimes
    <3>2. CASE truth.step + 1 < j
      BY <1>1, <2>1, <3>2 DEF TellsApart
    <3> QED
      BY <1>1, <3>1, <3>2
  <2>4. stage[j].at \in Nat /\ stage[truth.step + 1].at \in Nat
    BY <1>1, <2>1, StartTimes
  <2> QED
    BY <1>1, <2>2, <2>3, <2>4
<1>4. Tracker!Resolved = CHOOSE i \in begun : \A j \in begun : j <= i
  BY <1>2 DEF Tracker!Resolved, Tracker!Steps
<1>5. begun \subseteq Nat
  BY <1>1
<1> DEFINE last == CHOOSE i \in begun : \A j \in begun : j <= i
<1>6. last \in begun /\ \A j \in begun : j <= last
  <2> HIDE DEF begun
  <2> QED
    BY <1>2, <1>3
<1>7. last <= truth.step /\ truth.step <= last /\ last \in Nat /\ truth.step \in Nat
  <2> HIDE DEF begun, last
  <2> QED
    BY <1>2, <1>3, <1>5, <1>6
<1> HIDE DEF begun, last
<1>8. last = truth.step
  BY <1>7
<1> QED
  BY <1>4, <1>8 DEF last

(* What BA goes on with by itself, from any snapshot of any batch, is      *)
(* where the tracker is, as long as that one has not paused or changed     *)
(* stage since: for every recipe of whose steps that begin together the    *)
(* first waits.                                                            *)
THEOREM InferenceHolds ==
  ASSUME TellsApart
  PROVE  Spec => []InferenceIsTrue
<1>1. Init => FollowInv
  BY DEF Init, Tracker!Init, Tracker!NoBatch, FollowInv
<1>2. TrackerInv /\ FollowInv /\ [Next]_vars => FollowInv'
  BY FollowNextInv, OneAtATime
<1>3. ASSUME TrackerInv, FollowInv PROVE Tracker!InferenceIsTrue
  <2> SUFFICES ASSUME snap.phase = "brewing", ~held, age < MaxAge, truth.batch = snap.batch,
                      truth.phase = "brewing", truth.paused = snap.paused
               PROVE  /\ Tracker!Left = truth.left /\ Tracker!Resolved = truth.step
                      /\ Tracker!Shown \in {truth.step, snap.step}
    BY DEF Tracker!InferenceIsTrue
  <2>1. Follows /\ WellPlaced(truth) /\ View(truth)
    BY <1>3 DEF FollowInv, SameBrew, TrackerInv
  <2>2. CASE snap.paused
    BY <2>1, <2>2 DEF Follows, Tracker!Left, Tracker!Resolved, Tracker!Shown
  <2>3. CASE ~snap.paused
    <3>1. Tracker!Left = truth.left /\ truth.stage = snap.stage
      BY <2>1, <2>3 DEF Follows
    <3>2. Tracker!Resolved = truth.step
      BY <2>1, <2>3, <3>1, LastBegun
    <3> QED
      BY <3>1, <3>2 DEF Tracker!Shown
  <2> QED
    BY <2>2, <2>3
<1> QED
  BY <1>1, <1>2, <1>3, TrackerAlways, PTL DEF Spec, InferenceIsTrue
=============================================================================
