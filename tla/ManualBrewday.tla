---------------------------- MODULE ManualBrewday ----------------------------
(***************************************************************************)
(* The Manual brewday's engine: a plan of stages and steps, an operator    *)
(* who prepares, starts, pauses, goes on, jumps and finishes, and the step *)
(* timers, which are two numbers: when the step began, and what was left   *)
(* when it was paused. Brewfather and RAPT take the hot side over from it, *)
(* and a source loss puts the retained recipe into it.                     *)
(*                                                                         *)
(* Who owns the hot side is RaptSource's and BrewTracker's; here only what *)
(* the engine makes of it: services are refused unless nobody else has a   *)
(* claim. A duration of 0 stands for a step without a timer.               *)
(***************************************************************************)
EXTENDS BrewdayBounds

VARIABLES
    plan,   \* which plan is loaded
    st,     \* the session's state
    at,     \* active stage and step
    since,  \* ticks since the step started, or None
    kept,   \* what was left when it was paused, or None
    owner,  \* who has a claim: nobody, Brewfather, RAPT, a fallback; or others
    told,   \* Brewfather's state has changed, and the handoff's task waits
    boot,   \* the next fallback is restored after a restart
    used,   \* ticks of the step so far (for the properties)
    known   \* it is known how many (likewise)

session == <<plan, st, at, since, kept, used, known>>
vars == <<session, owner, told, boot>>

States == {"idle", "prepared", "running", "paused", "awaiting_confirm", "completed"}
Owners == {"none", "bf", "rapt", "fallback", "other"}

Stages == Plans[plan]
StepAt(p, i) == Plans[p][i[1]][i[2]]
Places(p) == UNION {{s} \X DOMAIN Plans[p][s] : s \in DOMAIN Plans[p]}
Active == StepAt(plan, at)
Left(dur, ticks) == IF dur > ticks THEN dur - ticks ELSE 0

Fresh(state) ==
    /\ st' = state /\ at' = <<1, 1>> /\ since' = None /\ kept' = None
    /\ used' = 0 /\ known' = TRUE

Init ==
    /\ plan = "default" /\ st = "idle" /\ at = <<1, 1>> /\ since = None /\ kept = None
    /\ owner = "none" /\ told = FALSE /\ boot = FALSE /\ used = 0 /\ known = TRUE

-----------------------------------------------------------------------------
(* The session                                                             *)

Remaining ==
    IF Active.dur = 0 THEN None
    ELSE IF st = "paused" /\ kept # None THEN kept
    ELSE IF since = None THEN Active.dur
    ELSE Left(Active.dur, since)

Begin(state) == st' = state /\ since' = 0 /\ kept' = None /\ used' = 0 /\ known' = TRUE

(* Mutant: a step that is paused again is measured from its start.         *)
PauseFromStart ==
    /\ st' = "paused"
    /\ kept' = IF Active.dur = 0 THEN None
               ELSE IF since = None THEN Active.dur
               ELSE Left(Active.dur, since)
    /\ UNCHANGED <<plan, at, since, used, known>>

Pause ==
    /\ st' = "paused" /\ kept' = Remaining
    /\ UNCHANGED <<plan, at, since, used, known>>

Resume ==
    /\ st' = "running" /\ kept' = None
    /\ since' = IF Active.dur # 0 /\ kept # None THEN Left(Active.dur, kept) ELSE since
    /\ UNCHANGED <<used, known>>

Start ==
    CASE st = "completed" -> Begin("running") /\ at' = <<1, 1>>
      [] st = "paused"    -> Resume /\ UNCHANGED at
      [] st = "running"   -> UNCHANGED <<st, since, kept, used, known, at>>
      [] OTHER            -> Begin("running") /\ UNCHANGED at

(* The last step stays the active one.                                     *)
Finish ==
    /\ st' = "completed" /\ since' = None /\ kept' = 0
    /\ used' = 0 /\ known' = TRUE /\ UNCHANGED at

Goes(i) == at' = i /\ Begin(IF StepAt(plan, i).waits THEN "awaiting_confirm" ELSE "running")

NextStep ==
    IF at[2] < Len(Stages[at[1]]) THEN Goes(<<at[1], at[2] + 1>>)
    ELSE IF at[1] < Len(Stages) THEN Goes(<<at[1] + 1, 1>>)
    ELSE Finish

(* Mutant: the stage is taken for there.                                   *)
JumpUnclamped(s) == at' = <<s, 1>> /\ Begin("running")

(* The stage that has the name, or its usual place, or the last one.       *)
Jump(s) == at' = <<IF s > Len(Stages) THEN Len(Stages) ELSE s, 1>> /\ Begin("running")

(* The services, refused when anybody else has a claim, or had one.        *)
Service ==
    /\ owner = "none" /\ UNCHANGED <<owner, told, boot>>
    /\ \/ Fresh("prepared") /\ UNCHANGED plan
       \/ Start /\ UNCHANGED plan
       \/ Pause
       \/ NextStep /\ UNCHANGED plan
       \/ \E s \in Jumps : Jump(s) /\ UNCHANGED plan
       \/ Finish /\ UNCHANGED plan
       \/ Fresh("idle") /\ plan' = "default"

-----------------------------------------------------------------------------
(* Other owners                                                            *)

InProgress == st \in {"running", "awaiting_confirm"}

(* The listener's task: Brewfather has come; or gone, which changes the    *)
(* outputs and not the session.                                            *)
Handoff ==
    /\ told /\ told' = FALSE /\ UNCHANGED <<owner, boot>>
    /\ IF owner = "bf" /\ InProgress THEN Pause ELSE UNCHANGED session

(* Each of BA's builds while a profile runs.                               *)
RaptBuild ==
    /\ owner = "rapt" /\ InProgress /\ Pause /\ UNCHANGED <<owner, told, boot>>

(* The retained recipe is put into the session, where the source was, or,  *)
(* after a restart, where the operator was. A timer is known if what is    *)
(* left fits the step; one that is not known does not run. A recipe that   *)
(* makes no plan leaves the session alone.                                 *)
Prime ==
    /\ plan' = "retained" /\ at' \in Places("retained")
    /\ \E paused \in (IF boot THEN {TRUE} ELSE BOOLEAN) :
       LET dur == StepAt("retained", at').dur
       IN \E left \in (IF dur = 0 THEN {None} ELSE 0 .. dur \cup {None}) :
          /\ st' = IF paused THEN "paused" ELSE "running"
          /\ kept' = IF paused THEN left ELSE None
          /\ since' = IF paused \/ left = None THEN None ELSE dur - left
          /\ known' = (left # None) /\ used' = IF left = None THEN 0 ELSE dur - left

Claims(o) ==
    CASE o = "none"     -> {"bf", "rapt", "other"}
      [] o = "bf"       -> {"none", "fallback", "other"}
      [] o = "rapt"     -> {"fallback", "other"}
      [] o = "fallback" -> {"bf", "rapt", "none", "other"}
      [] OTHER          -> {"none", "fallback"}

(* Somebody comes or goes; the fallback's first build primes the session.  *)
Claim ==
    /\ owner' \in Claims(owner)
    /\ told' = (told \/ "bf" \in {owner, owner'})
    /\ IF owner' = "fallback" THEN boot' = FALSE /\ (Prime \/ UNCHANGED session)
       ELSE UNCHANGED <<session, boot>>

Restart ==
    /\ plan' = "default" /\ Fresh("idle") /\ told' = FALSE
    /\ owner' = IF owner \in {"bf", "rapt", "fallback"} THEN "other" ELSE owner
    /\ boot' = (owner' = "other")

Later(t) == IF t = None THEN None ELSE IF t < LongTime THEN t + 1 ELSE t

Tick ==
    /\ since' = Later(since)
    /\ used' = IF InProgress THEN Later(used) ELSE used
    /\ UNCHANGED <<plan, st, at, kept, known, owner, told, boot>>

Next == Service \/ Handoff \/ RaptBuild \/ Claim \/ Restart \/ Tick

Spec == Init /\ [][Next]_vars

-----------------------------------------------------------------------------
(* Properties                                                              *)

(* Types; the active step is one of the loaded plan's, whichever was       *)
(* loaded while the operator was where.                                    *)
TypeOK ==
    /\ plan \in {"default", "retained"} /\ st \in States /\ at \in Places(plan)
    /\ since \in 0 .. LongTime \cup {None} /\ kept \in 0 .. LongTime \cup {None}
    /\ owner \in Owners /\ used \in 0 .. LongTime
    /\ told \in BOOLEAN /\ boot \in BOOLEAN /\ known \in BOOLEAN

(* A step's remaining time is its length less the time that it has been    *)
(* in progress, over any pauses, handoffs and the return from them.        *)
StepTimeIsKept ==
    known /\ Active.dur # 0 /\ st \in {"running", "paused", "awaiting_confirm"}
    => Remaining = Left(Active.dur, used)
=============================================================================
