------------------------------ MODULE RaptSteps ------------------------------
(***************************************************************************)
(* The steps after the mash when RAPT runs the brewday: the sparge, where  *)
(* the operator attests the lifted malt pipe before BA may heat and each   *)
(* heating plan needs a CONFIRM, and the boil, where BA runs the pump only *)
(* through a chiller that the operator armed for this boil, in its last    *)
(* fifteen minutes. RAPT owns target and heater switch; BA writes the heat *)
(* utilization and the pump, one awaited call after another, and each call *)
(* is judged again by what RAPT reports at that moment.                    *)
(*                                                                         *)
(* Both authorizations live in memory and are dropped by whoever happens   *)
(* to look while RAPT is not verified in that step: a snapshot, a tick, a  *)
(* write.                                                                  *)
(***************************************************************************)
EXTENDS BrewdayBounds

Sessions == 1 .. MaxSessions
Steps == <<"mash", "sparge", "boil", "cooling">>
Timers == {"early", "late", "none"}   \* of the boil; "none": not timed from its start
Tasks == {"tick", "confirm"}          \* who executes a plan

(* The writes left to BA, in the order a plan makes them.                  *)
Writes == {"heat_up", "heat_down", "pct_up", "pct_down", "pump_on", "pump_off"}
Positive == {"heat_up", "pct_up", "pump_on"}
Rank(w) == CASE w \in {"heat_up", "heat_down"} -> 1
             [] w \in {"pct_up", "pct_down"}   -> 2
             [] w \in {"pump_on", "pump_off"}  -> 3

VARIABLES
    session, step, \* what RAPT reports that it runs
    timer,      \* the boil's remaining time
    link,       \* the report is complete and fresh
    abort,      \* the ABORT latch
    faults,     \* how many of the bounded faults happened
    heat, pct,  \* heat and pump utilization: 0 or full
    pump,       \* the pump's switch
    fresh,      \* the readbacks are recent
    sparge,     \* rapt_sparge_interlock
    choice,     \* brewzilla_boil_cooling_choice: the boil it is armed for
    pending,    \* the plan in the supervised slot, by its session
    confirming, \* a CONFIRM that awaits its record
    flight,     \* of each task: the plan it executes
    lifted, approved, armed \* what the operator attested (for the properties)

world == <<session, step, timer, link, abort, faults>>
outputs == <<heat, pct, pump, fresh>>
slot == <<pending, confirming>>
attested == <<lifted, approved, armed>>
vars == <<world, outputs, sparge, choice, slot, flight, attested>>

NoSparge == [phase |-> "inactive", session |-> None]
NoFlight == [boil |-> None, todo |-> {}]

Init ==
    /\ session = 1 /\ step = 1 /\ timer = "early" /\ link = TRUE
    /\ abort = FALSE /\ faults = 0
    /\ heat = 0 /\ pct = 0 /\ pump = FALSE /\ fresh = TRUE
    /\ sparge = NoSparge /\ choice = None
    /\ pending = None /\ confirming = None
    /\ flight = [t \in Tasks |-> NoFlight]
    /\ lifted = None /\ approved = None /\ armed = None

Fault == faults < MaxFaults /\ faults' = faults + 1

-----------------------------------------------------------------------------
(* What BA knows of the step                                               *)

Verified == link /\ ~abort
InSparge == Steps[step] = "sparge"
InBoil   == Steps[step] = "boil"

(* Mutant: a sparge is a sparge, whatever the session.                     *)
SpargeOfAnySession ==
    IF ~(Verified /\ InSparge) THEN NoSparge
    ELSE IF sparge.phase # "inactive" THEN sparge
    ELSE [phase |-> "awaiting_lift", session |-> session]

(* observe: any doubt drops the attested lift, any new sparge awaits one.  *)
SpargeNow ==
    IF ~(Verified /\ InSparge) THEN NoSparge
    ELSE IF sparge.phase # "inactive" /\ sparge.session = session THEN sparge
    ELSE [phase |-> "awaiting_lift", session |-> session]

(* Mutant: the plan that waits for CONFIRM outlives the lift.              *)
ObserveSpargeOnly == sparge' = SpargeNow /\ UNCHANGED pending

(* A change of it withdraws the plan that waits for CONFIRM.               *)
ObserveSparge ==
    /\ sparge' = SpargeNow
    /\ pending' = IF SpargeNow # sparge THEN None ELSE pending

(* The chiller's choice is dropped outside a verified boil, and by a boil  *)
(* that is not timed from its start.                                       *)
ChoiceNow ==
    IF Verified /\ InBoil /\ ~(choice = session /\ timer = "none")
    THEN choice ELSE None

Recirculate == Verified /\ InBoil /\ choice = session /\ timer = "late"
BoilIdentity == IF Recirculate THEN session ELSE None

(* Every snapshot that is built for an entity looks at both.               *)
Observe ==
    /\ ObserveSparge /\ choice' = ChoiceNow
    /\ UNCHANGED <<world, outputs, confirming, flight, attested>>

-----------------------------------------------------------------------------
(* The plan of a snapshot                                                  *)

(* Mutant: a pump that is off needs no utilization of zero.                *)
SafeDownOfSwitches ==
    {w \in {"heat_down"} : heat > 0} \cup {w \in {"pump_off"} : pump}

SafeDown ==
    {w \in {"heat_down"} : heat > 0} \cup {w \in {"pct_down"} : pct > 0}
    \cup {w \in {"pump_off"} : pump}

PumpSafe == ~pump /\ pct = 0 /\ fresh

SpargePlan(phase, cold) ==
    IF phase # "awaiting_lift" /\ PumpSafe /\ session \in Agreeing /\ cold
    THEN {w \in {"heat_up"} : heat = 0} ELSE SafeDown

(* The pump starts only on a utilization that was read back.               *)
BoilPlan ==
    {w \in {"heat_up"} : heat = 0}
    \cup IF Recirculate
         THEN {w \in {"pct_up"} : pct = 0}
              \cup {w \in {"pump_on"} : pct > 0 /\ fresh /\ ~pump}
         ELSE {w \in {"pct_down"} : pct > 0} \cup {w \in {"pump_off"} : pump}

(* Elsewhere the pump and the heat are the strategies' and BA Learning's.  *)
Changes ==
    SafeDown \cup {w \in {"heat_up"} : heat = 0} \cup {w \in {"pct_up"} : pct = 0}
             \cup {w \in {"pump_on"} : ~pump}

PlansOf(cold) ==
    IF ~Verified THEN {{}}
    ELSE IF InSparge THEN {SpargePlan(SpargeNow.phase, cold)}
    ELSE IF InBoil THEN {BoilPlan} ELSE SUBSET Changes

(* The plan's id carries the session: its writes are always the same.      *)
PlanId == session

(* RCL Assist applies at once, except what heats a sparge.                 *)
NeedsConfirm(plan) ==
    SpargeNow.phase = "heat_to_boil" /\ plan \cap Positive # {}

-----------------------------------------------------------------------------
(* Actions                                                                 *)

(* The coordinator's tick.                                                 *)
Tick ==
    /\ flight["tick"] = NoFlight
    /\ \E cold \in BOOLEAN : \E plan \in PlansOf(cold) :
         /\ pending' = IF NeedsConfirm(plan) THEN PlanId ELSE None
         /\ flight' = [flight EXCEPT !["tick"] =
               IF NeedsConfirm(plan) \/ plan = {} THEN NoFlight
               ELSE [boil |-> BoilIdentity, todo |-> plan]]
    /\ sparge' = SpargeNow /\ choice' = ChoiceNow
    /\ UNCHANGED <<world, outputs, confirming, attested>>

(* In a boil the pump is the chiller's, and starts on a utilization that   *)
(* was read back.                                                          *)
BoilAllows(w) ==
    /\ w \in {"pct_up", "pump_on"} => Recirculate
    /\ w = "pump_on" => pct > 0 /\ fresh

(* In a sparge BA may only reduce; after the lift it may also heat, with a *)
(* pump that is known to be off.                                           *)
SpargeAllows(w) ==
    SpargeNow.phase # "inactive" /\ w \in Positive =>
        SpargeNow.phase = "heat_to_boil" /\ w = "heat_up" /\ PumpSafe

(* Heating in a sparge is the CONFIRM's own task, and agrees with RAPT.    *)
TaskAllows(t, w) ==
    SpargeNow.phase = "heat_to_boil" /\ w = "heat_up" => t = "confirm"
TargetAllows(w) ==
    SpargeNow.phase = "heat_to_boil" /\ w = "heat_up" => session \in Agreeing

(* Mutant: what was armed when the plan began stays armed for all of it.   *)
AllowedAsPlanned(t, w) ==
    IF Verified
    THEN /\ InBoil => BoilAllows(w)
         /\ SpargeAllows(w) /\ TaskAllows(t, w) /\ TargetAllows(w)
    ELSE abort /\ w \notin Positive

(* _write_allowed, with the guards installed around it. A plan of a boil   *)
(* pumps in that boil only; an ABORT leaves the reductions.                *)
Allowed(t, w) ==
    /\ flight[t].boil # None /\ w \in {"pct_up", "pump_on"} =>
         BoilIdentity = flight[t].boil
    /\ IF Verified
       THEN /\ InBoil => BoilAllows(w)
            /\ SpargeAllows(w) /\ TaskAllows(t, w) /\ TargetAllows(w)
       ELSE abort /\ w \notin Positive

Lands(w) ==
    /\ heat' = IF w = "heat_up" THEN 1 ELSE IF w = "heat_down" THEN 0 ELSE heat
    /\ pct' = IF w = "pct_up" THEN 1 ELSE IF w = "pct_down" THEN 0 ELSE pct
    /\ pump' = IF w = "pump_on" THEN TRUE ELSE IF w = "pump_off" THEN FALSE ELSE pump
    /\ UNCHANGED fresh

(* The next write of a plan. A refusal raises and ends the plan; the end   *)
(* of a confirmed plan empties the slot.                                   *)
Write(t) ==
    LET w == CHOOSE x \in flight[t].todo : \A y \in flight[t].todo : Rank(x) <= Rank(y)
        left == IF Allowed(t, w) THEN flight[t].todo \ {w} ELSE {}
    IN /\ flight[t].todo # {}
       /\ IF Allowed(t, w) THEN Lands(w) ELSE UNCHANGED outputs
       /\ flight' = [flight EXCEPT ![t] =
              IF left = {} THEN NoFlight ELSE [@ EXCEPT !.todo = left]]
       /\ sparge' = IF Verified THEN SpargeNow ELSE sparge
       /\ choice' = IF InBoil \/ flight[t].boil # None THEN ChoiceNow ELSE choice
       /\ pending' = IF \/ Verified /\ SpargeNow # sparge
                        \/ t = "confirm" /\ left = {}
                     THEN None ELSE pending
       /\ UNCHANGED <<world, confirming, attested>>

(* CONFIRM awaits its record; then the executor looks at the live plan.    *)
(* A second CONFIRM of the plan waits for the first.                       *)
Confirm ==
    /\ pending # None /\ confirming = None /\ confirming' = pending
    /\ approved' = pending
    /\ UNCHANGED <<world, outputs, sparge, choice, pending, flight, lifted, armed>>

Execute ==
    /\ flight["confirm"] = NoFlight
    /\ confirming # None /\ confirming' = None
    /\ \E cold \in BOOLEAN : \E plan \in PlansOf(cold) :
         LET live == NeedsConfirm(plan) /\ confirming = PlanId
         IN /\ flight' = [flight EXCEPT !["confirm"] =
                   IF live THEN [boil |-> BoilIdentity, todo |-> plan] ELSE NoFlight]
            /\ pending' = IF live /\ SpargeNow = sparge THEN pending ELSE None
    /\ sparge' = SpargeNow
    /\ UNCHANGED <<world, outputs, choice, attested>>

(* The operator attests the lift, when the outputs read back off and zero. *)
Attestable == SpargeNow.phase = "awaiting_lift" /\ PumpSafe /\ heat = 0

ConfirmLift ==
    /\ Attestable
    /\ sparge' = [SpargeNow EXCEPT !.phase = "heat_to_boil"]
    /\ pending' = None /\ lifted' = session
    /\ UNCHANGED <<world, outputs, choice, confirming, flight, approved, armed>>

(* The operator arms the chiller for the boil that the dashboard shows, or *)
(* says that there is none.                                                *)
ChooseCooling(ready) ==
    /\ Verified /\ InBoil
    /\ choice' = IF ready THEN session ELSE None
    /\ armed' = choice'
    /\ UNCHANGED <<world, outputs, sparge, slot, flight, lifted, approved>>

-----------------------------------------------------------------------------
(* RAPT, people and Home Assistant                                         *)

(* Assumption: no plan's writes are still awaited when the next session    *)
(* begins. (One that were would heat it after its own lift, unconfirmed.)  *)
ShortFlights == \A t \in Tasks : flight[t] = NoFlight

(* RAPT goes to its next step, or a new session begins.                    *)
Move ==
    /\ \/ step < Len(Steps) /\ step' = step + 1 /\ UNCHANGED session
       \/ session < MaxSessions /\ ShortFlights /\ session' = session + 1 /\ step' = 1
    /\ timer' \in IF Steps[step'] = "boil" THEN {"early", "none"} ELSE {"early"}
    /\ armed' = None
    /\ UNCHANGED <<link, abort, faults, outputs, sparge, choice, slot, flight,
                   lifted, approved>>

Late ==
    /\ InBoil /\ timer = "early" /\ timer' = "late"
    /\ UNCHANGED <<session, step, link, abort, faults, outputs, sparge, choice,
                   slot, flight, attested>>

Link ==
    /\ link' = ~link
    /\ IF link THEN Fault ELSE UNCHANGED faults
    /\ UNCHANGED <<session, step, timer, abort, outputs, sparge, choice, slot,
                   flight, attested>>

Readback ==
    /\ fresh' = ~fresh
    /\ UNCHANGED <<world, heat, pct, pump, sparge, choice, slot, flight, attested>>

(* People and RAPT set outputs too.                                        *)
Hands ==
    /\ Fault
    /\ \/ heat' = 1 - heat /\ UNCHANGED <<pct, pump>>
       \/ pct' = 1 - pct /\ UNCHANGED <<heat, pump>>
       \/ pump' = ~pump /\ UNCHANGED <<heat, pct>>
    /\ UNCHANGED <<session, step, timer, link, abort, fresh, sparge, choice, slot,
                   flight, attested>>

(* ABORT latches and empties the slot; its own calls may be lost. The      *)
(* press refreshes every entity, so both authorizations are dropped.       *)
Abort ==
    /\ Fault /\ ~abort /\ abort' = TRUE
    /\ \/ UNCHANGED <<heat, pct, pump>>
       \/ heat' = 0 /\ pct' = 0 /\ pump' = FALSE
    /\ sparge' = NoSparge /\ choice' = None /\ pending' = None
    /\ lifted' = None /\ armed' = None
    /\ UNCHANGED <<session, step, timer, link, fresh, confirming, flight, approved>>

(* REARM and the START that has to follow it.                              *)
Rearm ==
    /\ abort /\ abort' = FALSE
    /\ UNCHANGED <<session, step, timer, link, faults, outputs, sparge, choice,
                   slot, flight, attested>>

Restart ==
    /\ Fault
    /\ sparge' = NoSparge /\ choice' = None
    /\ pending' = None /\ confirming' = None
    /\ flight' = [t \in Tasks |-> NoFlight]
    /\ lifted' = None /\ armed' = None
    /\ UNCHANGED <<session, step, timer, link, abort, outputs, approved>>

Next ==
    \/ Observe \/ Tick \/ Confirm \/ Execute \/ ConfirmLift
    \/ \E t \in Tasks : Write(t)
    \/ \E ready \in BOOLEAN : ChooseCooling(ready)
    \/ Move \/ Late \/ Link \/ Readback \/ Hands \/ Abort \/ Rearm \/ Restart

(* The coordinator ticks, and an awaited call returns.                     *)
Fairness == WF_vars(Tick) /\ WF_vars(Execute) /\ \A t \in Tasks : WF_vars(Write(t))

Spec == Init /\ [][Next]_vars /\ Fairness

-----------------------------------------------------------------------------
(* Properties                                                              *)

(* Types; and a plan that waits for CONFIRM is one of the lift that was    *)
(* attested in this session.                                               *)
TypeOK ==
    /\ session \in Sessions /\ step \in DOMAIN Steps /\ timer \in Timers
    /\ link \in BOOLEAN /\ abort \in BOOLEAN /\ faults \in 0 .. MaxFaults
    /\ heat \in {0, 1} /\ pct \in {0, 1} /\ pump \in BOOLEAN /\ fresh \in BOOLEAN
    /\ sparge \in [phase : {"awaiting_lift", "heat_to_boil"}, session : Sessions]
                  \cup {NoSparge}
    /\ choice \in Sessions \cup {None}
    /\ confirming \in Sessions \cup {None}
    /\ flight \in [Tasks -> [boil : Sessions \cup {None}, todo : SUBSET Writes]]
    /\ pending # None => sparge = [phase |-> "heat_to_boil", session |-> pending]

(* BA heats in a sparge only when, in this very session, the operator      *)
(* attested the lift since the last ABORT or restart and confirmed a plan. *)
HeatIsAttested ==
    [][((\E t \in Tasks : Write(t)) /\ InSparge /\ heat' > heat)
        => lifted = session /\ approved = session]_vars

(* BA starts or raises the pump never in a sparge, in a boil only through  *)
(* the chiller that was armed in it and in its last minutes, and never in  *)
(* the step after it by what was planned there.                            *)
PumpNeedsItsBoil ==
    [][\A t \in Tasks :
         (Write(t) /\ (pct' > pct \/ (~pump /\ pump'))) =>
            /\ ~InSparge
            /\ InBoil => armed = session /\ timer = "late"
            /\ flight[t].boil # None => InBoil]_vars

(* A verified sparge whose lift is not attested does not stay heated or    *)
(* pumped, and an armed chiller does not stay dry in the last minutes.     *)
StepsSettle ==
    /\ []<>~(Verified /\ InSparge /\ lifted # session /\ (heat > 0 \/ pct > 0 \/ pump))
    /\ []<>~(Recirculate /\ fresh /\ ~pump)
=============================================================================
