------------------------------ MODULE MashFlow ------------------------------
(***************************************************************************)
(* The mash, from the strike to the release of the hold: the gate (READY,  *)
(* Started, Complete), the interlock that makes the operator start the     *)
(* pump twice and holds the mash temperature, the ledger that times what   *)
(* physically happens, and the bridge that takes a continue in Brewfather  *)
(* for Complete.                                                           *)
(*                                                                         *)
(* All of it lives in memory and moves whenever a snapshot is built: by a  *)
(* refresh, a tick or a press. The handlers interleave at their awaited    *)
(* writes. A timer is a flag that time sets. Heater and heat utilization   *)
(* follow the target and are left out.                                     *)
(***************************************************************************)
EXTENDS Integers, Sequences

CONSTANTS
    None,
    Sources,     \* what a brewday can be run by
    Tracker,     \* the one of them that is the Brewfather Brew Tracker
    Recipe,      \* its steps: what each one is and its temperature
    Temps,       \* the readings told apart; 1 is within 1 degree
    EarlyStep,   \* the last step that a mash-in fits (index 3)
    MaxFaults    \* bound: ABORTs, restarts, losses of the source, new brews

ASSUME MashAssumption ==
    /\ Tracker \in Sources /\ None \notin Sources /\ None \notin Temps
    /\ Temps \subseteq Nat
    /\ Recipe \in Seq([kind : {"ramp", "event", "hold", "boil"}, to : Temps])
    /\ Recipe # <<>> /\ EarlyStep \in Nat /\ MaxFaults \in Nat

Pcts == {0, 1, 2}               \* the pump: off, low flow, normal flow
Steps == DOMAIN Recipe
Targets == {Recipe[i].to : i \in Steps}
Readings == [temp : Temps, fresh : BOOLEAN]

Waiting == {"settling", "recirculation_ready"}
Pending == {"low_flow_pending", "normal_pending"}
Flowing == {"low_flow_pending", "low_flow", "normal_ready", "normal_pending",
            "normal"}
Stuck   == {"blocked", "recovery_required"}
Active  == Waiting \cup Flowing \cup Stuck

ASSUME NoneAssumption ==
    None \notin Active \cup {"released", "ramp", "hold", "off", "low", "free", "keep"}

VARIABLES
    source,     \* what runs the brewday; None when it reads unavailable
    state,      \* its runtime state
    step,       \* its step
    abort,      \* the ABORT latch
    faults,     \* how many of the bounded faults happened
    pump,       \* the pump's switch and utilization
    target,     \* BrewZilla's target
    gate,       \* brewzilla_mash_in_gate
    lock,       \* brewzilla_physical_mash_interlock
    ledger,     \* brewday_physical_timing
    seen,       \* the gate cycle after whose Started a pause was seen
    press,      \* the handler of a press, or Complete by the tick
    plan,       \* the plan a tick is writing
    deeds       \* what happened since the last Complete (for the properties)

world == <<source, state, step, abort, faults>>
device == <<pump, target>>
memory == <<gate, lock, ledger>>
tasks == <<press, plan>>
vars == <<world, device, memory, seen, tasks, deeds>>

NoGate == [state |-> "idle", once |-> FALSE, key |-> None, to |-> None]
NoLock == [phase |-> None, source |-> None, key |-> None, hold |-> None,
           held |-> FALSE, due |-> FALSE]
NoStep == [step |-> None, kind |-> None, to |-> None, started |-> FALSE,
           paused |-> FALSE, elapsed |-> FALSE, done |-> FALSE]
NoLedger == [active |-> NoStep, held |-> {}]
NoPress == [pc |-> "idle", to |-> None]
NoPlan == [to |-> None, pump |-> None]

Init ==
    /\ source = None /\ state = "idle" /\ step = 1 /\ abort = FALSE /\ faults = 0
    /\ pump = [on |-> FALSE, pct |-> 0] /\ target \in Targets
    /\ gate = NoGate /\ lock = NoLock /\ ledger = NoLedger /\ seen = None
    /\ press = NoPress /\ plan = NoPlan
    /\ deeds = {}

-----------------------------------------------------------------------------
(* What the runtime says. A latched ABORT hides source and step.           *)

Source == IF abort THEN None ELSE source
State  == IF abort THEN "aborted" ELSE state
InMash == ~abort /\ Recipe[step].kind # "boil"
Live   == State \in {"running", "paused"}
Dist(a, b) == IF a > b THEN a - b ELSE b - a

InScope == State \notin {"idle", "completed"} /\ (abort \/ InMash)

-----------------------------------------------------------------------------
(* The ledger. It keeps an unfinished step when the source moves on.       *)

Timed == Live /\ Recipe[step].kind \in {"ramp", "hold"}
NewStep == [NoStep EXCEPT !.step = step, !.kind = Recipe[step].kind,
                          !.to = Recipe[step].to]

Takes(a) == Timed /\ (a.kind = None \/ (a.step # step /\ a.done))

Advanced(g, a, read) ==
    LET starts == /\ a.kind = "hold" /\ ~a.started /\ read.temp = a.to
                  /\ state # "paused"
                  /\ g.once \/ g.state = "mash_in_complete"
    IN  [a EXCEPT
            !.started = @ \/ starts,
            !.paused = a.kind = "hold" /\ state = "paused",
            !.done = \/ @
                     \/ a.kind = "ramp" /\ read.temp >= a.to
                     \/ a.kind = "hold" /\ a.started /\ a.elapsed]

Ledger(g, l, read) ==
    IF State = "idle" THEN NoLedger
    ELSE IF abort THEN [l EXCEPT !.active = NoStep]
    ELSE LET a == Advanced(g, IF Takes(l.active) THEN NewStep ELSE l.active,
                            read)
         IN  [active |-> a,
              held |-> IF a.kind = "hold" /\ a.done /\ ~l.active.done
                       THEN l.held \cup {a.to} ELSE l.held]

-----------------------------------------------------------------------------
(* The interlock                                                           *)

ReadsBack(pct) == pump.on /\ pump.pct = pct

Phase(k, read) ==
    IF k.phase = "settling" /\ k.due THEN "recirculation_ready"
    ELSE IF k.phase = "low_flow_pending" /\ ReadsBack(1) /\ read.fresh THEN "low_flow"
    ELSE IF k.phase = "low_flow" /\ k.due THEN "normal_ready"
    ELSE IF k.phase = "normal_pending" /\ ReadsBack(2) /\ read.fresh THEN "normal"
    ELSE IF k.phase \in Pending /\ k.due THEN "blocked"
    ELSE k.phase

(* The hold is over: the live step of the ledger says so, or a row that    *)
(* was completed since Complete, while the mash is at the temperature.     *)
HoldOver(k, l, read) ==
    /\ k.hold # None
    /\ \/ /\ l.active.kind = "hold" /\ l.active.to = k.hold
          /\ l.active.started /\ l.active.done
       \/ k.hold \in l.held
    /\ read = [temp |-> k.hold, fresh |-> TRUE]

Entered(k, phase) ==
    IF phase = k.phase THEN k ELSE [k EXCEPT !.phase = phase, !.due = FALSE]

Tick(k, l, read) ==
    IF k.phase \notin Active THEN k
    ELSE IF abort THEN Entered(k, "blocked")
    ELSE IF Source # k.source THEN Entered(k, "blocked")
    ELSE LET n == Entered(k, Phase(k, read))
         IN  [n EXCEPT !.held = @ \/ (k.source = Tracker /\
                                      ~(k.phase \in Pending /\
                                        n.phase = "blocked") /\
                                      HoldOver(k, l, read))]

LostAuthority(g, k) ==
    /\ k = NoLock /\ Source = Tracker /\ Live /\ InMash
    /\ step >= EarlyStep /\ ~g.once

Holds(k) == k.phase \in Waiting \cup Flowing /\ k.hold # None
HoldsTracker(k) == Holds(k) /\ Source = Tracker /\ k.source = Tracker

(* Mutant: the end of the hold alone releases, at any flow.                *)
LockedUntilHeld(g, k, l, read) ==
    LET n == Tick(k, l, read)
    IN  IF LostAuthority(g, n)
        THEN [n EXCEPT !.phase = "recovery_required", !.source = Tracker]
        ELSE IF HoldsTracker(n) /\ n.held
             THEN Entered(n, "released") ELSE n

Locked(g, k, l, read) ==
    LET n == Tick(k, l, read)
    IN  IF LostAuthority(g, n)
        THEN [n EXCEPT !.phase = "recovery_required", !.source = Tracker]
        ELSE IF HoldsTracker(n) /\ n.phase = "normal" /\ n.held
             THEN Entered(n, "released") ELSE n

(* What the runtime asks for, the hold instead of the step's temperature.  *)
Requested(k) == IF HoldsTracker(k) THEN k.hold ELSE Recipe[step].to
Clamped(k, to) == IF Holds(k) /\ to > k.hold THEN k.hold ELSE to

-----------------------------------------------------------------------------
(* The gate                                                                *)

Early == Live /\ InMash /\ step <= EarlyStep
Ready(k, read) == Early /\ read.fresh /\ Dist(read.temp, Requested(k)) <= 1

Latched(k) == [NoGate EXCEPT !.state = "ready",
                             !.key = <<Source, Requested(k)>>]

Gate(g, k, read) ==
    IF g.state \in {"ready", "started"} \/ g.once
    THEN IF InScope THEN g ELSE NoGate
    ELSE IF Ready(k, read) /\ g.key # Latched(k).key THEN Latched(k) ELSE g

(* Mutant: the target is read from the gate before the gate stores it.      *)
MashTargetStored(k) == gate.to

(* The target that grain goes in at: the lower of this step's and the next.*)
MashTarget(k) ==
    LET later == {i \in Steps : i > step /\ Recipe[i].kind = "hold"}
        next == IF later = {} THEN Requested(k)
                ELSE Recipe[CHOOSE i \in later : \A j \in later : i <= j].to
    IN  IF next <= Requested(k) THEN next ELSE Requested(k)

(* A snapshot is built: the ledger, the interlock and the gate all move.   *)
Built(g, read) ==
    LET l == Ledger(g, ledger, read)
        k == Locked(g, lock, l, read)
    IN  [gate |-> Gate(g, k, read), lock |-> k, ledger |-> l]

Keep(b) == gate' = b.gate /\ lock' = b.lock /\ ledger' = b.ledger

RefreshAt(read) ==
    /\ Keep(Built(gate, read))
    /\ UNCHANGED <<world, device, seen, tasks, deeds>>

Refresh == \E read \in Readings : RefreshAt(read)

-----------------------------------------------------------------------------
(* The presses                                                             *)

OverrideReady ==
    \E read \in Readings :
        LET b == Built(gate, read) IN
        /\ Early /\ b.gate.state = "idle"
        /\ Dist(read.temp, Requested(b.lock)) <= 2
        /\ ~read.fresh => target = Requested(b.lock)
        /\ Keep([b EXCEPT !.gate = Latched(b.lock)])
        /\ UNCHANGED <<world, device, seen, tasks, deeds>>

(* Calls are short: a plan decided before Started is written by then, and  *)
(* what Started and Complete write is written before any phase is over.    *)
ShortCalls == plan = NoPlan

(* Mash-In Started: the state first, then its writes.                      *)
MarkStarted ==
    \E read \in Readings :
        LET b == Built(gate, read) IN
        /\ gate.state = "ready" /\ press = NoPress /\ ShortCalls
        /\ ~abort /\ Live
        /\ Keep([b EXCEPT !.gate.state = "started", !.gate.once = FALSE,
                          !.gate.to = MashTarget(b.lock)])
        /\ press' = [pc |-> "started", to |-> MashTarget(b.lock)]
        /\ UNCHANGED <<world, device, seen, plan, deeds>>

(* A write that is not a step down is refused once ABORT is latched.       *)
MayWrite == ~abort

SetPump(on, pct) == pump' = [on |-> on, pct |-> pct]

StartedWrites ==
    /\ press.pc = "started"
    /\ SetPump(FALSE, 0)
    /\ target' = IF MayWrite THEN press.to ELSE target
    /\ press' = NoPress
    /\ UNCHANGED <<world, memory, seen, plan, deeds>>

SafeContext(fresh) == ~abort /\ Live /\ fresh

(* Both ways to Complete end here: settling begins, then three writes.     *)
Settle(b, requested, fresh) ==
    LET safe == SafeContext(fresh) /\ b.gate.to # None
    IN  /\ gate' = b.gate
        /\ lock' = IF safe THEN [NoLock EXCEPT !.phase = "settling",
                                               !.source = Source,
                                               !.key = b.gate.key,
                                               !.hold = b.gate.to]
                   ELSE Entered(b.lock, "blocked")
        /\ ledger' = IF safe THEN [b.ledger EXCEPT !.held = {}] ELSE b.ledger
        /\ press' = [pc |-> IF safe THEN "complete" ELSE "lower",
                     to |-> IF SafeContext(fresh) /\ requested < target
                            THEN requested ELSE None]
        /\ deeds' = IF ledger.active.elapsed /\ ledger.active.to = b.gate.to
                    THEN {"held"} ELSE {}

Completed(g) == [g EXCEPT !.state = "mash_in_complete", !.once = TRUE]

ConfirmComplete ==
    \E read \in Readings :
        LET b == Built(Completed(gate), read) IN
        /\ gate.state = "started" /\ press = NoPress
        /\ Settle(b, Clamped(b.lock, Requested(b.lock)), read.fresh)
        /\ UNCHANGED <<world, device, seen, plan>>

(* A pump write that is refused or raises blocks; the target is lowered in *)
(* any case, to what the snapshot asked for.                               *)
CompleteWrites ==
    /\ \/ /\ press.pc = "complete"
          /\ SetPump(FALSE, 0) /\ UNCHANGED <<target, gate, lock>>
          /\ \E read \in Readings :
                ledger' = IF lock.source = Tracker
                          THEN Ledger(gate, ledger, read) ELSE ledger
          /\ press' = [press EXCEPT !.pc = "lower"]
       \/ /\ press.pc = "complete"
          /\ \E pct \in {0, pump.pct} : SetPump(pump.on, pct)
          /\ lock' = Entered(lock, "blocked")
          /\ UNCHANGED <<target, gate, ledger>>
          /\ press' = [press EXCEPT !.pc = "lower"]
       \/ /\ press.pc = "lower"
          /\ target' = IF MayWrite /\ press.to # None THEN press.to ELSE target
          /\ UNCHANGED <<pump, memory>>
          /\ press' = NoPress
    /\ UNCHANGED <<world, seen, plan, deeds>>

(* The pump's button: low flow after settling, normal flow after the ramp. *)
PumpIsAs(phase) ==
    IF phase = "recirculation_ready" THEN ~pump.on /\ pump.pct = 0
    ELSE pump.on

StartCirculation ==
    \E read \in Readings :
        LET b == Built(gate, read) IN
        /\ press = NoPress
        /\ IF ~SafeContext(read.fresh)
           THEN /\ Keep([b EXCEPT !.lock = Entered(@, "blocked")])
                /\ UNCHANGED <<press, deeds>>
           ELSE /\ b.lock.phase \in {"recirculation_ready", "normal_ready"}
                /\ b.gate.key = b.lock.key /\ b.gate.once
                /\ PumpIsAs(b.lock.phase)
                /\ Keep(b)
                /\ press' = [NoPress EXCEPT !.pc = b.lock.phase]
                /\ deeds' = deeds \cup {b.lock.phase}
        /\ UNCHANGED <<world, device, seen, plan>>

Pressed == press.pc \in {"recirculation_ready", "normal_ready", "switch"}
Sent(phase) ==
    /\ lock' = [lock EXCEPT !.phase = phase, !.due = FALSE]
    /\ press' = NoPress

(* Whatever became of the interlock meanwhile, it waits for the readback.  *)
CirculationWrites ==
    /\ \/ /\ press.pc = "recirculation_ready"
          /\ SetPump(pump.on, IF MayWrite THEN 1 ELSE pump.pct)
          /\ press' = [press EXCEPT !.pc = "switch"] /\ UNCHANGED lock
       \/ /\ press.pc = "switch"
          /\ SetPump(pump.on \/ MayWrite, pump.pct)
          /\ Sent("low_flow_pending")
       \/ /\ press.pc = "normal_ready"
          /\ SetPump(pump.on, IF MayWrite THEN 2 ELSE pump.pct)
          /\ Sent("normal_pending")
       \/ Pressed /\ Sent("blocked") /\ UNCHANGED pump
    /\ UNCHANGED <<world, target, gate, ledger, seen, plan, deeds>>

-----------------------------------------------------------------------------
(* The coordinator's tick                                                  *)

Cycle(g) == [key |-> g.key, paused |-> source = Tracker /\ state = "paused"]

(* The bridge: a pause that a tick saw after Started, then running.        *)
Transition(g) ==
    IF g.state # "started" THEN None
    ELSE IF seen # None /\ seen.key = g.key /\ seen.paused THEN seen
    ELSE Cycle(g)

(* What the snapshot lets a tick write, by gate and interlock. Which of it *)
(* is written is the policy's and the operator's choice.                   *)
(* Mutant: the step's own target is planned, whatever the interlock holds. *)
PlanTargetOfStep(b) ==
    IF b.gate.state = "started" THEN b.gate.to ELSE Recipe[step].to

PlanTarget(b) ==
    IF b.gate.state = "started" THEN b.gate.to
    ELSE Clamped(b.lock, Requested(b.lock))

(* Mutant: only Mash-In Started keeps a plan from the pump.                 *)
PlanPumpAfterStarted(b) == IF b.gate.state = "started" THEN "off" ELSE "free"

PlanPump(b) ==
    IF b.gate.state = "started" \/ b.lock.phase \in Waiting THEN "off"
    ELSE IF b.lock.phase \notin Flowing THEN "free"
    ELSE IF b.lock.phase \notin {"normal_pending", "normal"} /\ pump.pct > 1
         THEN "low"
    ELSE "keep"

Plans(b, fresh) ==
    IF abort \/ ~fresh \/ ~Live \/ b.lock.phase \in Stuck THEN {NoPlan}
    ELSE {NoPlan, [to |-> PlanTarget(b), pump |-> PlanPump(b)]}

(* What each of them may make of the pump.                                 *)
PlannedPump(p) ==
    CASE p.pump = "off" -> {[on |-> FALSE, pct |-> 0]}
      [] p.pump = "low" -> {pump, [pump EXCEPT !.pct = 1]}
      [] p.pump = "free" -> {pump, [on |-> FALSE, pct |-> 0]} \cup
                            (IF MayWrite THEN {[on |-> TRUE, pct |-> 2]}
                             ELSE {})
      [] p.pump = "keep" -> {pump, [pump EXCEPT !.on = FALSE]}

Written(p) ==
    /\ target' \in {target} \cup (IF MayWrite THEN {p.to} ELSE {})
    /\ pump' \in PlannedPump(p)

(* A tick that has something positive to propose never gets to the bridge. *)
CoordinatorTick ==
    \E read \in Readings, bridge \in BOOLEAN :
        LET b == Built(gate, read) IN
        /\ plan = NoPlan
        /\ seen' = IF bridge THEN Transition(b.gate) ELSE seen
        /\ IF /\ bridge /\ b.gate.state = "started" /\ source = Tracker /\ state = "running"
              /\ seen'.paused /\ SafeContext(read.fresh) /\ InMash
           THEN /\ press = NoPress
                /\ Settle([b EXCEPT !.gate = Completed(@)], b.gate.to, read.fresh)
                /\ UNCHANGED <<plan, device>>
           ELSE /\ Keep(b)
                /\ \E p \in Plans(b, read.fresh) :
                      IF p.pump = "free"
                      THEN Written(p) /\ UNCHANGED plan
                      ELSE plan' = p /\ UNCHANGED device
                /\ UNCHANGED <<press, deeds>>
        /\ UNCHANGED world

(* Decided before, written now.                                            *)
PlanWrites ==
    /\ plan # NoPlan /\ Written(plan)
    /\ plan' = NoPlan
    /\ UNCHANGED <<world, memory, seen, press, deeds>>

-----------------------------------------------------------------------------
(* ABORT, a restart, the brewday and the time                              *)

Fault == faults < MaxFaults /\ faults' = faults + 1

Abort ==
    /\ ~abort /\ abort' = TRUE /\ Fault
    /\ SetPump(FALSE, 0)
    /\ UNCHANGED <<source, state, step, target, memory, seen, tasks,
                   deeds>>

Rearm ==
    /\ abort /\ abort' = FALSE
    /\ UNCHANGED <<source, state, step, faults, device, memory, seen, tasks,
                   deeds>>

Restart ==
    /\ gate' = NoGate /\ lock' = NoLock /\ ledger' = NoLedger /\ seen' = None
    /\ press' = NoPress /\ plan' = NoPlan /\ deeds' = {} /\ Fault
    /\ UNCHANGED <<source, state, step, abort, device>>

Moves(s, st, i) ==
    /\ source' = s /\ state' = st /\ step' = i
    /\ UNCHANGED <<abort, device, memory, seen, tasks, deeds>>

Brewday ==
    \/ /\ \/ /\ state = "running" /\ step < Len(Recipe)
             /\ Moves(source, state, step + 1)
          \/ state = "running" /\ Moves(source, "paused", step)
          \/ state = "paused" /\ Moves(source, "running", step)
          \/ /\ state = "running" /\ step = Len(Recipe)
             /\ Moves(source, "completed", 1)
          \/ \E s \in Sources, i \in Steps :
                source = None /\ Moves(s, "running", i)
       /\ UNCHANGED faults
    \/ source # None /\ Moves(None, "idle", 1) /\ Fault
    \/ state = "completed" /\ Moves(source, "running", 1) /\ Fault

(* The current phase's time is up: settling, ramping or the readback's.    *)
PhaseElapses ==
    /\ lock.phase \in {"settling", "low_flow"} \cup Pending /\ ~lock.due
    /\ press.pc \notin {"started", "complete", "lower"}
    /\ lock' = [lock EXCEPT !.due = TRUE]
    /\ deeds' = IF lock.phase \in Pending THEN deeds
                ELSE deeds \cup {lock.phase}
    /\ UNCHANGED <<world, device, gate, ledger, seen, tasks>>

HoldElapses ==
    LET a == ledger.active IN
    /\ a.kind = "hold" /\ a.started /\ ~a.elapsed /\ ~a.paused
    /\ ledger' = [ledger EXCEPT !.active.elapsed = TRUE]
    /\ deeds' = IF a.to = lock.hold THEN deeds \cup {"held"} ELSE deeds
    /\ UNCHANGED <<world, device, gate, lock, seen, tasks>>

Writes == StartedWrites \/ CompleteWrites \/ CirculationWrites \/ PlanWrites

Next ==
    \/ Refresh \/ OverrideReady \/ MarkStarted \/ ConfirmComplete
    \/ StartCirculation \/ CoordinatorTick \/ Writes
    \/ Abort \/ Rearm \/ Restart \/ Brewday
    \/ PhaseElapses \/ HoldElapses

Spec == Init /\ [][Next]_vars

(* A mash that is held at its temperature: the refreshes read it.          *)
Steady == lock.hold # None /\ RefreshAt([temp |-> lock.hold, fresh |-> TRUE])

SteadySpec ==
    /\ Spec
    /\ WF_vars(Steady) /\ WF_vars(Writes)
    /\ WF_vars(PhaseElapses) /\ WF_vars(HoldElapses)

-----------------------------------------------------------------------------
(* Properties                                                              *)

(* Where on the ladder of MashHold a phase of the interlock is.            *)
Rung(phase) ==
    CASE phase = "settling"                           -> "settling"
      [] phase = "recirculation_ready"                -> "settled"
      [] phase \in {"low_flow_pending", "low_flow"}   -> "low"
      [] phase = "normal_ready"                       -> "ramped"
      [] phase \in {"normal_pending", "normal"}       -> "normal"
      [] phase = "released"                           -> "released"
      [] phase \in Stuck                              -> "stuck"
      [] phase = None                                 -> "none"

Flow(p) == IF p.on THEN p.pct ELSE 0

Hold == INSTANCE MashHold WITH
            rung <- Rung(lock.phase), earned <- deeds, flow <- Flow(pump)

(* The interlock keeps what MashHold promises: through refreshes, presses, *)
(* late writes, ABORT, restarts and a source that moves on by itself, no   *)
(* rung is passed over or gone down, and the pump never runs ahead of it.  *)
ImplementsMashHold == Hold!Spec

TypeOK ==
    /\ source \in Sources \cup {None}
    /\ state \in {"idle", "running", "paused", "completed"}
    /\ step \in Steps /\ abort \in BOOLEAN /\ faults \in 0 .. MaxFaults
    /\ pump \in [on : BOOLEAN, pct : Pcts] /\ target \in Targets
    /\ gate.state \in {"idle", "ready", "started", "mash_in_complete"}
    /\ lock.phase \in Active \cup {None, "released"}
    /\ lock.hold \in Temps \cup {None}
    /\ lock.phase \in Waiting \cup Flowing => lock.hold # None

(* The next temperature is released only when, since Complete, the mash    *)
(* settled, the operator pressed twice with the ramp between, and the hold *)
(* ran its whole time.                                                     *)
ReleasedInOrder ==
    lock.phase = "released" =>
        {"settling", "recirculation_ready", "low_flow", "normal_ready", "held"}
            \subseteq deeds

(* While the hold is not released no write of a Brewfather mash, whatever  *)
(* decided on it, raises BrewZilla's target past it, but Complete's own    *)
(* step down, which is decided before the writes it awaits; and only a     *)
(* press starts or speeds up the pump; a timer, a tick and the source      *)
(* never do.                                                               *)
WritesKeepToHold ==
    [][Holds(lock) /\ Holds(lock') =>
         /\ lock.source = Tracker /\ target' > target =>
              target' <= lock.hold \/ press.pc = "lower"
         /\ (~pump.on /\ pump'.on) \/ pump'.pct > pump.pct => Pressed]_vars

(* A source that runs the mash hold, with the pump at normal flow and the  *)
(* mash at its temperature, has the hold timed and released.               *)
HoldIsReleased ==
    ~<>[](/\ lock.phase = "normal" /\ HoldsTracker(lock)
          /\ state = "running" /\ ~abort
          /\ Recipe[step].kind = "hold" /\ Recipe[step].to = lock.hold)
=============================================================================
