------------------------------- MODULE HeatPlan -------------------------------
(***************************************************************************)
(* How one orchestration tick comes to its writes to the BrewZilla during  *)
(* the mash: the plan is built from the tracker's step and the two         *)
(* temperatures (mash probe, and the wort probe inside the kettle), then   *)
(* goes through the guards in the order in which they were installed, each *)
(* of which may take back what another asked for, and is written by the    *)
(* innermost of the apply functions that claims it.  Between ticks there   *)
(* remain the strike latch, the local-control lease, the trusted target    *)
(* and the gate.  Temperatures are tenths of a degree, rates hundredths of *)
(* a degree a minute, utilisations per cent; a tick is one step.           *)
(***************************************************************************)
EXTENDS ControllerBounds

VARIABLES
    source,  \* who runs the recipe: "tracker" or "manual"
    step,    \* "strike" (a ramp), "rest", "ramp", or "paus": a named checkpoint
    state,   \* the runtime's state
    gate,    \* the mash-in gate: "idle", "ready" or "complete"
    dev,     \* the BrewZilla: its target, utilisations and switches
    latch,   \* strike target being held, or None
    lease,   \* plan that the BrewZilla was left alone with, or None
    trust,   \* target that BA wrote, and the ticks since, or None
    owed,    \* ghost: target of the strike ramp that the brewer is still waiting for
    did      \* ghost: the last tick, as the properties tell them apart

vars == <<source, step, state, gate, dev, latch, lease, trust, owed, did>>

Waiting == {"paused", "awaiting_confirm", "prepared", "awaiting_snapshot"}
Active == Waiting \cup {"live"}
NoPositive == {"idle", "prepared", "awaiting_snapshot"}

Kind == IF step \in {"strike", "ramp"} THEN "ramp" ELSE "hold"
PreMashIn == gate # "complete"
Process(r) == IF r.mash = None THEN r.wort ELSE r.mash
Hottest(r) == IF r.mash # None /\ r.mash > r.wort THEN r.mash ELSE r.wort
Least(a, b) == IF a < b THEN a ELSE b
Most(a, b) == IF a > b THEN a ELSE b
Differ(a, b) == a - b > 1 \/ b - a > 1

-----------------------------------------------------------------------------
(***************************************************************************)
(* A plan: what is wanted, and which of it still takes a write.            *)
(***************************************************************************)
Wanted(p) == p.sync \/ p.heatAct \/ p.on \/ p.off \/ p.pumpAct \/ p.start \/ p.stop

Heats(p, heat, heater) ==
    [p EXCEPT !.heat = heat, !.heater = heater, !.heatAct = heat # dev.heat,
              !.on = heater = "on" /\ ~dev.heater, !.off = heater = "off" /\ dev.heater]

Flows(p, pump) ==
    [p EXCEPT !.pump = pump, !.pumpAct = pump # dev.pump,
              !.start = pump > 0 /\ ~dev.flow, !.stop = pump = 0 /\ dev.flow]

Aims(p, target) == [p EXCEPT !.req = target, !.sync = Differ(target, p.applied)]

Ruled(p, r, idle) ==
    [p EXCEPT !.can = r.conn /\ Wanted(p),
              !.mode = IF r.conn /\ Wanted(p) THEN "direct" ELSE idle]

Down(p, r) == Ruled(Flows(Heats([p EXCEPT !.sync = FALSE], 0, "off"), 0), r, "blocked")

Still(p) == [p EXCEPT !.sync = FALSE, !.heatAct = FALSE, !.on = FALSE,
                      !.pumpAct = FALSE, !.start = FALSE, !.can = FALSE]

-----------------------------------------------------------------------------
(***************************************************************************)
(* The plan before the guards: BrewZilla's readback and the step's target, *)
(* then the advice profile, which leaves the element to the BrewZilla's    *)
(* thermostat and never asks for the heater to go off.                     *)
(***************************************************************************)
Base(r) ==
    LET applied == IF r.late = None THEN dev.target ELSE r.late
        rewind == state = "paused" /\ Target[step] - applied < -20
        open == r.conn /\ state \in Active /\ ~rewind
    IN [req |-> Target[step], applied |-> applied, sync |-> Differ(Target[step], applied),
        heat |-> 0, heatAct |-> FALSE, heater |-> "keep", on |-> FALSE, off |-> FALSE,
        pump |-> 0, pumpAct |-> FALSE, start |-> FALSE, stop |-> FALSE,
        can |-> FALSE, mode |-> IF open THEN "monitor" ELSE "blocked",
        delta |-> Target[step] - Process(r), mixed |-> FALSE, tapered |-> FALSE,
        rewind |-> rewind, hold |-> step # "strike",
        strike |-> None, clean |-> FALSE, degraded |-> FALSE,
        broken |-> FALSE, checkpoint |-> FALSE]

RampHeat(delta) ==
    IF delta <= 2 THEN 0 ELSE IF delta <= 20 THEN 40 ELSE IF delta <= 50 THEN 75 ELSE 100

HoldHeat(delta) ==
    IF delta <= 2 THEN 0 ELSE IF delta <= 7 THEN 25 ELSE IF delta <= 20 THEN 50 ELSE 75

Tapers(delta, rate) ==
    delta > 0 /\ ((delta <= 20 /\ rate >= 30) \/ (delta <= 10 /\ rate >= 10))

Profile(kind, delta, rate) ==
    LET heat == IF kind = "ramp" THEN RampHeat(delta) ELSE HoldHeat(delta)
    IN IF Tapers(delta, rate) THEN Least(heat, 40) ELSE heat

DeltaPump(r, low) ==
    LET over == IF r.mash = None THEN 0 ELSE r.wort - r.mash
    IN IF over >= 50 THEN Most(100, low)
       ELSE IF over >= 30 THEN Most(90, low)
       ELSE IF over >= 15 THEN Most(80, low) ELSE low

\* Wort at or above the target while the mash lags: little heat, more circulation.
Mixes(r, req) ==
    /\ ~(PreMashIn /\ (Kind = "ramp" \/ latch # None))
    /\ r.mash # None
    /\ r.wort - r.mash >= 3 \/ r.mash - r.wort >= 3
    /\ \/ r.wort - req > 2 /\ req - r.mash > 7
       \/ (req - r.wort) \in 0 .. 10 /\ req - r.mash >= 15

MixCap(gap, over) ==
    IF over > 2 /\ gap > 7 THEN IF over >= 10 \/ gap >= 20 THEN 5 ELSE 10
    ELSE 15

\* What the lag of the mash may raise that cap to.
MixFloor(gap, rate) ==
    LET ramp == IF gap >= 50 THEN 75 ELSE IF gap >= 30 THEN 60 ELSE 45
    IN IF gap < 20 THEN 0
       ELSE IF Kind = "hold" THEN IF gap >= 50 THEN 50 ELSE IF gap >= 30 THEN 40 ELSE 30
       ELSE IF gap >= 30 /\ rate <= 10 THEN Least(90, ramp + 15)
       ELSE IF gap >= 30 /\ rate <= 20 THEN Least(85, ramp + 10)
       ELSE IF gap <= 30 /\ rate >= 100 THEN 25
       ELSE IF gap <= 30 /\ rate >= 60 THEN Least(ramp, 45)
       ELSE ramp

MixHeat(gap, over, rate) ==
    IF over >= 50 THEN MixCap(gap, over) ELSE Most(MixCap(gap, over), MixFloor(gap, rate))

\* The floors of the pump apply only where that of the heat does.
MixPump(gap, over, rate) ==
    IF over >= 50 \/ gap < 20 THEN 70
    ELSE IF over >= 10 THEN 100
    ELSE IF Kind = "ramp" /\ gap <= 20 /\ rate >= 60 THEN 90 ELSE 85

Advice(r) ==
    LET p == Base(r)
        gap == p.req - r.mash
        over == r.wort - p.req
        mixes == Mixes(r, p.req)
        own == Profile(Kind, p.delta, r.rate)
        heat == IF mixes THEN Least(own, MixHeat(gap, over, r.rate)) ELSE own
        low == DeltaPump(r, IF p.delta <= -3 THEN 45 ELSE 50)
        q == Flows(Heats(p, heat, IF heat > 0 /\ p.delta > 5 THEN "on" ELSE "keep"),
                   IF mixes THEN Most(low, MixPump(gap, over, r.rate)) ELSE low)
        full == [q EXCEPT !.mixed = mixes, !.tapered = Tapers(p.delta, r.rate)]
    IN IF state \notin Active THEN Down(p, r)
       ELSE IF p.mode = "blocked" THEN full ELSE Ruled(full, r, "monitor")

-----------------------------------------------------------------------------
(***************************************************************************)
(* The strike water.  The target of the strike ramp is latched while it is *)
(* shown, and outlives it as long as the brewer is waited for: the tracker *)
(* may be past the ramp before the kettle is.  While it is latched, the    *)
(* heat follows what the mash probe lacks, capped by the hottest probe.    *)
(***************************************************************************)
\* Mutant: the strike target goes with its ramp.
NewLatchShown == IF state \in Active /\ PreMashIn /\ Kind = "ramp" THEN Target[step] ELSE None

NewLatch ==
    IF state \notin Active \/ ~PreMashIn THEN None
    ELSE IF Kind = "ramp" THEN Target[step]
    ELSE IF state \in Waiting THEN latch ELSE None

PausedWait == state \in Waiting /\ Kind # "ramp"

\* The target given to BrewZilla's thermostat; the wait does without the lead.
Boosted(strike, short) ==
    IF PausedWait THEN strike
    ELSE IF short > 80 THEN strike + 50
    ELSE IF short > 20 THEN strike + 30 ELSE strike

GateHeat(short) ==
    IF short <= 30 THEN 25 ELSE IF short <= 50 THEN 50 ELSE IF short <= 80 THEN 75 ELSE 100

\* A kettle too hot by at most 2 degrees keeps a little heat while the mash lags.
Equalises(strike, r) ==
    /\ strike - r.mash > 3
    /\ r.wort - r.mash >= 15
    /\ (Hottest(r) - strike) \in 6 .. 20

\* Mutant: a cap that does not look past the target.
HeatCapBelow(strike, r) ==
    LET short == strike - Hottest(r)
    IN IF short <= 10 THEN 25 ELSE IF short <= 30 THEN 50 ELSE IF short <= 50 THEN 75 ELSE 100

HeatCap(strike, r) ==
    LET short == strike - Hottest(r)
    IN IF Equalises(strike, r) THEN 5
       ELSE IF short <= -5 THEN 0
       ELSE IF short <= 10 THEN 25
       ELSE IF short <= 30 THEN 50
       ELSE IF short <= 50 THEN 75 ELSE 100

StrikePump(strike, r) ==
    LET lag == r.wort - r.mash
        short == strike - Hottest(r)
    IN IF Equalises(strike, r) \/ lag >= 50 THEN 100
       ELSE IF lag >= 30 THEN 90
       ELSE IF lag >= 15 THEN 80
       ELSE IF short <= 30 THEN 100
       ELSE IF short <= 80 THEN 90 ELSE 70

Strike(p, r) ==
    LET strike == NewLatch
        held == [p EXCEPT !.strike = strike, !.mixed = FALSE, !.tapered = FALSE,
                          !.rewind = FALSE, !.hold = FALSE, !.delta = strike - Process(r)]
        heat == Least(GateHeat(strike - r.mash), HeatCap(strike, r))
        clean == Flows(Heats(Aims(held, strike), heat, IF heat > 0 THEN "on" ELSE "off"),
                       StrikePump(strike, r))
        \* without the mash probe: no heat until it is back
        blind == Flows(Heats(Aims(held, Boosted(strike, held.delta)), 0, "off"), 50)
    IN IF strike = None THEN p
       ELSE IF ~r.conn THEN [Still(p) EXCEPT !.strike = strike, !.mode = "blocked", !.degraded = TRUE]
       ELSE IF r.mash # None THEN Ruled([clean EXCEPT !.clean = TRUE], r, "monitor")
       ELSE IF state = "paused" /\ PausedWait THEN Ruled(blind, r, "monitor")
       ELSE [blind EXCEPT !.can = TRUE, !.mode = "direct"]

-----------------------------------------------------------------------------
(***************************************************************************)
(* The guards, in their order.                                             *)
(***************************************************************************)

\* A target that BA has just written is believed rather than a late readback.
Trusted(p) ==
    IF trust = None \/ ~p.sync THEN p
    ELSE IF Differ(trust.target, p.req) THEN p
    ELSE [p EXCEPT !.applied = trust.target, !.sync = FALSE]

LeaseHolds(p) ==
    /\ lease # None
    /\ state \in Active
    /\ p.mode # "blocked" /\ gate # "ready"
    /\ lease.by = <<source, step>> /\ ~Differ(lease.target, p.req)

\* Why BA takes the control back that it had left to the BrewZilla.
LeaseBreaks(p) ==
    \/ p.mixed \/ p.tapered \/ p.delta <= 10
    \/ p.heat # lease.heat \/ p.pump # lease.pump
    \/ p.heatAct \/ p.pumpAct

LeftAlone(p) == LeaseHolds(p) /\ ~LeaseBreaks(p)

Leased(p) ==
    IF LeftAlone(p) THEN [Still(p) EXCEPT !.off = FALSE, !.stop = FALSE, !.mode = "local"]
    ELSE IF LeaseHolds(p) THEN [p EXCEPT !.broken = TRUE] ELSE p

\* A stale temperature changes no heat, but what else is wanted is done.
NotHeat(p) == p.sync \/ p.on \/ p.start \/ p.stop \/ p.pumpAct

Unstaled(p, r) ==
    IF ~r.fresh /\ state \in Active /\ (p.on \/ p.heat > 0)
    THEN [p EXCEPT !.can = r.conn /\ NotHeat(p),
                   !.mode = IF r.conn /\ NotHeat(p) THEN "direct" ELSE "local"]
    ELSE p

Quietened(p, r) == IF state \in NoPositive THEN Down(p, r) ELSE p

\* A zero that nobody insists on is taken back: the BrewZilla regulates itself.
Preserved(p, r) ==
    LET zero == p.off \/ p.heater = "off" \/ (p.heatAct /\ p.heat = 0)
        meant == p.heat = 0 /\ ((p.clean /\ p.heater = "off") \/ Process(r) > p.req + 3)
        q == [p EXCEPT !.heat = IF @ = 0 THEN dev.heat ELSE @,
                       !.heatAct = @ /\ p.heat > 0,
                       !.heater = IF dev.heater THEN "on" ELSE @, !.off = FALSE]
        needed == NotHeat(q) \/ q.heatAct
    IN IF state \in Active /\ zero /\ ~meant
       THEN [q EXCEPT !.can = r.conn /\ needed,
                      !.mode = IF r.conn /\ needed THEN "direct" ELSE "local"]
       ELSE p

\* Mutant: a paused Manual plan is no exception.
OperatedAlways(p, r) ==
    LET heat == IF r.heatAuto THEN p
                ELSE [p EXCEPT !.heat = r.setHeat, !.heatAct = r.setHeat # dev.heat,
                               !.on = FALSE, !.off = FALSE]
        q == IF r.pumpAuto THEN heat
                ELSE [heat EXCEPT !.pump = r.setPump, !.pumpAct = r.setPump # dev.pump,
                                  !.start = FALSE, !.stop = FALSE]
    IN IF source = "manual" /\ state \in Active /\ p.mode # "blocked"
       THEN [q EXCEPT !.can = Wanted(q), !.mode = IF Wanted(q) THEN "direct" ELSE "manual"]
       ELSE p

\* Under the Manual plan the operator owns the channels that BA was not given.
Operated(p, r) ==
    LET down == Flows(Heats([p EXCEPT !.sync = FALSE], 0, "off"), 0)
        heat == IF r.heatAuto THEN p
                ELSE [p EXCEPT !.heat = r.setHeat, !.heatAct = r.setHeat # dev.heat,
                               !.on = FALSE, !.off = FALSE]
        both == IF r.pumpAuto THEN heat
                ELSE [heat EXCEPT !.pump = r.setPump, !.pumpAct = r.setPump # dev.pump,
                                  !.start = FALSE, !.stop = FALSE]
        q == IF state \in {"paused", "prepared"} THEN down ELSE both
    IN IF source = "manual" /\ state \in Active /\ p.mode # "blocked"
       THEN [q EXCEPT !.can = Wanted(q), !.mode = IF Wanted(q) THEN "direct" ELSE "manual"]
       ELSE p

\* A paused step named PAUS is a checkpoint: its own target, and no more heat
\* than a ramp to it would ask for.
Checked(p, r) ==
    LET heat == Least(p.heat, Profile("ramp", Target[step] - Process(r), r.rate))
        heater == IF heat = 0 THEN "off" ELSE IF p.heater = "keep" THEN "on" ELSE p.heater
        q == [Heats(Aims(p, Target[step]), heat, heater) EXCEPT !.rewind = FALSE]
    IN IF source # "tracker" \/ state # "paused" \/ step # "paus" THEN p
       ELSE IF ~r.conn \/ p.degraded \/ p.mode = "blocked" THEN q
       ELSE [Ruled(q, r, "monitor") EXCEPT !.checkpoint = TRUE]

Plan(r) ==
    Checked(Operated(Preserved(Quietened(Unstaled(Leased(Trusted(
        Strike(Advice(r), r))), r), r), r), r), r)

-----------------------------------------------------------------------------
(***************************************************************************)
(* The writes.                                                             *)
(***************************************************************************)
Written(p) ==
    [target |-> IF p.sync THEN p.req ELSE dev.target,
     heat   |-> IF p.heatAct THEN p.heat ELSE dev.heat,
     pump   |-> IF p.pumpAct THEN p.pump ELSE dev.pump,
     heater |-> p.on \/ (dev.heater /\ ~p.off),
     flow   |-> p.start \/ (dev.flow /\ ~p.stop)]

\* A mash hold that the tracker shows as paused is kept warm all the same.
KeepsWarm(p, r) ==
    /\ state = "paused" /\ ~p.sync /\ ~p.rewind /\ p.hold /\ gate # "ready"
    /\ ~Differ(p.req, p.applied)
    /\ p.heat <= 15 /\ p.pump <= 80
    /\ p.heat > 0 => p.req - r.wort <= 60
    /\ Wanted(p)

OnlyDown(p) ==
    [p EXCEPT !.sync = FALSE, !.on = FALSE, !.start = FALSE,
              !.heatAct = @ /\ p.heat = 0, !.pumpAct = @ /\ p.pump = 0]

Lowers(p) ==
    p.off \/ p.stop \/ (p.heatAct /\ p.heat = 0) \/ (p.pumpAct /\ p.pump = 0)

\* What the apply that claims the plan writes of it.
Claimed(p, r) ==
    IF state \in NoPositive THEN OnlyDown(p)
    ELSE IF p.checkpoint /\ p.can THEN p
    ELSE IF ~p.checkpoint /\ KeepsWarm(p, r) THEN p
    ELSE IF ~p.checkpoint /\ state = "paused" /\ Lowers(p) THEN OnlyDown(p)
    ELSE IF p.can THEN p
    ELSE [Still(p) EXCEPT !.off = FALSE, !.stop = FALSE]

-----------------------------------------------------------------------------
Believed == IF trust = None \/ trust.age = TrustAge THEN None ELSE [trust EXCEPT !.age = @ + 1]

\* For the properties: where nothing may be started, and what starting is.
Quiet == state \in NoPositive \/ (source = "manual" /\ state \in {"paused", "prepared"})

Raises(next) ==
    \/ next.heat > dev.heat \/ next.pump > dev.pump
    \/ (next.heater /\ ~dev.heater) \/ (next.flow /\ ~dev.flow)
    \/ next.target # dev.target

NoTick == [over |-> 0, raised |-> FALSE, lowered |-> FALSE]

Tick(r, lands) ==
    LET p == Plan(r)
        w == Claimed(p, r)
        set == w.sync /\ state \notin NoPositive
        next == IF lands THEN Written(w) ELSE dev
        capped == p.clean /\ r.fresh /\ (source = "tracker" \/ r.heatAuto)
        hot == Hottest(r) - NewLatch
        alone == LeftAlone(Trusted(Strike(Advice(r), r)))
        older == IF lease = None \/ lease.age = Observe THEN None
                 ELSE [lease EXCEPT !.age = @ + 1]
    IN /\ lands \/ ~r.conn
       /\ dev' = next
       /\ latch' = NewLatch
       /\ trust' = IF set THEN [target |-> p.req, age |-> 0] ELSE Believed
       /\ lease' = IF state \in NoPositive THEN older
                   ELSE IF state \notin Active THEN None
                   ELSE IF set THEN [by |-> <<source, step>>, target |-> p.req,
                                     heat |-> p.heat, pump |-> p.pump, age |-> 0]
                   ELSE IF p.broken /\ Wanted(w) THEN None ELSE older
       /\ owed' = IF state \notin Active \/ ~PreMashIn THEN None
                  ELSE IF step = "strike" THEN Target["strike"]
                  ELSE IF state = "live" THEN None ELSE owed
       /\ did' = [over |-> IF ~capped \/ hot <= 5 THEN 0 ELSE IF hot <= 20 THEN 1
                           ELSE IF alone THEN 2 ELSE 3,
                   raised |-> r.conn /\ Quiet /\ Raises(next),
                   lowered |-> owed' # None /\ step # "paus"
                                 /\ next.target < dev.target /\ next.target < owed']
       /\ UNCHANGED <<source, step, state, gate>>

-----------------------------------------------------------------------------
(***************************************************************************)
(* What the brewer and the sources of the recipe do between two ticks.     *)
(***************************************************************************)
Kept == did' = NoTick /\ UNCHANGED <<dev, latch, lease, trust, owed>>

After(s) == IF s = "strike" THEN "rest" ELSE IF s = "rest" THEN "ramp" ELSE "paus"

\* The source shows this step or the next one, in some state of its own.
Shows(s, t) ==
    /\ s \in {step, After(step)}
    /\ t \in IF source = "tracker" THEN {"idle", "awaiting_snapshot", "paused", "live"}
              ELSE {"prepared", "awaiting_confirm", "paused", "live"}
    /\ step' = s /\ state' = t
    /\ UNCHANGED <<source, gate>> /\ Kept

\* The Manual fallback takes over paused, and gives back what the tracker shows.
HandsOver(to) ==
    /\ to # source
    /\ source' = to /\ state' = IF to = "manual" THEN "paused" ELSE "awaiting_snapshot"
    /\ UNCHANGED <<step, gate>> /\ Kept

MashesIn ==
    /\ \/ gate = "idle" /\ step # "strike" /\ gate' = "ready"
       \/ gate = "ready" /\ gate' = "complete"
    /\ UNCHANGED <<source, step, state>> /\ Kept

NewBrew ==
    /\ step' = "strike" /\ state' = "idle" /\ gate' = "idle" /\ source' = "tracker"
    /\ Kept

Init ==
    /\ source = "tracker" /\ step = "strike" /\ state = "idle" /\ gate = "idle"
    /\ dev = [target |-> Target["rest"], heat |-> 0, pump |-> 0, heater |-> FALSE, flow |-> FALSE]
    /\ latch = None /\ lease = None /\ trust = None /\ owed = None
    /\ did = NoTick

Next ==
    \/ \E r \in Readings, lands \in BOOLEAN : Tick(r, lands)
    \/ \E s \in DOMAIN Target, t \in Active \cup {"idle"} : Shows(s, t)
    \/ \E to \in {"tracker", "manual"} : HandsOver(to)
    \/ MashesIn
    \/ NewBrew

Spec == Init /\ [][Next]_vars

-----------------------------------------------------------------------------
TypeOK ==
    /\ source \in {"tracker", "manual"} /\ step \in DOMAIN Target
    /\ state \in Active \cup {"idle"} /\ gate \in {"idle", "ready", "complete"}
    /\ dev.heat \in 0 .. 100 /\ dev.pump \in 0 .. 100
    /\ latch = None \/ latch = Target["strike"] \/ latch = Target["ramp"]

(***************************************************************************)
(* Heat in the strike water.  A tick that BA decides with both probes in   *)
(* hand and the BrewZilla in reach leaves at most 5 per cent when the      *)
(* hottest of them is more than half a degree over the strike target,      *)
(* nothing when it is more than two degrees over, and then the heater off, *)
(* unless the lease leaves the BrewZilla alone with its zero.              *)
(***************************************************************************)
StrikeHeatIsCapped ==
    /\ did.over >= 1 => dev.heat <= 5
    /\ did.over >= 2 => dev.heat = 0
    /\ did.over = 3 => ~dev.heater

(***************************************************************************)
(* While the brewer is awaited after the strike ramp, no tick lowers the   *)
(* target below the strike target, whatever step the source has gone on to *)
(* show, except the checkpoint that the recipe asks for by name.           *)
(***************************************************************************)
StrikeIsHeld == ~did.lowered

(***************************************************************************)
(* Where nothing may be started (no trusted runtime, a plan only prepared, *)
(* the Manual plan paused) a tick raises neither utilisation, switches     *)
(* nothing on and leaves the target, through all the guards and whichever  *)
(* of the apply functions claims the plan.                                 *)
(***************************************************************************)
QuietOnlyLowers == ~did.raised
=============================================================================
