---------------------------- MODULE HltSimulation ----------------------------
(***************************************************************************)
(* The simulated sparge-water heater (hlt/): a timer samples the brewday   *)
(* and the BrewZilla, gives the virtual heater what power is left, writes  *)
(* a row and then renews the figures of the dashboard.  One unit of time   *)
(* is one period of the timer, one of power 100 W.                         *)
(*                                                                         *)
(* HltSamples is what a tick may read: watts and utilisation of the        *)
(* BrewZilla, its temperature and both targets, whether the stage may      *)
(* heat the sparge water and the step asks for a ramp, the heater's probe  *)
(* and its thermostat.                                                     *)
(***************************************************************************)
EXTENDS ControllerBounds

Budget == 25
Heater == 18
SampleGap == 3     \* a longer one is not counted as known
DayGap == 4        \* a longer one is refused
Gaps == {-1, 1, SampleGap + 1, DayGap + 1}   \* a clock set back, a tick in time and late ones
HltTarget == 2
Cutoff == 1        \* of its thermostat
MaxSessions == 2   \* bound: sessions that are recorded

VARIABLES
    clock,
    session,   \* the latest recorded session
    sim,       \* the simulator, None when dropped
    status,    \* runtime["status"]: why there is no result, or "live"
    writing,   \* whether a tick awaits its row, and what it had been asked
    metrics,   \* figures of one session, as saved for the dashboard
    hitches,   \* clocks set back, rows that failed and restarts so far
    fits       \* whether the last sample had room for the heater (ghost)

hltVars == <<clock, session, sim, status, writing, metrics, hitches, fits>>

Init ==
    /\ clock = 0 /\ session = 0
    /\ sim = None /\ status = None /\ writing = None
    /\ metrics = None /\ hitches = 0 /\ fits = FALSE

-----------------------------------------------------------------------------
(* One tick of the simulator. *)

Fresh(key) ==
    [key |-> key, temp |-> 0, on |-> FALSE, was |-> None, last |-> None, state |-> "IDLE"]

Current(key) == IF sim # None /\ sim.key = key THEN sim ELSE Fresh(key)

Refused(h, now) == h.last # None /\ (now < h.last \/ now - h.last > DayGap)

Measured(s) == None \notin {s.actual, s.device, s.wanted}
Ramps(s)    == s.ramp \/ (Measured(s) /\ (s.device # s.wanted \/ s.actual < s.wanted))
Cruises(s)  == ~s.ramp /\ Measured(s) /\ ~Ramps(s) /\ s.actual = s.wanted

Powered(s) == None \notin {s.watts, s.util}
Opportunity(s) ==
    /\ Powered(s) /\ Cruises(s) /\ ~Ramps(s)
    /\ s.watts # None => s.watts + Heater <= Budget

(* The stage may heat and there is sparge water: none at all, volume 0, is *)
(* a sample of another stage here.                                         *)
Active(s) == s.stage

Warmed(s, h, now) ==
    IF s.probe # None THEN s.probe
    ELSE IF h.was = TRUE /\ s.thermostat = FALSE THEN Cutoff
    ELSE IF h.on THEN h.temp + (now - h.last) ELSE h.temp

Answer(s, h, wants) ==
    IF h.on /\ ~(wants /\ Opportunity(s)) THEN "YIELDING"
    ELSE IF ~Active(s) THEN "IDLE"
    ELSE IF ~Powered(s) THEN "WAITING_FOR_POWER"
    ELSE IF ~wants THEN "READY"
    ELSE IF Opportunity(s) THEN "HEATING" ELSE "WAITING_FOR_POWER"

(* Mutant: the virtual switch follows the demand, and not the permission.  *)
SampledOnDemand(s, h, now) ==
    LET temp  == Warmed(s, h, now)
        wants == Active(s) /\ temp < HltTarget
    IN  [h EXCEPT !.temp = temp, !.last = now, !.was = s.thermostat,
                  !.state = Answer(s, h, wants), !.on = wants]

Sampled(s, h, now) ==
    LET temp  == Warmed(s, h, now)
        state == Answer(s, h, Active(s) /\ temp < HltTarget)
    IN  [h EXCEPT !.temp = temp, !.last = now, !.was = s.thermostat,
                  !.state = state, !.on = state = "HEATING"]

(* The ghost looks at the readings themselves. *)
Fits(s) ==
    /\ s.watts # None
    /\ s.watts \in 0..(Budget - Heater)
    /\ s.actual = s.wanted /\ s.device = s.wanted /\ s.stage /\ ~s.ramp

-----------------------------------------------------------------------------
(* The timer. *)

(* What a tick finds: the session that is recorded, if any, whether the    *)
(* brewday runs and is not aborted, and the volume of sparge water.        *)
Days == [log : {0, session} \cup (session + 1)..MaxSessions, runs : BOOLEAN, volume : {None, 1}]

Missing(day) ==
    IF day.log = 0 THEN "waiting_for_brewday_recorder"
    ELSE IF ~day.runs THEN "brewday_inactive_or_aborted"
    ELSE IF day.volume = None THEN "waiting_for_sparge_volume" ELSE None

Hitch == hitches < MaxFaults /\ hitches' = hitches + 1

Passes(day) ==
    /\ writing = None
    /\ \E gap \in Gaps : clock + gap \in 0..MaxClock /\ clock' = clock + gap
    /\ IF clock' < clock THEN Hitch ELSE UNCHANGED hitches
    /\ session' = IF day.log = 0 THEN session ELSE day.log

TickWithoutBrewday ==
    /\ \E day \in Days : Missing(day) # None /\ Passes(day) /\ status' = Missing(day)
    /\ sim' = None
    /\ UNCHANGED <<writing, metrics, fits>>

TickRefused ==
    /\ \E day \in Days :
         LET h == Current(<<day.log, day.volume>>)
         IN  Missing(day) = None /\ Passes(day) /\ Refused(h, clock') /\ sim' = h
    /\ status' = "error"
    /\ UNCHANGED <<writing, metrics, fits>>

StartTick ==
    /\ \E day \in Days, s \in HltSamples :
         LET h == Current(<<day.log, day.volume>>)
         IN  /\ Missing(day) = None /\ Passes(day) /\ ~Refused(h, clock')
             /\ sim' = Sampled(s, h, clock')
             /\ status' = IF sim = h THEN status ELSE "live"
             /\ writing' = Active(s)
             /\ fits' = Fits(s)
    /\ UNCHANGED metrics

NoFigures(log) ==
    [session |-> log, started |-> None, stopped |-> None, last |-> None,
     state |-> None, virtual |-> 0, waiting |-> 0]

Figures == IF metrics # None /\ metrics.session = sim.key[1] THEN metrics ELSE NoFigures(sim.key[1])

Counted(m, counts) ==
    IF counts /\ m.last # None /\ sim.last - m.last <= SampleGap THEN sim.last - m.last ELSE 0

UpdatedStopped(m, active) ==
    LET started == IF m.started = None /\ active THEN sim.last ELSE m.started
    IN  [m EXCEPT
           !.started = started,
           !.stopped = IF started # None /\ ~active /\ m.stopped = None THEN sim.last
                       ELSE m.stopped,
           !.virtual = m.virtual + Counted(m, m.state = "HEATING"),
           !.waiting = m.waiting + Counted(m, m.state = "WAITING_FOR_POWER"),
           !.last = sim.last, !.state = sim.state]
Updated(m, active) ==
    LET started == IF m.started = None /\ active THEN sim.last ELSE m.started
    IN  [m EXCEPT
           !.started = started,
           !.stopped = IF active THEN None
                       ELSE IF started # None /\ m.stopped = None THEN sim.last ELSE m.stopped,
           !.virtual = m.virtual + Counted(m, m.state = "HEATING"),
           !.waiting = m.waiting + Counted(m, m.state = "WAITING_FOR_POWER"),
           !.last = sim.last, !.state = sim.state]

EndTick ==
    /\ writing # None
    /\ IF Figures.last # None /\ sim.last < Figures.last
       THEN status' = "error" /\ UNCHANGED <<metrics, hitches>>
       ELSE /\ metrics' = Updated(Figures, writing)
            /\ \/ status' = "live" /\ UNCHANGED hitches
               \/ status' = "error" /\ Hitch             \* the row of the log
    /\ writing' = None
    /\ UNCHANGED <<clock, session, sim, fits>>

(* A row that cannot be written leaves the figures as they were, and no    *)
(* result to show.                                                         *)
RowFailsShown ==
    /\ writing # None /\ Hitch
    /\ writing' = None
    /\ UNCHANGED <<clock, session, sim, status, metrics, fits>>
RowFails ==
    /\ writing # None /\ Hitch
    /\ writing' = None /\ status' = "error"
    /\ UNCHANGED <<clock, session, sim, metrics, fits>>

Restart ==
    /\ Hitch
    /\ sim' = None /\ status' = None /\ writing' = None
    /\ metrics' = None
    /\ UNCHANGED <<clock, session, fits>>

Next == TickWithoutBrewday \/ TickRefused \/ StartTick \/ EndTick \/ RowFails \/ Restart

-----------------------------------------------------------------------------
TypeOK ==
    /\ clock \in 0..MaxClock /\ session \in 0..MaxSessions
    /\ fits \in BOOLEAN /\ writing \in BOOLEAN \cup {None}
    /\ sim # None => sim.on = (sim.state = "HEATING")

Hidden == {"waiting_for_brewday_recorder", "brewday_inactive_or_aborted",
           "waiting_for_sparge_volume", "error"}
ShownOn == metrics # None /\ metrics.state = "HEATING" /\ status \notin Hidden

Total == IF metrics.started = None THEN 0
         ELSE (IF metrics.stopped # None THEN metrics.stopped ELSE metrics.last) - metrics.started

(* Between two ticks, a dashboard that shows the virtual heater on shows   *)
(* the heater of the simulator that lives, and the last sample had room    *)
(* for it beside the BrewZilla: "Inactive status must not expose stale     *)
(* watts or an active heater state" (metrics.py:182).  And its times add   *)
(* up: heating and waiting never exceed the session they are part of,      *)
(* through pauses, gaps, failed rows and clocks set back.                  *)
DashboardIsTrue ==
    /\ writing = None /\ ShownOn => sim # None /\ sim.on /\ fits
    /\ metrics # None => metrics.virtual + metrics.waiting <= Total
=============================================================================
