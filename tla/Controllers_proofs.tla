-------------------------- MODULE Controllers_proofs --------------------------
(***************************************************************************)
(* Proofs about the controllers that one run checks side by side, for any  *)
(* times, numbers of timers and readings: the kegerator's compressor and   *)
(* its fan, and what the dashboard tells of the simulated sparge water.    *)
(***************************************************************************)
EXTENDS MCControllers, TLAPS

(* A step of one part is a stutter of the others.                          *)
LEMMA OnePart ==
  [Next]_vars => /\ [Relay!Next]_Relay!vars /\ [Climate!Next]_Climate!vars /\ [Fan!Next]_Fan!vars
                 /\ [Heat!Next]_Heat!vars /\ [Hlt!Next]_Hlt!hltVars
<1> SUFFICES ASSUME [Next]_vars
             PROVE  /\ [Relay!Next]_Relay!vars /\ [Climate!Next]_Climate!vars
                    /\ [Fan!Next]_Fan!vars /\ [Heat!Next]_Heat!vars /\ [Hlt!Next]_Hlt!hltVars
  OBVIOUS
<1>1. UNCHANGED relayVars => UNCHANGED Relay!vars
  BY DEF relayVars, Relay!vars
<1>2. UNCHANGED climateVars => UNCHANGED Climate!vars
  BY DEF climateVars, Climate!vars
<1>3. UNCHANGED fanVars => UNCHANGED Fan!vars
  BY DEF fanVars, Fan!vars
<1>4. UNCHANGED heatVars => UNCHANGED Heat!vars
  BY DEF heatVars, Heat!vars
<1>5. UNCHANGED hltVars => UNCHANGED Hlt!hltVars
  BY DEF hltVars, Hlt!hltVars
<1> QED
  BY <1>1, <1>2, <1>3, <1>4, <1>5
     DEF Next, vars, RelayOnly, ClimateOnly, FanOnly, HeatOnly, HltOnly, OutOfTime

-----------------------------------------------------------------------------
(* The kegerator's compressor                                              *)

(* The two times are capped by the longer minimum.                         *)
LEMMA LongestIsNat == Relay!Longest \in Nat /\ MinOn <= Relay!Longest /\ MinOff <= Relay!Longest
  BY GuardAssumption DEF Relay!Longest

(* What the guard decides is a command or nothing.                         *)
LEMMA CommandType == Relay!Command \in Relay!Commands \cup {None}
  BY Zenon DEF Relay!Command, Relay!Commands

(* A switched relay is seen, has a command's value and just changed.       *)
LEMMA SwitchMoves ==
  ASSUME NEW to \in Relay!Commands, Relay!Switch(to)
  PROVE  \/ heard /\ heard' = heard /\ relay' = to /\ relay' # relay /\ elapsed' = 0 /\ since' = 0
         \/ relay' = relay /\ heard' = heard /\ elapsed' = elapsed /\ since' = since
  BY DEF Relay!Switch, Relay!device

(* A run either executes a command of the guard's or leaves the relay.     *)
LEMMA DecideMoves ==
  ASSUME Relay!TypeOK, Relay!Decide
  PROVE  /\ \/ /\ Relay!Command # None /\ heard /\ heard' = heard /\ relay' = Relay!Command
               /\ elapsed' = 0 /\ since' = 0
            \/ relay' = relay /\ heard' = heard /\ elapsed' = elapsed /\ since' = since
         /\ relayPending' \in Relay!Commands \cup {None}
<1>1. relayPending' \in Relay!Commands \cup {None}
  BY CommandType DEF Relay!Decide, Relay!TypeOK
<1>2. CASE Relay!Command = None
  BY <1>1, <1>2 DEF Relay!Decide, Relay!device
<1>3. CASE Relay!Command # None
  <2>1. Relay!Command \in Relay!Commands
    BY <1>3, CommandType
  <2>2. Relay!Switch(Relay!Command) \/ UNCHANGED Relay!device
    BY <1>3 DEF Relay!Decide
  <2>3. CASE Relay!Switch(Relay!Command)
    BY <1>1, <1>3, <2>1, <2>3, SwitchMoves
  <2>4. CASE UNCHANGED Relay!device
    BY <1>1, <2>4 DEF Relay!device
  <2> QED
    BY <2>2, <2>3, <2>4
<1> QED
  BY <1>2, <1>3

(* A timer's run, whether it awaited a restoration or not.                 *)
LEMMA TickMoves ==
  ASSUME Relay!TypeOK, NEW t \in Timers, Relay!Tick(t)
  PROVE  /\ \/ /\ Relay!Command # None /\ heard /\ heard' = heard /\ relay' = Relay!Command
               /\ elapsed' = 0 /\ since' = 0
            \/ relay' = relay /\ heard' = heard /\ elapsed' = elapsed /\ since' = since
         /\ relayPending' \in Relay!Commands \cup {None} /\ confirming' = confirming
         /\ UNCHANGED Relay!knobs /\ air' = air /\ awaiting' \subseteq Timers
<1>1. CASE Relay!Decide
  BY <1>1, DecideMoves DEF Relay!Tick, Relay!Run, Relay!Resume, Relay!TypeOK
<1>2. CASE ~Relay!Decide
  BY <1>2 DEF Relay!Tick, Relay!Run, Relay!Resume, Relay!TypeOK, Relay!device
<1> QED
  BY <1>1, <1>2

-----------------------------------------------------------------------------
(* Types, and what last_changed tells                                      *)

RelayInv == Relay!TypeOK /\ Relay!ElapsedIsReal

LEMMA RelayNextInv == RelayInv /\ [Relay!Next]_Relay!vars => RelayInv'
<1> SUFFICES ASSUME RelayInv, [Relay!Next]_Relay!vars PROVE RelayInv'
  OBVIOUS
<1> USE LongestIsNat DEF RelayInv, Relay!TypeOK, Relay!ElapsedIsReal
<1>1. ASSUME NEW t \in Timers, Relay!Tick(t) PROVE RelayInv'
  <2>1. CASE Relay!Command # None /\ heard /\ heard' = heard /\ relay' = Relay!Command /\ elapsed' = 0 /\ since' = 0
    BY <1>1, <2>1, TickMoves, CommandType DEF Relay!knobs
  <2>2. CASE relay' = relay /\ heard' = heard /\ elapsed' = elapsed /\ since' = since
    BY <1>1, <2>2, TickMoves DEF Relay!knobs
  <2> QED
    BY <1>1, <2>1, <2>2, TickMoves
<1>2. ASSUME NEW to \in BOOLEAN, Relay!SetGuard(to) PROVE RelayInv'
  BY <1>2 DEF Relay!SetGuard, Relay!slot, Relay!device
<1>3. ASSUME NEW p \in Relay!Policies, Relay!SetPolicy(p) PROVE RelayInv'
  BY <1>3 DEF Relay!SetPolicy, Relay!device
<1>4. CASE Relay!SetUnlock
  <2>1. unlocked' \in BOOLEAN
    BY <1>4 DEF Relay!SetUnlock
  <2> QED
    BY <1>4, <2>1 DEF Relay!SetUnlock, Relay!slot, Relay!device
<1>12. CASE Relay!Confirm \/ Relay!Displace
  BY <1>12 DEF Relay!Confirm, Relay!Displace, Relay!device, Relay!knobs
<1>13. CASE Relay!Restored
  BY <1>13 DEF Relay!Restored, Relay!slot, Relay!device
<1>5. CASE Relay!Confirmed
  <2>1. confirming \in Relay!Commands /\ Relay!Switch(confirming)
    BY <1>5 DEF Relay!Confirmed
  <2>2. /\ heard' \in BOOLEAN /\ relay' \in Relay!Commands
        /\ elapsed' \in 0 .. Relay!Longest /\ since' \in 0 .. Relay!Longest
        /\ heard' => elapsed' <= since'
    BY <2>1, SwitchMoves
  <2> QED
    BY <1>5, <2>2 DEF Relay!Confirmed, Relay!knobs
<1>6. CASE Relay!Thermostat
  BY <1>6 DEF Relay!Thermostat, Relay!knobs, Relay!slot
<1>7. CASE Relay!Blip
  BY <1>7 DEF Relay!Blip, Relay!knobs, Relay!slot
<1>8. CASE Relay!Weather
  BY <1>8 DEF Relay!Weather, Relay!knobs, Relay!slot, Relay!device
<1>9. CASE Relay!Elapse
  BY <1>9 DEF Relay!Elapse, Relay!knobs, Relay!slot
<1>10. CASE Relay!Restart
  <2>1. enabled' \in BOOLEAN /\ heard' \in BOOLEAN
    BY <1>10 DEF Relay!Restart
  <2>2. elapsed' = 0 /\ since' = since
    BY <1>10 DEF Relay!Restart
  <2>3. elapsed' \in 0 .. Relay!Longest /\ since' \in 0 .. Relay!Longest /\ elapsed' <= since'
    BY <2>2
  <2>4. UNCHANGED <<saved, relayPolicy, unlocked, relay, air>> /\ awaiting' = {}
    BY <1>10 DEF Relay!Restart
  <2>5. relayPending' = None /\ confirming' = None
    BY <1>10 DEF Relay!Restart
  <2> QED
    BY <2>1, <2>3, <2>4, <2>5
<1>11. CASE UNCHANGED Relay!vars
  BY <1>11 DEF Relay!vars
<1> QED
  BY <1>1, <1>2, <1>3, <1>4, <1>5, <1>6, <1>7, <1>8, <1>9, <1>10, <1>11, <1>12, <1>13 DEF Relay!Next

LEMMA RelayStarts == Init => RelayInv
<1> SUFFICES ASSUME Init PROVE RelayInv
  OBVIOUS
<1>1. /\ elapsed = 0 /\ since = 0 /\ heard = TRUE /\ awaiting = {}
      /\ relayPending = None /\ confirming = None /\ enabled = FALSE /\ saved \in BOOLEAN
      /\ relay \in {"on", "off"} /\ relayPolicy = "direct" /\ unlocked = TRUE
      /\ air \in {"floor", "stop", "band", "start"}
  BY DEF Init, Relay!Init, RelayStill, Relay!Commands, Relay!Air
<1>2. elapsed \in 0 .. Relay!Longest /\ since \in 0 .. Relay!Longest /\ elapsed <= since
  BY <1>1, LongestIsNat
<1> QED
  BY <1>1, <1>2 DEF RelayInv, Relay!TypeOK, Relay!ElapsedIsReal, Relay!Commands, Relay!Air, Relay!Policies

LEMMA RelayAlways == Spec => []RelayInv
<1>1. RelayInv /\ [Next]_vars => RelayInv'
  BY OnePart, RelayNextInv
<1> QED
  BY <1>1, RelayStarts, PTL DEF Spec

(* Home Assistant's last_changed of a relay it sees never claims more time *)
(* than the compressor really ran or rested, over lost entities, restarts  *)
(* and a thermostat that switches while nobody looks.                      *)
THEOREM LastChangedIsReal == Spec => []Relay!ElapsedIsReal
  BY RelayAlways, PTL DEF RelayInv

-----------------------------------------------------------------------------
(* The minimum times                                                       *)

(* What the guard's commands presuppose.                                   *)
LEMMA CommandNeeds ==
  ASSUME Relay!Command # None
  PROVE  /\ heard
         /\ \/ Relay!Command = "on" /\ elapsed >= MinOff
            \/ Relay!Command = "off" /\ (elapsed >= MinOn \/ air = "floor")
  BY Zenon DEF Relay!Command

(* The command that the guard gives, by the time that it believes.         *)
LEMMA CommandKeepsTimes ==
  ASSUME RelayInv, Relay!Command # None
  PROVE  \/ Relay!Command = "on" /\ since >= MinOff
         \/ Relay!Command = "off" /\ (since >= MinOn \/ air = "floor")
<1>1. heard /\ elapsed \in Nat /\ since \in Nat /\ elapsed <= since
  BY LongestIsNat, CommandNeeds DEF RelayInv, Relay!TypeOK, Relay!ElapsedIsReal
<1>2. (elapsed >= MinOff => since >= MinOff) /\ (elapsed >= MinOn => since >= MinOn)
  BY <1>1, GuardAssumption
<1> QED
  BY <1>2, CommandNeeds

(* However many timers run the guard, whatever they awaited: it starts a   *)
(* compressor only after its rest, and stops it only after its run or at   *)
(* the safety floor.                                                       *)
LEMMA CompressorSpared == Spec => Relay!CyclesAreKept
<1>1. RelayInv => [(relay' # relay /\ \E t \in Timers : Relay!Tick(t)) =>
                  \/ relay' = "on" /\ since >= MinOff
                  \/ relay' = "off" /\ (since >= MinOn \/ air = "floor")]_Relay!vars
  <2> SUFFICES ASSUME RelayInv, relay' # relay, NEW t \in Timers, Relay!Tick(t)
               PROVE  \/ relay' = "on" /\ since >= MinOff
                      \/ relay' = "off" /\ (since >= MinOn \/ air = "floor")
    OBVIOUS
  <2>1. Relay!Command # None /\ relay' = Relay!Command
    BY TickMoves DEF RelayInv
  <2> QED
    BY <2>1, CommandKeepsTimes
<1> QED
  BY <1>1, RelayAlways, PTL DEF Relay!CyclesAreKept

-----------------------------------------------------------------------------
(* The kegerator's fan                                                     *)

(* While fan-auto saw the compressor run and kept a mode with an afterrun, *)
(* what is left of it covers the time that is missing.                     *)
Covered ==
    kept =>
      /\ auto /\ fanMode \in Fan!AfterrunModes /\ lastMode \in Fan!AfterrunModes
      /\ \/ previous = TRUE
         \/ idle >= AfterRun
         \/ left # None /\ left + idle >= AfterRun

FanInv == Fan!TypeOK /\ Covered

(* In the two modes with an afterrun the fan runs while it lasts.          *)
LEMMA AfterrunRuns ==
  ASSUME fanMode \in Fan!AfterrunModes, Fan!Active \/ Fan!Afterrun
  PROVE  Fan!Runs(Fan!Afterrun) = TRUE
<1>1. CASE fanMode = "afterrun"
  BY Zenon, <1>1 DEF Fan!Runs
<1>2. CASE fanMode = "smart"
  <2>1. Fan!SmartRuns(Fan!Afterrun) = TRUE
    BY DEF Fan!SmartRuns
  <2> QED
    BY Zenon, <1>2, <2>1 DEF Fan!Runs
<1> QED
  BY <1>1, <1>2 DEF Fan!AfterrunModes

(* An evaluation turns a fan off only by its command, when it may not run. *)
LEMMA OffNeeds ==
  ASSUME Fan!Evaluate, fan = "on", fan' = "off"
  PROVE  auto /\ Fan!Runs(Fan!Afterrun) # TRUE
<1>1. PICK done \in BOOLEAN : Fan!EvaluateTo(done)
  BY DEF Fan!Evaluate
<1>2. Fan!Command(Fan!Afterrun) # None
  BY <1>1 DEF Fan!EvaluateTo
<1> QED
  BY <1>2 DEF Fan!Command, Fan!Running

LEMMA AfterrunLasts ==
  ASSUME FanInv, Fan!Evaluate, fan = "on", fan' = "off", kept
  PROVE  idle >= AfterRun
<1>1. auto /\ ~Fan!Active /\ ~Fan!Afterrun /\ fanMode \in Fan!AfterrunModes
  BY OffNeeds, AfterrunRuns DEF FanInv, Covered
<1>2. Fan!Left = None
  BY <1>1 DEF Fan!Afterrun
<1>3. ~Fan!Forgets
  BY DEF FanInv, Covered, Fan!Forgets
<1>4. previous # TRUE /\ (left = 0 \/ left = None)
  BY <1>1, <1>2, <1>3, FanAssumption DEF Fan!Left
<1>5. idle >= AfterRun \/ (left # None /\ left + idle >= AfterRun)
  BY <1>4 DEF FanInv, Covered
<1>6. idle \in Nat /\ AfterRun \in Nat
  BY FanAssumption DEF FanInv, Fan!TypeOK
<1>7. left = 0 => left + idle = idle
  BY <1>6
<1> QED
  BY <1>4, <1>5, <1>6, <1>7

LEMMA EvaluateKeepsFan ==
  ASSUME FanInv, Fan!Evaluate
  PROVE  FanInv'
<1> USE FanAssumption
<1>1. PICK done \in BOOLEAN : Fan!EvaluateTo(done)
  BY DEF Fan!Evaluate
<1>2. /\ UNCHANGED <<auto, fanMode, fanPolicy, power, cooling, context>>
      /\ previous' = (IF auto THEN Fan!Active ELSE None)
      /\ lastMode' = fanMode /\ left' = Fan!Left
      /\ idle' = (IF auto /\ Fan!Active THEN 0 ELSE idle)
      /\ kept' = (IF auto /\ Fan!Active THEN fanMode \in Fan!AfterrunModes
                  ELSE kept /\ auto /\ fanMode \in Fan!AfterrunModes)
  BY <1>1 DEF Fan!EvaluateTo, Fan!Remember, Fan!knobs, Fan!world
<1>3. Fan!Command(Fan!Afterrun) \in {"on", "off", None}
  BY DEF Fan!Command
<1>4. fan' \in {"on", "off", None} /\ fanPending' \in {"on", "off", None}
  BY <1>1, <1>3 DEF Fan!EvaluateTo, FanInv, Fan!TypeOK
<1>5. left' \in (0 .. AfterRun) \cup {None} /\ idle' \in 0 .. AfterRun
  BY <1>2 DEF Fan!Left, FanInv, Fan!TypeOK
<1>6. previous' \in BOOLEAN \cup {None} /\ kept' \in BOOLEAN
  <2>1. CASE auto /\ Fan!Active
    <3>1. previous' = Fan!Active /\ kept' = (fanMode \in Fan!AfterrunModes)
      BY <1>2, <2>1
    <3> QED
      BY <3>1 DEF Fan!Active
  <2>2. CASE ~(auto /\ Fan!Active)
    <3>1. kept' = (kept /\ auto /\ fanMode \in Fan!AfterrunModes)
      BY <1>2, <2>2
    <3>2. previous' = Fan!Active \/ previous' = None
      BY <1>2
    <3> QED
      BY <3>1, <3>2 DEF Fan!Active
  <2> QED
    BY <2>1, <2>2
<1>7. Fan!TypeOK'
  BY <1>2, <1>4, <1>5, <1>6 DEF FanInv, Fan!TypeOK
<1>8. Covered'
  <2> SUFFICES ASSUME kept' PROVE Covered'
    BY DEF Covered
  <2>1. auto /\ fanMode \in Fan!AfterrunModes
    BY <1>2, <1>6
  <2>2. CASE Fan!Active
    BY <1>2, <2>1, <2>2 DEF Covered
  <2>3. CASE ~Fan!Active
    <3>1. kept /\ idle' = idle
      BY <1>2, <2>3
    <3>2. ~Fan!Forgets
      BY <3>1 DEF FanInv, Covered, Fan!Forgets
    <3>3. CASE previous = TRUE
      <4>1. left' = AfterRun
        BY <1>2, <2>1, <2>3, <3>3 DEF Fan!Left
      <4> QED
        BY <1>2, <1>5, <2>1, <4>1 DEF Covered
    <3>4. CASE previous # TRUE
      <4>1. left' = IF left = 0 THEN None ELSE left
        BY <1>2, <2>1, <2>3, <3>2, <3>4 DEF Fan!Left
      <4>2. idle >= AfterRun \/ (left' # None /\ left' + idle >= AfterRun)
        <5>1. idle >= AfterRun \/ (left # None /\ left + idle >= AfterRun)
          BY <3>1, <3>4 DEF FanInv, Covered
        <5>2. idle \in Nat /\ AfterRun \in Nat
          BY DEF FanInv, Fan!TypeOK
        <5>3. left = 0 => left + idle = idle
          BY <5>2
        <5> QED
          BY <4>1, <5>1, <5>2, <5>3
      <4> QED
        BY <1>2, <2>1, <3>1, <4>2 DEF Covered
    <3> QED
      BY <3>3, <3>4
  <2> QED
    BY <2>2, <2>3
<1> QED
  BY <1>7, <1>8 DEF FanInv

LEMMA FanNextInv == FanInv /\ [Fan!Next]_Fan!vars => FanInv'
<1> SUFFICES ASSUME FanInv, [Fan!Next]_Fan!vars PROVE FanInv'
  OBVIOUS
<1> USE FanAssumption DEF FanInv, Fan!TypeOK, Covered
<1>1. CASE Fan!Evaluate
  BY <1>1, EvaluateKeepsFan
<1>2. CASE Fan!SetAuto
  BY <1>2 DEF Fan!SetAuto, Fan!world
<1>3. CASE Fan!SelectMode
  BY <1>3 DEF Fan!SelectMode, Fan!world, Fan!memory
<1>4. CASE Fan!SetPolicy
  BY <1>4 DEF Fan!SetPolicy, Fan!world, Fan!memory, Fan!history
<1>5. CASE Fan!Confirm
  BY <1>5 DEF Fan!Confirm, Fan!knobs, Fan!world, Fan!memory, Fan!history
<1>6. CASE Fan!World
  BY <1>6 DEF Fan!World, Fan!knobs, Fan!world, Fan!memory, Fan!history
<1>7. CASE Fan!Elapse
  BY <1>7 DEF Fan!Elapse, Fan!knobs, Fan!world
<1>8. CASE Fan!Restart
  BY <1>8 DEF Fan!Restart, Fan!knobs, Fan!world
<1>9. CASE UNCHANGED Fan!vars
  BY <1>9 DEF Fan!vars
<1> QED
  BY <1>1, <1>2, <1>3, <1>4, <1>5, <1>6, <1>7, <1>8, <1>9 DEF Fan!Next

LEMMA FanAlways == Spec => []FanInv
<1>1. Init => FanInv
  <2> SUFFICES ASSUME Init PROVE FanInv
    OBVIOUS
  <2>1. /\ auto = FALSE /\ fanMode = "smart" /\ fanPolicy = "direct" /\ fanPending = None
        /\ power \in Fan!Powers /\ cooling = FALSE /\ context \in Fan!Contexts
        /\ fan \in {"on", "off"} /\ previous = None /\ lastMode = None /\ left = None
        /\ idle = AfterRun /\ kept = FALSE
    BY DEF Init, FanStill, Fan!Init, Fan!Powers, Fan!Contexts
  <2>2. idle \in 0 .. AfterRun
    BY <2>1, FanAssumption
  <2> QED
    BY <2>1, <2>2 DEF FanInv, Fan!TypeOK, Covered, Fan!Modes, Fan!Policies
<1>2. FanInv /\ [Next]_vars => FanInv'
  BY OnePart, FanNextInv
<1> QED
  BY <1>1, <1>2, PTL DEF Spec

(* No evaluation stops the fan before its afterrun is over, while fan-auto *)
(* saw the compressor run and kept a mode that has one; and the guard      *)
(* keeps the compressor's minimum times: for any of these times.           *)
THEOREM TimesKept == Spec => TimesAreKept
<1>1. FanInv => [(Fan!Evaluate /\ fan = "on" /\ fan' = "off" /\ kept) => idle >= AfterRun]_Fan!vars
  BY AfterrunLasts
<1>2. Spec => Fan!AfterRunIsKept
  BY <1>1, FanAlways, PTL DEF Fan!AfterRunIsKept
<1> QED
  BY <1>2, CompressorSpared DEF TimesAreKept

-----------------------------------------------------------------------------
(* The simulated sparge water                                              *)

Counting == {"HEATING", "WAITING_FOR_POWER"}

Moments == Int \cup {None}
FigureRecords == [session : Nat, started : Moments, stopped : Moments, last : Moments,
                  state : SimulatorStates \cup {None}, virtual : Nat, waiting : Nat]

(* The figures of a session lie in its bounds, and these hold its sums.    *)
FiguresOK(m) ==
    /\ m \in FigureRecords
    /\ m.last # None
    /\ m.started = None => m.stopped = None /\ m.virtual + m.waiting = 0
    /\ m.started # None => m.started <= m.last
    /\ m.started # None /\ m.stopped = None => m.virtual + m.waiting <= m.last - m.started
    /\ m.stopped # None => m.stopped <= m.last /\ m.virtual + m.waiting <= m.stopped - m.started
    /\ m.state \in Counting => m.started # None /\ m.stopped = None

SimOK ==
    /\ sim # None => /\ sim \in Simulators /\ sim.on = (sim.state = "HEATING")
                     /\ sim.on => fits /\ sim.last # None
    /\ writing # None => sim # None /\ sim.last # None /\ (sim.state \in Counting => writing = TRUE)

Shown ==
    writing = None /\ metrics # None /\ status \notin Hlt!Hidden =>
        sim # None /\ metrics.state = sim.state

HltInv ==
    /\ clock \in 0 .. MaxClock /\ session \in 0 .. Hlt!MaxSessions
    /\ fits \in BOOLEAN /\ writing \in BOOLEAN \cup {None}
    /\ SimOK
    /\ metrics # None => FiguresOK(metrics)
    /\ Shown

(* The simulator that a tick finds, of this key or anew.                   *)
LEMMA CurrentOK ==
  ASSUME SimOK, NEW key \in Nat \X (Nat \cup {None})
  PROVE  /\ Hlt!Current(key) \in Simulators
         /\ Hlt!Current(key).last # None => Hlt!Current(key) = sim /\ sim # None
         /\ Hlt!Current(key).on => Hlt!Current(key).last # None
<1>1. Hlt!Fresh(key) \in Simulators /\ Hlt!Fresh(key).last = None /\ Hlt!Fresh(key).on = FALSE
  BY DEF Hlt!Fresh, Simulators, SimulatorStates
<1> QED
  BY <1>1 DEF Hlt!Current, SimOK

(* What the simulator makes of a sample: it is on only where the readings  *)
(* have room, and asks for heat only in a stage that may.                  *)
LEMMA SampledOK ==
  ASSUME NEW s \in HltSamples, NEW h \in Simulators, NEW now \in Int,
         h.on => h.last # None, NEW x, x = Hlt!Sampled(s, h, now)
  PROVE  /\ x \in Simulators /\ x.on = (x.state = "HEATING") /\ x.last = now
         /\ x.on => Hlt!Fits(s)
         /\ x.state \in Counting => Hlt!Active(s)
<1> USE HltAssumption
<1> DEFINE temp == Hlt!Warmed(s, h, now)
           answer == Hlt!Answer(s, h, Hlt!Active(s) /\ temp < Hlt!HltTarget)
<1>1. x = [h EXCEPT !.temp = temp, !.last = now, !.was = s.thermostat,
                    !.state = answer, !.on = (answer = "HEATING")]
  BY DEF Hlt!Sampled
<1>2. /\ s.watts \in Nat \cup {None} /\ s.stage \in BOOLEAN /\ s.ramp \in BOOLEAN
      /\ s.probe \in Int \cup {None} /\ s.thermostat \in BOOLEAN \cup {None}
      /\ s.actual \in Int \cup {None} /\ s.device \in Int \cup {None} /\ s.wanted \in Int \cup {None}
  OBVIOUS
<1>3. temp \in Int
  <2>1. h.temp \in Int /\ h.last \in Int \cup {None}
    BY DEF Simulators
  <2> QED
    BY <1>2, <2>1 DEF Hlt!Warmed, Hlt!Cutoff
<1>4. answer \in SimulatorStates
  BY DEF Hlt!Answer, SimulatorStates
<1>5. answer \in Counting => Hlt!Active(s)
  BY DEF Hlt!Answer, Counting
<1>6. answer = "HEATING" => Hlt!Opportunity(s)
  BY DEF Hlt!Answer
<1>7. Hlt!Opportunity(s) /\ Hlt!Active(s) => Hlt!Fits(s)
  BY <1>2 DEF Hlt!Opportunity, Hlt!Powered, Hlt!Cruises, Hlt!Ramps, Hlt!Measured, Hlt!Active,
              Hlt!Fits, Hlt!Heater, Hlt!Budget
<1> HIDE DEF temp, answer
<1>8. /\ x \in Simulators /\ x.on = (answer = "HEATING") /\ x.last = now /\ x.state = answer
  BY <1>1, <1>2, <1>3, <1>4 DEF Simulators
<1> QED
  BY <1>5, <1>6, <1>7, <1>8 DEF Counting

(* The figures that a finished tick saves.                                 *)
LEMMA UpdatedOK ==
  ASSUME NEW f \in FigureRecords, NEW active \in BOOLEAN, NEW u, u = Hlt!Updated(f, active),
         FiguresOK(f) \/ f = Hlt!NoFigures(f.session),
         sim \in Simulators, sim.last # None,
         f.last # None => ~(sim.last < f.last),
         sim.state \in Counting => active
  PROVE  FiguresOK(u) /\ u.state = sim.state
<1> USE HltAssumption
<1> DEFINE t == sim.last
           started == IF f.started = None /\ active THEN t ELSE f.started
           stopped == IF active THEN None
                      ELSE IF started # None /\ f.stopped = None THEN t ELSE f.stopped
           v == Hlt!Counted(f, f.state = "HEATING")
           w == Hlt!Counted(f, f.state = "WAITING_FOR_POWER")
<1>1. u = [f EXCEPT !.started = started, !.stopped = stopped, !.virtual = f.virtual + v,
                    !.waiting = f.waiting + w, !.last = t, !.state = sim.state]
  BY DEF Hlt!Updated
<1>2. /\ t \in Int /\ sim.state \in SimulatorStates
      /\ f.started \in Moments /\ f.stopped \in Moments /\ f.last \in Moments
      /\ f.virtual \in Nat /\ f.waiting \in Nat
  BY DEF Simulators, FigureRecords, Moments
<1>3. f.last # None => f.last \in Int /\ f.last <= t
  BY <1>2 DEF Moments
<1>4. /\ v \in Nat /\ w \in Nat
      /\ f.last = None => v = 0 /\ w = 0
      /\ f.state \notin Counting => v = 0 /\ w = 0
      /\ f.last # None => v + w <= t - f.last
  BY <1>2, <1>3 DEF Hlt!Counted, Counting, Hlt!SampleGap
<1>5. started \in Moments /\ stopped \in Moments
  BY <1>2 DEF Moments
<1> HIDE DEF v, w, started, stopped
<1>6. /\ u \in FigureRecords /\ u.started = started /\ u.stopped = stopped
      /\ u.virtual = f.virtual + v /\ u.waiting = f.waiting + w /\ u.last = t /\ u.state = sim.state
  <2> DEFINE virtual == f.virtual + v
             waiting == f.waiting + w
  <2>1. virtual \in Nat /\ waiting \in Nat
    BY <1>2, <1>4
  <2> HIDE DEF virtual, waiting, t
  <2>2. u = [session |-> f.session, started |-> started, stopped |-> stopped, last |-> t,
             state |-> sim.state, virtual |-> virtual, waiting |-> waiting]
    BY <1>1 DEF FigureRecords, virtual, waiting
  <2>3. f.session \in Nat /\ t \in Moments /\ sim.state \in SimulatorStates \cup {None}
    BY <1>2 DEF FigureRecords, Moments
  <2>4. u \in FigureRecords
    BY <1>5, <2>1, <2>2, <2>3 DEF FigureRecords
  <2> QED
    BY <2>2, <2>4 DEF virtual, waiting
<1>7. CASE f.started = None
  <2>1. f.stopped = None /\ f.virtual + f.waiting = 0 /\ v = 0 /\ w = 0
    BY <1>2, <1>4, <1>7 DEF FiguresOK, Hlt!NoFigures
  <2>2. u.virtual + u.waiting = 0
    BY <1>2, <1>6, <2>1
  <2>3. CASE active
    <3>1. u.started = t /\ u.stopped = None
      BY <1>6, <1>7, <2>3 DEF started, stopped
    <3>2. t # None /\ t <= t /\ t - t = 0
      BY <1>2
    <3> QED
      BY <1>2, <1>6, <2>2, <3>1, <3>2 DEF FiguresOK
  <2>4. CASE ~active
    <3>1. u.started = None /\ u.stopped = None /\ u.state \notin Counting
      BY <1>6, <1>7, <2>1, <2>4 DEF started, stopped
    <3> QED
      BY <1>2, <1>6, <2>2, <3>1 DEF FiguresOK
  <2> QED
    BY <2>3, <2>4
<1>8. CASE f.started # None
  <2>1. FiguresOK(f) /\ f.last # None /\ f.started \in Int /\ started = f.started /\ f.last \in Int
    BY <1>2, <1>3, <1>8 DEF FiguresOK, Hlt!NoFigures, Moments, started
  <2>2. f.started <= t
    BY <1>2, <1>3, <1>8, <2>1 DEF FiguresOK
  <2>3. CASE f.stopped = None
    <3>1. f.virtual + f.waiting <= f.last - f.started
      BY <1>8, <2>1, <2>3 DEF FiguresOK
    <3>2. u.virtual + u.waiting <= t - f.started
      BY <1>2, <1>4, <1>6, <2>1, <3>1
    <3> QED
      BY <1>2, <1>6, <1>8, <2>1, <2>2, <2>3, <3>2 DEF FiguresOK, stopped
  <2>4. CASE f.stopped # None
    <3>1. /\ f.stopped \in Int /\ f.stopped <= f.last /\ f.state \notin Counting
          /\ f.virtual + f.waiting <= f.stopped - f.started
      BY <1>2, <2>1, <2>4 DEF FiguresOK, Moments
    <3>2. u.virtual + u.waiting <= f.stopped - f.started
      BY <1>2, <1>4, <1>6, <3>1
    <3>3. f.stopped <= t
      BY <1>2, <1>3, <2>1, <3>1
    <3>4. u.virtual + u.waiting <= t - f.started
      BY <1>2, <1>6, <1>4, <2>1, <3>1, <3>2, <3>3
    <3> QED
      BY <1>2, <1>6, <1>8, <2>1, <2>2, <2>4, <3>1, <3>2, <3>3, <3>4 DEF FiguresOK, stopped
  <2> QED
    BY <2>3, <2>4
<1> QED
  BY <1>6, <1>7, <1>8

(* What every tick finds of the clock, the session and its key.            *)
LEMMA PassesMoves ==
  ASSUME HltInv, NEW day \in Hlt!Days, Hlt!Passes(day)
  PROVE  /\ writing = None /\ clock' \in 0 .. MaxClock /\ session' \in 0 .. Hlt!MaxSessions
         /\ <<day.log, day.volume>> \in Nat \X (Nat \cup {None})
<1>1. day.log \in 0 .. Hlt!MaxSessions /\ (day.volume = 1 \/ day.volume = None)
  BY DEF HltInv, Hlt!Days, Hlt!MaxSessions
<1>2. clock' \in 0 .. MaxClock
  BY DEF Hlt!Passes
<1>3. session' \in 0 .. Hlt!MaxSessions
  BY <1>1 DEF Hlt!Passes, HltInv
<1> QED
  BY <1>1, <1>2, <1>3 DEF Hlt!Passes, Hlt!MaxSessions

LEMMA HltNextInv == HltInv /\ [Hlt!Next]_Hlt!hltVars => HltInv'
<1> SUFFICES ASSUME HltInv, [Hlt!Next]_Hlt!hltVars PROVE HltInv'
  OBVIOUS
<1> USE HltAssumption
<1>1. CASE Hlt!TickWithoutBrewday
  <2>1. PICK day \in Hlt!Days : Hlt!Missing(day) # None /\ Hlt!Passes(day) /\ status' = Hlt!Missing(day)
    BY <1>1 DEF Hlt!TickWithoutBrewday
  <2>2. status' \in Hlt!Hidden
    BY <2>1 DEF Hlt!Missing, Hlt!Hidden
  <2> QED
    BY <1>1, <2>1, <2>2, PassesMoves DEF Hlt!TickWithoutBrewday, HltInv, SimOK, Shown
<1>2. CASE Hlt!TickRefused
  <2>1. PICK day \in Hlt!Days :
          /\ Hlt!Passes(day) /\ sim' = Hlt!Current(<<day.log, day.volume>>)
          /\ Hlt!Refused(Hlt!Current(<<day.log, day.volume>>), clock')
    BY <1>2 DEF Hlt!TickRefused
  <2>2. sim' = sim
    BY <2>1, PassesMoves, CurrentOK DEF Hlt!Refused, HltInv
  <2>3. status' \in Hlt!Hidden /\ UNCHANGED <<writing, metrics, fits>>
    BY <1>2 DEF Hlt!TickRefused, Hlt!Hidden
  <2> QED
    BY <2>1, <2>2, <2>3, PassesMoves DEF HltInv, SimOK, Shown
<1>3. CASE Hlt!StartTick
  <2>1. PICK day \in Hlt!Days, s \in HltSamples :
          /\ Hlt!Passes(day) /\ writing' = Hlt!Active(s) /\ fits' = Hlt!Fits(s)
          /\ sim' = Hlt!Sampled(s, Hlt!Current(<<day.log, day.volume>>), clock')
    BY <1>3 DEF Hlt!StartTick
  <2>2. /\ Hlt!Current(<<day.log, day.volume>>) \in Simulators /\ clock' \in Int
        /\ Hlt!Current(<<day.log, day.volume>>).on => Hlt!Current(<<day.log, day.volume>>).last # None
    BY <2>1, PassesMoves, CurrentOK DEF HltInv
  <2>3. /\ sim' \in Simulators /\ sim'.on = (sim'.state = "HEATING") /\ sim'.last = clock'
        /\ sim'.on => fits'
        /\ sim'.state \in Counting => writing'
    BY <2>1, <2>2, SampledOK
  <2>4. writing' \in BOOLEAN /\ fits' \in BOOLEAN /\ metrics' = metrics
    BY <1>3, <2>1 DEF Hlt!Active, Hlt!Fits, Hlt!StartTick
  <2>5. sim' # None /\ sim'.last # None /\ writing' # None
    BY <2>2, <2>3, <2>4
  <2> QED
    BY <2>1, <2>3, <2>4, <2>5, PassesMoves DEF HltInv, SimOK, Shown
<1>4. CASE Hlt!EndTick
  <2>1. /\ writing \in BOOLEAN /\ writing' = None /\ UNCHANGED <<clock, session, sim, fits>>
        /\ sim \in Simulators /\ sim.last # None /\ sim # None
        /\ sim.state \in Counting => writing
    BY <1>4 DEF Hlt!EndTick, HltInv, SimOK
  <2>2. CASE Hlt!Figures.last # None /\ sim.last < Hlt!Figures.last
    <3>1. status' \in Hlt!Hidden /\ metrics' = metrics
      BY <1>4, <2>2 DEF Hlt!EndTick, Hlt!Hidden
    <3> QED
      BY <2>1, <3>1 DEF HltInv, SimOK, Shown
  <2>3. CASE ~(Hlt!Figures.last # None /\ sim.last < Hlt!Figures.last)
    <3>1. metrics' = Hlt!Updated(Hlt!Figures, writing)
      BY <1>4, <2>3 DEF Hlt!EndTick
    <3>2. /\ Hlt!Figures \in FigureRecords
          /\ FiguresOK(Hlt!Figures) \/ Hlt!Figures = Hlt!NoFigures(Hlt!Figures.session)
      <4>1. sim.key[1] \in Nat
        BY <2>1 DEF Simulators
      <4>2. Hlt!NoFigures(sim.key[1]) \in FigureRecords /\ Hlt!NoFigures(sim.key[1]).session = sim.key[1]
        BY <4>1 DEF Hlt!NoFigures, FigureRecords, Moments
      <4> QED
        BY <4>2 DEF Hlt!Figures, HltInv, FiguresOK
    <3>3. FiguresOK(metrics') /\ metrics'.state = sim.state
      BY <2>1, <2>3, <3>1, <3>2, UpdatedOK
    <3> QED
      BY <2>1, <3>3 DEF HltInv, SimOK, Shown
  <2> QED
    BY <2>2, <2>3
<1>5. CASE Hlt!RowFails
  BY <1>5 DEF Hlt!RowFails, Hlt!Hidden, HltInv, SimOK, Shown
<1>6. CASE Hlt!Restart
  BY <1>6 DEF Hlt!Restart, HltInv, SimOK, Shown
<1>7. CASE UNCHANGED Hlt!hltVars
  BY <1>7 DEF Hlt!hltVars, HltInv, SimOK, Shown
<1> QED
  BY <1>1, <1>2, <1>3, <1>4, <1>5, <1>6, <1>7 DEF Hlt!Next

LEMMA HltAlways == Spec => []HltInv
<1>1. Init => HltInv
  <2> SUFFICES ASSUME Init PROVE HltInv
    OBVIOUS
  <2>1. /\ clock = 0 /\ session = 0 /\ sim = None /\ writing = None
        /\ metrics = None /\ fits = FALSE
    BY DEF Init, Hlt!Init
  <2>2. clock \in 0 .. MaxClock /\ session \in 0 .. Hlt!MaxSessions
    BY <2>1, HltAssumption DEF Hlt!MaxSessions
  <2> QED
    BY <2>1, <2>2 DEF HltInv, SimOK, Shown
<1>2. HltInv /\ [Next]_vars => HltInv'
  BY HltNextInv, OnePart
<1> QED
  BY <1>1, <1>2, PTL DEF Spec

(* Whatever is read, and however often the clock is set back, rows fail or *)
(* BA restarts: between two ticks a dashboard that shows the virtual       *)
(* heater on shows the one that lives, for which the last sample had room, *)
(* and the times of a session never exceed it.                             *)
THEOREM DashboardTrue == Spec => []DashboardIsTrue
<1>1. ASSUME HltInv PROVE DashboardIsTrue
  <2>1. writing = None /\ Hlt!ShownOn => sim # None /\ sim.on /\ fits
    BY <1>1 DEF HltInv, SimOK, Shown, Hlt!ShownOn
  <2>2. metrics # None => metrics.virtual + metrics.waiting <= Hlt!Total
    BY <1>1 DEF HltInv, FiguresOK, Hlt!Total, FigureRecords, Moments
  <2> QED
    BY <2>1, <2>2 DEF DashboardIsTrue, Hlt!DashboardIsTrue
<1> QED
  BY <1>1, HltAlways, PTL

-----------------------------------------------------------------------------
(* The kegerator's thermostat                                              *)

(* A task has at most three calls before it, each one of its kind.         *)
Short == {s \in Seq(Climate!Todo) : Len(s) <= 3}

ClimateInv ==
    /\ preset \in Presets /\ target \in Climate!Targets
    /\ mode \in Climate!Modes /\ last \in Climate!Up
    /\ guard \in BOOLEAN /\ supervisor \in BOOLEAN /\ carbonating \in BOOLEAN
    /\ delta \in Deltas
    /\ calls \in [Climate!Tasks -> Short]
    /\ booting \subseteq {"helper", "preset"} /\ faults \in 0 .. MaxFaults

LEMMA TodoKinds ==
  /\ Climate!Cool \in Climate!Todo /\ Climate!GuardOff \in Climate!Todo
  /\ \A x \in Climate!Targets : Climate!Aim(x) \in Climate!Todo
  /\ Presets \subseteq Climate!Targets /\ RestartTarget \in Climate!Targets
  /\ \A c \in Climate!Todo : c.call = "aim" => c.to \in Climate!Targets
<1>1. Presets \subseteq Climate!Targets /\ RestartTarget \in Climate!Targets
  BY ClimateAssumption DEF Climate!Targets
<1>2. /\ Climate!Cool \in Climate!Todo /\ Climate!GuardOff \in Climate!Todo
      /\ \A x \in Climate!Targets : Climate!Aim(x) \in Climate!Todo
  BY DEF Climate!Todo
<1>3. ASSUME NEW c \in Climate!Todo, c.call = "aim" PROVE c.to \in Climate!Targets
  <2>1. Climate!Cool.call # "aim" /\ Climate!GuardOff.call # "aim"
    BY DEF Climate!Cool, Climate!GuardOff
  <2>2. PICK x \in Climate!Targets : c = Climate!Aim(x)
    BY <1>3, <2>1 DEF Climate!Todo
  <2> QED
    BY <2>2 DEF Climate!Aim
<1> QED
  BY <1>1, <1>2, <1>3

LEMMA ShortLists ==
  /\ <<>> \in Short
  /\ \A c \in Climate!Todo : <<c>> \in Short
  /\ \A c, d \in Climate!Todo : <<c, d>> \in Short /\ <<c>> \o <<d>> \in Short
  /\ \A s \in Short : s # <<>> => Tail(s) \in Short /\ Head(s) \in Climate!Todo
<1> HIDE DEF Climate!Todo
<1>1. \A c \in Climate!Todo : <<c>> \in Seq(Climate!Todo) /\ Len(<<c>>) = 1
  OBVIOUS
<1>2. \A c, d \in Climate!Todo : /\ <<c, d>> \in Seq(Climate!Todo) /\ Len(<<c, d>>) = 2
                                 /\ <<c>> \o <<d>> \in Seq(Climate!Todo)
                                 /\ Len(<<c>> \o <<d>>) = 2
  OBVIOUS
<1>3. \A s \in Seq(Climate!Todo) : s # <<>> => /\ Tail(s) \in Seq(Climate!Todo)
                                               /\ Len(Tail(s)) = Len(s) - 1
                                               /\ Head(s) \in Climate!Todo /\ Len(s) \in Nat
  OBVIOUS
<1>4. <<>> \in Seq(Climate!Todo) /\ Len(<<>>) = 0
  OBVIOUS
<1> QED
  BY <1>1, <1>2, <1>3, <1>4 DEF Short

(* Three lists in a row.                                                   *)
LEMMA JoinedTwo ==
  ASSUME NEW S, NEW a \in Seq(S), NEW b \in Seq(S)
  PROVE  a \o b \in Seq(S) /\ Len(a \o b) = Len(a) + Len(b)
  OBVIOUS

LEMMA JoinedThree ==
  ASSUME NEW S, NEW a \in Seq(S), NEW b \in Seq(S), NEW c \in Seq(S)
  PROVE  a \o b \o c \in Seq(S) /\ Len(a \o b \o c) = Len(a) + Len(b) + Len(c)
<1> DEFINE ab == a \o b
<1>1. ab \in Seq(S) /\ Len(ab) = Len(a) + Len(b)
  BY JoinedTwo
<1> HIDE DEF ab
<1>2. ab \o c \in Seq(S) /\ Len(ab \o c) = Len(ab) + Len(c)
  BY <1>1, JoinedTwo
<1> QED
  BY <1>1, <1>2 DEF ab

LEMMA PresetCallsShort == \A p \in Presets : Climate!PresetCalls(p) \in Short
<1> TAKE p \in Presets
<1>1. Climate!Aim(p) \in Climate!Todo /\ Climate!Cool \in Climate!Todo
  BY TodoKinds
<1>2. <<>> \o <<Climate!Aim(p)>> = <<Climate!Aim(p)>>
  OBVIOUS
<1> HIDE DEF Climate!Todo
<1> QED
  BY <1>1, <1>2, ShortLists DEF Climate!PresetCalls

LEMMA SuperviseCallsShort ==
  ASSUME ClimateInv, Climate!InScope,
         NEW s, s = (IF guard THEN <<Climate!GuardOff>> ELSE <<>>)
                     \o (IF mode = "off" THEN <<Climate!Cool>> ELSE <<>>)
                     \o <<Climate!Aim(Climate!EffectiveTarget)>>
  PROVE  s \in Short
<1>1. Climate!EffectiveTarget \in Climate!Targets
  BY DEF ClimateInv, Climate!Targets, Climate!Goals, Climate!EffectiveTarget
<1> DEFINE a == IF guard THEN <<Climate!GuardOff>> ELSE <<>>
           b == IF mode = "off" THEN <<Climate!Cool>> ELSE <<>>
           c == <<Climate!Aim(Climate!EffectiveTarget)>>
<1>2. /\ a \in Seq(Climate!Todo) /\ Len(a) <= 1 /\ b \in Seq(Climate!Todo) /\ Len(b) <= 1
      /\ c \in Seq(Climate!Todo) /\ Len(c) = 1
  BY <1>1, TodoKinds
<1> HIDE DEF a, b, c
<1>3. s = a \o b \o c
  BY DEF a, b, c
<1>4. s \in Seq(Climate!Todo) /\ Len(s) = Len(a) + Len(b) + Len(c)
  <2>1. a \in Seq(Climate!Todo) /\ b \in Seq(Climate!Todo) /\ c \in Seq(Climate!Todo)
    BY <1>2
  <2>2. /\ a \o b \o c \in Seq(Climate!Todo)
        /\ Len(a \o b \o c) = Len(a) + Len(b) + Len(c)
    BY <2>1, JoinedThree
  <2> QED
    BY <1>3, <2>2
<1>5. Len(a) \in Nat /\ Len(b) \in Nat
  BY <1>2
<1> QED
  BY <1>2, <1>4, <1>5 DEF Short

LEMMA StartsKeeps ==
  ASSUME calls \in [Climate!Tasks -> Short], NEW t \in Climate!Tasks, NEW s \in Short, Climate!Starts(t, s)
  PROVE  calls' \in [Climate!Tasks -> Short]
  BY DEF Climate!Starts

LEMMA ClimateNextInv == ClimateInv /\ [Climate!Next]_Climate!vars => ClimateInv'
<1> SUFFICES ASSUME ClimateInv, [Climate!Next]_Climate!vars PROVE ClimateInv'
  OBVIOUS
<1>1. ASSUME NEW t \in Climate!Tasks, Climate!Call(t) PROVE ClimateInv'
  <2>1. Head(calls[t]) \in Climate!Todo /\ Tail(calls[t]) \in Short
    BY <1>1, ShortLists DEF ClimateInv, Climate!Call
  <2>2. target' \in Climate!Targets
    BY <1>1, <2>1, TodoKinds DEF ClimateInv, Climate!Call
  <2>3. calls' \in [Climate!Tasks -> Short]
    BY <1>1, <2>1 DEF ClimateInv, Climate!Call
  <2>4. mode' \in Climate!Modes /\ last' \in Climate!Up /\ guard' \in BOOLEAN
    BY <1>1 DEF ClimateInv, Climate!Call, Climate!Modes, Climate!Up
  <2> QED
    BY <1>1, <2>2, <2>3, <2>4 DEF ClimateInv, Climate!Call, Climate!world
<1>2. ASSUME NEW t \in Climate!Tasks, Climate!Fails(t) PROVE ClimateInv'
  <2>1. calls' \in [Climate!Tasks -> Short]
    BY <1>2, ShortLists DEF ClimateInv, Climate!Fails
  <2> QED
    BY <1>2, <2>1, ClimateAssumption DEF ClimateInv, Climate!Fails, Climate!Fault, Climate!world
<1>3. CASE Climate!Restore \/ Climate!Boot
  <2>1. <<Climate!Aim(RestartTarget), Climate!Cool>> \in Short
    BY TodoKinds, ShortLists
  <2>2. calls' \in [Climate!Tasks -> Short]
    BY <1>3, <2>1, StartsKeeps DEF ClimateInv, Climate!Restore, Climate!Boot, Climate!Tasks
  <2> QED
    BY <1>3, <2>2 DEF ClimateInv, Climate!Restore, Climate!Boot, Climate!world
<1>4. CASE Climate!Reselected
  <2>1. calls' \in [Climate!Tasks -> Short]
    BY <1>4, PresetCallsShort, StartsKeeps DEF ClimateInv, Climate!Reselected, Climate!Tasks
  <2> QED
    BY <1>4, <2>1 DEF ClimateInv, Climate!Reselected, Climate!world
<1>5. CASE Climate!Supervise
  <2>1. calls' \in [Climate!Tasks -> Short]
    BY <1>5, SuperviseCallsShort, StartsKeeps DEF ClimateInv, Climate!Supervise, Climate!Tasks
  <2> QED
    BY <1>5, <2>1 DEF ClimateInv, Climate!Supervise, Climate!world
<1>6. ASSUME NEW p \in Presets, Climate!Select(p) PROVE ClimateInv'
  <2>1. calls' \in [Climate!Tasks -> Short]
    BY <1>6, PresetCallsShort, StartsKeeps DEF ClimateInv, Climate!Select, Climate!Tasks
  <2> QED
    BY <1>6, <2>1 DEF ClimateInv, Climate!Select, Climate!world
<1>7. ASSUME NEW b \in BOOLEAN, Climate!SetGuard(b) \/ Climate!SetSupervisor(b) PROVE ClimateInv'
  BY <1>7 DEF ClimateInv, Climate!SetGuard, Climate!SetSupervisor, Climate!world
<1>8. ASSUME NEW b \in Climate!Up, Climate!Turn(b) PROVE ClimateInv'
  BY <1>8, ClimateAssumption
     DEF ClimateInv, Climate!Turn, Climate!Fault, Climate!world, Climate!Up, Climate!Modes
<1>9. CASE Climate!Keg
  BY <1>9 DEF ClimateInv, Climate!Keg, Climate!world
<1>10. CASE Climate!Lost
  BY <1>10, ClimateAssumption DEF ClimateInv, Climate!Lost, Climate!Fault, Climate!world, Climate!Modes
<1>13. CASE Climate!Back
  BY <1>13 DEF ClimateInv, Climate!Back, Climate!world, Climate!Up, Climate!Modes
<1>11. CASE Climate!Restart
  <2>1. calls' \in [Climate!Tasks -> Short]
    BY <1>11, ShortLists DEF Climate!Restart, Climate!Idle
  <2> QED
    BY <1>11, <2>1, ClimateAssumption
       DEF ClimateInv, Climate!Restart, Climate!Fault, Climate!world, Climate!Up, Climate!Modes
<1>12. CASE UNCHANGED Climate!vars
  BY <1>12 DEF ClimateInv, Climate!vars, Climate!world
<1> QED
  BY <1>1, <1>2, <1>3, <1>4, <1>5, <1>6, <1>7, <1>8, <1>9, <1>10, <1>11, <1>12, <1>13
  DEF Climate!Next

LEMMA ClimateAlways == Spec => []ClimateInv
<1>1. Init => ClimateInv
  <2> SUFFICES ASSUME Init PROVE ClimateInv
    OBVIOUS
  <2>1. ClimateStill \/ Climate!Init
    BY DEF Init
  <2>4. /\ preset = RestartTarget /\ target = RestartTarget /\ mode = "cool" /\ last = "cool"
        /\ guard = FALSE /\ supervisor = FALSE /\ carbonating = FALSE
        /\ calls = Climate!Idle /\ booting = {} /\ faults = 0 /\ delta \in Deltas
    BY <2>1, ClimateAssumption DEF ClimateStill, Climate!Init
  <2>2. calls \in [Climate!Tasks -> Short]
    BY <2>4, ShortLists DEF Climate!Idle
  <2>3. faults \in 0 .. MaxFaults /\ preset \in Presets
    BY <2>4, ClimateAssumption
  <2> QED
    BY <2>2, <2>3, <2>4, TodoKinds DEF ClimateInv, Climate!Modes, Climate!Up
<1>2. ClimateInv /\ [Next]_vars => ClimateInv'
  BY ClimateNextInv, OnePart
<1> QED
  BY <1>1, <1>2, PTL DEF Spec

LEMMA ClimateTypes == ClimateInv => Climate!TypeOK
<1> SUFFICES ASSUME ClimateInv PROVE Climate!TypeOK
  OBVIOUS
<1>1. \A s \in Seq(Climate!Todo) : \A i \in DOMAIN s : s[i] \in Climate!Todo
  OBVIOUS
<1> QED
  BY <1>1 DEF ClimateInv, Short, Climate!TypeOK

-----------------------------------------------------------------------------
(* The heat plan of the mash                                               *)

PlanFields ==
    {"req", "applied", "sync", "heat", "heatAct", "heater", "on", "off", "pump", "pumpAct",
     "start", "stop", "can", "mode", "delta", "mixed", "tapered", "rewind", "hold", "strike",
     "clean", "degraded", "broken", "checkpoint"}

(* A plan asks for utilisations, and for some target.                      *)
Sane(p) == DOMAIN p = PlanFields /\ p.heat \in 0 .. 100 /\ p.pump \in 0 .. 100 /\ p.req \in Int

(* What was blocked is blocked because a pause would rewind the target,    *)
(* and may not be written.                                                 *)
Barred(p) == p.mode = "blocked" => p.rewind /\ ~p.can

(* What a guard may make of a plan: it keeps the target, asks for no write *)
(* of it that was not asked for, and unblocks only what it lets be.        *)
Follows(q, p, r) ==
    /\ Sane(q) /\ q.req = p.req /\ (q.sync => p.sync)
    /\ state = "paused" /\ r.conn /\ Barred(p) => Barred(q)

DeviceOK(d) == d.heat \in 0 .. 100 /\ d.pump \in 0 .. 100 /\ d.target \in Int

LEMMA HeatsSane ==
  ASSUME NEW p, Sane(p), NEW n \in 0 .. 100, NEW heater, NEW q, q = Heat!Heats(p, n, heater)
  PROVE  /\ Sane(q) /\ q.req = p.req /\ q.sync = p.sync /\ q.mode = p.mode /\ q.rewind = p.rewind
         /\ q.can = p.can /\ q.pump = p.pump /\ q.start = p.start /\ q.pumpAct = p.pumpAct
         /\ q.heat = n /\ (heater = "off" => ~q.on)
  BY DEF Sane, PlanFields, Heat!Heats

LEMMA FlowsSane ==
  ASSUME NEW p, Sane(p), NEW n \in 0 .. 100, NEW q, q = Heat!Flows(p, n)
  PROVE  /\ Sane(q) /\ q.req = p.req /\ q.sync = p.sync /\ q.mode = p.mode /\ q.rewind = p.rewind
         /\ q.can = p.can /\ q.heat = p.heat /\ q.on = p.on /\ q.heatAct = p.heatAct
         /\ q.pump = n /\ (n = 0 => ~q.start)
<1> DEFINE starts == n > 0 /\ ~dev.flow
<1>1. n = 0 => ~starts
  OBVIOUS
<1> HIDE DEF starts
<1>2. /\ Sane(q) /\ q.req = p.req /\ q.sync = p.sync /\ q.mode = p.mode /\ q.rewind = p.rewind
      /\ q.can = p.can /\ q.heat = p.heat /\ q.on = p.on /\ q.heatAct = p.heatAct
      /\ q.pump = n /\ q.start = starts
  BY DEF Sane, PlanFields, Heat!Flows, starts
<1> QED
  BY <1>1, <1>2

LEMMA AimsSane ==
  ASSUME NEW p, Sane(p), NEW i \in Int, NEW q, q = Heat!Aims(p, i)
  PROVE  Sane(q) /\ q.req = i /\ q.heat = p.heat /\ q.pump = p.pump
  BY DEF Sane, PlanFields, Heat!Aims

LEMMA RuledSane ==
  ASSUME NEW p, Sane(p), NEW r, NEW other, NEW q, q = Heat!Ruled(p, r, other)
  PROVE  /\ Sane(q) /\ q.req = p.req /\ q.sync = p.sync /\ q.rewind = p.rewind
         /\ q.mode \in {"direct", other}
  BY DEF Sane, PlanFields, Heat!Ruled

LEMMA StillSane ==
  ASSUME NEW p, Sane(p), NEW q, q = Heat!Still(p)
  PROVE  /\ Sane(q) /\ q.req = p.req /\ q.rewind = p.rewind /\ q.mode = p.mode
         /\ ~q.sync /\ ~q.heatAct /\ ~q.on /\ ~q.pumpAct /\ ~q.start /\ ~q.can
  BY DEF Sane, PlanFields, Heat!Still

(* A plan brought down.                                                    *)
Down0(p) == Heat!Flows(Heat!Heats([p EXCEPT !.sync = FALSE], 0, "off"), 0)
Quiet0(q) == q.heat = 0 /\ q.pump = 0 /\ ~q.sync /\ ~q.on /\ ~q.start

LEMMA DownSane ==
  ASSUME NEW p, Sane(p), NEW q, q = Down0(p)
  PROVE  Sane(q) /\ q.req = p.req /\ q.mode = p.mode /\ q.rewind = p.rewind /\ Quiet0(q)
<1> DEFINE a == [p EXCEPT !.sync = FALSE]
           b == Heat!Heats(a, 0, "off")
<1>1. Sane(a) /\ a.req = p.req /\ ~a.sync /\ a.mode = p.mode /\ a.rewind = p.rewind
  BY DEF Sane, PlanFields
<1> HIDE DEF a
<1>2. Sane(b) /\ b.req = a.req /\ b.sync = a.sync /\ b.mode = a.mode /\ b.rewind = a.rewind
      /\ b.heat = 0 /\ ~b.on
  BY <1>1, HeatsSane
<1>3. q = Heat!Flows(b, 0)
  BY DEF Down0, a
<1> HIDE DEF b
<1>4. /\ Sane(q) /\ q.req = b.req /\ q.sync = b.sync /\ q.mode = b.mode /\ q.rewind = b.rewind
      /\ q.heat = b.heat /\ q.pump = 0 /\ q.on = b.on /\ ~q.start
  BY <1>2, <1>3, FlowsSane
<1> QED
  BY <1>1, <1>2, <1>4 DEF Quiet0

(* The utilisations of every rule are ones that the device takes.          *)
LEMMA ProfileInRange ==
  ASSUME NEW kind, NEW short, NEW rate
  PROVE  Heat!Profile(kind, short, rate) \in 0 .. 100
<1>1. Heat!RampHeat(short) \in 0 .. 100 /\ Heat!HoldHeat(short) \in 0 .. 100
  BY DEF Heat!RampHeat, Heat!HoldHeat
<1> QED
  BY <1>1 DEF Heat!Profile, Heat!Least

LEMMA MixInRange ==
  ASSUME NEW gap, NEW over, NEW rate
  PROVE  Heat!MixHeat(gap, over, rate) \in 0 .. 100 /\ Heat!MixPump(gap, over, rate) \in 0 .. 100
<1>1. Heat!MixCap(gap, over) \in 0 .. 100
  BY DEF Heat!MixCap
<1>2. Heat!MixFloor(gap, rate) \in 0 .. 100
  BY DEF Heat!MixFloor, Heat!Least
<1>3. Heat!MixPump(gap, over, rate) \in 0 .. 100
  BY DEF Heat!MixPump
<1> QED
  BY <1>1, <1>2, <1>3 DEF Heat!MixHeat, Heat!Most

LEMMA PumpsInRange ==
  ASSUME NEW r, NEW low \in 0 .. 100, NEW strike
  PROVE  Heat!DeltaPump(r, low) \in 0 .. 100 /\ Heat!StrikePump(strike, r) \in 0 .. 100
<1>1. Heat!DeltaPump(r, low) \in 0 .. 100
  BY DEF Heat!DeltaPump, Heat!Most
<1>2. Heat!StrikePump(strike, r) \in 0 .. 100
  BY DEF Heat!StrikePump
<1> QED
  BY <1>1, <1>2

LEMMA StrikeHeatInRange ==
  ASSUME NEW strike, NEW short, NEW r
  PROVE  Heat!Least(Heat!GateHeat(short), Heat!HeatCap(strike, r)) \in 0 .. 100
<1>1. Heat!GateHeat(short) \in 0 .. 100
  BY DEF Heat!GateHeat
<1>2. Heat!HeatCap(strike, r) \in 0 .. 100
  BY DEF Heat!HeatCap
<1> QED
  BY <1>1, <1>2 DEF Heat!Least

-----------------------------------------------------------------------------
HeatTypes ==
    /\ source \in {"tracker", "manual"} /\ step \in DOMAIN Target
    /\ state \in Heat!Active \cup {"idle"} /\ gate \in {"idle", "ready", "complete"}
    /\ DeviceOK(dev)
    /\ latch \in {None, Target["strike"], Target["ramp"]}

LEMMA BaseSane ==
  ASSUME HeatTypes, NEW r \in Readings, NEW p, p = Heat!Base(r)
  PROVE  Sane(p) /\ (state = "paused" /\ r.conn => Barred(p))
<1>1. Target[step] \in Int
  BY HeatAssumption DEF HeatTypes
<1>2. Sane(p) /\ p.can = FALSE
  BY <1>1 DEF Heat!Base, Sane, PlanFields
<1>3. state = "paused" /\ r.conn /\ p.mode = "blocked" => p.rewind
  BY DEF Heat!Base, Heat!Active, Heat!Waiting
<1> QED
  BY <1>2, <1>3 DEF Barred

LEMMA AdviceSane ==
  ASSUME HeatTypes, NEW r \in Readings, NEW p, p = Heat!Advice(r)
  PROVE  Sane(p) /\ (state = "paused" /\ r.conn => Barred(p))
<1> DEFINE b == Heat!Base(r)
           gap == b.req - r.mash
           over == r.wort - b.req
           mixes == Heat!Mixes(r, b.req)
           own == Heat!Profile(Heat!Kind, b.delta, r.rate)
           heat == IF mixes THEN Heat!Least(own, Heat!MixHeat(gap, over, r.rate)) ELSE own
           low == Heat!DeltaPump(r, IF b.delta <= -3 THEN 45 ELSE 50)
           flow0 == IF mixes THEN Heat!Most(low, Heat!MixPump(gap, over, r.rate)) ELSE low
           heater0 == IF heat > 0 /\ b.delta > 5 THEN "on" ELSE "keep"
           hot == Heat!Heats(b, heat, heater0)
           q == Heat!Flows(hot, flow0)
           full == [q EXCEPT !.mixed = mixes, !.tapered = Heat!Tapers(b.delta, r.rate)]
<1>1. p = IF state \notin Heat!Active THEN Heat!Down(b, r)
          ELSE IF b.mode = "blocked" THEN full ELSE Heat!Ruled(full, r, "monitor")
  BY DEF Heat!Advice
<1>2. Sane(b) /\ (state = "paused" /\ r.conn => Barred(b))
  BY BaseSane
<1>3. own \in 0 .. 100 /\ Heat!MixHeat(gap, over, r.rate) \in 0 .. 100
      /\ Heat!MixPump(gap, over, r.rate) \in 0 .. 100
  BY ProfileInRange, MixInRange
<1>4. heat \in 0 .. 100
  <2> HIDE DEF own, gap, over, mixes, b
  <2> QED
    BY <1>3 DEF Heat!Least
<1>5. flow0 \in 0 .. 100
  <2>1. (IF b.delta <= -3 THEN 45 ELSE 50) \in 0 .. 100
    OBVIOUS
  <2>2. low \in 0 .. 100
    BY <2>1, PumpsInRange
  <2> HIDE DEF low, gap, over, mixes, b
  <2> QED
    BY <1>3, <2>2 DEF Heat!Most
<1> HIDE DEF heat, flow0, heater0, mixes, b
<1>6. /\ Sane(hot) /\ hot.mode = b.mode /\ hot.rewind = b.rewind /\ hot.can = b.can
  BY <1>2, <1>4, HeatsSane DEF hot
<1> HIDE DEF hot
<1>12. q = Heat!Flows(hot, flow0)
  OBVIOUS
<1> HIDE DEF q
<1>13. /\ Sane(q) /\ q.req = hot.req /\ q.sync = hot.sync /\ q.mode = hot.mode
       /\ q.rewind = hot.rewind /\ q.can = hot.can
  BY <1>5, <1>6, <1>12, FlowsSane, Z3T(30)
<1>7. Sane(q) /\ q.mode = b.mode /\ q.rewind = b.rewind /\ q.can = b.can
  BY <1>6, <1>13
<1>8. Sane(full) /\ full.mode = b.mode /\ full.rewind = b.rewind /\ full.can = b.can
  BY <1>7 DEF Sane, PlanFields
<1> HIDE DEF full
<1>9. /\ Sane(Heat!Ruled(full, r, "monitor"))
      /\ Heat!Ruled(full, r, "monitor").mode \in {"direct", "monitor"}
  BY <1>8, RuledSane
<1>10. CASE state \notin Heat!Active
  <2> DEFINE z == Down0(b)
  <2>1. Sane(z)
    BY <1>2, DownSane
  <2>2. p = Heat!Ruled(z, r, "blocked")
    BY <1>1, <1>10 DEF Heat!Down, Down0
  <2> HIDE DEF z
  <2>3. Sane(p)
    BY <2>1, <2>2, RuledSane
  <2>4. state # "paused"
    BY <1>10 DEF Heat!Active, Heat!Waiting
  <2> QED
    BY <2>3, <2>4
<1>11. CASE state \in Heat!Active
  BY <1>1, <1>2, <1>8, <1>9, <1>11 DEF Barred
<1> QED
  BY <1>10, <1>11

(* The latched strike target is below no target that the plan still sends. *)
LEMMA StrikeOK ==
  ASSUME HeatTypes, NEW r \in Readings, NEW p, Sane(p), NEW q, q = Heat!Strike(p, r)
  PROVE  /\ Sane(q)
         /\ state = "paused" /\ r.conn /\ Barred(p) => Barred(q)
         /\ Heat!NewLatch # None /\ q.sync => q.req >= Heat!NewLatch
<1> DEFINE strike == Heat!NewLatch
<1>1. CASE strike = None
  BY <1>1 DEF Heat!Strike
<1>2. CASE strike # None
  <2> DEFINE held == [p EXCEPT !.strike = strike, !.mixed = FALSE, !.tapered = FALSE,
                               !.rewind = FALSE, !.hold = FALSE,
                               !.delta = strike - Heat!Process(r)]
             heat == Heat!Least(Heat!GateHeat(strike - r.mash), Heat!HeatCap(strike, r))
             flow0 == Heat!StrikePump(strike, r)
             boost == Heat!Boosted(strike, held.delta)
             aimed == Heat!Aims(held, strike)
             hot == Heat!Heats(aimed, heat, IF heat > 0 THEN "on" ELSE "off")
             clean == Heat!Flows(hot, flow0)
             aimed2 == Heat!Aims(held, boost)
             cold == Heat!Heats(aimed2, 0, "off")
             blind == Heat!Flows(cold, 50)
             sure == [clean EXCEPT !.clean = TRUE]
             waits == state = "paused" /\ Heat!PausedWait
             off1 == Heat!Still(p)
             off2 == [off1 EXCEPT !.strike = strike, !.mode = "blocked", !.degraded = TRUE]
             forced == [blind EXCEPT !.can = TRUE, !.mode = "direct"]
  <2>1. q = IF ~r.conn THEN off2
            ELSE IF r.mash # None THEN Heat!Ruled(sure, r, "monitor")
            ELSE IF waits THEN Heat!Ruled(blind, r, "monitor") ELSE forced
    BY <1>2 DEF Heat!Strike
  <2>2. strike \in Int /\ boost \in Int /\ boost >= strike
    <3>1. strike \in Int
      BY <1>2, HeatAssumption DEF HeatTypes, Heat!NewLatch
    <3> HIDE DEF strike
    <3> QED
      BY <3>1 DEF Heat!Boosted
  <2>3. heat \in 0 .. 100 /\ flow0 \in 0 .. 100
    BY StrikeHeatInRange, PumpsInRange
  <2>4. Sane(held)
    BY DEF Sane, PlanFields
  <2> HIDE DEF strike, held, heat, flow0, boost
  <2>5. aimed = Heat!Aims(held, strike) /\ aimed2 = Heat!Aims(held, boost)
    OBVIOUS
  <2> HIDE DEF aimed, aimed2
  <2>6. Sane(aimed) /\ aimed.req = strike
    BY <2>2, <2>4, <2>5, AimsSane, Z3T(30)
  <2>7. Sane(aimed2) /\ aimed2.req = boost
    BY <2>2, <2>4, <2>5, AimsSane, Z3T(30)
  <2>8. \E heater : hot = Heat!Heats(aimed, heat, heater)
    OBVIOUS
  <2>9. cold = Heat!Heats(aimed2, 0, "off")
    OBVIOUS
  <2> HIDE DEF hot, cold
  <2>10. Sane(hot) /\ hot.req = strike
    <3>1. PICK heater : hot = Heat!Heats(aimed, heat, heater)
      BY <2>8
    <3> QED
      BY <2>3, <2>6, <3>1, HeatsSane, Z3T(30)
  <2>11. Sane(cold) /\ cold.req = boost
    BY <2>7, <2>9, HeatsSane, Z3T(30)
  <2>12. clean = Heat!Flows(hot, flow0) /\ blind = Heat!Flows(cold, 50)
    OBVIOUS
  <2> HIDE DEF clean, blind
  <2>13. Sane(clean) /\ clean.req = strike
    BY <2>3, <2>10, <2>12, FlowsSane, Z3T(30)
  <2>14. Sane(blind) /\ blind.req = boost
    BY <2>11, <2>12, FlowsSane, Z3T(30)
  <2>15. Sane(sure) /\ sure.req = strike
    BY <2>13 DEF Sane, PlanFields
  <2>16. Sane(forced) /\ forced.req = boost /\ forced.mode = "direct"
    BY <2>14 DEF Sane, PlanFields
  <2>17. Sane(off1) /\ ~off1.sync
    BY StillSane
  <2> HIDE DEF off1
  <2>18. Sane(off2) /\ ~off2.sync
    BY <2>17 DEF Sane, PlanFields
  <2> HIDE DEF sure, forced, off2
  <2>19. CASE ~r.conn
    BY <2>1, <2>18, <2>19
  <2>20. CASE r.conn /\ r.mash # None
    <3>1. q = Heat!Ruled(sure, r, "monitor")
      BY <2>1, <2>20
    <3>2. Sane(q) /\ q.req = strike /\ q.mode \in {"direct", "monitor"}
      BY <2>15, <3>1, RuledSane, Z3T(30)
    <3> QED
      BY <2>2, <3>2 DEF Barred, strike
  <2>21. CASE r.conn /\ r.mash = None /\ waits
    <3>1. q = Heat!Ruled(blind, r, "monitor")
      BY <2>1, <2>21
    <3>2. Sane(q) /\ q.req = boost /\ q.mode \in {"direct", "monitor"}
      BY <2>14, <3>1, RuledSane, Z3T(30)
    <3> QED
      BY <2>2, <3>2 DEF Barred, strike
  <2>22. CASE r.conn /\ r.mash = None /\ ~waits
    <3>1. q = forced
      BY <2>1, <2>22
    <3> QED
      BY <2>2, <2>16, <3>1 DEF Barred, strike
  <2> QED
    BY <2>19, <2>20, <2>21, <2>22
<1> QED
  BY <1>1, <1>2


-----------------------------------------------------------------------------
(* What each guard makes of a plan.                                        *)
LEMMA TrustedFollows ==
  ASSUME NEW r, NEW p, Sane(p), NEW q, q = Heat!Trusted(p)
  PROVE  Follows(q, p, r)
<1> DEFINE z == [p EXCEPT !.applied = trust.target, !.sync = FALSE]
<1>1. /\ Sane(z) /\ z.req = p.req /\ ~z.sync
      /\ z.mode = p.mode /\ z.rewind = p.rewind /\ z.can = p.can
  BY DEF Sane, PlanFields
<1>2. q = p \/ q = z
  BY DEF Heat!Trusted
<1> HIDE DEF z
<1> QED
  BY <1>1, <1>2 DEF Follows, Barred

LEMMA LeasedFollows ==
  ASSUME NEW r, NEW p, Sane(p), NEW q, q = Heat!Leased(p)
  PROVE  Follows(q, p, r)
<1> DEFINE broken == [p EXCEPT !.broken = TRUE]
           off == Heat!Still(p)
           local == [off EXCEPT !.off = FALSE, !.stop = FALSE, !.mode = "local"]
<1>1. /\ Sane(broken) /\ broken.req = p.req /\ broken.sync = p.sync
      /\ broken.mode = p.mode /\ broken.rewind = p.rewind /\ broken.can = p.can
  BY DEF Sane, PlanFields
<1>2. q = p \/ q = broken \/ q = local
  BY DEF Heat!Leased
<1>3. Sane(off) /\ off.req = p.req /\ ~off.sync
  BY StillSane
<1> HIDE DEF broken, off
<1>4. Sane(local) /\ local.req = p.req /\ ~local.sync /\ local.mode = "local"
  BY <1>3 DEF Sane, PlanFields
<1> HIDE DEF local
<1> QED
  BY <1>1, <1>2, <1>4 DEF Follows, Barred

LEMMA UnstaledFollows ==
  ASSUME NEW r, NEW p, Sane(p), NEW q, q = Heat!Unstaled(p, r)
  PROVE  Follows(q, p, r)
<1> DEFINE z == [p EXCEPT !.can = r.conn /\ Heat!NotHeat(p),
                          !.mode = IF r.conn /\ Heat!NotHeat(p) THEN "direct" ELSE "local"]
<1>1. Sane(z) /\ z.req = p.req /\ z.sync = p.sync /\ z.mode # "blocked"
  BY DEF Sane, PlanFields
<1>2. q = p \/ q = z
  BY DEF Heat!Unstaled
<1> HIDE DEF z
<1> QED
  BY <1>1, <1>2 DEF Follows, Barred

LEMMA QuietenedFollows ==
  ASSUME NEW r, NEW p, Sane(p), NEW q, q = Heat!Quietened(p, r)
  PROVE  Follows(q, p, r)
<1> DEFINE z == Down0(p)
           down == Heat!Ruled(z, r, "blocked")
<1>1. Sane(z) /\ z.req = p.req /\ ~z.sync
  BY DownSane DEF Quiet0
<1>2. IF state \in Heat!NoPositive THEN q = down ELSE q = p
  BY DEF Heat!Quietened, Heat!Down, Down0
<1> HIDE DEF z
<1>3. down = Heat!Ruled(z, r, "blocked")
  OBVIOUS
<1> HIDE DEF down
<1>4. Sane(down) /\ down.req = p.req /\ ~down.sync
  BY <1>1, <1>3, RuledSane, Z3T(30)
<1>5. "paused" \notin Heat!NoPositive
  BY DEF Heat!NoPositive
<1> QED
  BY <1>2, <1>4, <1>5 DEF Follows

LEMMA PreservedFollows ==
  ASSUME HeatTypes, NEW r, NEW p, Sane(p), NEW q, q = Heat!Preserved(p, r)
  PROVE  Follows(q, p, r)
<1> DEFINE back == [p EXCEPT !.heat = IF @ = 0 THEN dev.heat ELSE @,
                             !.heatAct = @ /\ p.heat > 0,
                             !.heater = IF dev.heater THEN "on" ELSE @, !.off = FALSE]
           needed == Heat!NotHeat(back) \/ back.heatAct
           z == [back EXCEPT !.can = r.conn /\ needed,
                             !.mode = IF r.conn /\ needed THEN "direct" ELSE "local"]
<1>1. q = p \/ q = z
  BY DEF Heat!Preserved
<1>2. Sane(back) /\ back.req = p.req /\ back.sync = p.sync
  BY DEF Sane, PlanFields, HeatTypes, DeviceOK
<1> HIDE DEF back, needed
<1>3. Sane(z) /\ z.req = p.req /\ z.sync = p.sync /\ z.mode # "blocked"
  BY <1>2 DEF Sane, PlanFields
<1> HIDE DEF z
<1> QED
  BY <1>1, <1>3 DEF Follows, Barred

(* Under the Manual plan a paused runtime's own channels are quiet.        *)
LEMMA OperatedFollows ==
  ASSUME NEW r \in Readings, NEW p, Sane(p), NEW q, q = Heat!Operated(p, r)
  PROVE  /\ Follows(q, p, r)
         /\ source = "manual" /\ state = "paused" /\ p.mode # "blocked" => Quiet0(q)
         /\ p.mode = "blocked" => q = p
<1> DEFINE down == Down0(p)
           set == [p EXCEPT !.heat = r.setHeat, !.heatAct = r.setHeat # dev.heat,
                            !.on = FALSE, !.off = FALSE]
           heat == IF r.heatAuto THEN p ELSE set
           pumped == [heat EXCEPT !.pump = r.setPump, !.pumpAct = r.setPump # dev.pump,
                                  !.start = FALSE, !.stop = FALSE]
           both == IF r.pumpAuto THEN heat ELSE pumped
           m == IF state \in {"paused", "prepared"} THEN down ELSE both
           z == [m EXCEPT !.can = Heat!Wanted(m),
                          !.mode = IF Heat!Wanted(m) THEN "direct" ELSE "manual"]
<1>1. q = IF source = "manual" /\ state \in Heat!Active /\ p.mode # "blocked" THEN z ELSE p
  BY DEF Heat!Operated, Down0
<1>2. r.setHeat \in 0 .. 100 /\ r.setPump \in 0 .. 100
  BY HeatAssumption
<1>3. Sane(set) /\ set.req = p.req /\ set.sync = p.sync
  BY <1>2 DEF Sane, PlanFields
<1>4. Sane(heat) /\ heat.req = p.req /\ heat.sync = p.sync
  BY <1>3
<1> HIDE DEF heat
<1>5. Sane(pumped) /\ pumped.req = p.req /\ pumped.sync = p.sync
  BY <1>2, <1>4 DEF Sane, PlanFields
<1>6. Sane(both) /\ both.req = p.req /\ both.sync = p.sync
  BY <1>4, <1>5
<1> HIDE DEF both
<1>7. Sane(down) /\ down.req = p.req /\ Quiet0(down)
  BY DownSane
<1> HIDE DEF down
<1>8. Sane(m) /\ m.req = p.req /\ (m.sync => p.sync) /\ (state = "paused" => Quiet0(m))
  BY <1>6, <1>7 DEF Quiet0
<1> HIDE DEF m
<1>9. /\ Sane(z) /\ z.req = p.req /\ (z.sync => p.sync) /\ z.mode # "blocked"
      /\ state = "paused" => Quiet0(z)
  BY <1>8 DEF Sane, PlanFields, Quiet0
<1> HIDE DEF z
<1>10. "paused" \in Heat!Active
  BY DEF Heat!Active, Heat!Waiting
<1> QED
  BY <1>1, <1>9, <1>10 DEF Follows, Barred

LEMMA CheckedSane ==
  ASSUME HeatTypes, NEW r, NEW p, Sane(p), NEW q, q = Heat!Checked(p, r)
  PROVE  Sane(q) /\ (source # "tracker" \/ step # "paus" => q = p)
<1> DEFINE heat == Heat!Least(p.heat, Heat!Profile("ramp", Target[step] - Heat!Process(r), r.rate))
           heater == IF heat = 0 THEN "off" ELSE IF p.heater = "keep" THEN "on" ELSE p.heater
           aimed == Heat!Aims(p, Target[step])
           hot == Heat!Heats(aimed, heat, heater)
           z == [hot EXCEPT !.rewind = FALSE]
           ruled == Heat!Ruled(z, r, "monitor")
           marked == [ruled EXCEPT !.checkpoint = TRUE]
<1>1. q = IF source # "tracker" \/ state # "paused" \/ step # "paus" THEN p
          ELSE IF ~r.conn \/ p.degraded \/ p.mode = "blocked" THEN z ELSE marked
  BY DEF Heat!Checked
<1>2. heat \in 0 .. 100
  <2>1. Heat!Profile("ramp", Target[step] - Heat!Process(r), r.rate) \in 0 .. 100
    BY ProfileInRange
  <2> QED
    BY <2>1 DEF Sane, Heat!Least
<1>3. Target[step] \in Int
  BY HeatAssumption DEF HeatTypes
<1> HIDE DEF heat, heater
<1>4. aimed = Heat!Aims(p, Target[step])
  OBVIOUS
<1> HIDE DEF aimed
<1>5. Sane(aimed)
  BY <1>3, <1>4, AimsSane, Z3T(30)
<1>6. hot = Heat!Heats(aimed, heat, heater)
  OBVIOUS
<1> HIDE DEF hot
<1>7. Sane(hot)
  BY <1>2, <1>5, <1>6, HeatsSane, Z3T(30)
<1>8. Sane(z)
  BY <1>7 DEF Sane, PlanFields
<1> HIDE DEF z
<1>9. ruled = Heat!Ruled(z, r, "monitor")
  OBVIOUS
<1> HIDE DEF ruled
<1>10. Sane(ruled)
  BY <1>8, <1>9, RuledSane, Z3T(30)
<1>11. Sane(marked)
  BY <1>10 DEF Sane, PlanFields
<1> HIDE DEF marked
<1> QED
  BY <1>1, <1>8, <1>11


-----------------------------------------------------------------------------
(* The plan, through all its guards.                                       *)
LEMMA PlanOK ==
  ASSUME HeatTypes, NEW r \in Readings, NEW p, p = Heat!Plan(r)
  PROVE  /\ Sane(p)
         /\ step # "paus" /\ Heat!NewLatch # None /\ p.sync => p.req >= Heat!NewLatch
         /\ source = "manual" /\ state = "paused" /\ r.conn =>
              Quiet0(p) \/ (p.mode = "blocked" /\ Barred(p))
<1> DEFINE a == Heat!Advice(r)
           b == Heat!Strike(a, r)
           c == Heat!Trusted(b)
           d == Heat!Leased(c)
           e == Heat!Unstaled(d, r)
           f == Heat!Quietened(e, r)
           g == Heat!Preserved(f, r)
           h == Heat!Operated(g, r)
<1>1. p = Heat!Checked(h, r)
  BY DEF Heat!Plan
<1>2. Sane(a) /\ (state = "paused" /\ r.conn => Barred(a))
  BY AdviceSane
<1>3. b = Heat!Strike(a, r)
  OBVIOUS
<1> HIDE DEF a
<1> HIDE DEF b
<1>4. /\ Sane(b) /\ (state = "paused" /\ r.conn => Barred(b))
      /\ Heat!NewLatch # None /\ b.sync => b.req >= Heat!NewLatch
  BY <1>2, <1>3, StrikeOK, Z3T(30)
<1>5. Follows(c, b, r)
  BY <1>4, TrustedFollows
<1> HIDE DEF c
<1>6. Follows(d, c, r)
  BY <1>5, LeasedFollows DEF Follows
<1> HIDE DEF d
<1>7. Follows(e, d, r)
  BY <1>6, UnstaledFollows DEF Follows
<1> HIDE DEF e
<1>8. Follows(f, e, r)
  BY <1>7, QuietenedFollows DEF Follows
<1> HIDE DEF f
<1>9. Follows(g, f, r)
  BY <1>8, PreservedFollows DEF Follows
<1>10. h = Heat!Operated(g, r)
  OBVIOUS
<1> HIDE DEF g, h
<1>11. /\ Follows(h, g, r)
       /\ source = "manual" /\ state = "paused" /\ g.mode # "blocked" => Quiet0(h)
       /\ g.mode = "blocked" => h = g
  BY <1>9, <1>10, OperatedFollows DEF Follows
<1>12. /\ Sane(h) /\ h.req = b.req /\ (h.sync => b.sync)
       /\ state = "paused" /\ r.conn => Barred(g) /\ Barred(h)
  BY <1>4, <1>5, <1>6, <1>7, <1>8, <1>9, <1>11 DEF Follows
<1>13. Sane(p) /\ (source # "tracker" \/ step # "paus" => p = h)
  BY <1>1, <1>12, CheckedSane
<1> QED
  BY <1>4, <1>11, <1>12, <1>13

(* Writes that raise nothing.                                              *)
Tame(w) ==
    /\ ~w.sync /\ ~w.on /\ ~w.start
    /\ w.heatAct => w.heat = 0
    /\ w.pumpAct => w.pump = 0

LEMMA OnlyDownTame ==
  ASSUME NEW p, Sane(p), NEW w, w = Heat!OnlyDown(p)
  PROVE  Sane(w) /\ w.req = p.req /\ Tame(w)
<1> DEFINE heats == p.heatAct /\ p.heat = 0
           pumps == p.pumpAct /\ p.pump = 0
<1>1. (heats => p.heat = 0) /\ (pumps => p.pump = 0)
  OBVIOUS
<1> HIDE DEF heats, pumps
<1>2. /\ Sane(w) /\ w.req = p.req /\ w.heat = p.heat /\ w.pump = p.pump
      /\ ~w.sync /\ ~w.on /\ ~w.start /\ w.heatAct = heats /\ w.pumpAct = pumps
  BY DEF Heat!OnlyDown, Sane, PlanFields, heats, pumps
<1> QED
  BY <1>1, <1>2 DEF Tame

(* What is claimed of a plan is the plan or less.                          *)
LEMMA ClaimedOK ==
  ASSUME NEW r, NEW p, Sane(p), NEW w, w = Heat!Claimed(p, r)
  PROVE  /\ Sane(w) /\ w.req = p.req /\ (w.sync => p.sync)
         /\ state \in Heat!NoPositive => Tame(w)
         /\ Quiet0(p) => Tame(w)
         /\ state = "paused" /\ p.mode = "blocked" /\ Barred(p) => Tame(w)
<1> DEFINE down == Heat!OnlyDown(p)
           off == Heat!Still(p)
           none == [off EXCEPT !.off = FALSE, !.stop = FALSE]
<1>1. w = IF state \in Heat!NoPositive THEN down
          ELSE IF p.checkpoint /\ p.can THEN p
          ELSE IF ~p.checkpoint /\ Heat!KeepsWarm(p, r) THEN p
          ELSE IF ~p.checkpoint /\ state = "paused" /\ Heat!Lowers(p) THEN down
          ELSE IF p.can THEN p ELSE none
  BY DEF Heat!Claimed
<1>2. Sane(down) /\ down.req = p.req /\ Tame(down)
  BY OnlyDownTame
<1>3. /\ Sane(off) /\ off.req = p.req
      /\ ~off.sync /\ ~off.heatAct /\ ~off.on /\ ~off.pumpAct /\ ~off.start
  BY StillSane
<1> HIDE DEF down, off
<1>4. Sane(none) /\ none.req = p.req /\ Tame(none)
  BY <1>3 DEF Sane, PlanFields, Tame
<1> HIDE DEF none
<1>5. w = p \/ w = down \/ w = none
  BY <1>1
<1>6. Sane(w) /\ w.req = p.req /\ (w.sync => p.sync)
  BY <1>2, <1>4, <1>5 DEF Tame
<1>7. state \in Heat!NoPositive => Tame(w)
  BY <1>1, <1>2
<1>8. Quiet0(p) => Tame(w)
  BY <1>2, <1>4, <1>5 DEF Quiet0, Tame
<1>9. ASSUME state = "paused", p.mode = "blocked", Barred(p)
      PROVE  Tame(w)
  BY <1>1, <1>2, <1>4, <1>9 DEF Barred, Heat!KeepsWarm, Heat!NoPositive
<1> QED
  BY <1>6, <1>7, <1>8, <1>9

(* What is written.                                                        *)
LEMMA WrittenOK ==
  ASSUME HeatTypes, NEW w, Sane(w), NEW n, n = Heat!Written(w)
  PROVE  /\ DeviceOK(n)
         /\ n.target = dev.target \/ (w.sync /\ n.target = w.req)
         /\ Tame(w) => ~Heat!Raises(n)
<1>1. /\ n.target = IF w.sync THEN w.req ELSE dev.target
      /\ n.heat = IF w.heatAct THEN w.heat ELSE dev.heat
      /\ n.pump = IF w.pumpAct THEN w.pump ELSE dev.pump
      /\ n.heater = (w.on \/ (dev.heater /\ ~w.off))
      /\ n.flow = (w.start \/ (dev.flow /\ ~w.stop))
  BY DEF Heat!Written
<1>2. DeviceOK(dev) /\ w.heat \in 0 .. 100 /\ w.pump \in 0 .. 100 /\ w.req \in Int
  BY DEF HeatTypes, Sane
<1>3. n.heat \in 0 .. 100 /\ n.pump \in 0 .. 100 /\ n.target \in Int
  BY <1>1, <1>2 DEF DeviceOK
<1>4. ASSUME Tame(w) PROVE ~Heat!Raises(n)
  <2>1. n.target = dev.target
    BY <1>1, <1>4 DEF Tame
  <2>2. n.heat = 0 \/ n.heat = dev.heat
    BY <1>1, <1>4 DEF Tame
  <2>3. n.pump = 0 \/ n.pump = dev.pump
    BY <1>1, <1>4 DEF Tame
  <2>4. ~(n.heat > dev.heat) /\ ~(n.pump > dev.pump)
    BY <1>2, <2>2, <2>3 DEF DeviceOK
  <2>5. (n.heater => dev.heater) /\ (n.flow => dev.flow)
    BY <1>1, <1>4, Zenon DEF Tame
  <2> QED
    BY <2>1, <2>4, <2>5 DEF Heat!Raises
<1> QED
  BY <1>1, <1>3, <1>4 DEF DeviceOK


-----------------------------------------------------------------------------
HeatInv == HeatTypes /\ ~did.raised

(* While the brewer is waited for, the strike target is latched, unless    *)
(* that of a later ramp is, which is no lower.                             *)
StrikeInv ==
    /\ owed # None => owed = Target["strike"] /\ latch # None /\ latch >= owed
    /\ ~did.lowered

LEMMA LatchType == HeatTypes => Heat!NewLatch \in {None, Target["strike"], Target["ramp"]}
  BY DEF HeatTypes, Heat!NewLatch, Heat!Kind

LEMMA TickKeepsHeat ==
  ASSUME HeatTypes, NEW r \in Readings, NEW lands \in BOOLEAN, Heat!Tick(r, lands)
  PROVE  HeatInv'
<1> DEFINE p == Heat!Plan(r)
           w == Heat!Claimed(p, r)
           n == Heat!Written(w)
<1>1. /\ dev' = IF lands THEN n ELSE dev
      /\ latch' = Heat!NewLatch
      /\ did'.raised = (r.conn /\ Heat!Quiet /\ Heat!Raises(IF lands THEN n ELSE dev))
      /\ UNCHANGED <<source, step, state, gate>>
      /\ lands \/ ~r.conn
  BY DEF Heat!Tick
<1>2. /\ Sane(p)
      /\ source = "manual" /\ state = "paused" /\ r.conn =>
           Quiet0(p) \/ (p.mode = "blocked" /\ Barred(p))
  BY PlanOK
<1>3. w = Heat!Claimed(p, r)
  OBVIOUS
<1> HIDE DEF p, w
<1>4. /\ Sane(w)
      /\ state \in Heat!NoPositive => Tame(w)
      /\ Quiet0(p) => Tame(w)
      /\ state = "paused" /\ p.mode = "blocked" /\ Barred(p) => Tame(w)
  BY <1>2, <1>3, ClaimedOK
<1>5. n = Heat!Written(w)
  OBVIOUS
<1> HIDE DEF n
<1>6. DeviceOK(n) /\ (Tame(w) => ~Heat!Raises(n))
  BY <1>4, <1>5, WrittenOK
<1>7. DeviceOK(dev')
  BY <1>1, <1>6 DEF HeatTypes
<1>8. HeatTypes'
  BY <1>1, <1>7, LatchType DEF HeatTypes
<1>9. ~(r.conn /\ Heat!Quiet /\ Heat!Raises(IF lands THEN n ELSE dev))
  <2> SUFFICES ASSUME r.conn, Heat!Quiet PROVE ~Heat!Raises(n)
    BY <1>1
  <2>1. Tame(w)
    BY <1>2, <1>4 DEF Heat!Quiet, Heat!NoPositive
  <2> QED
    BY <1>6, <2>1
<1> QED
  BY <1>1, <1>8, <1>9 DEF HeatInv

LEMMA HeatNextInv == HeatInv /\ [Heat!Next]_Heat!vars => HeatInv'
<1> SUFFICES ASSUME HeatInv, [Heat!Next]_Heat!vars PROVE HeatInv'
  OBVIOUS
<1> USE DEF HeatInv
<1>1. ASSUME NEW r \in Readings, NEW lands \in BOOLEAN, Heat!Tick(r, lands) PROVE HeatInv'
  BY <1>1, TickKeepsHeat
<1>2. ASSUME Heat!Kept PROVE ~did'.raised /\ dev' = dev /\ latch' = latch
  BY <1>2 DEF Heat!Kept, Heat!NoTick
<1>3. ASSUME NEW s \in DOMAIN Target, NEW t \in Heat!Active \cup {"idle"}, Heat!Shows(s, t)
      PROVE  HeatInv'
  BY <1>2, <1>3 DEF Heat!Shows, HeatTypes
<1>4. ASSUME NEW to \in {"tracker", "manual"}, Heat!HandsOver(to) PROVE HeatInv'
  <2>1. {"paused", "awaiting_snapshot"} \subseteq Heat!Active
    BY DEF Heat!Active, Heat!Waiting
  <2> QED
    BY <1>2, <1>4, <2>1 DEF Heat!HandsOver, HeatTypes
<1>5. ASSUME Heat!MashesIn PROVE HeatInv'
  BY <1>2, <1>5 DEF Heat!MashesIn, HeatTypes
<1>6. ASSUME Heat!NewBrew PROVE HeatInv'
  BY <1>2, <1>6, HeatAssumption DEF Heat!NewBrew, HeatTypes
<1>7. ASSUME UNCHANGED Heat!vars PROVE HeatInv'
  BY <1>7 DEF Heat!vars, HeatTypes
<1> QED
  BY <1>1, <1>3, <1>4, <1>5, <1>6, <1>7 DEF Heat!Next

LEMMA HeatAlways == Spec => []HeatInv
<1>1. Init => HeatInv
  BY HeatAssumption DEF Init, Heat!Init, Heat!NoTick, HeatInv, HeatTypes, DeviceOK
<1>2. HeatInv /\ [Next]_vars => HeatInv'
  BY HeatNextInv, OnePart
<1> QED
  BY <1>1, <1>2, PTL DEF Spec

(* Where nothing may be started (no trusted runtime, a plan only prepared, *)
(* the Manual plan paused) a tick raises neither utilisation, switches     *)
(* nothing on and leaves the target, for any targets and any readings.     *)
THEOREM QuietStaysQuiet == Spec => []Heat!QuietOnlyLowers
  BY HeatAlways, PTL DEF HeatInv, Heat!QuietOnlyLowers


(* The strike's target stands while the brewer is awaited, if no ramp of   *)
(* the mash has a lower one (the latch would then move on to it).          *)
LEMMA LatchHolds ==
  ASSUME Target["strike"] <= Target["ramp"], HeatTypes, StrikeInv,
         NEW r, NEW lands, Heat!Tick(r, lands), owed' # None
  PROVE  owed' = Target["strike"] /\ Heat!NewLatch # None /\ Heat!NewLatch >= owed'
<1>1. owed' = IF state \notin Heat!Active \/ ~Heat!PreMashIn THEN None
              ELSE IF step = "strike" THEN Target["strike"]
              ELSE IF state = "live" THEN None ELSE owed
  BY DEF Heat!Tick
<1>2. /\ Target["strike"] \in Int /\ Target["ramp"] \in Int
      /\ Target["strike"] # None /\ Target["ramp"] # None
  BY HeatAssumption
<1>3. state \in Heat!Active /\ Heat!PreMashIn
  BY <1>1
<1>4. CASE step = "strike"
  BY <1>1, <1>2, <1>3, <1>4 DEF Heat!NewLatch, Heat!Kind
<1>5. CASE step = "ramp"
  BY <1>1, <1>2, <1>3, <1>5 DEF Heat!NewLatch, Heat!Kind, StrikeInv
<1>6. CASE step \notin {"strike", "ramp"}
  <2>1. owed' = owed /\ state \in Heat!Waiting
    BY <1>1, <1>3, <1>6 DEF Heat!Active
  <2>2. Heat!NewLatch = latch
    BY <1>3, <1>6, <2>1 DEF Heat!NewLatch, Heat!Kind
  <2> QED
    BY <2>1, <2>2 DEF StrikeInv
<1> QED
  BY <1>4, <1>5, <1>6

LEMMA TickHoldsStrike ==
  ASSUME Target["strike"] <= Target["ramp"], HeatTypes, StrikeInv,
         NEW r \in Readings, NEW lands \in BOOLEAN, Heat!Tick(r, lands)
  PROVE  StrikeInv'
<1> DEFINE p == Heat!Plan(r)
           w == Heat!Claimed(p, r)
           n == Heat!Written(w)
           next == IF lands THEN n ELSE dev
<1>1. /\ latch' = Heat!NewLatch
      /\ did'.lowered = (owed' # None /\ step # "paus"
                           /\ next.target < dev.target /\ next.target < owed')
  BY DEF Heat!Tick
<1>2. /\ Sane(p)
      /\ step # "paus" /\ Heat!NewLatch # None /\ p.sync => p.req >= Heat!NewLatch
  BY PlanOK
<1>3. w = Heat!Claimed(p, r)
  OBVIOUS
<1> HIDE DEF p, w
<1>4. Sane(w) /\ w.req = p.req /\ (w.sync => p.sync)
  BY <1>2, <1>3, ClaimedOK
<1>5. n = Heat!Written(w)
  OBVIOUS
<1> HIDE DEF n
<1>6. n.target = dev.target \/ (w.sync /\ n.target = w.req)
  BY <1>4, <1>5, WrittenOK
<1>7. dev.target \in Int /\ p.req \in Int
  BY <1>2 DEF HeatTypes, DeviceOK, Sane
<1>8. owed' # None => owed' = Target["strike"] /\ Heat!NewLatch # None /\ Heat!NewLatch >= owed'
  BY LatchHolds
<1>9. ASSUME owed' # None, step # "paus", next.target < dev.target, next.target < owed'
      PROVE  FALSE
  <2>1. Target["strike"] \in Int /\ Target["ramp"] \in Int
    BY HeatAssumption
  <2>2. next.target # dev.target
    BY <1>7, <1>9
  <2>3. lands /\ w.sync /\ n.target = p.req
    BY <1>4, <1>6, <2>2
  <2>4. p.req >= Heat!NewLatch
    BY <1>2, <1>4, <1>8, <1>9, <2>3
  <2>5. Heat!NewLatch \in Int
    BY <1>8, <1>9, <2>1, LatchType
  <2> QED
    BY <1>7, <1>8, <1>9, <2>1, <2>3, <2>4, <2>5
<1> QED
  BY <1>1, <1>8, <1>9 DEF StrikeInv

LEMMA StrikeNextInv ==
  ASSUME Target["strike"] <= Target["ramp"]
  PROVE  HeatTypes /\ StrikeInv /\ [Heat!Next]_Heat!vars => StrikeInv'
<1> SUFFICES ASSUME HeatTypes, StrikeInv, [Heat!Next]_Heat!vars PROVE StrikeInv'
  OBVIOUS
<1>1. ASSUME NEW r \in Readings, NEW lands \in BOOLEAN, Heat!Tick(r, lands) PROVE StrikeInv'
  BY <1>1, TickHoldsStrike
<1>2. ASSUME Heat!Kept PROVE StrikeInv'
  BY <1>2 DEF Heat!Kept, Heat!NoTick, StrikeInv
<1>3. ASSUME UNCHANGED Heat!vars PROVE StrikeInv'
  BY <1>3 DEF Heat!vars, StrikeInv
<1> QED
  BY <1>1, <1>2, <1>3
     DEF Heat!Next, Heat!Shows, Heat!HandsOver, Heat!MashesIn, Heat!NewBrew

(* While the brewer is awaited after the strike ramp, no tick lowers the   *)
(* target below the strike target, whatever step the source has gone on to *)
(* show, except the checkpoint that the recipe asks for by name: for every *)
(* recipe whose later ramps go no lower than its strike.                   *)
THEOREM StrikeHeld ==
  ASSUME Target["strike"] <= Target["ramp"]
  PROVE  Spec => []Heat!StrikeIsHeld
<1>1. Init => StrikeInv
  BY DEF Init, Heat!Init, Heat!NoTick, StrikeInv
<1>2. HeatInv /\ StrikeInv /\ [Next]_vars => StrikeInv'
  BY StrikeNextInv, OnePart DEF HeatInv
<1>3. StrikeInv => Heat!StrikeIsHeld
  BY DEF StrikeInv, Heat!StrikeIsHeld
<1> QED
  BY <1>1, <1>2, <1>3, HeatAlways, PTL DEF Spec

-----------------------------------------------------------------------------
(* The cap on the strike water's heat                                      *)

(* The device's writes that a change of the heat or the pump asks for; no  *)
(* operator but the strike's own marks a plan as clean.                    *)
Marked(q, p) == q.clean = p.clean /\ q.degraded = p.degraded

LEMMA HeatsTell ==
  ASSUME NEW p, Sane(p), NEW n \in 0 .. 100, NEW x, NEW q, q = Heat!Heats(p, n, x)
  PROVE  /\ Marked(q, p)
         /\ q.heat = n /\ q.heater = x /\ q.pump = p.pump /\ q.stop = p.stop
         /\ q.heatAct <=> n # dev.heat
         /\ q.on <=> x = "on" /\ ~dev.heater
         /\ q.off <=> x = "off" /\ dev.heater
<1> DEFINE act == n # dev.heat
           on == x = "on" /\ ~dev.heater
           off == x = "off" /\ dev.heater
<1>1. q = [p EXCEPT !.heat = n, !.heater = x, !.heatAct = act, !.on = on, !.off = off]
  BY DEF Heat!Heats
<1> HIDE DEF act, on, off
<1>2. /\ q.heat = n /\ q.heater = x /\ q.pump = p.pump /\ q.stop = p.stop
      /\ q.heatAct = act /\ q.on = on /\ q.off = off /\ Marked(q, p)
  BY <1>1 DEF Sane, PlanFields, Marked
<1> QED
  BY <1>2 DEF act, on, off

LEMMA FlowsTell ==
  ASSUME NEW p, Sane(p), NEW n \in 0 .. 100, NEW q, q = Heat!Flows(p, n)
  PROVE  /\ Marked(q, p)
         /\ q.heat = p.heat /\ q.heater = p.heater /\ q.heatAct = p.heatAct
         /\ q.on = p.on /\ q.off = p.off /\ q.pump = n
         /\ q.stop <=> n = 0 /\ dev.flow
<1> DEFINE act == n # dev.pump
           start == n > 0 /\ ~dev.flow
           stop == n = 0 /\ dev.flow
<1>1. q = [p EXCEPT !.pump = n, !.pumpAct = act, !.start = start, !.stop = stop]
  BY DEF Heat!Flows
<1> HIDE DEF act, start, stop
<1>2. /\ q.heat = p.heat /\ q.heater = p.heater /\ q.heatAct = p.heatAct
      /\ q.on = p.on /\ q.off = p.off /\ q.pump = n /\ q.stop = stop /\ Marked(q, p)
  BY <1>1 DEF Sane, PlanFields, Marked
<1> QED
  BY <1>2 DEF stop

(* What a plan for the strike water asks of the heat, and may write of it. *)
Raw(p, c, alone) ==
    /\ Sane(p) /\ p.clean /\ ~p.degraded /\ p.heat <= c
    /\ p.heat # dev.heat => p.heatAct
    /\ p.heat > 0 => ~p.off /\ p.heater # "off"
    /\ p.heat = 0 => p.heater = "off" /\ ~p.on
    /\ p.heat = 0 /\ dev.heater /\ ~alone => p.off
    /\ state = "paused" => p.heat = 0 \/ (p.pump > 0 /\ ~p.stop)

Capped(p, c, alone) ==
    /\ Raw(p, c, alone)
    /\ p.heat # dev.heat => p.can
    /\ p.heat = 0 /\ dev.heater /\ ~alone => p.can
    /\ state = "paused" => p.mode # "blocked"

LEMMA RuledCapped ==
  ASSUME NEW p, NEW c, NEW alone, Raw(p, c, alone), NEW r, r.conn,
         NEW other, other = "blocked" => state # "paused", NEW q, q = Heat!Ruled(p, r, other)
  PROVE  Capped(q, c, alone)
<1> DEFINE can == r.conn /\ Heat!Wanted(p)
           says == IF can THEN "direct" ELSE other
<1>1. q = [p EXCEPT !.can = can, !.mode = says]
  BY DEF Heat!Ruled
<1>2. p.heatAct \/ p.off => can
  BY DEF Heat!Wanted
<1>3. state = "paused" => says # "blocked"
  OBVIOUS
<1> HIDE DEF can, says
<1>4. /\ Sane(q) /\ q.clean = p.clean /\ q.degraded = p.degraded /\ q.heat = p.heat
      /\ q.heatAct = p.heatAct /\ q.off = p.off /\ q.on = p.on /\ q.heater = p.heater
      /\ q.pump = p.pump /\ q.stop = p.stop /\ q.can = can /\ q.mode = says
  BY <1>1 DEF Raw, Sane, PlanFields
<1>5. Raw(q, c, alone)
  BY <1>4 DEF Raw
<1> QED
  BY <1>2, <1>3, <1>4, <1>5 DEF Capped, Raw

LEMMA RuledMarked ==
  ASSUME NEW p, Sane(p), NEW r, NEW x, NEW q, q = Heat!Ruled(p, r, x)
  PROVE  Marked(q, p)
  BY DEF Heat!Ruled, Sane, PlanFields, Marked

LEMMA DownTells ==
  ASSUME NEW p, Sane(p), NEW q, q = Down0(p)
  PROVE  /\ Sane(q) /\ Marked(q, p) /\ q.heat = 0 /\ q.heater = "off" /\ ~q.on
         /\ q.heatAct <=> 0 # dev.heat
         /\ q.off <=> dev.heater
<1> DEFINE a == [p EXCEPT !.sync = FALSE]
           b == Heat!Heats(a, 0, "off")
<1>1. Sane(a) /\ a.clean = p.clean /\ a.degraded = p.degraded
  BY DEF Sane, PlanFields
<1> HIDE DEF a
<1>2. b = Heat!Heats(a, 0, "off")
  OBVIOUS
<1> HIDE DEF b
<1>3. /\ Sane(b) /\ Marked(b, a)
      /\ b.heat = 0 /\ b.heater = "off"
      /\ b.heatAct <=> 0 # dev.heat
      /\ ~b.on
      /\ b.off <=> dev.heater
  BY <1>1, <1>2, HeatsSane, HeatsTell, Z3T(30)
<1>4. q = Heat!Flows(b, 0)
  BY DEF Down0, a, b
<1>5. Sane(q)
  BY <1>3, <1>4, FlowsSane, Z3T(30)
<1>6. /\ Marked(q, b)
      /\ q.heat = b.heat /\ q.heater = b.heater /\ q.heatAct = b.heatAct
      /\ q.on = b.on /\ q.off = b.off
  BY <1>3, <1>4, FlowsTell, Z3T(30)
<1> QED
  BY <1>1, <1>3, <1>5, <1>6 DEF Marked

LEMMA DownRaw ==
  ASSUME NEW p, Sane(p), p.clean, ~p.degraded, NEW c \in Nat, NEW alone, NEW q, q = Down0(p)
  PROVE  Raw(q, c, alone) /\ q.heat = 0
  BY DownTells DEF Raw, Marked

LEMMA CapValue ==
  ASSUME HeatTypes, NEW r \in Readings, r.mash # None, Heat!NewLatch # None,
         NEW hot, hot = Heat!Hottest(r) - Heat!NewLatch
  PROVE  /\ hot > 5 => Heat!HeatCap(Heat!NewLatch, r) <= 5
         /\ hot > 20 => Heat!HeatCap(Heat!NewLatch, r) <= 0
<1> DEFINE strike == Heat!NewLatch
           top == Heat!Hottest(r)
<1>1. strike \in Int
  BY HeatAssumption DEF HeatTypes, Heat!NewLatch
<1>2. top \in Int
  BY HeatAssumption DEF Heat!Hottest
<1> HIDE DEF strike, top
<1>3. /\ Heat!Equalises(strike, r) => (top - strike) \in 6 .. 20
      /\ Heat!HeatCap(strike, r) =
           IF Heat!Equalises(strike, r) THEN 5
           ELSE IF strike - top <= -5 THEN 0
           ELSE IF strike - top <= 10 THEN 25
           ELSE IF strike - top <= 30 THEN 50
           ELSE IF strike - top <= 50 THEN 75 ELSE 100
  BY DEF Heat!HeatCap, Heat!Equalises, top
<1>4. hot = top - strike
  BY DEF top, strike
<1>5. /\ hot > 5 => Heat!HeatCap(strike, r) <= 5
      /\ hot > 20 => Heat!HeatCap(strike, r) <= 0
  BY <1>1, <1>2, <1>3, <1>4
<1> QED
  BY <1>5 DEF strike

(* The strike's own plan: what the mash probe lacks, under the cap.        *)
LEMMA StrikeCapped ==
  ASSUME HeatTypes, NEW r \in Readings, r.conn, r.mash # None, Heat!NewLatch # None,
         NEW p, Sane(p), ~p.degraded, NEW q, q = Heat!Strike(p, r),
         NEW c \in Nat, Heat!HeatCap(Heat!NewLatch, r) <= c
  PROVE  Capped(q, c, FALSE)
<1> DEFINE strike == Heat!NewLatch
           held == [p EXCEPT !.strike = strike, !.mixed = FALSE, !.tapered = FALSE,
                             !.rewind = FALSE, !.hold = FALSE, !.delta = strike - Heat!Process(r)]
           heat == Heat!Least(Heat!GateHeat(strike - r.mash), Heat!HeatCap(strike, r))
           heater == IF heat > 0 THEN "on" ELSE "off"
           flow0 == Heat!StrikePump(strike, r)
           aimed == Heat!Aims(held, strike)
           hot == Heat!Heats(aimed, heat, heater)
           clean == Heat!Flows(hot, flow0)
           sure == [clean EXCEPT !.clean = TRUE]
<1>1. q = Heat!Ruled(sure, r, "monitor")
  BY DEF Heat!Strike
<1>2. strike \in Int
  BY HeatAssumption DEF HeatTypes, Heat!NewLatch
<1>3. heat \in 0 .. 100 /\ heat <= c
  <2>1. Heat!GateHeat(strike - r.mash) \in 0 .. 100
    BY DEF Heat!GateHeat
  <2>2. Heat!HeatCap(strike, r) \in 0 .. 100
    BY DEF Heat!HeatCap
  <2> QED
    BY <2>1, <2>2 DEF Heat!Least
<1>4. flow0 \in 1 .. 100
  BY DEF Heat!StrikePump
<1>5. /\ heat = 0 => heater = "off"
      /\ heat > 0 => heater = "on"
  BY <1>3
<1>6. Sane(held) /\ held.degraded = p.degraded
  BY DEF Sane, PlanFields
<1> HIDE DEF strike, held, heat, heater, flow0
<1>7. aimed = Heat!Aims(held, strike)
  OBVIOUS
<1> HIDE DEF aimed
<1>8. Sane(aimed)
  BY <1>2, <1>6, <1>7, AimsSane, Z3T(30)
<1>9. aimed.degraded = held.degraded
  BY <1>6, <1>7 DEF Heat!Aims, Sane, PlanFields
<1>10. hot = Heat!Heats(aimed, heat, heater)
  OBVIOUS
<1> HIDE DEF hot
<1>11. /\ Sane(hot) /\ Marked(hot, aimed) /\ hot.heat = heat /\ hot.heater = heater
       /\ hot.heatAct <=> heat # dev.heat
       /\ hot.on <=> heater = "on" /\ ~dev.heater
       /\ hot.off <=> heater = "off" /\ dev.heater
  BY <1>3, <1>8, <1>10, HeatsSane, HeatsTell, Z3T(30)
<1>12. clean = Heat!Flows(hot, flow0)
  OBVIOUS
<1> HIDE DEF clean
<1>13. flow0 \in 0 .. 100 /\ flow0 > 0
  BY <1>4
<1>14. /\ Sane(clean) /\ Marked(clean, hot) /\ clean.heat = hot.heat /\ clean.heater = hot.heater
       /\ clean.heatAct = hot.heatAct /\ clean.on = hot.on /\ clean.off = hot.off
       /\ clean.pump = flow0 /\ ~clean.stop
  <2>1. Sane(clean)
    BY <1>11, <1>12, <1>13, FlowsSane, Z3T(30)
  <2>2. /\ Marked(clean, hot) /\ clean.heat = hot.heat /\ clean.heater = hot.heater
        /\ clean.heatAct = hot.heatAct /\ clean.on = hot.on /\ clean.off = hot.off
        /\ clean.pump = flow0
        /\ clean.stop <=> flow0 = 0 /\ dev.flow
    BY <1>11, <1>12, <1>13, FlowsTell, Z3T(30)
  <2>3. flow0 # 0
    BY <1>13
  <2> QED
    BY <2>1, <2>2, <2>3
<1>15. /\ Sane(sure) /\ sure.clean /\ sure.degraded = clean.degraded /\ sure.heat = clean.heat
       /\ sure.heater = clean.heater /\ sure.heatAct = clean.heatAct /\ sure.on = clean.on
       /\ sure.off = clean.off /\ sure.pump = clean.pump /\ sure.stop = clean.stop
  BY <1>14 DEF Sane, PlanFields
<1> HIDE DEF sure
<1>16. sure.heat = heat /\ sure.heater = heater /\ sure.pump = flow0 /\ ~sure.stop /\ ~sure.degraded
  BY <1>6, <1>9, <1>11, <1>14, <1>15 DEF Marked
<1>17. /\ heat # dev.heat => sure.heatAct
       /\ sure.on => heater = "on"
       /\ sure.off => heater = "off"
       /\ heater = "off" /\ dev.heater => sure.off
  BY <1>11, <1>14, <1>15
<1>18. Raw(sure, c, FALSE)
  BY <1>3, <1>5, <1>13, <1>15, <1>16, <1>17 DEF Raw
<1> QED
  BY <1>1, <1>18, RuledCapped

(* Each guard keeps to the cap, and says so of what it leaves alone.       *)
LEMMA TrustedCapped ==
  ASSUME NEW p, NEW c, NEW alone, Capped(p, c, alone), NEW q, q = Heat!Trusted(p)
  PROVE  Capped(q, c, alone)
<1> DEFINE z == [p EXCEPT !.applied = trust.target, !.sync = FALSE]
<1>1. q = p \/ q = z
  BY DEF Heat!Trusted
<1>2. /\ Sane(z) /\ z.clean = p.clean /\ z.degraded = p.degraded /\ z.heat = p.heat
      /\ z.heatAct = p.heatAct /\ z.off = p.off /\ z.on = p.on /\ z.heater = p.heater
      /\ z.pump = p.pump /\ z.stop = p.stop /\ z.can = p.can /\ z.mode = p.mode
  BY DEF Capped, Raw, Sane, PlanFields
<1> HIDE DEF z
<1>3. Capped(z, c, alone)
  BY <1>2 DEF Capped, Raw
<1> QED
  BY <1>1, <1>3

LEMMA LeasedCapped ==
  ASSUME NEW p, NEW c, Capped(p, c, FALSE), NEW q, q = Heat!Leased(p)
  PROVE  Capped(q, c, Heat!LeftAlone(p))
<1> DEFINE still == Heat!Still(p)
           z == [still EXCEPT !.off = FALSE, !.stop = FALSE, !.mode = "local"]
           broken == [p EXCEPT !.broken = TRUE]
<1>1. CASE Heat!LeftAlone(p)
  <2>1. q = z /\ ~p.heatAct
    BY <1>1 DEF Heat!Leased, Heat!LeftAlone, Heat!LeaseBreaks
  <2>2. p.heat = dev.heat
    BY <2>1 DEF Capped, Raw
  <2>3. /\ Sane(still) /\ still.clean = p.clean /\ still.degraded = p.degraded
        /\ still.heat = p.heat /\ ~still.on /\ still.heater = p.heater /\ still.pump = p.pump
    BY DEF Capped, Raw, Sane, PlanFields, Heat!Still
  <2> HIDE DEF still
  <2>4. /\ Sane(z) /\ z.clean = still.clean /\ z.degraded = still.degraded
        /\ z.heat = still.heat /\ z.on = still.on /\ z.heater = still.heater
        /\ z.pump = still.pump /\ ~z.off /\ ~z.stop /\ z.mode = "local"
    BY <2>3 DEF Sane, PlanFields
  <2> HIDE DEF z
  <2> QED
    BY <1>1, <2>1, <2>2, <2>3, <2>4 DEF Capped, Raw, Sane
<1>2. CASE ~Heat!LeftAlone(p)
  <2>1. q = p \/ q = broken
    BY <1>2 DEF Heat!Leased
  <2>2. /\ Sane(broken) /\ broken.clean = p.clean /\ broken.degraded = p.degraded
        /\ broken.heat = p.heat /\ broken.heatAct = p.heatAct /\ broken.off = p.off
        /\ broken.on = p.on /\ broken.heater = p.heater /\ broken.pump = p.pump
        /\ broken.stop = p.stop /\ broken.can = p.can /\ broken.mode = p.mode
    BY DEF Capped, Raw, Sane, PlanFields
  <2> HIDE DEF broken
  <2>3. Capped(broken, c, FALSE)
    BY <2>2 DEF Capped, Raw
  <2>4. Capped(q, c, FALSE)
    BY <2>1, <2>3
  <2> QED
    BY <1>2, <2>4 DEF Capped, Raw
<1> QED
  BY <1>1, <1>2

LEMMA QuietenedCapped ==
  ASSUME NEW p, NEW c \in Nat, NEW alone, Capped(p, c, alone), NEW r, r.conn,
         NEW q, q = Heat!Quietened(p, r)
  PROVE  Capped(q, c, alone) /\ (state \in Heat!NoPositive => q.heat = 0)
<1> DEFINE down == Down0(p)
<1>1. Raw(down, c, alone) /\ down.heat = 0
  BY DownRaw DEF Capped, Raw
<1>2. q = IF state \in Heat!NoPositive THEN Heat!Ruled(down, r, "blocked") ELSE p
  BY DEF Heat!Quietened, Heat!Down, Down0
<1> HIDE DEF down
<1>3. CASE state \in Heat!NoPositive
  <2>1. state # "paused"
    BY <1>3 DEF Heat!NoPositive
  <2>2. q = Heat!Ruled(down, r, "blocked")
    BY <1>2, <1>3
  <2>3. Capped(q, c, alone)
    BY <1>1, <2>1, <2>2, RuledCapped
  <2>4. q.heat = down.heat
    BY <1>1, <2>2 DEF Heat!Ruled, Raw, Sane, PlanFields
  <2> QED
    BY <1>1, <2>3, <2>4
<1> QED
  BY <1>2, <1>3

\* A zero of the strike's is meant.
LEMMA PreservedCapped ==
  ASSUME NEW p, NEW c, NEW alone, Capped(p, c, alone), NEW r
  PROVE  Heat!Preserved(p, r) = p
<1>1. p.heat \in 0 .. 100
  BY DEF Capped, Raw, Sane
<1>2. CASE p.heat = 0
  BY <1>2 DEF Heat!Preserved, Capped, Raw
<1>3. CASE p.heat > 0
  <2>1. ~p.off /\ p.heater # "off" /\ p.heat # 0
    BY <1>1, <1>3 DEF Capped, Raw
  <2> QED
    BY <2>1 DEF Heat!Preserved
<1> QED
  BY <1>1, <1>2, <1>3

LEMMA OperatedCapped ==
  ASSUME NEW r \in Readings, source # "manual" \/ r.heatAuto,
         NEW p, NEW c \in Nat, NEW alone, Capped(p, c, alone),
         state \in Heat!NoPositive => p.heat = 0,
         NEW q, q = Heat!Operated(p, r)
  PROVE  Capped(q, c, alone) /\ (state \in Heat!NoPositive => q.heat = 0)
<1> DEFINE down == Down0(p)
           pumped == [p EXCEPT !.pump = r.setPump, !.pumpAct = r.setPump # dev.pump,
                               !.start = FALSE, !.stop = FALSE]
           both == IF r.pumpAuto THEN p ELSE pumped
           m == IF state \in {"paused", "prepared"} THEN down ELSE both
           can == Heat!Wanted(m)
           says == IF can THEN "direct" ELSE "manual"
           z == [m EXCEPT !.can = can, !.mode = says]
<1>1. q = p \/ (r.heatAuto /\ q = z)
  BY DEF Heat!Operated, Down0
<1>2. Raw(down, c, alone) /\ down.heat = 0
  BY DownRaw DEF Capped, Raw
<1> HIDE DEF down
<1>3. r.setPump \in 0 .. 100
  BY HeatAssumption
<1>4. /\ Sane(pumped) /\ pumped.clean = p.clean /\ pumped.degraded = p.degraded
      /\ pumped.heat = p.heat /\ pumped.heatAct = p.heatAct /\ pumped.off = p.off
      /\ pumped.on = p.on /\ pumped.heater = p.heater
  BY <1>3 DEF Capped, Raw, Sane, PlanFields
<1> HIDE DEF pumped
<1>5. /\ Raw(m, c, alone)
      /\ m.heat = 0 \/ m.heat = p.heat
  <2>1. CASE state \in {"paused", "prepared"}
    BY <1>2, <2>1
  <2>2. CASE state \notin {"paused", "prepared"}
    BY <1>4, <2>2 DEF Capped, Raw
  <2> QED
    BY <2>1, <2>2
<1> HIDE DEF m
<1>6. m.heatAct \/ m.off => can
  BY DEF Heat!Wanted
<1>7. says # "blocked"
  OBVIOUS
<1> HIDE DEF can, says
<1>8. /\ Sane(z) /\ z.clean = m.clean /\ z.degraded = m.degraded /\ z.heat = m.heat
      /\ z.heatAct = m.heatAct /\ z.off = m.off /\ z.on = m.on /\ z.heater = m.heater
      /\ z.pump = m.pump /\ z.stop = m.stop /\ z.can = can /\ z.mode = says
  BY <1>5 DEF Raw, Sane, PlanFields
<1> HIDE DEF z
<1>9. Raw(z, c, alone)
  BY <1>5, <1>8 DEF Raw
<1>10. Capped(z, c, alone)
  BY <1>5, <1>6, <1>7, <1>8, <1>9 DEF Capped, Raw
<1> QED
  BY <1>1, <1>5, <1>8, <1>10

LEMMA CheckedCapped ==
  ASSUME HeatTypes, NEW r, r.conn, NEW p, NEW c \in Nat, NEW alone, Capped(p, c, alone),
         NEW q, q = Heat!Checked(p, r)
  PROVE  Capped(q, c, alone) /\ (state # "paused" => q = p)
<1> DEFINE heat == Heat!Least(p.heat, Heat!Profile("ramp", Target[step] - Heat!Process(r), r.rate))
           heater == IF heat = 0 THEN "off" ELSE IF p.heater = "keep" THEN "on" ELSE p.heater
           aimed == Heat!Aims(p, Target[step])
           hot == Heat!Heats(aimed, heat, heater)
           z == [hot EXCEPT !.rewind = FALSE]
           ruled == Heat!Ruled(z, r, "monitor")
           marked == [ruled EXCEPT !.checkpoint = TRUE]
<1>1. ~p.degraded /\ (state = "paused" => p.mode # "blocked")
  BY DEF Capped, Raw
<1>2. q = IF source # "tracker" \/ state # "paused" \/ step # "paus" THEN p ELSE marked
  BY <1>1 DEF Heat!Checked
<1>3. CASE source # "tracker" \/ state # "paused" \/ step # "paus"
  BY <1>2, <1>3
<1>4. CASE source = "tracker" /\ state = "paused" /\ step = "paus"
  <2>1. heat \in 0 .. 100 /\ heat <= p.heat
    <3>1. Heat!Profile("ramp", Target[step] - Heat!Process(r), r.rate) \in 0 .. 100
      BY ProfileInRange
    <3>2. p.heat \in 0 .. 100
      BY DEF Capped, Raw, Sane
    <3> QED
      BY <3>1, <3>2 DEF Heat!Least
  <2>2. heat <= c /\ (p.heat = 0 => heat = 0) /\ (heat > 0 => p.heat > 0)
    BY <2>1 DEF Capped, Raw, Sane
  <2>3. (heat = 0 => heater = "off") /\ (heat > 0 => heater # "off")
    BY <2>1, <2>2 DEF Capped, Raw
  <2>4. Target[step] \in Int
    BY HeatAssumption DEF HeatTypes
  <2> HIDE DEF heat, heater
  <2>5. /\ Sane(aimed) /\ aimed.clean = p.clean /\ aimed.degraded = p.degraded
        /\ aimed.pump = p.pump /\ aimed.stop = p.stop
    BY <2>4 DEF Capped, Raw, Sane, PlanFields, Heat!Aims
  <2> HIDE DEF aimed
  <2>6. hot = Heat!Heats(aimed, heat, heater)
    OBVIOUS
  <2> HIDE DEF hot
  <2>7. Sane(hot)
    BY <2>1, <2>5, <2>6, HeatsSane, Z3T(30)
  <2>8. /\ Marked(hot, aimed) /\ hot.heat = heat /\ hot.heater = heater
        /\ hot.pump = aimed.pump /\ hot.stop = aimed.stop
        /\ hot.heatAct <=> heat # dev.heat
        /\ hot.on <=> heater = "on" /\ ~dev.heater
        /\ hot.off <=> heater = "off" /\ dev.heater
    BY <2>1, <2>5, <2>6, HeatsTell, Z3T(30)
  <2>9. /\ Sane(z) /\ z.clean = hot.clean /\ z.degraded = hot.degraded /\ z.heat = hot.heat
        /\ z.heater = hot.heater /\ z.heatAct = hot.heatAct /\ z.on = hot.on
        /\ z.off = hot.off /\ z.pump = hot.pump /\ z.stop = hot.stop
    BY <2>7 DEF Sane, PlanFields
  <2> HIDE DEF z
  <2>10. Raw(z, c, alone)
    <3>1. /\ z.heat = heat /\ z.heater = heater /\ z.clean = p.clean /\ z.degraded = p.degraded
          /\ z.pump = p.pump /\ z.stop = p.stop
      BY <2>5, <2>8, <2>9 DEF Marked
    <3>2. /\ heat # dev.heat => z.heatAct
          /\ z.on => heater = "on"
          /\ z.off => heater = "off"
          /\ heater = "off" /\ dev.heater => z.off
      BY <2>8, <2>9
    <3>3. p.clean /\ ~p.degraded /\ (state = "paused" => p.heat = 0 \/ (p.pump > 0 /\ ~p.stop))
      BY DEF Capped, Raw
    <3> QED
      BY <2>2, <2>3, <2>9, <3>1, <3>2, <3>3 DEF Raw
  <2>11. Capped(ruled, c, alone)
    BY <2>10, RuledCapped
  <2> HIDE DEF ruled
  <2>12. /\ Sane(marked) /\ marked.clean = ruled.clean /\ marked.degraded = ruled.degraded
         /\ marked.heat = ruled.heat /\ marked.heatAct = ruled.heatAct
         /\ marked.off = ruled.off /\ marked.on = ruled.on /\ marked.heater = ruled.heater
         /\ marked.pump = ruled.pump /\ marked.stop = ruled.stop /\ marked.can = ruled.can
         /\ marked.mode = ruled.mode
    BY <2>11 DEF Capped, Raw, Sane, PlanFields
  <2> HIDE DEF marked
  <2>13. Capped(marked, c, alone)
    BY <2>11, <2>12 DEF Capped, Raw
  <2> QED
    BY <1>2, <1>4, <2>13
<1> QED
  BY <1>3, <1>4

-----------------------------------------------------------------------------
(* Only the strike's own plan is a clean one.                              *)
LEMMA AdviceUnmarked ==
  ASSUME HeatTypes, NEW r \in Readings, NEW p, p = Heat!Advice(r)
  PROVE  p.clean = FALSE /\ p.degraded = FALSE
<1> DEFINE b == Heat!Base(r)
           gap == b.req - r.mash
           over == r.wort - b.req
           mixes == Heat!Mixes(r, b.req)
           own == Heat!Profile(Heat!Kind, b.delta, r.rate)
           heat == IF mixes THEN Heat!Least(own, Heat!MixHeat(gap, over, r.rate)) ELSE own
           low == Heat!DeltaPump(r, IF b.delta <= -3 THEN 45 ELSE 50)
           flow0 == IF mixes THEN Heat!Most(low, Heat!MixPump(gap, over, r.rate)) ELSE low
           heater0 == IF heat > 0 /\ b.delta > 5 THEN "on" ELSE "keep"
           hot == Heat!Heats(b, heat, heater0)
           q == Heat!Flows(hot, flow0)
           full == [q EXCEPT !.mixed = mixes, !.tapered = Heat!Tapers(b.delta, r.rate)]
           ruled == Heat!Ruled(full, r, "monitor")
           z == Down0(b)
           down == Heat!Ruled(z, r, "blocked")
<1>1. p = down \/ p = full \/ p = ruled
  BY DEF Heat!Advice, Heat!Down, Down0
<1>2. Sane(b) /\ b.clean = FALSE /\ b.degraded = FALSE
  BY BaseSane DEF Heat!Base
<1>3. Sane(z) /\ Marked(z, b)
  BY <1>2, DownTells
<1> HIDE DEF z
<1>4. Marked(down, z)
  BY <1>3, RuledMarked
<1> HIDE DEF down, b, heat, heater0, flow0, mixes
<1>5. hot = [b EXCEPT !.heat = heat, !.heater = heater0, !.heatAct = heat # dev.heat,
                      !.on = heater0 = "on" /\ ~dev.heater,
                      !.off = heater0 = "off" /\ dev.heater]
  BY DEF Heat!Heats
<1>6. DOMAIN hot = PlanFields /\ Marked(hot, b)
  BY <1>2, <1>5 DEF Sane, PlanFields, Marked
<1> HIDE DEF hot
<1>7. DOMAIN full = PlanFields /\ Marked(full, hot)
  <2>1. q = [hot EXCEPT !.pump = flow0, !.pumpAct = flow0 # dev.pump,
                        !.start = flow0 > 0 /\ ~dev.flow, !.stop = flow0 = 0 /\ dev.flow]
    BY DEF Heat!Flows
  <2>2. DOMAIN q = PlanFields /\ Marked(q, hot)
    BY <1>6, <2>1 DEF PlanFields, Marked
  <2> HIDE DEF q
  <2> QED
    BY <2>2 DEF PlanFields, Marked
<1> HIDE DEF full
<1>8. Marked(ruled, full)
  BY <1>7 DEF Heat!Ruled, PlanFields, Marked
<1> HIDE DEF ruled
<1> QED
  BY <1>1, <1>2, <1>3, <1>4, <1>6, <1>7, <1>8 DEF Marked

LEMMA StrikeMarks ==
  ASSUME HeatTypes, NEW r \in Readings, NEW p, Sane(p), ~p.clean,
         NEW q, q = Heat!Strike(p, r), q.clean
  PROVE  r.conn /\ r.mash # None /\ Heat!NewLatch # None
<1> DEFINE strike == Heat!NewLatch
           held == [p EXCEPT !.strike = strike, !.mixed = FALSE, !.tapered = FALSE,
                             !.rewind = FALSE, !.hold = FALSE, !.delta = strike - Heat!Process(r)]
           boost == Heat!Boosted(strike, held.delta)
           aimed == Heat!Aims(held, boost)
           cold == Heat!Heats(aimed, 0, "off")
           blind == Heat!Flows(cold, 50)
           ruled == Heat!Ruled(blind, r, "monitor")
           forced == [blind EXCEPT !.can = TRUE, !.mode = "direct"]
           off1 == Heat!Still(p)
           off2 == [off1 EXCEPT !.strike = strike, !.mode = "blocked", !.degraded = TRUE]
<1>1. strike # None
  BY DEF Heat!Strike
<1> SUFFICES ASSUME ~(r.conn /\ r.mash # None) PROVE FALSE
  BY <1>1
<1>2. q = off2 \/ q = ruled \/ q = forced
  BY <1>1 DEF Heat!Strike
<1>3. DOMAIN held = PlanFields /\ held.clean = p.clean
  BY DEF Sane, PlanFields
<1> HIDE DEF held, boost
<1>4. DOMAIN aimed = PlanFields /\ aimed.clean = held.clean
  BY <1>3 DEF Heat!Aims, PlanFields
<1> HIDE DEF aimed
<1>5. DOMAIN cold = PlanFields /\ cold.clean = aimed.clean
  BY <1>4 DEF Heat!Heats, PlanFields
<1> HIDE DEF cold
<1>6. DOMAIN blind = PlanFields /\ blind.clean = cold.clean
  BY <1>5 DEF Heat!Flows, PlanFields
<1> HIDE DEF blind
<1>7. ruled.clean = blind.clean /\ forced.clean = blind.clean
  BY <1>6 DEF Heat!Ruled, PlanFields
<1>8. DOMAIN off1 = PlanFields /\ off1.clean = p.clean
  BY DEF Heat!Still, Sane, PlanFields
<1> HIDE DEF off1
<1>9. off2.clean = off1.clean
  BY <1>8 DEF PlanFields
<1> HIDE DEF ruled, forced, off2
<1> QED
  BY <1>2, <1>3, <1>4, <1>5, <1>6, <1>7, <1>8, <1>9

LEMMA EarlyGuardsMark ==
  ASSUME NEW p, Sane(p), NEW r
  PROVE  /\ Heat!Trusted(p).clean = p.clean /\ Heat!Leased(p).clean = p.clean
         /\ Heat!Unstaled(p, r).clean = p.clean /\ Heat!Quietened(p, r).clean = p.clean
<1>1. Heat!Trusted(p).clean = p.clean
  BY DEF Heat!Trusted, Sane, PlanFields
<1>2. Heat!Leased(p).clean = p.clean
  <2> DEFINE still == Heat!Still(p)
             z == [still EXCEPT !.off = FALSE, !.stop = FALSE, !.mode = "local"]
             broken == [p EXCEPT !.broken = TRUE]
  <2>1. Heat!Leased(p) \in {z, broken, p}
    BY DEF Heat!Leased
  <2>2. DOMAIN still = PlanFields /\ still.clean = p.clean
    BY DEF Heat!Still, Sane, PlanFields
  <2>3. broken.clean = p.clean
    BY DEF Sane, PlanFields
  <2> HIDE DEF still, broken
  <2>4. z.clean = p.clean
    BY <2>2 DEF PlanFields
  <2> HIDE DEF z
  <2> QED
    BY <2>1, <2>3, <2>4
<1>3. Heat!Unstaled(p, r).clean = p.clean
  BY DEF Heat!Unstaled, Sane, PlanFields
<1>4. Heat!Quietened(p, r).clean = p.clean
  <2> DEFINE down == Down0(p)
             ruled == Heat!Ruled(down, r, "blocked")
  <2>1. Heat!Quietened(p, r) \in {ruled, p}
    BY DEF Heat!Quietened, Heat!Down, Down0
  <2>2. Sane(down) /\ Marked(down, p)
    BY DownTells
  <2> HIDE DEF down
  <2>3. Marked(ruled, down)
    BY <2>2, RuledMarked
  <2> HIDE DEF ruled
  <2> QED
    BY <2>1, <2>2, <2>3 DEF Marked
<1> QED
  BY <1>1, <1>2, <1>3, <1>4

LEMMA LateGuardsMark ==
  ASSUME NEW p, Sane(p), NEW r
  PROVE  /\ Heat!Preserved(p, r).clean = p.clean
         /\ Heat!Operated(p, r).clean = p.clean
         /\ Heat!Checked(p, r).clean = p.clean
<1>1. Heat!Preserved(p, r).clean = p.clean
  BY DEF Heat!Preserved, Sane, PlanFields
<1>2. Heat!Operated(p, r).clean = p.clean
  <2> DEFINE down == Down0(p)
             set == [p EXCEPT !.heat = r.setHeat, !.heatAct = r.setHeat # dev.heat,
                              !.on = FALSE, !.off = FALSE]
             heat == IF r.heatAuto THEN p ELSE set
             pumped == [heat EXCEPT !.pump = r.setPump, !.pumpAct = r.setPump # dev.pump,
                                    !.start = FALSE, !.stop = FALSE]
             both == IF r.pumpAuto THEN heat ELSE pumped
             m == IF state \in {"paused", "prepared"} THEN down ELSE both
             z == [m EXCEPT !.can = Heat!Wanted(m),
                            !.mode = IF Heat!Wanted(m) THEN "direct" ELSE "manual"]
  <2>1. Heat!Operated(p, r) \in {z, p}
    BY DEF Heat!Operated, Down0
  <2>2. DOMAIN down = PlanFields /\ down.clean = p.clean
    BY DownTells DEF Marked, Sane
  <2> HIDE DEF down
  <2>3. DOMAIN heat = PlanFields /\ heat.clean = p.clean
    BY DEF Sane, PlanFields
  <2> HIDE DEF heat
  <2>4. DOMAIN both = PlanFields /\ both.clean = p.clean
    BY <2>3 DEF PlanFields
  <2> HIDE DEF both
  <2>5. DOMAIN m = PlanFields /\ m.clean = p.clean
    BY <2>2, <2>4
  <2> HIDE DEF m
  <2>6. z.clean = p.clean
    BY <2>5 DEF PlanFields
  <2> HIDE DEF z
  <2> QED
    BY <2>1, <2>6
<1>3. Heat!Checked(p, r).clean = p.clean
  <2> DEFINE heat == Heat!Least(p.heat, Heat!Profile("ramp", Target[step] - Heat!Process(r), r.rate))
             heater == IF heat = 0 THEN "off" ELSE IF p.heater = "keep" THEN "on" ELSE p.heater
             aimed == Heat!Aims(p, Target[step])
             hot == Heat!Heats(aimed, heat, heater)
             z == [hot EXCEPT !.rewind = FALSE]
             ruled == Heat!Ruled(z, r, "monitor")
             marked == [ruled EXCEPT !.checkpoint = TRUE]
  <2>1. Heat!Checked(p, r) \in {p, z, marked}
    BY DEF Heat!Checked
  <2> HIDE DEF heat, heater
  <2>2. DOMAIN aimed = PlanFields /\ aimed.clean = p.clean
    BY DEF Heat!Aims, Sane, PlanFields
  <2> HIDE DEF aimed
  <2>3. DOMAIN hot = PlanFields /\ hot.clean = p.clean
    BY <2>2 DEF Heat!Heats, PlanFields
  <2> HIDE DEF hot
  <2>4. DOMAIN z = PlanFields /\ z.clean = p.clean
    BY <2>3 DEF PlanFields
  <2> HIDE DEF z
  <2>5. DOMAIN ruled = PlanFields /\ ruled.clean = p.clean
    BY <2>4 DEF Heat!Ruled, PlanFields
  <2> HIDE DEF ruled
  <2>6. marked.clean = p.clean
    BY <2>5 DEF PlanFields
  <2> HIDE DEF marked
  <2> QED
    BY <2>1, <2>4, <2>6
<1> QED
  BY <1>1, <1>2, <1>3

(* What is written of a capped plan, whichever apply claims it.            *)
LEMMA WrittenCapped ==
  ASSUME HeatTypes, NEW p, NEW c, NEW alone, Capped(p, c, alone),
         state \in Heat!NoPositive => p.heat = 0,
         NEW r, NEW n, n = Heat!Written(Heat!Claimed(p, r))
  PROVE  /\ n.heat = p.heat
         /\ p.heat = 0 /\ ~alone => ~n.heater
<1> DEFINE w == Heat!Claimed(p, r)
           down == Heat!OnlyDown(p)
           still == Heat!Still(p)
           none == [still EXCEPT !.off = FALSE, !.stop = FALSE]
<1>1. /\ n.heat = IF w.heatAct THEN w.heat ELSE dev.heat
      /\ n.heater = (w.on \/ (dev.heater /\ ~w.off))
  BY DEF Heat!Written
<1>2. \/ w = p
      \/ w = down /\ p.heat = 0
      \/ w = none /\ ~p.can
  <2>1. ASSUME p.heat > 0, state = "paused" PROVE ~Heat!Lowers(p)
    BY <2>1 DEF Heat!Lowers, Capped, Raw
  <2>2. p.heat \in 0 .. 100
    BY DEF Capped, Raw, Sane
  <2>3. w = IF state \in Heat!NoPositive THEN down
            ELSE IF p.checkpoint /\ p.can THEN p
            ELSE IF ~p.checkpoint /\ Heat!KeepsWarm(p, r) THEN p
            ELSE IF ~p.checkpoint /\ state = "paused" /\ Heat!Lowers(p) THEN down
            ELSE IF p.can THEN p ELSE none
    BY DEF Heat!Claimed
  <2> HIDE DEF w, down, none
  <2> QED
    BY <2>1, <2>2, <2>3
<1>3. /\ down.heat = p.heat /\ down.off = p.off /\ ~down.on
      /\ down.heatAct = (p.heatAct /\ p.heat = 0)
  BY DEF Heat!OnlyDown, Capped, Raw, Sane, PlanFields
<1>4. ~none.heatAct /\ ~none.on
  <2>1. DOMAIN still = PlanFields /\ ~still.heatAct /\ ~still.on
    BY DEF Heat!Still, Capped, Raw, Sane, PlanFields
  <2> HIDE DEF still
  <2> QED
    BY <2>1 DEF PlanFields
<1> HIDE DEF w, down, none
<1>5. CASE w = p
  BY <1>1, <1>5 DEF Capped, Raw
<1>6. CASE w = down /\ p.heat = 0
  BY <1>1, <1>3, <1>6 DEF Capped, Raw
<1>7. CASE w = none /\ ~p.can
  BY <1>1, <1>4, <1>7 DEF Capped, Raw
<1> QED
  BY <1>2, <1>5, <1>6, <1>7

LEMMA PlanCapped ==
  ASSUME HeatTypes, NEW r \in Readings, NEW p, p = Heat!Plan(r), p.clean,
         r.fresh, source # "manual" \/ r.heatAuto
  PROVE  /\ r.conn /\ r.mash # None /\ Heat!NewLatch # None
         /\ \A c \in Nat : Heat!HeatCap(Heat!NewLatch, r) <= c =>
              Capped(p, c, Heat!LeftAlone(Heat!Trusted(Heat!Strike(Heat!Advice(r), r))))
         /\ state \in Heat!NoPositive => p.heat = 0
<1> DEFINE a == Heat!Advice(r)
           b == Heat!Strike(a, r)
           t == Heat!Trusted(b)
           d == Heat!Leased(t)
           e == Heat!Unstaled(d, r)
           f == Heat!Quietened(e, r)
           g == Heat!Preserved(f, r)
           h == Heat!Operated(g, r)
           alone == Heat!LeftAlone(t)
<1>1. p = Heat!Checked(h, r)
  BY DEF Heat!Plan
<1>2. Sane(a) /\ ~a.clean /\ ~a.degraded
  BY AdviceSane, AdviceUnmarked
<1>3. b = Heat!Strike(a, r) /\ alone = Heat!LeftAlone(t)
  OBVIOUS
<1> HIDE DEF a, b
<1>4. Sane(b)
  BY <1>2, <1>3, StrikeOK, Z3T(30)
<1>5. Sane(t) /\ t.clean = b.clean /\ t = Heat!Trusted(b)
  BY <1>4, TrustedFollows, EarlyGuardsMark DEF Follows
<1> HIDE DEF t, alone
<1>6. Sane(d) /\ d.clean = t.clean /\ d = Heat!Leased(t)
  BY <1>5, LeasedFollows, EarlyGuardsMark DEF Follows
<1> HIDE DEF d
<1>7. Sane(e) /\ e.clean = d.clean /\ e = d
  BY <1>6, UnstaledFollows, EarlyGuardsMark DEF Follows, Heat!Unstaled
<1> HIDE DEF e
<1>8. Sane(f) /\ f.clean = e.clean /\ f = Heat!Quietened(e, r)
  BY <1>7, QuietenedFollows, EarlyGuardsMark DEF Follows
<1> HIDE DEF f
<1>9. Sane(g) /\ g.clean = f.clean /\ g = Heat!Preserved(f, r)
  BY <1>8, PreservedFollows, LateGuardsMark DEF Follows
<1> HIDE DEF g
<1>10. Sane(h) /\ h.clean = g.clean /\ h = Heat!Operated(g, r)
  BY <1>9, OperatedFollows, LateGuardsMark DEF Follows
<1> HIDE DEF h
<1>11. p.clean = h.clean
  BY <1>1, <1>10, LateGuardsMark
<1>12. b.clean
  BY <1>5, <1>6, <1>7, <1>8, <1>9, <1>10, <1>11
<1>13. r.conn /\ r.mash # None /\ Heat!NewLatch # None
  BY <1>2, <1>3, <1>12, StrikeMarks, Z3T(30)
<1>14. ASSUME NEW c \in Nat, Heat!HeatCap(Heat!NewLatch, r) <= c
       PROVE  Capped(p, c, alone) /\ (state \in Heat!NoPositive => p.heat = 0)
  <2>1. Capped(b, c, FALSE)
    <3>1. HeatTypes /\ r \in Readings /\ c \in Nat /\ b = Heat!Strike(a, r)
      BY <1>3, <1>14
    <3> QED
      BY <1>2, <1>13, <1>14, <3>1, StrikeCapped
  <2>2. Capped(t, c, FALSE)
    BY <1>5, <2>1, TrustedCapped
  <2>3. Capped(d, c, alone)
    BY <1>6, <2>2, LeasedCapped DEF alone
  <2>4. Capped(f, c, alone) /\ (state \in Heat!NoPositive => f.heat = 0)
    BY <1>7, <1>8, <1>13, <2>3, QuietenedCapped
  <2>5. g = f
    BY <1>9, <2>4, PreservedCapped
  <2>6. Capped(h, c, alone) /\ (state \in Heat!NoPositive => h.heat = 0)
    BY <1>10, <2>4, <2>5, OperatedCapped
  <2>7. Capped(p, c, alone) /\ (state # "paused" => p = h)
    BY <1>1, <1>13, <2>6, CheckedCapped
  <2>8. "paused" \notin Heat!NoPositive
    BY DEF Heat!NoPositive
  <2> QED
    BY <2>6, <2>7, <2>8
<1>15. Heat!HeatCap(Heat!NewLatch, r) <= 100
  BY DEF Heat!HeatCap
<1>16. state \in Heat!NoPositive => p.heat = 0
  BY <1>14, <1>15
<1> QED
  BY <1>13, <1>14, <1>16 DEF alone, t, b, a

CapInv == Heat!StrikeHeatIsCapped

LEMMA TickCaps ==
  ASSUME HeatTypes, NEW r \in Readings, NEW lands \in BOOLEAN, Heat!Tick(r, lands)
  PROVE  CapInv'
<1> DEFINE p == Heat!Plan(r)
           n == Heat!Written(Heat!Claimed(p, r))
           capped == p.clean /\ r.fresh /\ (source = "tracker" \/ r.heatAuto)
           hot == Heat!Hottest(r) - Heat!NewLatch
           alone == Heat!LeftAlone(Heat!Trusted(Heat!Strike(Heat!Advice(r), r)))
<1>1. /\ dev' = IF lands THEN n ELSE dev
      /\ did'.over = IF ~capped \/ hot <= 5 THEN 0 ELSE IF hot <= 20 THEN 1
                     ELSE IF alone THEN 2 ELSE 3
      /\ lands \/ ~r.conn
  BY DEF Heat!Tick
<1>2. CASE ~capped
  BY <1>1, <1>2 DEF CapInv, Heat!StrikeHeatIsCapped
<1>3. CASE capped
  <2>1. /\ r.conn /\ r.mash # None /\ Heat!NewLatch # None
        /\ \A c \in Nat : Heat!HeatCap(Heat!NewLatch, r) <= c => Capped(p, c, alone)
        /\ state \in Heat!NoPositive => p.heat = 0
    BY <1>3, PlanCapped
  <2>2. hot \in Int
    BY <2>1, HeatAssumption DEF HeatTypes, Heat!Hottest, Heat!NewLatch
  <2>3. /\ hot > 5 => Heat!HeatCap(Heat!NewLatch, r) <= 5
        /\ hot > 20 => Heat!HeatCap(Heat!NewLatch, r) <= 0
    BY <2>1, CapValue
  <2>4. dev' = n
    BY <1>1, <2>1
  <2> HIDE DEF p, hot, alone
  <2>5. ASSUME NEW c \in Nat, Capped(p, c, alone)
        PROVE  n.heat \in 0 .. 100 /\ n.heat <= c /\ (n.heat = 0 /\ ~alone => ~n.heater)
    <3>1. n.heat = p.heat /\ (p.heat = 0 /\ ~alone => ~n.heater)
      BY <2>1, <2>5, WrittenCapped
    <3> HIDE DEF n
    <3> QED
      BY <2>5, <3>1 DEF Capped, Raw, Sane
  <2> HIDE DEF n
  <2>6. hot > 5 => n.heat <= 5
    BY <2>1, <2>3, <2>5
  <2>7. hot > 20 => n.heat = 0 /\ (~alone => ~n.heater)
    <3> SUFFICES ASSUME hot > 20 PROVE n.heat = 0 /\ (~alone => ~n.heater)
      OBVIOUS
    <3>1. Capped(p, 0, alone)
      BY <2>1, <2>3
    <3>2. n.heat \in 0 .. 100 /\ n.heat <= 0 /\ (n.heat = 0 /\ ~alone => ~n.heater)
      BY <2>5, <3>1
    <3> QED
      BY <3>2
  <2>8. /\ did'.over >= 1 => hot > 5
        /\ did'.over >= 2 => hot > 20
        /\ did'.over = 3 => ~alone
    BY <1>1, <2>2
  <2>9. did'.over \in 0 .. 3
    BY <1>1
  <2> QED
    BY <2>2, <2>4, <2>6, <2>7, <2>8, <2>9 DEF CapInv, Heat!StrikeHeatIsCapped
<1> QED
  BY <1>2, <1>3

LEMMA CapNextInv == HeatTypes /\ CapInv /\ [Heat!Next]_Heat!vars => CapInv'
<1> SUFFICES ASSUME HeatTypes, CapInv, [Heat!Next]_Heat!vars PROVE CapInv'
  OBVIOUS
<1>1. ASSUME NEW r \in Readings, NEW lands \in BOOLEAN, Heat!Tick(r, lands) PROVE CapInv'
  BY <1>1, TickCaps
<1>2. ASSUME Heat!Kept PROVE CapInv'
  BY <1>2 DEF Heat!Kept, Heat!NoTick, CapInv, Heat!StrikeHeatIsCapped
<1>3. ASSUME UNCHANGED Heat!vars PROVE CapInv'
  BY <1>3 DEF Heat!vars, CapInv, Heat!StrikeHeatIsCapped
<1> QED
  BY <1>1, <1>2, <1>3
     DEF Heat!Next, Heat!Shows, Heat!HandsOver, Heat!MashesIn, Heat!NewBrew

(* A tick that BA decides with both probes in hand leaves at most 5 per    *)
(* cent when the hottest of them is half a degree over the strike target,  *)
(* nothing when it is two degrees over, and then the heater off unless the *)
(* lease leaves the BrewZilla alone: for any targets and any readings,     *)
(* through every guard and whichever of the applies claims the plan.       *)
THEOREM StrikeHeatCapped == Spec => []Heat!StrikeHeatIsCapped
<1>1. Init => CapInv
  BY DEF Init, Heat!Init, Heat!NoTick, CapInv, Heat!StrikeHeatIsCapped
<1>2. HeatInv /\ CapInv /\ [Next]_vars => CapInv'
  BY CapNextInv, OnePart DEF HeatInv
<1> QED
  BY <1>1, <1>2, HeatAlways, PTL DEF Spec, CapInv

(* What a mash tick keeps to, all of it: the cap on the strike water's     *)
(* heat, the strike's target until the brewer has come, and a quiet        *)
(* state's quiet, for every recipe whose later ramps go no lower than its  *)
(* strike.                                                                 *)
THEOREM HeatKept ==
  ASSUME Target["strike"] <= Target["ramp"]
  PROVE  Spec => []HeatKeepsItsBounds
<1>1. Spec => []Heat!StrikeIsHeld
  BY StrikeHeld
<1> QED
  BY <1>1, StrikeHeatCapped, QuietStaysQuiet, PTL DEF HeatKeepsItsBounds

-----------------------------------------------------------------------------
(* Every variable of the controllers keeps its type: the relay's times     *)
(* their cap, a task of the thermostat its three calls, and the BrewZilla  *)
(* its utilisations, whatever the rules of the plan asked for.             *)
THEOREM TypeCorrect == Spec => []TypeOK
<1>1. RelayInv => Relay!TypeOK
  BY DEF RelayInv
<1>2. FanInv => Fan!TypeOK
  BY DEF FanInv
<1>3. HeatInv => Heat!TypeOK
  BY DEF HeatInv, HeatTypes, DeviceOK, Heat!TypeOK
<1>4. HltInv => Hlt!TypeOK
  BY DEF HltInv, SimOK, Hlt!TypeOK
<1>5. RelayInv /\ ClimateInv /\ FanInv /\ HeatInv /\ HltInv => TypeOK
  BY <1>1, <1>2, <1>3, <1>4, ClimateTypes DEF TypeOK
<1> QED
  BY <1>5, RelayAlways, ClimateAlways, FanAlways, HeatAlways, HltAlways, PTL
=============================================================================
