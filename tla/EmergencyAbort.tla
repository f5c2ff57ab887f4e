---------------------------- MODULE EmergencyAbort ----------------------------
(***************************************************************************)
(* The commands themselves.  An operator's ABORT sends OFF and zero to the *)
(* BrewZilla twice, around the end of the RAPT profile, while BA's own     *)
(* handlers may be in the middle of a sequence of writes: each of their    *)
(* writes is checked, and then awaited, by itself.                         *)
(*                                                                         *)
(* START, READ-ONLY and REARM are single actions here; StartGate has what  *)
(* happens inside them.  A command takes effect while it is awaited or not *)
(* at all, and whoever awaits it may see an error in both cases.           *)
(***************************************************************************)
EXTENDS Naturals

CONSTANTS
    Tasks,      \* handlers of BA's that may be at work at a time
    Outputs,    \* the outputs of the BrewZilla that are considered
    Plans       \* the sequences of writes a tick may decide on

Switches == {"heater", "pump"}
Numbers  == {"heat_utilization", "pump_utilization"}
Command  == [out : Outputs, on : BOOLEAN]
NoCommand == [out |-> "none", on |-> FALSE]

ASSUME OutputAssumption == Outputs \subseteq Switches \cup Numbers
ASSUME PlansAssumption  == Plans \subseteq SUBSET Command

(* ABORT and the enforcement go through the outputs in one order, a plan   *)
(* in another.                                                             *)
OffRank  == [heater |-> 1, pump |-> 2,
             heat_utilization |-> 3, pump_utilization |-> 4]
PlanRank == [heat_utilization |-> 1, pump_utilization |-> 2,
             heater |-> 3, pump |-> 4]

VARIABLES
    source,     \* the brewing source: "rapt", "brewfather" or "manual"
    evidence,   \* the RAPT profile as BA sees it
    permit,     \* READ-ONLY has been released by START
    latch,      \* ABORT latch, with the kind of source it was raised under
    lockout,    \* the ABORT lockout still runs
    abort,      \* ABORT's handler: where it is and what it has yet to send
    task,       \* BA's handlers
    device,     \* the outputs of the BrewZilla: on, or above zero
    seen,       \* the same as last read back
    profile,    \* a RAPT profile runs on the BrewZilla and moves its outputs
    aborted,    \* history: ABORT was pressed after the last START
    clean       \* history: outputs that an OFF of ABORT's reached for good

authority == <<source, evidence, permit, latch, lockout>>
brewzilla == <<device, seen, profile>>
history   == <<aborted, clean>>
vars == <<authority, abort, task, brewzilla, history>>

NoTask == [pc |-> "idle", todo |-> {}, flying |-> NoCommand, sent |-> FALSE]

Init ==
    /\ source \in {"rapt", "brewfather", "manual"}
    /\ evidence = "none" /\ permit = FALSE /\ latch = "off"
    /\ lockout = FALSE
    /\ abort = [pc |-> "idle", todo |-> {}]
    /\ task = [t \in Tasks |-> NoTask]
    /\ device = [o \in Outputs |-> FALSE] /\ seen = device
    /\ profile = FALSE
    /\ aborted = FALSE /\ clean = {}

-----------------------------------------------------------------------------
(* Source authority                                                        *)

(* may_write_brewzilla is not False.                                       *)
MayWrite ==
    /\ permit /\ latch = "off"
    /\ source = "rapt" => evidence = "live"

(* _safe_off_allowed: a RAPT brew that was stopped or aborted.             *)
SafeOff ==
    /\ permit
    /\ \/ latch = "rapt"
       \/ latch = "off" /\ source = "rapt" /\ evidence = "stopped"

(* _write_allowed.  Under a RAPT profile the heater is the profile's.      *)
Allowed(c) ==
    IF MayWrite THEN source = "rapt" => c.out # "heater"
                ELSE SafeOff /\ ~c.on

-----------------------------------------------------------------------------
(* BA's handlers                                                           *)

Ends(t) == task' = [task EXCEPT ![t] = NoTask]

Rank(pc) == IF pc = "enforce" THEN OffRank ELSE PlanRank
Before(pc, c, d) == Rank(pc)[c.out] < Rank(pc)[d.out]

(* The final guard drops a positive write in silence.                      *)
Suppressed(c) == Allowed(c) /\ lockout /\ c.on

(* Mutant: the guard looks at the lockout only where a handler starts.     *)
NeverPassedOver(pc, c) == pc = "enforce" /\ ~seen[c.out]

(* So does the enforcement with an output that reads OFF.                  *)
PassedOver(pc, c) ==
    \/ pc = "enforce" /\ ~seen[c.out]
    \/ Suppressed(c)

(* A switch that was suppressed is reported as switched, a number is not;  *)
(* the circulation gives up at either.                                     *)
Reported(pc, c) == Suppressed(c) /\ c.out \in Switches

(***************************************************************************)
(* From one await to the next: handler t, in pc, goes through the writes   *)
(* in todo up to the first that it may issue, and awaits it.  A write that *)
(* authority or, if positive, a gate of the brewing phase denies raises    *)
(* PermissionError and ends the handler.                                   *)
(***************************************************************************)
Proceed(t, pc, todo, sent) ==
    LET open == {c \in todo : ~PassedOver(pc, c)}
        Past(c) == {d \in todo \ open : Before(pc, d, c)}
    IN
    \/ /\ open = {}
       /\ IF pc = "plan"
          THEN task' = [task EXCEPT ![t] =
                  [pc |-> "recording", todo |-> {}, flying |-> NoCommand,
                   sent |-> sent \/ \E c \in todo : Reported(pc, c)]]
          ELSE Ends(t)
    \/ \E c \in open :
          /\ \A d \in open \ {c} : Before(pc, c, d)
          /\ IF Allowed(c) /\ (pc = "circulate" => Past(c) = {})
             THEN task' = [task EXCEPT ![t] =
                     [pc |-> pc, flying |-> c,
                      todo |-> {d \in todo : Before(pc, c, d)},
                      sent |-> sent \/ \E d \in Past(c) : Reported(pc, d)]]
             ELSE Ends(t)
    \/ /\ \E c \in todo : c.on /\ \A d \in open : ~Before(pc, d, c)
       /\ Ends(t)

AllOff == {[out |-> o, on |-> FALSE] : o \in Outputs}

(* Under a RAPT profile a snapshot has no write for the heater.            *)
Decidable(p) == source = "rapt" => \A c \in p : c.out # "heater"

(* A tick, or a confirmed plan: under the lockout it only enforces.        *)
Tick(t) ==
    /\ task[t].pc = "idle" /\ MayWrite
    /\ IF lockout
       THEN Proceed(t, "enforce", AllOff, FALSE)
       ELSE \E p \in Plans : Decidable(p) /\ Proceed(t, "plan", p, FALSE)
    /\ UNCHANGED <<authority, abort, brewzilla, history>>

(* What a tick still writes while its plan waits for the operator: OFF,    *)
(* less, or a number that the operator has overridden by hand.             *)
SafeDown(t) ==
    /\ task[t].pc = "idle" /\ MayWrite /\ ~lockout
    /\ \E p \in Plans :
          /\ Decidable(p) /\ \A c \in p : c.on => c.out \in Numbers
          /\ Proceed(t, "safe_down", p, FALSE)
    /\ UNCHANGED <<authority, abort, brewzilla, history>>

(* The operator starts the recirculation after the mash-in: utilization,   *)
(* then pump.  Nothing enforces OFF after it.                              *)
Circulate(t) ==
    /\ task[t].pc = "idle"
    /\ ~lockout /\ latch = "off"
    /\ Proceed(t, "circulate",
               {c \in Command : c.on /\ c.out \in {"pump", "pump_utilization"}},
               FALSE)
    /\ UNCHANGED <<authority, abort, brewzilla, history>>

(* The APPLY button of the learning advice, for a manual brew: its write   *)
(* goes to Home Assistant without passing the lockout.                     *)
ApplyAdvice(t) ==
    /\ task[t].pc = "idle"
    /\ source = "manual" /\ MayWrite
    /\ "heat_utilization" \in Outputs
    /\ task' = [task EXCEPT ![t] = [NoTask EXCEPT !.pc = "advice",
                   !.flying = [out |-> "heat_utilization", on |-> TRUE]]]
    /\ clean' = clean \ {"heat_utilization"}
    /\ UNCHANGED <<authority, abort, brewzilla, aborted>>

(* A write takes effect while it is awaited, ...                           *)
Land(t) ==
    LET c == task[t].flying IN
    /\ c # NoCommand
    /\ device' = [device EXCEPT ![c.out] = c.on]
    /\ UNCHANGED <<authority, abort, task, seen, profile, history>>

(* ... and its call returns, or raises and ends the handler.               *)
Answer(t) ==
    LET me == task[t] IN
    /\ me.flying # NoCommand
    /\ \/ Ends(t)
       \/ /\ me.pc # "advice"
          /\ Proceed(t, me.pc, me.todo, me.sent \/ me.flying.on)
    /\ UNCHANGED <<authority, abort, brewzilla, history>>

(* The audit has recorded the plan, which looks at the lockout again: if   *)
(* ABORT came in between and anything positive was done, it enforces OFF,  *)
(* if it may.                                                              *)
Recorded(t) ==
    /\ task[t].pc = "recording"
    /\ IF lockout /\ task[t].sent /\ (MayWrite \/ SafeOff)
       THEN Proceed(t, "enforce", AllOff, FALSE)
       ELSE Ends(t)
    /\ UNCHANGED <<authority, abort, brewzilla, history>>

-----------------------------------------------------------------------------
(* ABORT                                                                   *)

(* The lockout is there before anything is awaited.                        *)
Press ==
    /\ abort.pc = "idle"
    /\ abort' = [pc |-> "first", todo |-> Outputs]
    /\ lockout' = TRUE /\ aborted' = TRUE
    /\ UNCHANGED <<source, evidence, permit, latch, task, brewzilla, clean>>

Flies(o) == \E t \in Tasks : task[t].flying = [out |-> o, on |-> TRUE]

AbortDue(o) ==
    /\ abort.pc \in {"first", "second"} /\ o \in abort.todo
    /\ \A p \in abort.todo : OffRank[o] <= OffRank[p]

Takes(c) == device' \in {device, [device EXCEPT ![c.out] = c.on]}

(* Mutant: an error in one command is ABORT's own.                         *)
SendOffOrRaise(o) ==
    /\ AbortDue(o)
    /\ Takes([out |-> o, on |-> FALSE])
    /\ abort' \in {[abort EXCEPT !.todo = @ \ {o}],
                   [pc |-> "idle", todo |-> {}]}
    /\ clean' = IF ~device'[o] /\ ~profile /\ ~Flies(o)
                THEN clean \cup {o} ELSE clean
    /\ UNCHANGED <<authority, task, seen, profile, aborted>>

(* OFF or zero, past every guard; an error is noted and the next one sent. *)
SendOff(o) ==
    /\ AbortDue(o)
    /\ Takes([out |-> o, on |-> FALSE])
    /\ abort' = [abort EXCEPT !.todo = @ \ {o}]
    /\ clean' = IF ~device'[o] /\ ~profile /\ ~Flies(o)
                THEN clean \cup {o} ELSE clean
    /\ UNCHANGED <<authority, task, seen, profile, aborted>>

(* The end of the profile is asked for if a profile is on and its device   *)
(* known, and takes effect or not.                                         *)
EndProfile ==
    /\ abort.pc = "first" /\ abort.todo = {}
    /\ profile' \in {FALSE, profile}
    /\ abort' = [pc |-> "second", todo |-> Outputs]
    /\ UNCHANGED <<authority, task, device, seen, history>>

(* Mutant: the latch keeps the source as the runtime spells it.            *)
RaiseLatchUnderSource ==
    /\ abort.pc = "second" /\ abort.todo = {}
    /\ latch' = source
    /\ abort' = [pc |-> "saving", todo |-> {}]
    /\ UNCHANGED <<source, evidence, permit, lockout, task, brewzilla, history>>

(* Mutant: ABORT relies on its lockout alone.                              *)
NeverRaiseLatch ==
    /\ abort.pc = "second" /\ abort.todo = {}
    /\ abort' = [pc |-> "saving", todo |-> {}]
    /\ UNCHANGED <<authority, task, brewzilla, history>>

(* The latch names the source that the runtime has by now, which for RAPT  *)
(* may have gone with its profile.                                         *)
RaiseLatch ==
    /\ abort.pc = "second" /\ abort.todo = {}
    /\ latch' \in IF source = "rapt" THEN {"rapt", "other"} ELSE {"other"}
    /\ abort' = [pc |-> "saving", todo |-> {}]
    /\ UNCHANGED <<source, evidence, permit, lockout, task, brewzilla, history>>

(* Storage has answered; what waits for a confirmation is dropped.         *)
AbortReturns ==
    /\ abort.pc = "saving"
    /\ abort' = [pc |-> "idle", todo |-> {}]
    /\ UNCHANGED <<authority, task, brewzilla, history>>

(* 600 seconds later.  Assumed longer than ABORT's own commands take.      *)
LockoutExpires ==
    /\ lockout /\ abort.pc \in {"idle", "saving"}
    /\ lockout' = FALSE
    /\ UNCHANGED <<source, evidence, permit, latch, abort, task, brewzilla,
                   history>>

-----------------------------------------------------------------------------
(* The operator, the RAPT profile, the readback                            *)

Start ==
    /\ ~permit /\ latch = "off"
    /\ source = "rapt" => evidence = "live"
    /\ permit' = TRUE
    /\ aborted' = FALSE /\ clean' = {}
    /\ UNCHANGED <<source, evidence, latch, lockout, abort, task, brewzilla>>

ReadOnlyOn ==
    /\ permit
    /\ permit' = FALSE
    /\ UNCHANGED <<source, evidence, latch, lockout, abort, task, brewzilla,
                   history>>

Rearm ==
    /\ ~permit /\ latch # "off"
    /\ latch' = "off"
    /\ UNCHANGED <<source, evidence, permit, lockout, abort, task, brewzilla,
                   history>>

(* A profile started at the controller is the operator's own doing.        *)
ProfileStarts ==
    /\ source = "rapt" /\ ~profile
    /\ profile' = TRUE
    /\ clean' = {}
    /\ UNCHANGED <<authority, abort, task, device, seen, aborted>>

ProfileMoves(o) ==
    /\ profile
    /\ \E v \in BOOLEAN : device' = [device EXCEPT ![o] = v]
    /\ UNCHANGED <<authority, abort, task, seen, profile, history>>

EvidenceMoves ==
    /\ source = "rapt"
    /\ evidence' \in {"none", "stopped"} \cup (IF profile THEN {"live"} ELSE {})
    /\ UNCHANGED <<source, permit, latch, lockout, abort, task, brewzilla,
                   history>>

ReadBack ==
    /\ seen' = device
    /\ UNCHANGED <<authority, abort, task, device, profile, history>>

Serve(t) == Land(t) \/ Answer(t) \/ Recorded(t)

Abort ==
    \/ \E o \in Outputs : SendOff(o)
    \/ EndProfile \/ RaiseLatch \/ AbortReturns

Next ==
    \/ \E t \in Tasks : Tick(t) \/ SafeDown(t) \/ Circulate(t) \/ ApplyAdvice(t) \/ Serve(t)
    \/ Press \/ Abort \/ LockoutExpires
    \/ Start \/ ReadOnlyOn \/ Rearm
    \/ ProfileStarts \/ EvidenceMoves \/ ReadBack
    \/ \E o \in Outputs : ProfileMoves(o)

(* What is awaited answers or raises; nothing is assumed of the operator,  *)
(* the ticks or the readback.                                              *)
Spec == Init /\ [][Next]_vars /\ WF_vars(Abort)

-----------------------------------------------------------------------------
(* Properties                                                              *)

(* The type invariant.                                                     *)
TypeOK ==
    /\ source \in {"rapt", "brewfather", "manual"}
    /\ evidence \in {"none", "stopped", "live"}
    /\ permit \in BOOLEAN /\ latch \in {"off", "rapt", "other"}
    /\ lockout \in BOOLEAN
    /\ abort \in [pc : {"idle", "first", "second", "saving"},
                  todo : SUBSET Outputs]
    /\ task \in [Tasks -> [pc : {"idle", "plan", "recording", "safe_down",
                                 "circulate", "enforce", "advice"},
                           todo : SUBSET Command,
                           flying : Command \cup {NoCommand},
                           sent : BOOLEAN]]
    /\ device \in [Outputs -> BOOLEAN] /\ seen \in [Outputs -> BOOLEAN]
    /\ profile \in BOOLEAN
    /\ aborted \in BOOLEAN /\ clean \subseteq Outputs

(* An output that ABORT's OFF reached, with no profile running and nothing *)
(* positive on its way to it, stays off until the next START, whatever     *)
(* handlers were in the middle of their writes; the operator's own APPLY   *)
(* of an advice and his own start of a profile apart.                      *)
StaysOff == \A o \in clean : ~device[o]

(* From the press of ABORT to the next START no handler sends a further    *)
(* positive command, however far through its writes it was.                *)
NothingNewAfterAbort ==
    [][\A t \in Tasks :
          (/\ task'[t].flying.on /\ task'[t].flying # task[t].flying
           /\ task'[t].pc # "advice") => ~aborted]_vars

(* ABORT comes as far as its latch, whichever of its commands fail and     *)
(* whatever happens meanwhile: nothing but the latch outlives the lockout. *)
AbortLatches == (abort.pc \in {"first", "second"}) ~> (latch # "off")

(* Not so: a plan that ABORT overtook reasserts OFF when it is through and *)
(* something it or another left is on.                                     *)
RaceIsReasserted ==
    [][\A t \in Tasks :
          (/\ task[t].pc = "recording" /\ task[t].sent
           /\ lockout /\ permit /\ source # "rapt"
           /\ \E o \in Outputs : device[o] /\ seen[o])
          => task'[t].pc # "idle"]_vars
=============================================================================
