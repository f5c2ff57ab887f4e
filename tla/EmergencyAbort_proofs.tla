------------------------ MODULE EmergencyAbort_proofs ------------------------
(***************************************************************************)
(* What ABORT turned off stays off until the next START, and no handler    *)
(* sends anything positive in between: for any outputs, any plans and any  *)
(* number of handlers at work.                                             *)
(***************************************************************************)
EXTENDS EmergencyAbort, TLAPS

Pcs == {"idle", "plan", "recording", "safe_down", "circulate", "enforce",
        "advice"}
TaskState == [pc : Pcs, todo : SUBSET Command,
              flying : Command \cup {NoCommand}, sent : BOOLEAN]
AbortState == [pc : {"idle", "first", "second", "saving"},
               todo : SUBSET Outputs]

(* A handler may begin a positive write at this moment.                    *)
Open == permit /\ latch = "off" /\ ~lockout

-----------------------------------------------------------------------------
(* What a handler may be found at after it went on to its next await: it   *)
(* has the type of a handler, and awaits a positive write only if nothing  *)
(* forbade it.                                                             *)
LEMMA ProceedResult ==
    ASSUME NEW t \in Tasks, TypeOK, NEW pc \in Pcs,
           NEW todo \in SUBSET Command, NEW sent \in BOOLEAN,
           Proceed(t, pc, todo, sent)
    PROVE  \E r \in TaskState : /\ task' = [task EXCEPT ![t] = r]
                                /\ r.flying.on => Open
<1> DEFINE open == {c \in todo : ~PassedOver(pc, c)}
           Past(c) == {d \in todo \ open : Before(pc, d, c)}
<1>1. NoTask \in TaskState /\ ~NoTask.flying.on
  BY DEF NoTask, NoCommand, TaskState, Pcs
<1>2. CASE Ends(t)
  BY <1>1, <1>2 DEF Ends
<1>3. CASE ~Ends(t)
  <2>1. CASE /\ open = {}
             /\ task' = [task EXCEPT ![t] =
                   [pc |-> "recording", todo |-> {}, flying |-> NoCommand,
                    sent |-> sent \/ \E c \in todo : Reported(pc, c)]]
    <3> DEFINE b == sent \/ \E c \in todo : Reported(pc, c)
               r == [pc |-> "recording", todo |-> {}, flying |-> NoCommand,
                     sent |-> b]
    <3>1. b \in BOOLEAN
      OBVIOUS
    <3>2. task' = [task EXCEPT ![t] = r]
      BY <2>1
    <3> HIDE DEF b
    <3>3. r \in TaskState /\ ~r.flying.on
      BY <3>1 DEF TaskState, Pcs, NoCommand
    <3> QED
      BY <3>2, <3>3
  <2>2. CASE \E c \in open :
                /\ Allowed(c)
                /\ task' = [task EXCEPT ![t] =
                     [pc |-> pc, flying |-> c,
                      todo |-> {d \in todo : Before(pc, c, d)},
                      sent |-> sent \/ \E d \in Past(c) : Reported(pc, d)]]
    <3>1. PICK c \in open :
             /\ Allowed(c)
             /\ task' = [task EXCEPT ![t] =
                     [pc |-> pc, flying |-> c,
                      todo |-> {d \in todo : Before(pc, c, d)},
                      sent |-> sent \/ \E d \in Past(c) : Reported(pc, d)]]
      BY <2>2
    <3>2. c.on => Open
      BY <3>1 DEF PassedOver, Suppressed, Allowed, MayWrite, Open
    <3>3. {d \in todo : Before(pc, c, d)} \in SUBSET Command
      OBVIOUS
    <3>4. (sent \/ \E d \in Past(c) : Reported(pc, d)) \in BOOLEAN
      OBVIOUS
    <3>5. c \in Command
      OBVIOUS
    <3> HIDE DEF open, Past
    <3> DEFINE r == [pc |-> pc, flying |-> c,
                      todo |-> {d \in todo : Before(pc, c, d)},
                      sent |-> sent \/ \E d \in Past(c) : Reported(pc, d)]
    <3>6. r \in TaskState /\ r.flying = c
      BY <3>3, <3>4, <3>5 DEF TaskState
    <3> QED
      BY <3>1, <3>2, <3>6
  <2> QED
    BY <1>3, <2>1, <2>2 DEF Proceed
<1> QED
  BY <1>2, <1>3

(* A handler that moves leaves the others where they are.                  *)
Moved(t) == \E r \in TaskState : /\ task' = [task EXCEPT ![t] = r]
                                 /\ r.flying.on => Open \/ r.pc = "advice"

LEMMA HandlerMoves ==
    ASSUME TypeOK, NEW t \in Tasks,
           \/ Tick(t) \/ SafeDown(t) \/ Circulate(t) \/ ApplyAdvice(t)
           \/ Answer(t) \/ Recorded(t)
    PROVE  Moved(t)
<1>1. NoTask \in TaskState /\ ~NoTask.flying.on
  BY DEF NoTask, NoCommand, TaskState, Pcs
<1>2. Ends(t) => Moved(t)
  BY <1>1 DEF Ends, Moved
<1>3. \A pc \in Pcs, todo \in SUBSET Command, sent \in BOOLEAN :
          Proceed(t, pc, todo, sent) => Moved(t)
  BY ProceedResult DEF Moved
<1>4. AllOff \in SUBSET Command
  <2>1. \A o \in Outputs : [out |-> o, on |-> FALSE] \in Command
    BY DEF Command
  <2> QED
    BY <2>1 DEF AllOff
<1>5. "plan" \in Pcs /\ "safe_down" \in Pcs /\ "circulate" \in Pcs
      /\ "enforce" \in Pcs
  BY DEF Pcs
<1>6. task[t] \in TaskState
  BY DEF TypeOK, TaskState, Pcs
<1>7. CASE Tick(t)
  BY <1>3, <1>4, <1>5, <1>7, PlansAssumption DEF Tick
<1>8. CASE SafeDown(t)
  BY <1>3, <1>5, <1>8, PlansAssumption DEF SafeDown
<1>9. CASE Circulate(t)
  BY <1>3, <1>5, <1>9 DEF Circulate
<1>10. CASE ApplyAdvice(t)
  <2> DEFINE r == [NoTask EXCEPT !.pc = "advice",
                      !.flying = [out |-> "heat_utilization", on |-> TRUE]]
  <2>1. r \in TaskState /\ r.pc = "advice"
    BY <1>10 DEF ApplyAdvice, NoTask, NoCommand, TaskState, Pcs, Command
  <2> QED
    BY <1>10, <2>1 DEF ApplyAdvice, Moved
<1>11. CASE Answer(t)
  <2>1. CASE Ends(t)
    BY <1>2, <2>1
  <2>2. CASE Proceed(t, task[t].pc, task[t].todo,
                     task[t].sent \/ task[t].flying.on)
    <3>1. task[t].pc \in Pcs /\ task[t].todo \in SUBSET Command
          /\ (task[t].sent \/ task[t].flying.on) \in BOOLEAN
      BY <1>6 DEF TaskState
    <3> QED
      BY <1>3, <2>2, <3>1
  <2> QED
    BY <1>11, <2>1, <2>2 DEF Answer
<1>12. CASE Recorded(t)
  BY <1>2, <1>3, <1>4, <1>5, <1>12 DEF Recorded
<1> QED
  BY <1>7, <1>8, <1>9, <1>10, <1>11, <1>12

-----------------------------------------------------------------------------
(* Types                                                                   *)

(* The type invariant, for every instance.                                 *)
THEOREM TypeCorrect == Spec => []TypeOK
<1>1. Init => TypeOK
  <2> SUFFICES ASSUME Init PROVE TypeOK
    OBVIOUS
  <2>1. NoTask \in TaskState
    BY DEF NoTask, NoCommand, TaskState, Pcs
  <2>2. task \in [Tasks -> TaskState]
    BY <2>1 DEF Init
  <2>3. device \in [Outputs -> BOOLEAN] /\ seen \in [Outputs -> BOOLEAN]
    BY DEF Init
  <2>4. abort \in [pc : {"idle", "first", "second", "saving"},
                   todo : SUBSET Outputs]
    BY DEF Init
  <2> QED
    BY <2>2, <2>3, <2>4 DEF Init, TypeOK, TaskState, Pcs
<1>2. TypeOK /\ [Next]_vars => TypeOK'
  <2> SUFFICES ASSUME TypeOK, [Next]_vars PROVE TypeOK'
    OBVIOUS
  <2>1. ASSUME NEW t \in Tasks,
               \/ Tick(t) \/ SafeDown(t) \/ Circulate(t) \/ ApplyAdvice(t)
               \/ Answer(t) \/ Recorded(t)
        PROVE  TypeOK'
    <3>1. task' \in [Tasks -> TaskState]
      BY <2>1, HandlerMoves DEF Moved, TypeOK, TaskState, Pcs
    <3>2. UNCHANGED <<authority, abort, brewzilla, aborted>> /\ clean' \subseteq clean
      BY <2>1 DEF Tick, SafeDown, Circulate, ApplyAdvice, Answer, Recorded, history
    <3> QED
      BY <3>1, <3>2 DEF TypeOK, TaskState, Pcs, authority, brewzilla
  <2>2. ASSUME NEW t \in Tasks, Land(t) PROVE TypeOK'
    BY <2>2 DEF Land, TypeOK, authority, history, Command, NoCommand
  <2>3. CASE Press
    BY <2>3 DEF Press, TypeOK, brewzilla
  <2>4. ASSUME NEW o \in Outputs, SendOff(o) PROVE TypeOK'
    BY <2>4 DEF SendOff, AbortDue, Takes, TypeOK, authority
  <2>5. CASE EndProfile \/ RaiseLatch \/ AbortReturns
    <3>1. /\ [pc |-> "second", todo |-> Outputs] \in AbortState
          /\ [pc |-> "saving", todo |-> {}] \in AbortState
          /\ [pc |-> "idle", todo |-> {}] \in AbortState
      BY DEF AbortState
    <3>2. CASE EndProfile
      BY <3>1, <3>2 DEF EndProfile, TypeOK, AbortState, authority, history
    <3>3. CASE RaiseLatch
      <4>1. latch' \in {"off", "rapt", "other"}
        <5>1. CASE source = "rapt"
          BY <3>3, <5>1 DEF RaiseLatch
        <5>2. CASE source # "rapt"
          BY <3>3, <5>2 DEF RaiseLatch
        <5> QED
          BY <5>1, <5>2
      <4> QED
        BY <3>1, <3>3, <4>1 DEF RaiseLatch, TypeOK, AbortState, brewzilla, history
    <3>4. CASE AbortReturns
      BY <3>1, <3>4 DEF AbortReturns, TypeOK, AbortState, authority, brewzilla,
                        history
    <3> QED
      BY <2>5, <3>2, <3>3, <3>4
  <2>6. CASE LockoutExpires \/ Start \/ ReadOnlyOn \/ Rearm
    BY <2>6 DEF LockoutExpires, Start, ReadOnlyOn, Rearm, TypeOK, brewzilla,
                history
  <2>7. CASE ProfileStarts \/ EvidenceMoves \/ ReadBack
    BY <2>7 DEF ProfileStarts, EvidenceMoves, ReadBack, TypeOK, authority,
                brewzilla, history
  <2>8. ASSUME NEW o \in Outputs, ProfileMoves(o) PROVE TypeOK'
    BY <2>8 DEF ProfileMoves, TypeOK, authority, history
  <2>9. CASE UNCHANGED vars
    BY <2>9 DEF vars, authority, brewzilla, history, TypeOK
  <2> QED
    BY <2>1, <2>2, <2>3, <2>4, <2>5, <2>6, <2>7, <2>8, <2>9
       DEF Next, Serve, Abort
<1> QED
  BY <1>1, <1>2, PTL DEF Spec

-----------------------------------------------------------------------------
(* What holds BA back after an ABORT: its lockout until the latch is up,   *)
(* then the latch until the operator, under READ-ONLY, takes it away; only *)
(* START ends READ-ONLY.                                                   *)
Bound == aborted \/ clean # {}

Hold ==
    /\ abort.pc \in {"first", "second"} => lockout
    /\ Bound /\ abort.pc \in {"idle", "saving"} => latch # "off" \/ ~permit

(* Nothing positive is on its way to an output that ABORT turned off.      *)
Quiet ==
    /\ \A o \in clean : ~device[o] /\ ~Flies(o)
    /\ clean # {} => ~profile

IInv == TypeOK /\ Hold /\ Quiet

LEMMA HeldBack == TypeOK /\ Hold /\ Bound => ~Open
  BY DEF TypeOK, Hold, Open

(* A handler's step cannot put anything positive on its way to what ABORT  *)
(* turned off.                                                             *)
LEMMA HandlerKeepsQuiet ==
    ASSUME IInv, NEW t \in Tasks,
           \/ Tick(t) \/ SafeDown(t) \/ Circulate(t) \/ ApplyAdvice(t)
           \/ Answer(t) \/ Recorded(t)
    PROVE  \A o \in clean' : ~device'[o] /\ ~Flies(o)'
<1>1. UNCHANGED <<device, profile>> /\ clean' \subseteq clean
  BY DEF Tick, SafeDown, Circulate, ApplyAdvice, Answer, Recorded, history,
         brewzilla
<1> SUFFICES ASSUME NEW o \in clean' PROVE ~Flies(o)'
  BY <1>1 DEF IInv, Quiet
<1>2. ~Flies(o) /\ o \in clean
  BY <1>1 DEF IInv, Quiet
<1>3. ~Open
  BY <1>2, HeldBack DEF IInv, Bound
<1>4. CASE ApplyAdvice(t)
  BY <1>2, <1>4 DEF ApplyAdvice, Flies, IInv, TypeOK, NoTask
<1>5. CASE ~ApplyAdvice(t)
  <2>1. CASE Ends(t)
    BY <1>2, <2>1 DEF Ends, Flies, IInv, TypeOK, NoTask, NoCommand
  <2>2. ASSUME NEW pc \in Pcs, NEW todo \in SUBSET Command, NEW sent \in BOOLEAN,
               Proceed(t, pc, todo, sent)
        PROVE  ~Flies(o)'
    <3>1. PICK r \in TaskState : task' = [task EXCEPT ![t] = r] /\ ~r.flying.on
      BY <2>2, <1>3, ProceedResult DEF IInv
    <3> SUFFICES ASSUME NEW u \in Tasks,
                        task'[u].flying = [out |-> o, on |-> TRUE]
                 PROVE  FALSE
      BY DEF Flies
    <3>2. CASE u = t
      <4>1. task'[u].flying = r.flying
        BY <3>1, <3>2 DEF IInv, TypeOK
      <4> QED
        BY <3>1, <4>1
    <3>3. CASE u # t
      BY <1>2, <3>1, <3>3 DEF Flies, IInv, TypeOK
    <3> QED
      BY <3>2, <3>3
  <2>3. AllOff \in SUBSET Command
    <3>1. \A p \in Outputs : [out |-> p, on |-> FALSE] \in Command
      BY DEF Command
    <3> QED
      BY <3>1 DEF AllOff
  <2>4. "plan" \in Pcs /\ "safe_down" \in Pcs /\ "circulate" \in Pcs
        /\ "enforce" \in Pcs
    BY DEF Pcs
  <2>5. CASE Tick(t) \/ SafeDown(t) \/ Circulate(t)
    BY <2>2, <2>3, <2>4, <2>5, PlansAssumption DEF Tick, SafeDown, Circulate
  <2>6. CASE Answer(t)
    <3>1. task[t] \in TaskState
      BY DEF IInv, TypeOK, TaskState, Pcs
    <3>2. task[t].pc \in Pcs /\ task[t].todo \in SUBSET Command
          /\ (task[t].sent \/ task[t].flying.on) \in BOOLEAN
      BY <3>1 DEF TaskState
    <3> QED
      BY <2>1, <2>2, <2>6, <3>2 DEF Answer
  <2>7. CASE Recorded(t)
    BY <2>1, <2>2, <2>3, <2>4, <2>7 DEF Recorded
  <2> QED
    BY <1>5, <2>5, <2>6, <2>7
<1> QED
  BY <1>4, <1>5

LEMMA InvariantKept == IInv /\ [Next]_vars => (Hold /\ Quiet)'
<1> SUFFICES ASSUME IInv, [Next]_vars PROVE Hold' /\ Quiet'
  OBVIOUS
<1>1. ASSUME NEW t \in Tasks,
             \/ Tick(t) \/ SafeDown(t) \/ Circulate(t) \/ ApplyAdvice(t)
             \/ Answer(t) \/ Recorded(t)
      PROVE  Hold' /\ Quiet'
  <2>1. UNCHANGED <<authority, abort, brewzilla, aborted>> /\ clean' \subseteq clean
    BY <1>1 DEF Tick, SafeDown, Circulate, ApplyAdvice, Answer, Recorded, history
  <2>2. Hold'
    BY <2>1 DEF IInv, Hold, Bound, authority
  <2>3. clean' # {} => ~profile'
    BY <2>1 DEF IInv, Quiet, brewzilla
  <2>4. \A o \in clean' : ~device'[o] /\ ~Flies(o)'
    BY <1>1, HandlerKeepsQuiet
  <2> QED
    BY <2>2, <2>3, <2>4 DEF Quiet
<1>2. ASSUME NEW t \in Tasks, Land(t) PROVE Hold' /\ Quiet'
  <2>1. Hold'
    BY <1>2 DEF Land, IInv, Hold, Bound, authority, history
  <2>2. UNCHANGED <<task, clean, profile>>
    BY <1>2 DEF Land, history
  <2> DEFINE c == task[t].flying
  <2>3. c \in Command /\ device' = [device EXCEPT ![c.out] = c.on]
    BY <1>2 DEF Land, IInv, TypeOK
  <2>4. ASSUME NEW o \in clean PROVE ~device'[o]
    <3>1. ~device[o] /\ ~Flies(o) /\ o \in Outputs
      BY <2>4 DEF IInv, Quiet, TypeOK
    <3>2. c = [out |-> c.out, on |-> c.on] /\ c.on \in BOOLEAN
      BY <2>3 DEF Command
    <3>3. ~(c.on /\ c.out = o)
      BY <3>1, <3>2 DEF Flies
    <3> QED
      BY <2>3, <3>1, <3>3 DEF IInv, TypeOK
  <2> QED
    BY <2>1, <2>2, <2>4 DEF IInv, Quiet, Flies
<1>3. CASE Press
  BY <1>3 DEF Press, IInv, Hold, Bound, Quiet, Flies, brewzilla
<1>4. ASSUME NEW o \in Outputs, SendOff(o) PROVE Hold' /\ Quiet'
  <2>1. UNCHANGED <<task, profile, aborted, latch, permit, lockout>>
    BY <1>4 DEF SendOff, authority
  <2>2. abort.pc \in {"first", "second"} /\ abort'.pc = abort.pc
    BY <1>4 DEF SendOff, AbortDue, IInv, TypeOK
  <2>3. Hold'
    BY <2>1, <2>2 DEF IInv, Hold
  <2>4. device' \in {device, [device EXCEPT ![o] = FALSE]}
    BY <1>4 DEF SendOff, Takes
  <2>5. clean' = clean \/ (clean' = clean \cup {o} /\ ~device'[o] /\ ~profile
                                                /\ ~Flies(o))
    BY <1>4 DEF SendOff
  <2>6. ASSUME NEW p \in clean' PROVE ~device'[p] /\ ~Flies(p) /\ ~profile
    <3>1. CASE p \in clean
      <4>1. ~device[p] /\ ~Flies(p) /\ ~profile /\ p \in Outputs
        BY <3>1 DEF IInv, Quiet, TypeOK
      <4>2. device \in [Outputs -> BOOLEAN]
        BY DEF IInv, TypeOK
      <4>3. CASE device' = device
        BY <4>1, <4>3
      <4>4. CASE device' = [device EXCEPT ![o] = FALSE]
        BY <4>1, <4>2, <4>4
      <4> QED
        BY <2>4, <4>1, <4>3, <4>4
    <3>2. CASE p \notin clean
      BY <2>5, <2>6, <3>2
    <3> QED
      BY <3>1, <3>2
  <2> QED
    BY <2>1, <2>3, <2>6 DEF Quiet, Flies
<1>5. CASE EndProfile
  <2>1. UNCHANGED <<permit, latch, lockout, task, device, aborted, clean>>
    BY <1>5 DEF EndProfile, authority, history
  <2>2. abort.pc = "first" /\ abort'.pc = "second" /\ profile' \in {FALSE, profile}
    BY <1>5 DEF EndProfile
  <2>3. Hold'
    BY <2>1, <2>2 DEF IInv, Hold, Bound
  <2>4. clean # {} => ~profile'
    <3>1. CASE profile' = FALSE
      BY <3>1
    <3>2. CASE profile' = profile
      BY <3>2 DEF IInv, Quiet
    <3> QED
      BY <2>2, <3>1, <3>2
  <2>5. Quiet'
    BY <2>1, <2>4 DEF IInv, Quiet, Flies
  <2> QED
    BY <2>3, <2>5
<1>6. CASE RaiseLatch
  <2>1. latch' # "off"
    <3>1. CASE source = "rapt"
      BY <1>6, <3>1 DEF RaiseLatch
    <3>2. CASE source # "rapt"
      BY <1>6, <3>2 DEF RaiseLatch
    <3> QED
      BY <3>1, <3>2
  <2> QED
    BY <1>6, <2>1 DEF RaiseLatch, IInv, Hold, Bound, Quiet, Flies, brewzilla,
                      history
<1>7. CASE AbortReturns \/ LockoutExpires
  BY <1>7 DEF AbortReturns, LockoutExpires, IInv, Hold, Bound, Quiet, Flies,
              authority, brewzilla, history
<1>8. CASE Start
  BY <1>8 DEF Start, IInv, Hold, Bound, Quiet, Flies, brewzilla
<1>9. CASE ReadOnlyOn \/ Rearm
  BY <1>9 DEF ReadOnlyOn, Rearm, IInv, Hold, Bound, Quiet, Flies, brewzilla,
              history
<1>10. CASE ProfileStarts
  BY <1>10 DEF ProfileStarts, IInv, Hold, Bound, Quiet, Flies, authority
<1>11. CASE EvidenceMoves \/ ReadBack
  BY <1>11 DEF EvidenceMoves, ReadBack, IInv, Hold, Bound, Quiet, Flies,
               authority, brewzilla, history
<1>12. ASSUME NEW o \in Outputs, ProfileMoves(o) PROVE Hold' /\ Quiet'
  BY <1>12 DEF ProfileMoves, IInv, Hold, Bound, Quiet, Flies, authority, history
<1>13. CASE UNCHANGED vars
  BY <1>13 DEF vars, IInv, Hold, Bound, Quiet, Flies, authority, brewzilla,
               history
<1> QED
  BY <1>1, <1>2, <1>3, <1>4, <1>5, <1>6, <1>7, <1>8, <1>9, <1>10, <1>11,
     <1>12, <1>13 DEF Next, Serve, Abort

LEMMA Invariant == Spec => []IInv
<1>1. Init => Hold /\ Quiet
  BY DEF Init, Hold, Bound, Quiet
<1> QED
  BY <1>1, InvariantKept, TypeCorrect, PTL DEF IInv, Spec

-----------------------------------------------------------------------------
(* The properties                                                          *)

(* StaysOff: for any plans, any outputs and any number of handlers that    *)
(* ABORT finds in the middle of their writes.                              *)
THEOREM TurnedOffStaysOff == Spec => []StaysOff
<1>1. IInv => StaysOff
  BY DEF IInv, Quiet, StaysOff
<1> QED
  BY <1>1, Invariant, PTL

(* NothingNewAfterAbort: the step in which a positive write begins is one  *)
(* of a handler's that nothing holds back.                                 *)
THEOREM NothingNew == Spec => NothingNewAfterAbort
<1> DEFINE A(t) == (/\ task'[t].flying.on /\ task'[t].flying # task[t].flying
                    /\ task'[t].pc # "advice") => ~aborted
<1>1. ASSUME IInv, Next, NEW t \in Tasks PROVE A(t)
  <2>1. CASE task' = task
    BY <2>1
  <2>2. ASSUME NEW u \in Tasks,
               \/ Tick(u) \/ SafeDown(u) \/ Circulate(u) \/ ApplyAdvice(u)
               \/ Answer(u) \/ Recorded(u)
        PROVE  A(t)
    <3>1. Moved(u)
      BY <1>1, <2>2, HandlerMoves DEF IInv
    <3>2. aborted => ~Open
      BY <1>1, HeldBack DEF IInv, Bound
    <3> QED
      BY <1>1, <3>1, <3>2 DEF Moved, IInv, TypeOK
  <2>3. \/ task' = task
        \/ \E u \in Tasks : \/ Tick(u) \/ SafeDown(u) \/ Circulate(u)
                            \/ ApplyAdvice(u) \/ Answer(u) \/ Recorded(u)
    BY <1>1 DEF Next, Serve, Abort, Land, Press, SendOff, EndProfile,
                RaiseLatch, AbortReturns, LockoutExpires, Start, ReadOnlyOn,
                Rearm, ProfileStarts, ProfileMoves, EvidenceMoves, ReadBack
  <2> QED
    BY <2>1, <2>2, <2>3
<1>2. IInv /\ [Next]_vars => [\A t \in Tasks : A(t)]_vars
  BY <1>1
<1> QED
  BY <1>2, Invariant, PTL DEF Spec, NothingNewAfterAbort
=============================================================================
