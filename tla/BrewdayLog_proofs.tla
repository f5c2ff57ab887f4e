--------------------------- MODULE BrewdayLog_proofs ---------------------------
(***************************************************************************)
(* Proofs about BrewdayLog: types, and that nobody rotates the log of a    *)
(* live session away, for any number of files, tasks and faults.           *)
(***************************************************************************)
EXTENDS BrewdayLog, TLAPS

Lasts == {"none", "nobody", "completed", "busy"}
Logs == [active : BOOLEAN, file : 0 .. MaxFiles, last : Lasts]

(* A task that looks may leave a start and a row; it counts for both.      *)
TypeInv ==
    /\ man \in ManStates /\ bf \in BfPhases /\ bfUp \in BOOLEAN /\ rapt \in BOOLEAN
    /\ DOMAIN shown = Entities
    /\ log \in Logs /\ saved \in Logs
    /\ files \in 0 .. MaxFiles /\ log.file <= files /\ saved.file <= files
    /\ boundary \in 0 .. files \cup {None}
    /\ rotate \in {"idle", "wanted", "starting"}
    /\ checks \in Nat /\ starts \in Nat /\ rows \in Nat
    /\ 2 * checks + starts + rows <= 2 * MaxTasks
    /\ writer \in Ops \cup {"stop", "clear", None}
    /\ due \in BOOLEAN
    /\ writer = None => saved = log

(* The guard starts a log only at a boundary, and until it is through it   *)
(* stays armed. While a live session owns the log its last row is busy, so *)
(* that the autostart does not want another one, and no boundary is armed. *)
KeptInv ==
    /\ rotate = "starting" => boundary # None
    /\ owned => /\ log.active /\ log.last = "busy" /\ LiveSession
                /\ starts = 0 /\ boundary = None

-----------------------------------------------------------------------------
(* What the runtime is                                                     *)

LEMMA RowKinds == RowNow \in Lasts
  BY DEF RowNow, Lasts

(* A live session is Brewfather's running batch, or a Manual one under way.*)
LEMMA LiveSessionIs ==
  ASSUME man \in ManStates, LiveSession
  PROVE  /\ RowNow = "busy" /\ State = "active" /\ Owner # "None"
         /\ HotSide(Batch) \/ man \in {"prepared", "running"}
<1>1. State # "completed" /\ Owner # "None" /\ Owner # "RAPT Profile" /\ RowNow = "busy"
  BY DEF LiveSession, RowNow
<1>2. State = "active" /\ ~Over
  BY <1>1 DEF State
<1>3. Owner = "Brewfather Brew Tracker" => HotSide(Batch)
  BY DEF Owner, HotSide
<1>4. Owner = "Manual Brewday" => man \in {"prepared", "running"}
  BY <1>2 DEF Owner, Over, ManStates
<1>5. Owner \in {"Brewfather Brew Tracker", "Manual Brewday"}
  BY <1>1 DEF Owner
<1> QED
  BY <1>1, <1>2, <1>3, <1>4, <1>5

LEMMA WorldSame ==
  ASSUME UNCHANGED world
  PROVE  /\ Batch' = Batch /\ Owner' = Owner /\ State' = State /\ RowNow' = RowNow
         /\ LiveSession' <=> LiveSession
<1>1. man' = man /\ bf' = bf /\ bfUp' = bfUp /\ rapt' = rapt
  BY DEF world
<1>2. Batch' = Batch
  BY <1>1 DEF Batch
<1>3. Owner' = Owner
  BY <1>1, <1>2 DEF Owner
<1>4. State' = State
  BY <1>1, <1>3 DEF State, Over
<1> QED
  BY <1>2, <1>3, <1>4 DEF RowNow, LiveSession

(* An entity that follows the runtime shows no end while a session lives,  *)
(* whatever the others show still.                                         *)
LEMMA NoEndShown ==
  ASSUME TypeInv, LiveSession, NEW e \in Entities, Publish(e)
  PROVE  ~Terminal
<1>1. UNCHANGED world /\ shown' = [shown EXCEPT ![e] = Live(e)]
  BY DEF Publish
<1>2. shown'[e] = Live(e)
  BY <1>1 DEF TypeInv
<1>3. /\ State = "active" /\ Owner # "None"
      /\ HotSide(Batch) \/ man \in {"prepared", "running"}
  BY LiveSessionIs DEF TypeInv
<1>4. Batch' = Batch
  BY <1>1, WorldSame
<1>5. HotSide(Batch') <=> HotSide(Batch)
  BY <1>4 DEF HotSide
<1>6. CASE e = "source"
  BY <1>2, <1>3, <1>6 DEF Live, Terminal
<1>7. CASE e = "state"
  BY <1>2, <1>3, <1>7 DEF Live, Terminal
<1>8. CASE e = "manual"
  <2>1. shown'.manual = man
    BY <1>2, <1>8 DEF Live
  <2> QED
    BY <1>3, <1>5, <2>1 DEF Terminal
<1> QED
  BY <1>6, <1>7, <1>8 DEF Entities

-----------------------------------------------------------------------------
LEMMA NextTypes == TypeInv /\ [Next]_vars => TypeInv'
<1> SUFFICES ASSUME TypeInv, [Next]_vars PROVE TypeInv'
  OBVIOUS
<1> USE LogAssumption DEF TypeInv
<1>1. ASSUME Event, UNCHANGED <<shown, faults>> \/ DOMAIN shown' = Entities,
             man' \in ManStates, bf' \in BfPhases, bfUp' \in BOOLEAN, rapt' \in BOOLEAN
      PROVE  TypeInv'
  <2>1. boundary' \in 0 .. files' \cup {None}
    BY <1>1 DEF Event, Arm, Logs
  <2>2. rotate' \in {"idle", "wanted", "starting"}
    BY <1>1 DEF Event
  <2>3. checks' \in Nat /\ 2 * checks' + starts' + rows' <= 2 * MaxTasks
    BY <1>1 DEF Event, Room
  <2>4. due' \in BOOLEAN
    BY <1>1, Zenon DEF Event, NoteSession
  <2> QED
    BY <1>1, <2>1, <2>2, <2>3, <2>4 DEF Event
<1>2. CASE RotateLooks
  BY <1>2 DEF RotateLooks, world, ghosts
<1>3. CASE Check
  BY <1>3 DEF Check, world, ghosts
<1>4. CASE TimerChecks
  BY <1>4 DEF TimerChecks, Room, world, ghosts
<1>5. CASE Tick
  BY <1>5 DEF Tick, Room, world, ghosts
<1>6. ASSUME NEW op \in Ops, Begin(op) PROVE TypeInv'
  <2>1. ASSUME StartLog PROVE log' \in Logs /\ files' \in 0 .. MaxFiles /\ log'.file <= files'
                              /\ saved.file <= files' /\ boundary \in 0 .. files' \cup {None}
                              /\ due' \in BOOLEAN
    <3>1. files' = files + 1 /\ files' <= MaxFiles /\ due' = FALSE
      BY <2>1 DEF StartLog
    <3>2. log' = [active |-> TRUE, file |-> files', last |-> RowNow] /\ files' \in 0 .. MaxFiles
      BY <2>1, <3>1 DEF StartLog
    <3>3. log' \in Logs /\ log'.file = files'
      BY <3>2, RowKinds DEF Logs
    <3>4. boundary \in 0 .. files' \cup {None}
      BY <3>1
    <3>5. saved.file <= files' /\ log'.file <= files'
      BY <3>1, <3>3 DEF Logs
    <3> QED
      BY <3>1, <3>2, <3>3, <3>4, <3>5
  <2>2. ASSUME log' = [log EXCEPT !.last = RowNow]
        PROVE  log' \in Logs /\ log'.file = log.file
    BY <2>2, RowKinds DEF Logs
  <2>3. writer' \in Ops /\ writer' # None
    BY <1>6 DEF Begin, Ops
  <2> QED
    BY <1>6, <2>1, <2>2, <2>3 DEF Begin, world
<1>7. CASE Finish
  BY <1>7 DEF Finish, world, ghosts
<1>8. CASE Service
  <2>1. [log EXCEPT !.active = FALSE, !.last = RowNow] \in Logs
        /\ [log EXCEPT !.active = FALSE, !.last = RowNow].file = log.file
    BY RowKinds DEF Logs
  <2>2. NoLog \in Logs /\ NoLog.file = 0
    BY DEF NoLog, Logs, Lasts
  <2>6. \/ log' = log
        \/ writer' = "stop" /\ log' = [log EXCEPT !.active = FALSE, !.last = RowNow]
        \/ writer' = "clear" /\ log' = NoLog
    BY <1>8 DEF Service
  <2>3. log' = log \/ (writer' \in {"stop", "clear"} /\ log' \in Logs /\ log'.file <= files)
    <3>1. 0 <= files
      OBVIOUS
    <3> QED
      BY <2>1, <2>2, <2>6, <3>1
  <2>4. /\ starts' \in Nat /\ rows' \in Nat /\ checks' \in Nat
        /\ 2 * checks' + starts' + rows' <= 2 * MaxTasks
    BY <1>8 DEF Service, Room
  <2>5. log' = log => writer' = writer \/ writer' \in {"stop", "clear"}
    BY <1>8 DEF Service
  <2> QED
    BY <1>8, <2>3, <2>4, <2>5 DEF Service, world
<1>9. CASE Manual
  <2>1. man' \in ManStates /\ due' \in BOOLEAN
    BY <1>9, Zenon DEF Manual, Still, NoteSession, ManStates
  <2> QED
    BY <1>9, <2>1 DEF Manual, Still, tasks
<1>10. CASE Rapt
  <2>1. rapt' \in BOOLEAN /\ due' \in BOOLEAN
    BY <1>10, Zenon DEF Rapt, Still, NoteSession
  <2> QED
    BY <1>10, <2>1 DEF Rapt, Still, tasks
<1>11. CASE Brewfather
  <2>1. bf' \in BfPhases /\ bfUp' \in BOOLEAN
    BY <1>11 DEF Brewfather, NextPhase, BfPhases
  <2>2. ASSUME NoteSession PROVE due' \in BOOLEAN
    BY <2>2, Zenon DEF NoteSession
  <2>3. man' = man /\ rapt' = rapt /\ shown' = shown
    BY <1>11 DEF Brewfather
  <2>4. CASE Event
    BY <1>1, <2>1, <2>3, <2>4
  <2>5. CASE UNCHANGED <<log, files, saved, boundary, tasks, calm>> /\ NoteSession
    BY <2>1, <2>2, <2>3, <2>5 DEF tasks
  <2> QED
    BY <1>11, <2>4, <2>5 DEF Brewfather
<1>12. ASSUME NEW e \in Entities, Publish(e) PROVE TypeInv'
  BY <1>1, <1>12 DEF Publish, world
<1>13. CASE Restart
  <2>1. /\ man' \in ManStates /\ DOMAIN shown' = Entities /\ rotate' = "idle"
        /\ UNCHANGED <<bf, bfUp, rapt, saved, files>> /\ log' = saved
        /\ checks' = 0 /\ starts' = 0 /\ rows' = 0 /\ writer' = None /\ due' = FALSE
    BY <1>13 DEF Restart, ManStates, Entities
  <2>2. saved.file \in 0 .. files
    BY DEF Logs
  <2>3. boundary' \in 0 .. files \cup {None}
    BY <1>13, <2>2 DEF Restart
  <2>4. 2 * 0 + 0 + 0 <= 2 * MaxTasks
    OBVIOUS
  <2> QED
    BY <2>1, <2>3, <2>4
<1>14. CASE UNCHANGED vars
  BY <1>14 DEF vars, world, tasks, ghosts
<1> QED
  BY <1>2, <1>3, <1>4, <1>5, <1>6, <1>7, <1>8, <1>9, <1>10, <1>11, <1>12, <1>13, <1>14 DEF Next

LEMMA LogAlways == Spec => []TypeInv
<1>1. Init => TypeInv
  <2> SUFFICES ASSUME Init PROVE TypeInv
    OBVIOUS
  <2>1. NoLog \in Logs /\ NoLog.file = 0
    BY LogAssumption DEF NoLog, Logs, Lasts
  <2>2. /\ man \in ManStates /\ bf \in BfPhases /\ bfUp \in BOOLEAN /\ rapt \in BOOLEAN
        /\ DOMAIN shown = Entities
    BY DEF Init, ManStates, BfPhases, Entities
  <2>3. /\ log = NoLog /\ saved = NoLog /\ files = 0 /\ boundary = None /\ rotate = "idle"
        /\ checks = 0 /\ starts = 0 /\ rows = 0 /\ writer = None /\ due = FALSE
    BY DEF Init
  <2>4. files \in 0 .. MaxFiles /\ 2 * checks + starts + rows <= 2 * MaxTasks
    BY <2>3, LogAssumption
  <2>5. log \in Logs /\ saved \in Logs /\ log.file <= files /\ saved.file <= files
    BY <2>1, <2>3
  <2>6. checks \in Nat /\ starts \in Nat /\ rows \in Nat
    BY <2>3
  <2> QED
    BY <2>2, <2>3, <2>4, <2>5, <2>6 DEF TypeInv
<1>2. TypeInv /\ [Next]_vars => TypeInv'
  BY NextTypes
<1> QED
  BY <1>1, <1>2, PTL DEF Spec

(* Types, for any bounds: the store is never ahead of the recorder, and a  *)
(* boundary is armed for a file that exists.                               *)
THEOREM TypeCorrect == Spec => []TypeOK
<1>1. TypeInv => TypeOK
  BY LogAssumption DEF TypeInv, TypeOK, Logs, Lasts
<1> QED
  BY <1>1, LogAlways, PTL

-----------------------------------------------------------------------------
LEMMA NextKept == TypeInv /\ KeptInv /\ [Next]_vars => KeptInv'
<1> SUFFICES ASSUME TypeInv, KeptInv, [Next]_vars PROVE KeptInv'
  OBVIOUS
<1>1. ASSUME Event, owned => ~Terminal
      PROVE  /\ rotate' = "starting" => boundary' # None
             /\ owned => boundary' = None
             /\ log' = log /\ starts' = starts
  BY <1>1 DEF Event, Arm, KeptInv
<1>2. CASE RotateLooks
  <2>1. owned' = owned /\ log' = log /\ starts' = starts /\ (LiveSession' <=> LiveSession)
    BY <1>2, WorldSame DEF RotateLooks, ghosts
  <2>2. rotate' = "starting" => boundary' = boundary /\ boundary \in {0, log.file}
    BY <1>2 DEF RotateLooks
  <2>3. 0 # None /\ log.file # None
    BY LogAssumption DEF TypeInv, Logs
  <2>4. boundary = None => boundary' = None
    BY <1>2 DEF RotateLooks
  <2> QED
    BY <2>1, <2>2, <2>3, <2>4 DEF KeptInv
<1>3. CASE Check
  <2>1. owned => ~Allowed
    BY DEF KeptInv, Allowed, LastSessionFinished
  <2>2. starts' = IF Allowed THEN starts + 1 ELSE starts
    BY <1>3 DEF Check
  <2>3. UNCHANGED <<world, log, boundary, rotate, owned>>
    BY <1>3 DEF Check, ghosts
  <2> QED
    BY <2>1, <2>2, <2>3, WorldSame DEF KeptInv
<1>4. CASE TimerChecks
  <2>1. owned => ~Allowed
    BY DEF KeptInv, Allowed, LastSessionFinished
  <2>2. ~owned /\ UNCHANGED <<boundary, rotate, owned>>
    BY <1>4, <2>1 DEF TimerChecks, ghosts
  <2> QED
    BY <2>2 DEF KeptInv
<1>5. CASE Tick
  <2>1. UNCHANGED <<world, log, boundary, rotate, owned, starts>>
    BY <1>5 DEF Tick, ghosts
  <2> QED
    BY <2>1, WorldSame DEF KeptInv
<1>6. ASSUME NEW op \in Ops, Begin(op) PROVE KeptInv'
  <2>1. /\ UNCHANGED <<world, boundary, rotate>>
        /\ owned' => log'.active /\ starts' = 0 /\ boundary = None /\ LiveSession
    BY <1>6 DEF Begin, Settled
  <2>2. log'.last = RowNow
    BY <1>6 DEF Begin, StartLog, TypeInv, Logs
  <2>3. LiveSession => RowNow = "busy"
    BY DEF LiveSession
  <2> QED
    BY <2>1, <2>2, <2>3, WorldSame DEF KeptInv
<1>7. CASE Finish
  <2>1. /\ UNCHANGED <<world, log, owned, starts>>
        /\ (rotate' = "idle" /\ boundary' = None) \/ UNCHANGED <<rotate, boundary>>
    BY <1>7 DEF Finish, ghosts
  <2> QED
    BY <2>1, WorldSame DEF KeptInv
<1>8. CASE Service
  BY <1>8 DEF Service, KeptInv
<1>9. CASE Manual \/ Rapt
  <2>1. UNCHANGED <<log, boundary, rotate, starts>> /\ owned' = (owned /\ LiveSession')
    BY <1>9 DEF Manual, Rapt, Still, tasks, KeepOwned
  <2> QED
    BY <2>1 DEF KeptInv
<1>10. CASE Brewfather
  <2>1. owned' = (owned /\ LiveSession') /\ shown' = shown /\ Quiet
    BY <1>10 DEF Brewfather, KeepOwned
  <2>2. CASE Event
    <3>1. owned => shown.source # "None"
      BY <2>1, LiveSessionIs DEF KeptInv, TypeInv, Quiet, Live, Entities
    <3>2. owned => ~Terminal
      BY <2>1, <3>1 DEF Terminal
    <3> QED
      BY <1>1, <2>1, <2>2, <3>2 DEF KeptInv
  <2>3. CASE UNCHANGED <<log, files, saved, boundary, tasks, calm>>
    BY <2>1, <2>3 DEF KeptInv, tasks
  <2> QED
    BY <1>10, <2>2, <2>3 DEF Brewfather
<1>11. ASSUME NEW e \in Entities, Publish(e) PROVE KeptInv'
  <2>1. owned => ~Terminal
    BY <1>11, NoEndShown DEF KeptInv
  <2>2. Event /\ UNCHANGED <<world, owned>>
    BY <1>11 DEF Publish
  <2> QED
    BY <1>1, <2>1, <2>2, WorldSame DEF KeptInv
<1>12. CASE Restart
  BY <1>12 DEF Restart, KeptInv
<1>13. CASE UNCHANGED vars
  <2>1. UNCHANGED <<world, log, owned, starts, rotate, boundary>>
    BY <1>13 DEF vars, tasks, ghosts
  <2> QED
    BY <2>1, WorldSame DEF KeptInv
<1> QED
  BY <1>2, <1>3, <1>4, <1>5, <1>6, <1>7, <1>8, <1>9, <1>10, <1>11, <1>12, <1>13 DEF Next

(* Neither the guard nor the autostart ever begins a new log out of that   *)
(* of a live Manual or Brewfather session, whatever they decided before,   *)
(* in which order the entities follow and how long the lock is held.       *)
THEOREM LiveLogKept == Spec => LiveLogIsKept
<1>1. Init => KeptInv
  BY DEF Init, KeptInv
<1>2. TypeInv /\ KeptInv =>
        [(log'.file # log.file /\ \E op \in {"start", "rotate"} : Begin(op)) => ~owned]_vars
  BY DEF KeptInv, TypeInv, Begin
<1> QED
  BY <1>1, <1>2, NextKept, LogAlways, PTL DEF Spec, LiveLogIsKept
===============================================================================
