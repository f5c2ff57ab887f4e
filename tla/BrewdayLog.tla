----------------------------- MODULE BrewdayLog -----------------------------
(***************************************************************************)
(* The brewday's flight recorder: which log file the rows of a brewday go  *)
(* to. Two listeners look at the same events. The boundary guard arms when *)
(* the entities show that nobody owns a brewday, and rotates at the start  *)
(* of the next Manual or Brewfather session; the autostart starts a log    *)
(* when a brewday is under way and rotates when the last row it finds is a *)
(* finished brewday's. Both decide first and then wait for the write lock, *)
(* which a start, a row or a stop holds while its file is written.         *)
(*                                                                         *)
(* Of a row only what the two look for is kept: what it says of the        *)
(* runtime; a file is a session's log, not the one of a row without one.   *)
(* The rows themselves, their merging and their archive's errors are left  *)
(* out; so are an ABORT's row, and the loss of a source that is live,      *)
(* which shows no end of a brewday.                                        *)
(***************************************************************************)
EXTENDS Naturals

CONSTANTS
    None,
    MaxFiles,   \* bound: log files
    MaxTasks,   \* bound: tasks that wait at a time
    MaxFaults   \* bound: restarts, lost Brewfather, the operator's services

ASSUME LogAssumption ==
    /\ MaxFiles \in Nat \ {0} /\ MaxTasks \in Nat /\ MaxFaults \in Nat
    /\ None \notin Nat /\ None \notin {"start", "rotate", "row", "stop", "clear"}

VARIABLES
    man,      \* the Manual session's state
    bf,       \* Brewfather's batch; "ready" before its Play, "done" after its last step
    bfUp,     \* Brewfather's entity is available
    rapt,     \* a RAPT profile runs
    shown,    \* what BA's own entities show: source, runtime state, manual state
    log,      \* the recorder: active, its file, what its last row says
    files,    \* log files made
    saved,    \* the stored copy
    boundary, \* the armed boundary: the file it was armed for (0: without one), or None
    rotate,   \* the boundary guard's task
    checks,   \* the autostart's tasks that have to look, by an event or a timer
    starts,   \* starts that wait for the write lock
    rows,     \* rows that wait for it
    writer,   \* who writes the archive under the lock
    faults,
    due,      \* a session began at this file's armed boundary (for the properties)
    calm,     \* BA has shown that nobody brews since the file was made (likewise)
    owned     \* a session has been live since before the file's last row (likewise)

world == <<man, bf, bfUp, rapt>>
tasks == <<rotate, checks, starts, rows, writer>>
ghosts == <<due, calm, owned>>
vars == <<world, shown, log, files, saved, boundary, tasks, faults, ghosts>>

ManStates == {"idle", "prepared", "running", "completed"}
BfPhases == {"inactive", "planning", "ready", "live", "done", "fermenting"}
Ops == {"start", "rotate", "row"}
Entities == {"source", "state", "manual"}

-----------------------------------------------------------------------------
(* What the runtime is, and what the entities show of it                   *)

Batch == IF bfUp THEN bf ELSE "inactive"

Owner == IF rapt THEN "RAPT Profile"
         ELSE IF Batch \in {"live", "done"} THEN "Brewfather Brew Tracker"
         ELSE IF man # "idle" THEN "Manual Brewday" ELSE "None"

(* The state of the owner, as far as it matters: idle, active, completed.  *)
Over == IF Owner = "Brewfather Brew Tracker" THEN bf = "done"
        ELSE Owner = "Manual Brewday" /\ man = "completed"
State == IF Owner = "None" THEN "idle" ELSE IF Over THEN "completed" ELSE "active"

Live(e) == IF e = "source" THEN Owner ELSE IF e = "state" THEN State ELSE man

RowNow == IF State = "completed" THEN "completed"
          ELSE IF Owner = "None" THEN "nobody" ELSE "busy"

LiveSession == RowNow = "busy" /\ Owner # "RAPT Profile"
ManualActive(m) == m \in {"prepared", "running"}
HotSide(b) == b \in {"planning", "ready", "live", "done"}   \* planning or brewing
BrewfatherActive == Batch \in {"live", "done"}

NoLog == [active |-> FALSE, file |-> 0, last |-> "none"]

Init ==
    /\ man = "idle" /\ bf = "inactive" /\ bfUp = TRUE /\ rapt = FALSE
    /\ shown = [source |-> "None", state |-> "idle", manual |-> "idle"]
    /\ log = NoLog /\ files = 0 /\ saved = NoLog /\ boundary = None
    /\ rotate = "idle" /\ checks = 0 /\ starts = 0 /\ rows = 0 /\ writer = None
    /\ faults = 0 /\ due = FALSE /\ calm = FALSE /\ owned = FALSE

Fault == faults < MaxFaults /\ faults' = faults + 1
Room == checks + starts + rows < MaxTasks

-----------------------------------------------------------------------------
(* The boundary guard                                                      *)

(* Mutant: nobody brews as soon as the runtime's state says so.            *)
TerminalByState ==
    shown'.state \in {"idle", "completed"} /\ ~HotSide(Batch')

Terminal ==
    /\ shown'.source = "None"
    /\ shown'.state \in {"idle", "completed"}
    /\ shown'.manual \in {"idle", "completed"}
    /\ ~HotSide(Batch')

(* It stays armed for the file it was armed for; without one, for any.     *)
Arm == boundary' = IF boundary = None /\ Terminal THEN log.file ELSE boundary

(* The start of a session: the Manual one is prepared or becomes the       *)
(* source, Brewfather's batch comes to planning or brewing.                *)
SessionStarts ==
    \/ /\ shown.manual \in {"idle", "completed"} /\ shown'.manual = "prepared"
    \/ /\ shown.source = "None" /\ shown'.source = "Manual Brewday"
    \/ /\ ~HotSide(Batch) /\ HotSide(Batch')

NoteSession ==
    due' = (due \/ (/\ SessionStarts /\ rotate # "starting"
                   /\ log.active /\ boundary' \in {0, log.file}))

(* An event: first the boundary's listener, then the autostart's.          *)
Event ==
    /\ Room /\ checks' = checks + 1
    /\ Arm /\ calm' = (calm \/ Terminal)
    /\ rotate' = IF SessionStarts /\ rotate = "idle" THEN "wanted" ELSE rotate
    /\ NoteSession
    /\ UNCHANGED <<starts, rows, writer, log, files, saved>>

(* Mutant: a boundary that was armed without a log is for no log.          *)
RotateLooksExact ==
    /\ rotate = "wanted"
    /\ IF log.active /\ boundary = log.file
       THEN rotate' = "starting" /\ UNCHANGED boundary
       ELSE rotate' = "idle" /\ boundary' = None
    /\ UNCHANGED <<world, shown, log, files, saved, checks, starts, rows, writer, faults, ghosts>>

(* Under its own lock. It starts the new log and only then disarms.        *)
RotateLooks ==
    /\ rotate = "wanted"
    /\ IF log.active /\ boundary \in {0, log.file}
       THEN rotate' = "starting" /\ UNCHANGED boundary
       ELSE rotate' = "idle" /\ boundary' = None
    /\ UNCHANGED <<world, shown, log, files, saved, checks, starts, rows, writer, faults, ghosts>>

-----------------------------------------------------------------------------
(* The autostart                                                           *)

LastSessionFinished ==
    log.last = "completed" \/ (log.last = "nobody" /\ boundary # None)

UnderWay ==
    \/ ManualActive(man)
    \/ Owner # "None" /\ State = "active"
    \/ BrewfatherActive
    \/ Batch = "planning"

Allowed == UnderWay /\ (log.active => LastSessionFinished)

(* A check of an event records a row too, if a log is active.              *)
Check ==
    /\ checks > 0 /\ checks' = checks - 1
    /\ starts' = IF Allowed THEN starts + 1 ELSE starts
    /\ rows' = IF Allowed \/ log.active THEN rows + 1 ELSE rows
    /\ UNCHANGED <<world, shown, log, files, saved, boundary, rotate, writer, faults, ghosts>>

(* The watchdog, every 30 s without a log, and the checks after a setup.   *)
TimerChecks ==
    /\ Allowed /\ starts = 0 /\ Room
    /\ starts' = 1 /\ rows' = rows + 1
    /\ UNCHANGED <<world, shown, log, files, saved, boundary, rotate, checks, writer, faults, ghosts>>

(* A tick of BA, and every other producer, records while the log is active.*)
Tick ==
    /\ log.active /\ rows = 0 /\ Room /\ rows' = 1
    /\ UNCHANGED <<world, shown, log, files, saved, boundary, rotate, checks, starts,
                   writer, faults, ghosts>>

-----------------------------------------------------------------------------
(* Under the write lock                                                    *)

(* The start of a log, by the autostart, the guard or the operator.        *)
StartLog ==
    /\ files < MaxFiles /\ files' = files + 1
    /\ log' = [active |-> TRUE, file |-> files', last |-> RowNow]
    /\ due' = FALSE
    /\ calm' = FALSE

(* Nothing that was decided or armed can still rotate the file.            *)
Settled == starts' = 0 /\ boundary = None

Begin(op) ==
    /\ writer = None /\ writer' = op
    /\ \/ /\ op = "start" /\ starts > 0 /\ starts' = starts - 1 /\ UNCHANGED <<rows, rotate>>
          /\ StartLog
       \/ /\ op = "rotate" /\ rotate = "starting" /\ UNCHANGED <<starts, rows, rotate>>
          /\ StartLog
       \/ /\ op = "row" /\ rows > 0 /\ rows' = rows - 1 /\ UNCHANGED <<starts, rotate, due, calm, files>>
          /\ log' = [log EXCEPT !.last = RowNow]
    /\ owned' = (log'.active /\ Settled /\ LiveSession)
    /\ UNCHANGED <<world, shown, saved, boundary, checks, faults>>

(* Mutant: only the session's own start is stored.                         *)
FinishUnsavedRow ==
    /\ writer # None /\ writer' = None
    /\ saved' = IF writer = "row" THEN saved ELSE log
    /\ IF writer = "rotate" THEN rotate' = "idle" /\ boundary' = None
                            ELSE UNCHANGED <<rotate, boundary>>
    /\ UNCHANGED <<world, shown, log, files, checks, starts, rows, faults, ghosts>>

(* The archive's row, and then the store's copy. The guard disarms after.  *)
Finish ==
    /\ writer # None /\ writer' = None
    /\ saved' = log
    /\ IF writer = "rotate" THEN rotate' = "idle" /\ boundary' = None
                            ELSE UNCHANGED <<rotate, boundary>>
    /\ UNCHANGED <<world, shown, log, files, checks, starts, rows, faults, ghosts>>

(* The operator's services: start, a snapshot, stop, clear.                *)
Service ==
    /\ Fault /\ Room /\ writer = None
    /\ \/ starts' = starts + 1 /\ UNCHANGED <<rows, writer, log, files>>
       \/ rows' = rows + 1 /\ UNCHANGED <<starts, writer, log, files>>
       \/ /\ log' = [log EXCEPT !.active = FALSE, !.last = RowNow]
          /\ writer' = "stop" /\ UNCHANGED <<starts, rows, files>>
       \/ /\ log' = NoLog /\ writer' = "clear" /\ UNCHANGED <<starts, rows, files>>
    /\ due' = FALSE /\ calm' = FALSE /\ owned' = FALSE
    /\ UNCHANGED <<world, shown, saved, boundary, rotate, checks>>

-----------------------------------------------------------------------------
(* The brewdays                                                            *)

(* Assumption: people and services are slower than the tasks they start    *)
(* and than BA's entities, which follow within a refresh.                  *)
Quiet ==
    /\ checks = 0 /\ starts = 0 /\ rotate = "idle" /\ writer = None
    /\ \A e \in Entities : shown[e] = Live(e)

Still == UNCHANGED <<shown, log, files, saved, boundary, tasks, calm>> /\ NoteSession
KeepOwned == owned' = (owned /\ LiveSession')

(* The operator's Manual session: prepare, start, finish, reset. It does   *)
(* not begin beside another owner.                                         *)
Manual ==
    /\ Quiet
    /\ \/ man \in {"idle", "completed"} /\ Owner \in {"None", "Manual Brewday"}
          /\ man' = "prepared"
       \/ man = "prepared" /\ Owner = "Manual Brewday" /\ man' = "running"
       \/ man = "running" /\ man' = "completed"
       \/ man # "idle" /\ man' = "idle"
    /\ UNCHANGED <<bf, bfUp, rapt, faults>> /\ Still /\ KeepOwned

(* A RAPT profile starts and ends.                                         *)
Rapt ==
    /\ Quiet /\ rapt' = ~rapt
    /\ UNCHANGED <<man, bf, bfUp, faults>> /\ Still /\ KeepOwned

NextPhase(b) ==
    IF b = "inactive" THEN {"planning", "ready"}
    ELSE IF b = "planning" THEN {"ready", "inactive"}
    ELSE IF b = "ready" THEN {"live"}
    ELSE IF b = "live" THEN {"done"}
    ELSE IF b = "done" THEN {"fermenting"} ELSE {"inactive", "planning"}

(* Brewfather's batch goes on, or its entity is lost and comes back. The   *)
(* last step's end is BA's own inference, and no event of Brewfather's.    *)
Brewfather ==
    /\ Quiet
    /\ \/ bfUp /\ bf' \in NextPhase(bf) /\ UNCHANGED <<bfUp, faults>>
       \/ bfUp /\ bf \in {"planning", "ready"} /\ Fault /\ bfUp' = FALSE /\ UNCHANGED bf
       \/ ~bfUp /\ bfUp' = TRUE /\ UNCHANGED <<bf, faults>>
    /\ UNCHANGED <<man, rapt, shown>>
    /\ IF bf' = "done" /\ bf = "live"
       THEN UNCHANGED <<log, files, saved, boundary, tasks, calm>> /\ NoteSession ELSE Event
    /\ KeepOwned

(* BA's entities follow, each by itself.                                   *)
Publish(e) ==
    /\ shown[e] # Live(e) /\ shown' = [shown EXCEPT ![e] = Live(e)]
    /\ UNCHANGED <<world, faults, owned>> /\ Event

(* Home Assistant restarts: Manual sessions and tasks are gone, and the    *)
(* stored log's last row may arm the boundary.                             *)
Restart ==
    /\ Fault
    /\ man' = "idle" /\ UNCHANGED <<bf, bfUp, rapt>>
    /\ shown' = [source |-> "None", state |-> "idle", manual |-> "idle"]
    /\ log' = saved /\ UNCHANGED <<saved, files>>
    /\ boundary' = IF saved.last \in {"completed", "nobody"} THEN saved.file ELSE None
    /\ rotate' = "idle" /\ checks' = 0 /\ starts' = 0 /\ rows' = 0 /\ writer' = None
    /\ due' = FALSE /\ calm' = FALSE /\ owned' = FALSE

Next ==
    \/ RotateLooks \/ Check \/ TimerChecks \/ Tick
    \/ \E op \in Ops : Begin(op)
    \/ Finish \/ Service
    \/ Manual \/ Rapt \/ Brewfather
    \/ \E e \in Entities : Publish(e)
    \/ Restart

(* Tasks that Home Assistant has scheduled run, and calls return.          *)
Fairness ==
    /\ WF_vars(RotateLooks) /\ WF_vars(Check) /\ WF_vars(Finish)
    /\ \A op \in Ops : SF_vars(Begin(op))

Spec == Init /\ [][Next]_vars /\ Fairness

-----------------------------------------------------------------------------
(* Properties                                                              *)

(* Types; the store is never ahead of the recorder, and a boundary is      *)
(* armed for a file that exists.                                           *)
TypeOK ==
    /\ man \in ManStates /\ bf \in BfPhases /\ bfUp \in BOOLEAN /\ rapt \in BOOLEAN
    /\ log \in [active : BOOLEAN, file : 0 .. MaxFiles,
                last : {"none", "nobody", "completed", "busy"}]
    /\ boundary \in 0 .. files \cup {None}
    /\ rotate \in {"idle", "wanted", "starting"}
    /\ checks + starts + rows <= 2 * MaxTasks
    /\ writer \in Ops \cup {"stop", "clear", None} /\ due \in BOOLEAN
    /\ saved.file <= files /\ (writer = None => saved = log)

(* A Manual or Brewfather session that begins while a boundary is armed for*)
(* the log that is active gets a new one, whatever rows come first.        *)
NextBrewdayRotates == due ~> (~due \/ ~log.active \/ files = MaxFiles)

(* Whoever rotates, it is never out of the log of a live Manual or         *)
(* Brewfather session: a handoff between the two stays in one file.        *)
LiveLogIsKept ==
    [][(log'.file # log.file /\ \E op \in {"start", "rotate"} : Begin(op)) => ~owned]_vars

(* Both: a brewday has one log, and a log one brewday.                     *)
OneBrewdayOneLog == NextBrewdayRotates /\ LiveLogIsKept

(* Not so: once every task is through, a live Manual or Brewfather session *)
(* is logged to a file that no finished brewday's end is in.               *)
NextBrewdayHasItsLog == Quiet /\ rows = 0 /\ log.active /\ LiveSession => ~calm
=============================================================================
