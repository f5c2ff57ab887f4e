------------------------------ MODULE StartGate ------------------------------
(***************************************************************************)
(* Who may let BA touch the BrewZilla, and for how long: the READ-ONLY     *)
(* switch, the operator-verified START transaction, the persisted ABORT    *)
(* latch with its in-memory lockout, REARM, and restarts of Home Assistant *)
(* at any point between two awaits.                                        *)
(*                                                                         *)
(* The event loop is single threaded: a handler is split into actions only *)
(* where it awaits.  The external source is the abstract SourceArbiter.    *)
(* The writes are those of a BA tick; each is checked and issued in one    *)
(* step, because the code checks and dispatches without awaiting.          *)
(***************************************************************************)
EXTENDS SourceArbiter

CONSTANTS
    AbortMayOutlast  \* may ABORT's device calls take longer than the lockout

ASSUME OutlastAssumption == AbortMayOutlast \in BOOLEAN

VARIABLES
    enabled,     \* READ-ONLY store: enabled
    rearmed,     \* READ-ONLY store: rearmed
    shown,       \* the switch as the operator sees it (TRUE is READ-ONLY ON)
    offAudit,    \* callers of turn_off that wait for its audit record
    startPc,     \* the START transaction: "idle", "off", "verify", "rollback"
                 \*   or "reassert"; starting is startPc # "idle"
    startId,     \* session the operator confirmed in that transaction
    started,     \* started_identity
    latch,       \* operator ABORT latch in memory
    latchDisk,   \* operator ABORT latch in storage
    lockout,     \* ABORT lockout in memory, still running
    abortPc,     \* emergency ABORT: "idle", "commands" or "saving"
    rearmSave,   \* REARM waits for its write to storage
    mustStart,   \* history: a START is due before BA may write again
    wrote        \* session a positive command was issued to in this step

switchVars  == <<enabled, rearmed, shown, offAudit>>
startVars   == <<startPc, startId, started>>
abortVars   == <<latch, latchDisk, lockout, abortPc, rearmSave>>
vars == <<sourceVars, switchVars, startVars, abortVars, mustStart, wrote>>

StartPcs == {"idle", "off", "verify", "rollback", "reassert"}
AbortPcs == {"idle", "commands", "saving"}
Callers  == {"start", "operator"}

-----------------------------------------------------------------------------
(* State predicates of the code                                            *)

observing == enabled \/ ~rearmed          \* observation_required
starting  == startPc # "idle"

(***************************************************************************)
(* preflight_snapshot: the conditions on the source and on ABORT that it   *)
(* turns into blocking reasons.  Telemetry, step and target are outside    *)
(* this module: they may make a check fail at any time.                    *)
(***************************************************************************)
SourceVerified(s) == granted /\ accepted = s /\ ~resync /\ ~latch

Init ==
    /\ SourceInit
    /\ enabled = TRUE /\ rearmed = FALSE /\ shown = TRUE /\ offAudit = {}
    /\ startPc = "idle" /\ startId = NoSession /\ started = NoSession
    /\ latch = FALSE /\ latchDisk = FALSE /\ lockout = FALSE
    /\ abortPc = "idle" /\ rearmSave = FALSE
    /\ mustStart = TRUE
    /\ wrote = NoSession

-----------------------------------------------------------------------------
(* READ-ONLY, the two effects its handlers have on the store               *)

(* Mutant: turn_on changes the visible switch and leaves the store alone.  *)
ReadOnlyOnVisibleOnly ==
    /\ UNCHANGED <<enabled, rearmed>> /\ shown' = TRUE
    /\ mustStart' = TRUE

ReadOnlyOn ==
    /\ enabled' = TRUE /\ rearmed' = FALSE /\ shown' = TRUE
    /\ mustStart' = TRUE

(***************************************************************************)
(* async_rearm inside turn_off, up to its first real suspension: BA is     *)
(* armed, and only the audit record is still awaited.                      *)
(***************************************************************************)
Arm(caller) ==
    /\ starting /\ granted /\ ~latch
    /\ enabled' = FALSE /\ rearmed' = TRUE
    /\ offAudit' = offAudit \cup {caller}
    /\ mustStart' = FALSE
    /\ UNCHANGED shown

-----------------------------------------------------------------------------
(* START: async_start_verified                                             *)

StartRequest(s) ==
    /\ startPc = "idle"
    /\ observing
    /\ SourceVerified(s)
    /\ startPc' = "off" /\ startId' = s
    /\ wrote' = NoSession
    /\ UNCHANGED <<sourceVars, switchVars, abortVars, started, mustStart>>

(***************************************************************************)
(* START has called switch.turn_off: the switch validates and arms, ...    *)
(***************************************************************************)
StartTurnsOff ==
    /\ startPc = "off"
    /\ "start" \notin offAudit
    /\ Arm("start")
    /\ startPc' = "verify"
    /\ wrote' = NoSession
    /\ UNCHANGED <<sourceVars, abortVars, startId, started>>

(***************************************************************************)
(* ... or refuses, for a reason of the source or of the telemetry, goes    *)
(* back to READ-ONLY and makes START raise with nothing left to roll back. *)
(***************************************************************************)
StartTurnOffRefused ==
    /\ startPc = "off"
    /\ ReadOnlyOn
    /\ startPc' = "idle" /\ started' = NoSession
    /\ wrote' = NoSession
    /\ UNCHANGED <<sourceVars, abortVars, offAudit, startId>>

(***************************************************************************)
(* turn_off returns to START and START attests the same source again.      *)
(***************************************************************************)
StartSucceeds ==
    /\ startPc = "verify" /\ "start" \in offAudit
    /\ ~observing
    /\ SourceVerified(startId)
    /\ offAudit' = offAudit \ {"start"} /\ shown' = FALSE
    /\ startPc' = "idle" /\ started' = startId
    /\ wrote' = NoSession
    /\ UNCHANGED <<sourceVars, abortVars, enabled, rearmed, startId, mustStart>>

StartFindsReadOnly ==
    /\ startPc = "verify" /\ "start" \in offAudit
    /\ observing
    /\ offAudit' = offAudit \ {"start"} /\ shown' = FALSE
    /\ startPc' = "idle" /\ started' = NoSession
    /\ wrote' = NoSession
    /\ UNCHANGED <<sourceVars, abortVars, enabled, rearmed, startId, mustStart>>

StartRollsBack ==
    /\ startPc = "verify" /\ "start" \in offAudit
    /\ ~observing
    /\ offAudit' = offAudit \ {"start"}
    /\ ReadOnlyOn
    /\ startPc' = "rollback"
    /\ wrote' = NoSession
    /\ UNCHANGED <<sourceVars, abortVars, startId, started>>

(***************************************************************************)
(* turn_on has recorded its audit event: START raises, and its handler     *)
(* switches READ-ONLY on once more if it finds it off.                     *)
(***************************************************************************)
RollbackReturns ==
    /\ startPc = "rollback"
    /\ started' = NoSession
    /\ \/ /\ observing
          /\ startPc' = "idle"
          /\ UNCHANGED <<switchVars, mustStart>>
       \/ /\ ~observing
          /\ ReadOnlyOn
          /\ startPc' = "reassert"
          /\ UNCHANGED offAudit
    /\ wrote' = NoSession
    /\ UNCHANGED <<sourceVars, abortVars, startId>>

ReassertReturns ==
    /\ startPc = "reassert"
    /\ startPc' = "idle"
    /\ wrote' = NoSession
    /\ UNCHANGED <<sourceVars, switchVars, abortVars, startId, started, mustStart>>

(***************************************************************************)
(* The audit record of turn_off fails: its handler restores READ-ONLY.     *)
(***************************************************************************)
OffAuditFails(caller) ==
    /\ caller \in offAudit
    /\ offAudit' = offAudit \ {caller}
    /\ ReadOnlyOn
    /\ IF caller = "start"
       THEN startPc' = "idle" /\ started' = NoSession
       ELSE UNCHANGED <<startPc, started>>
    /\ wrote' = NoSession
    /\ UNCHANGED <<sourceVars, abortVars, startId>>

-----------------------------------------------------------------------------
(* The operator's own use of the switch                                    *)

OperatorOn ==
    /\ ReadOnlyOn
    /\ wrote' = NoSession
    /\ UNCHANGED <<sourceVars, startVars, abortVars, offAudit>>

OperatorTurnsOff ==
    /\ "operator" \notin offAudit
    /\ Arm("operator")
    /\ wrote' = NoSession
    /\ UNCHANGED <<sourceVars, startVars, abortVars>>

OperatorTurnOffRefused ==
    /\ ReadOnlyOn
    /\ wrote' = NoSession
    /\ UNCHANGED <<sourceVars, startVars, abortVars, offAudit>>

OperatorOffReturns ==
    /\ "operator" \in offAudit
    /\ offAudit' = offAudit \ {"operator"} /\ shown' = FALSE
    /\ wrote' = NoSession
    /\ UNCHANGED <<sourceVars, startVars, abortVars, enabled, rearmed,
                   mustStart>>

-----------------------------------------------------------------------------
(* ABORT and REARM                                                         *)

(***************************************************************************)
(* The lockout is set before anything is awaited; the device commands, the *)
(* profile STOP and the second round of commands come before the latch.    *)
(***************************************************************************)
AbortPress ==
    /\ abortPc = "idle"
    /\ abortPc' = "commands" /\ lockout' = TRUE /\ mustStart' = TRUE
    /\ wrote' = NoSession
    /\ UNCHANGED <<sourceVars, switchVars, startVars, latch, latchDisk,
                   rearmSave>>

(* Mutant: the latch is handed to storage but not raised in memory.        *)
AbortLatchesOnDiskOnly ==
    /\ abortPc = "commands"
    /\ abortPc' = "saving" /\ mustStart' = TRUE
    /\ wrote' = NoSession
    /\ UNCHANGED <<sourceVars, switchVars, startVars, latch, latchDisk,
                   lockout, rearmSave>>

AbortLatches ==
    /\ abortPc = "commands"
    /\ abortPc' = "saving" /\ latch' = TRUE /\ mustStart' = TRUE
    /\ wrote' = NoSession
    /\ UNCHANGED <<sourceVars, switchVars, startVars, latchDisk, lockout,
                   rearmSave>>

AbortSaved ==
    /\ abortPc = "saving"
    /\ abortPc' = "idle"
    /\ latchDisk' \in {TRUE, latchDisk}    \* a failed write is reported
    /\ wrote' = NoSession
    /\ UNCHANGED <<sourceVars, switchVars, startVars, latch, lockout,
                   rearmSave, mustStart>>

LockoutExpires ==
    /\ lockout
    /\ AbortMayOutlast \/ abortPc # "commands"
    /\ lockout' = FALSE
    /\ wrote' = NoSession
    /\ UNCHANGED <<sourceVars, switchVars, startVars, latch, latchDisk,
                   abortPc, rearmSave, mustStart>>

(* Mutant: REARM no longer asks for READ-ONLY first.                       *)
RearmPressAnytime ==
    /\ ~rearmSave
    /\ latch' = FALSE /\ rearmSave' = TRUE
    /\ wrote' = NoSession
    /\ UNCHANGED <<sourceVars, switchVars, startVars, latchDisk, lockout,
                   abortPc, mustStart>>

RearmPress ==
    /\ observing
    /\ ~rearmSave
    /\ latch' = FALSE /\ rearmSave' = TRUE
    /\ wrote' = NoSession
    /\ UNCHANGED <<sourceVars, switchVars, startVars, latchDisk, lockout,
                   abortPc, mustStart>>

(* Mutant: the cleared latch is stored as a missing value.                 *)
RearmSavedAsNone ==
    /\ rearmSave
    /\ rearmSave' = FALSE /\ latchDisk' = NoSession
    /\ wrote' = NoSession
    /\ UNCHANGED <<sourceVars, switchVars, startVars, latch, lockout,
                   abortPc, mustStart>>

RearmSaved ==
    /\ rearmSave
    /\ rearmSave' = FALSE /\ latchDisk' = FALSE
    /\ wrote' = NoSession
    /\ UNCHANGED <<sourceVars, switchVars, startVars, latch, lockout,
                   abortPc, mustStart>>

-----------------------------------------------------------------------------
(* The source, BA's ticks, and a restart                                   *)

(***************************************************************************)
(* While ABORT is latched the runtime is not built from the source, so     *)
(* only the freshness of the evidence can change.                          *)
(***************************************************************************)
SourceMoves ==
    /\ SourceNext
    /\ latch => accepted' = accepted /\ resync' = resync
    /\ wrote' = NoSession
    /\ UNCHANGED <<switchVars, startVars, abortVars, mustStart>>

(* Mutant: the last boundary forgets the ABORT latch.                      *)
BaWriteIgnoringLatch ==
    /\ ~observing
    /\ granted /\ ~resync
    /\ ~lockout
    /\ wrote' = accepted
    /\ UNCHANGED <<sourceVars, switchVars, startVars, abortVars, mustStart>>

(***************************************************************************)
(* One positive write of a BA tick at the last boundary.                   *)
(***************************************************************************)
BaWrite ==
    /\ ~observing
    /\ ~latch
    /\ granted /\ ~resync
    /\ ~lockout
    /\ wrote' = accepted
    /\ UNCHANGED <<sourceVars, switchVars, startVars, abortVars, mustStart>>

(***************************************************************************)
(* Home Assistant restarts, wherever the handlers were: memory is lost and *)
(* READ-ONLY comes back on; the latch is read back before the first tick.  *)
(***************************************************************************)
Restart ==
    /\ SourceRestart
    /\ ReadOnlyOn
    /\ offAudit' = {}
    /\ startPc' = "idle" /\ startId' = NoSession /\ started' = NoSession
    /\ latch' = latchDisk /\ lockout' = FALSE
    /\ abortPc' = "idle" /\ rearmSave' = FALSE
    /\ wrote' = NoSession
    /\ UNCHANGED latchDisk

Next ==
    \/ \E s \in Sessions : StartRequest(s)
    \/ StartTurnsOff
    \/ StartTurnOffRefused
    \/ StartSucceeds
    \/ StartFindsReadOnly
    \/ StartRollsBack
    \/ RollbackReturns
    \/ ReassertReturns
    \/ \E c \in Callers : OffAuditFails(c)
    \/ OperatorOn
    \/ OperatorTurnsOff
    \/ OperatorTurnOffRefused
    \/ OperatorOffReturns
    \/ AbortPress
    \/ AbortLatches
    \/ AbortSaved
    \/ LockoutExpires
    \/ RearmPress
    \/ RearmSaved
    \/ SourceMoves
    \/ BaWrite
    \/ Restart

Spec == Init /\ [][Next]_vars

-----------------------------------------------------------------------------
(* Properties                                                              *)

(* Every variable keeps its type (the stores behind READ-ONLY, START and   *)
(* ABORT hold only the values their readers test for).                     *)
TypeOK ==
    /\ SourceTypeOK
    /\ enabled \in BOOLEAN /\ rearmed \in BOOLEAN /\ shown \in BOOLEAN
    /\ offAudit \subseteq Callers
    /\ startPc \in StartPcs
    /\ {startId, started} \subseteq Sessions \cup {NoSession}
    /\ latch \in BOOLEAN /\ latchDisk \in BOOLEAN /\ lockout \in BOOLEAN
    /\ abortPc \in AbortPcs
    /\ rearmSave \in BOOLEAN /\ mustStart \in BOOLEAN
    /\ wrote \in Sessions \cup {NoSession}

(* After ABORT is pressed, after READ-ONLY is switched on and after a      *)
(* restart, BA issues no positive command until a START transaction has    *)
(* validated it again: not through REARM, not when the lockout runs out,   *)
(* not through a START that overlaps the ABORT.                            *)
WriteNeedsStart == wrote # NoSession => ~mustStart

(* Why: until START validates BA again, something holds BA back at every   *)
(* moment, the READ-ONLY switch, the latch, or the lockout of an ABORT     *)
(* that still sends its commands; no gap opens between one and the next.   *)
HeldUntilStart ==
    mustStart => observing \/ latch \/ (abortPc = "commands" /\ lockout)

(* The same promise as a specification: permits, the ABORT lock, and       *)
(* writes only under a permit and no lock.                                 *)
WA == INSTANCE WriteAuthority WITH
          permit <- ~observing, locked <- latch, wrote <- (wrote # NoSession)
ImplementsWriteAuthority == WA!Spec

(* Whenever no switch handler is still at work, a switch that shows        *)
(* READ-ONLY ON tells the truth: BA is observing.                          *)
ShownReadOnlyIsReadOnly == shown /\ offAudit = {} => observing
=============================================================================
