--------------------------- MODULE StartGate_proofs ---------------------------
(***************************************************************************)
(* Proofs about StartGate: types, the promise that BA writes only after a  *)
(* START, and the refinement of WriteAuthority, for every set of sessions. *)
(* And about the records that are checked in the same run: the mash's      *)
(* thermometer, for any places of the brewday; the brewing advice, for any *)
(* scenes, devices and temperatures; the fermenter's pairs, for any limit  *)
(* of the history and as much time as one likes; the equipment's record;   *)
(* the fermentation's, for any settings and limit of what is kept.         *)
(***************************************************************************)
EXTENDS MCStartGate, FiniteSetTheorems, SequenceTheorems, WellFoundedInduction, TLAPS

-----------------------------------------------------------------------------
(* Types                                                                   *)

(* What the source does keeps its types (execution_mode's context).        *)
LEMMA SourceNextType == SourceTypeOK /\ SourceNext => SourceTypeOK'
<1> SUFFICES ASSUME SourceTypeOK, SourceNext PROVE SourceTypeOK'
  OBVIOUS
<1>1. ASSUME NEW s \in Sessions, Accept(s) PROVE SourceTypeOK'
  BY <1>1 DEF SourceTypeOK, Accept
<1>2. ASSUME NEW s \in Sessions, Retain(s) PROVE SourceTypeOK'
  BY <1>2 DEF SourceTypeOK, Retain
<1>3. ASSUME NEW s \in Sessions, Acknowledge(s) PROVE SourceTypeOK'
  BY <1>3 DEF SourceTypeOK, Acknowledge
<1>4. CASE Lose
  BY <1>4 DEF SourceTypeOK, Lose
<1>5. CASE Regain
  BY <1>5 DEF SourceTypeOK, Regain
<1>6. CASE Block
  BY <1>6 DEF SourceTypeOK, Block
<1>7. CASE End
  BY <1>7 DEF SourceTypeOK, End
<1> QED
  BY <1>1, <1>2, <1>3, <1>4, <1>5, <1>6, <1>7 DEF SourceNext

(* A handler that leaves the source alone keeps the source's types.        *)
LEMMA SourceUnchangedType ==
  SourceTypeOK /\ UNCHANGED sourceVars => SourceTypeOK'
  BY DEF SourceTypeOK, sourceVars

(* Every handler of the switch, of START, of ABORT and of REARM, a tick    *)
(* of BA and a restart keep the types.                                     *)
LEMMA NextType == TypeOK /\ [Next]_vars => TypeOK'
<1> SUFFICES ASSUME TypeOK, [Next]_vars PROVE TypeOK'
  OBVIOUS
<1> USE DEF StartPcs, AbortPcs, Callers
<1>1. ASSUME NEW s \in Sessions, StartRequest(s) PROVE TypeOK'
  BY <1>1, SourceUnchangedType DEF TypeOK, StartRequest, switchVars, abortVars
<1>2. CASE StartTurnsOff
  BY <1>2, SourceUnchangedType DEF TypeOK, StartTurnsOff, Arm, abortVars
<1>3. CASE StartTurnOffRefused
  BY <1>3, SourceUnchangedType
  DEF TypeOK, StartTurnOffRefused, ReadOnlyOn, abortVars
<1>4. CASE StartSucceeds
  BY <1>4, SourceUnchangedType DEF TypeOK, StartSucceeds, abortVars
<1>5. CASE StartFindsReadOnly
  BY <1>5, SourceUnchangedType DEF TypeOK, StartFindsReadOnly, abortVars
<1>6. CASE StartRollsBack
  BY <1>6, SourceUnchangedType DEF TypeOK, StartRollsBack, ReadOnlyOn, abortVars
<1>7. CASE RollbackReturns
  BY <1>7, SourceUnchangedType
  DEF TypeOK, RollbackReturns, ReadOnlyOn, switchVars, abortVars
<1>8. CASE ReassertReturns
  BY <1>8, SourceUnchangedType DEF TypeOK, ReassertReturns, switchVars, abortVars
<1>9. ASSUME NEW c \in Callers, OffAuditFails(c) PROVE TypeOK'
  BY <1>9, SourceUnchangedType DEF TypeOK, OffAuditFails, ReadOnlyOn, abortVars
<1>10. CASE OperatorOn
  BY <1>10, SourceUnchangedType
  DEF TypeOK, OperatorOn, ReadOnlyOn, startVars, abortVars
<1>11. CASE OperatorTurnsOff
  BY <1>11, SourceUnchangedType
  DEF TypeOK, OperatorTurnsOff, Arm, startVars, abortVars
<1>12. CASE OperatorTurnOffRefused
  BY <1>12, SourceUnchangedType
  DEF TypeOK, OperatorTurnOffRefused, ReadOnlyOn, startVars, abortVars
<1>13. CASE OperatorOffReturns
  BY <1>13, SourceUnchangedType
  DEF TypeOK, OperatorOffReturns, startVars, abortVars
<1>14. CASE AbortPress
  BY <1>14, SourceUnchangedType DEF TypeOK, AbortPress, switchVars, startVars
<1>15. CASE AbortLatches
  BY <1>15, SourceUnchangedType DEF TypeOK, AbortLatches, switchVars, startVars
<1>16. CASE AbortSaved
  BY <1>16, SourceUnchangedType DEF TypeOK, AbortSaved, switchVars, startVars
<1>17. CASE LockoutExpires
  BY <1>17, SourceUnchangedType DEF TypeOK, LockoutExpires, switchVars, startVars
<1>18. CASE RearmPress
  BY <1>18, SourceUnchangedType DEF TypeOK, RearmPress, switchVars, startVars
<1>19. CASE RearmSaved
  BY <1>19, SourceUnchangedType DEF TypeOK, RearmSaved, switchVars, startVars
<1>20. CASE SourceMoves
  BY <1>20, SourceNextType
  DEF TypeOK, SourceMoves, switchVars, startVars, abortVars
<1>21. CASE BaWrite
  BY <1>21, SourceUnchangedType
  DEF TypeOK, BaWrite, SourceTypeOK, switchVars, startVars, abortVars
<1>22. CASE Restart
  BY <1>22 DEF TypeOK, Restart, ReadOnlyOn, SourceRestart, SourceTypeOK
<1>23. CASE UNCHANGED vars
  BY <1>23, SourceUnchangedType
  DEF TypeOK, vars, switchVars, startVars, abortVars
<1> QED
  BY <1>1, <1>2, <1>3, <1>4, <1>5, <1>6, <1>7, <1>8, <1>9, <1>10, <1>11,
     <1>12, <1>13, <1>14, <1>15, <1>16, <1>17, <1>18, <1>19, <1>20, <1>21,
     <1>22, <1>23
  DEF Next

(* The stores of READ-ONLY, START and ABORT keep their types forever.      *)
THEOREM TypeCorrect == Spec => []TypeOK
<1>1. Init => TypeOK
  BY DEF Init, TypeOK, SourceInit, SourceTypeOK, StartPcs, AbortPcs, Callers
<1> QED
  BY <1>1, NextType, PTL DEF Spec

-----------------------------------------------------------------------------
(* BA writes only after a START                                            *)

(* No handler opens a gap: the next one holds BA back before the last one  *)
(* lets go, as long as ABORT's calls end within the lockout.               *)
LEMMA NextHeld ==
  ASSUME ~AbortMayOutlast
  PROVE  HeldUntilStart /\ [Next]_vars => HeldUntilStart'
<1> SUFFICES ASSUME HeldUntilStart, [Next]_vars PROVE HeldUntilStart'
  OBVIOUS
<1> USE DEF HeldUntilStart, observing
<1>1. ASSUME NEW s \in Sessions, StartRequest(s) PROVE HeldUntilStart'
  BY <1>1 DEF StartRequest, switchVars, abortVars
<1>2. ASSUME StartTurnsOff \/ OperatorTurnsOff PROVE HeldUntilStart'
  BY <1>2 DEF StartTurnsOff, OperatorTurnsOff, Arm
<1>3. ASSUME \/ StartTurnOffRefused \/ StartRollsBack
             \/ OperatorOn \/ OperatorTurnOffRefused \/ Restart
      PROVE  HeldUntilStart'
  BY <1>3 DEF StartTurnOffRefused, StartRollsBack, OperatorOn,
     OperatorTurnOffRefused, Restart, ReadOnlyOn
<1>4. ASSUME StartSucceeds \/ StartFindsReadOnly \/ OperatorOffReturns
      PROVE  HeldUntilStart'
  BY <1>4 DEF StartSucceeds, StartFindsReadOnly, OperatorOffReturns, abortVars
<1>5. CASE RollbackReturns
  BY <1>5 DEF RollbackReturns, ReadOnlyOn, switchVars, abortVars
<1>6. CASE ReassertReturns
  BY <1>6 DEF ReassertReturns, switchVars, abortVars
<1>7. ASSUME NEW c \in Callers, OffAuditFails(c) PROVE HeldUntilStart'
  BY <1>7 DEF OffAuditFails, ReadOnlyOn
<1>8. ASSUME AbortPress \/ AbortLatches \/ AbortSaved PROVE HeldUntilStart'
  BY <1>8 DEF AbortPress, AbortLatches, AbortSaved, switchVars
<1>9. CASE LockoutExpires
  BY <1>9 DEF LockoutExpires, switchVars
<1>10. CASE RearmPress
  <2>1. observing /\ enabled' = enabled /\ rearmed' = rearmed
    BY <1>10 DEF RearmPress, switchVars
  <2> QED
    BY <2>1
<1>11. CASE RearmSaved
  BY <1>11 DEF RearmSaved, switchVars
<1>12. ASSUME SourceMoves \/ BaWrite PROVE HeldUntilStart'
  BY <1>12 DEF SourceMoves, BaWrite, switchVars, abortVars
<1>13. CASE UNCHANGED vars
  BY <1>13 DEF vars, switchVars, abortVars
<1> QED
  BY <1>1, <1>2, <1>3, <1>4, <1>5, <1>6, <1>7, <1>8, <1>9, <1>10, <1>11,
     <1>12, <1>13
  DEF Next

(* From an ABORT, a READ-ONLY or a restart to the next validated START the *)
(* store, the latch or a running lockout holds BA at every moment.         *)
THEOREM HeldThroughout ==
  ASSUME ~AbortMayOutlast
  PROVE  Spec => []HeldUntilStart
<1>1. Init => HeldUntilStart
  BY DEF Init, HeldUntilStart, observing
<1> QED
  BY <1>1, NextHeld, PTL DEF Spec

(* Only a tick of BA issues a positive command, and it does so only while  *)
(* nothing holds BA back.                                                  *)
LEMMA NextWriteNeedsStart ==
  HeldUntilStart /\ WriteNeedsStart /\ [Next]_vars => WriteNeedsStart'
<1> SUFFICES ASSUME HeldUntilStart, WriteNeedsStart, [Next]_vars
             PROVE  WriteNeedsStart'
  OBVIOUS
<1>1. CASE BaWrite
  BY <1>1 DEF BaWrite, HeldUntilStart, WriteNeedsStart
<1>2. CASE UNCHANGED vars
  BY <1>2 DEF vars, WriteNeedsStart
<1>3. CASE Next /\ ~BaWrite
  <2>1. wrote' = NoSession
    BY <1>3 DEF Next, StartRequest, StartTurnsOff, StartTurnOffRefused,
       StartSucceeds, StartFindsReadOnly, StartRollsBack, RollbackReturns,
       ReassertReturns, OffAuditFails, OperatorOn, OperatorTurnsOff,
       OperatorTurnOffRefused, OperatorOffReturns, AbortPress, AbortLatches,
       AbortSaved, LockoutExpires, RearmPress, RearmSaved, SourceMoves, Restart
  <2> QED
    BY <2>1 DEF WriteNeedsStart
<1> QED
  BY <1>1, <1>2, <1>3

(* As long as the device calls of ABORT end within its lockout, no command *)
(* that heats or pumps leaves BA between an ABORT, a READ-ONLY or a        *)
(* restart and the next validated START.                                   *)
THEOREM StartBeforeWrite ==
  ASSUME ~AbortMayOutlast
  PROVE  Spec => []WriteNeedsStart
<1>1. Init => HeldUntilStart /\ WriteNeedsStart
  BY DEF Init, HeldUntilStart, WriteNeedsStart, observing
<1> QED
  BY <1>1, NextHeld, NextWriteNeedsStart, PTL DEF Spec

-----------------------------------------------------------------------------
(* The switch's display                                                    *)

(* When no switch handler is at work, READ-ONLY ON on the display means    *)
(* that BA observes, through every rollback, failed audit and restart.     *)
THEOREM DisplayNeverClaimsReadOnly == Spec => []ShownReadOnlyIsReadOnly
<1> USE DEF ShownReadOnlyIsReadOnly, observing
<1>1. Init => ShownReadOnlyIsReadOnly
  BY DEF Init
<1>2. ShownReadOnlyIsReadOnly /\ [Next]_vars => ShownReadOnlyIsReadOnly'
  <2> SUFFICES ASSUME ShownReadOnlyIsReadOnly, [Next]_vars
               PROVE  ShownReadOnlyIsReadOnly'
    OBVIOUS
  <2>1. ASSUME StartTurnsOff \/ OperatorTurnsOff
        PROVE  ShownReadOnlyIsReadOnly'
    <3>1. offAudit' # {}
      BY <2>1 DEF StartTurnsOff, OperatorTurnsOff, Arm
    <3> QED
      BY <3>1
  <2>2. ASSUME \/ StartTurnOffRefused \/ StartRollsBack \/ OperatorOn
               \/ OperatorTurnOffRefused \/ Restart
               \/ \E c \in Callers : OffAuditFails(c)
        PROVE  ShownReadOnlyIsReadOnly'
    BY <2>2 DEF StartTurnOffRefused, StartRollsBack, OperatorOn,
       OperatorTurnOffRefused, Restart, OffAuditFails, ReadOnlyOn
  <2>3. ASSUME StartSucceeds \/ StartFindsReadOnly \/ OperatorOffReturns
        PROVE  ShownReadOnlyIsReadOnly'
    BY <2>3 DEF StartSucceeds, StartFindsReadOnly, OperatorOffReturns
  <2>4. CASE RollbackReturns
    BY <2>4 DEF RollbackReturns, ReadOnlyOn, switchVars
  <2>5. ASSUME UNCHANGED switchVars PROVE ShownReadOnlyIsReadOnly'
    BY <2>5 DEF switchVars
  <2> QED
    BY <2>1, <2>2, <2>3, <2>4, <2>5
    DEF Next, StartRequest, ReassertReturns, AbortPress, AbortLatches,
        AbortSaved, LockoutExpires, RearmPress, RearmSaved, SourceMoves,
        BaWrite, vars
<1> QED
  BY <1>1, <1>2, PTL DEF Spec

-----------------------------------------------------------------------------
(* The abstract promise                                                    *)

(* Every step of every handler is a step of WriteAuthority: what raises    *)
(* READ-ONLY revokes, what arms grants, REARM unlocks without a permit.    *)
LEMMA NextAuthority == TypeOK /\ [Next]_vars => [WA!Next]_WA!authorityVars
<1> SUFFICES ASSUME TypeOK, [Next]_vars PROVE [WA!Next]_WA!authorityVars
  OBVIOUS
<1>1. ASSUME \/ StartTurnOffRefused \/ StartRollsBack \/ OperatorOn
             \/ OperatorTurnOffRefused
             \/ \E c \in Callers : OffAuditFails(c)
      PROVE  WA!Revoke
  BY <1>1 DEF WA!Revoke, StartTurnOffRefused, StartRollsBack, OperatorOn,
     OperatorTurnOffRefused, OffAuditFails, ReadOnlyOn, observing, abortVars
<1>2. ASSUME StartTurnsOff \/ OperatorTurnsOff PROVE WA!Grant
  <2>1. ~latch /\ enabled' = FALSE /\ rearmed' = TRUE
    BY <1>2 DEF StartTurnsOff, OperatorTurnsOff, Arm
  <2>2. latch' = latch /\ wrote' = NoSession
    BY <1>2 DEF StartTurnsOff, OperatorTurnsOff, abortVars
  <2> QED
    BY <2>1, <2>2 DEF WA!Grant, observing
<1>3. CASE AbortLatches
  BY <1>3 DEF AbortLatches, WA!Next, WA!Lock, observing, switchVars
<1>4. CASE RearmPress
  <2>1. observing /\ enabled' = enabled /\ rearmed' = rearmed
    BY <1>4 DEF RearmPress, switchVars
  <2>2. latch' = FALSE /\ wrote' = NoSession
    BY <1>4 DEF RearmPress
  <2> QED
    BY <2>1, <2>2 DEF WA!Next, WA!Unlock, observing
<1>5. CASE RollbackReturns
  <2>1. latch' = latch /\ wrote' = NoSession
    BY <1>5 DEF RollbackReturns, abortVars
  <2>2. \/ enabled' = enabled /\ rearmed' = rearmed
        \/ enabled' = TRUE
    BY <1>5 DEF RollbackReturns, ReadOnlyOn, switchVars
  <2> QED
    BY <2>1, <2>2 DEF WA!Next, WA!Quiet, WA!Revoke, observing
<1>6. CASE BaWrite
  <2>1. ~observing /\ ~latch
    BY <1>6 DEF BaWrite
  <2>2. enabled' = enabled /\ rearmed' = rearmed /\ latch' = latch
    BY <1>6 DEF BaWrite, switchVars, abortVars
  <2>3. CASE wrote' = NoSession
    BY <2>2, <2>3 DEF WA!Next, WA!Quiet, observing
  <2>4. CASE wrote' # NoSession
    BY <2>1, <2>2, <2>4 DEF WA!Next, WA!Write, observing
  <2> QED
    BY <2>3, <2>4
<1>7. CASE Restart
  <2>1. enabled' = TRUE /\ latch' \in BOOLEAN /\ wrote' = NoSession
    BY <1>7 DEF Restart, ReadOnlyOn, TypeOK
  <2> QED
    BY <2>1 DEF WA!Next, WA!Restart, observing
<1>8. ASSUME \/ \E s \in Sessions : StartRequest(s)
             \/ StartSucceeds \/ StartFindsReadOnly \/ ReassertReturns
             \/ OperatorOffReturns \/ AbortPress \/ AbortSaved
             \/ LockoutExpires \/ RearmSaved \/ SourceMoves
      PROVE  WA!Quiet
  <2>1. /\ enabled' = enabled /\ rearmed' = rearmed /\ latch' = latch
        /\ wrote' = NoSession
    BY <1>8 DEF StartRequest, StartSucceeds, StartFindsReadOnly,
       ReassertReturns, OperatorOffReturns, AbortPress, AbortSaved,
       LockoutExpires, RearmSaved, SourceMoves, switchVars, abortVars
  <2> QED
    BY <2>1 DEF WA!Quiet, observing
<1>9. CASE UNCHANGED vars
  <2>1. /\ enabled' = enabled /\ rearmed' = rearmed /\ latch' = latch
        /\ wrote' = wrote
    BY <1>9 DEF vars, switchVars, abortVars
  <2> QED
    BY <2>1 DEF WA!authorityVars, observing
<1> QED
  BY <1>1, <1>2, <1>3, <1>4, <1>5, <1>6, <1>7, <1>8, <1>9 DEF Next, WA!Next

(* The READ-ONLY switch, START, ABORT, REARM and restarts together keep    *)
(* the promise of WriteAuthority: writes only under a permit and no lock,  *)
(* permits only from START, and no unlock while a permit is out.           *)
THEOREM AuthorityImplemented == Spec => ImplementsWriteAuthority
<1>1. Init => WA!Init
  BY DEF Init, WA!Init, observing
<1> QED
  BY <1>1, NextAuthority, TypeCorrect, PTL
  DEF Spec, ImplementsWriteAuthority, WA!Spec

-----------------------------------------------------------------------------
(* The records beside the gate                                             *)

(* A step of one part is a stutter of the others.                          *)
LEMMA OnePart ==
  [AllNext]_allVars => /\ [Next]_vars
                       /\ [Probe!Next]_Probe!probeVars /\ [Advice!Next]_Advice!adviceVars
                       /\ [Pairing!Next]_Pairing!preflightVars /\ [Kit!Next]_Kit!equipmentVars
<1> SUFFICES ASSUME [AllNext]_allVars
             PROVE  /\ [Next]_vars
                    /\ [Probe!Next]_Probe!probeVars /\ [Advice!Next]_Advice!adviceVars
                    /\ [Pairing!Next]_Pairing!preflightVars /\ [Kit!Next]_Kit!equipmentVars
  OBVIOUS
<1>1. UNCHANGED probeVars => UNCHANGED Probe!probeVars
  BY DEF probeVars, Probe!probeVars, Probe!sights
<1>2. UNCHANGED adviceVars => UNCHANGED Advice!adviceVars
  BY DEF adviceVars, Advice!adviceVars, Advice!world, Advice!trend, Advice!told
<1>3. UNCHANGED pairVars => UNCHANGED Pairing!preflightVars
  BY DEF pairVars, Pairing!preflightVars
<1>4. UNCHANGED kitVars => UNCHANGED Kit!equipmentVars
  BY DEF kitVars, Kit!equipmentVars
<1> QED
  BY <1>1, <1>2, <1>3, <1>4
     DEF AllNext, allVars, GateOnly, ProbeOnly, AdviceOnly, KitOnly, BeerOnly, PairOnly

(* The gate is the same beside the records: what holds of it alone holds   *)
(* of the run.                                                             *)
LEMMA GateBesideRecords == AllSpec => Spec
<1>1. AllInit => Init
  BY DEF AllInit
<1> QED
  BY <1>1, OnePart, PTL DEF AllSpec, Spec

-----------------------------------------------------------------------------
(* The mash's thermometer                                                  *)

ProbeInv ==
    /\ choice \in DOMAIN Probe!Order
    /\ lock \in Probe!Probes \cup {None}
    /\ mine = lock              \* what is latched began this stretch of ownership
    /\ verified \subseteq proved /\ (lock # None => lock \in proved)

LEMMA LeastOfThree ==
  ASSUME NEW S, S \subseteq 1 .. 3, S # {}
  PROVE  (CHOOSE x \in S : \A y \in S : x =< y) \in S
<1>1. \E x \in S : \A y \in S : x =< y
  <2> S \subseteq {1, 2, 3}
    OBVIOUS
  <2>1. CASE 1 \in S
    <3>1. \A y \in S : 1 =< y
      OBVIOUS
    <3> QED
      BY <2>1, <3>1
  <2>2. CASE 1 \notin S /\ 2 \in S
    <3>1. \A y \in S : 2 =< y
      BY <2>2
    <3> QED
      BY <2>2, <3>1
  <2>3. CASE 1 \notin S /\ 2 \notin S
    <3>1. S = {3}
      BY <2>3
    <3> QED
      BY <3>1
  <2> QED
    BY <2>1, <2>2, <2>3
<1> QED
  BY <1>1

(* What a resolver finds fits, and is one of its order.                    *)
LEMMA ResolvedFits ==
  ASSUME choice \in DOMAIN Probe!Order
  PROVE  \/ Probe!Resolved = None
         \/ Probe!Resolved \in {"ble", "control", "internal"} /\ Probe!Eligible(Probe!Resolved)
<1> DEFINE order == Probe!Order[choice]
           fit == {i \in DOMAIN order : Probe!Eligible(order[i])}
<1>1. /\ DOMAIN order \subseteq 1 .. 3
      /\ \A i \in DOMAIN order : order[i] \in {"ble", "control", "internal"}
  BY DEF Probe!Order
<1>2. Probe!Resolved = IF fit = {} THEN None ELSE order[Probe!Min(fit)]
  BY DEF Probe!Resolved, Probe!Foremost
<1> HIDE DEF order
<1>3. fit # {} => Probe!Min(fit) \in fit
  BY <1>1, LeastOfThree DEF Probe!Min
<1> QED
  BY <1>1, <1>2, <1>3

LEMMA TakenFits ==
  ASSUME ProbeInv
  PROVE  \/ Probe!Taken = None /\ Probe!Resolved \notin Probe!Probes
         \/ /\ Probe!Taken \in Probe!Probes
            /\ Probe!Taken \in Probe!Remembered \/ Probe!Eligible(Probe!Taken)
<1> DEFINE order == <<"ble", "control">>
           fit == {i \in DOMAIN order : order[i] \in Probe!Remembered /\ Probe!Usable(order[i])}
<1>1. DOMAIN order \subseteq 1 .. 3 /\ \A i \in DOMAIN order : order[i] \in Probe!Probes
  BY DEF Probe!Probes
<1>2. Probe!Taken = IF Probe!Resolved \in Probe!Probes THEN Probe!Resolved
                    ELSE IF fit = {} THEN None ELSE order[Probe!Min(fit)]
  BY DEF Probe!Taken, Probe!Foremost
<1>3. fit # {} => Probe!Min(fit) \in fit
  <2> HIDE DEF order
  <2> QED
    BY <1>1, LeastOfThree DEF Probe!Min
<1>4. Probe!Resolved \in Probe!Probes => Probe!Eligible(Probe!Resolved)
  BY ResolvedFits, SpotsAssumption DEF ProbeInv, Probe!Probes
<1> HIDE DEF order
<1> QED
  BY <1>1, <1>2, <1>3, <1>4

LEMMA SnapshotProves ==
  ASSUME ProbeInv, Probe!Snapshot
  PROVE  /\ ProbeInv'
         /\ (Probe!Stretch /\ mine # None
               => process' = IF Probe!Usable(mine) THEN mine ELSE None)
         /\ (choice = "auto" /\ process' \in Probe!Probes => process' \in proved')
<1> USE SpotsAssumption
<1>1. /\ proved' = proved \cup {p \in Probe!Probes : Probe!Usable(p) /\ ~Probe!Alias(p)}
      /\ mine' = IF ~Probe!Stretch THEN None
                 ELSE IF mine = None /\ process' \in Probe!Probes THEN process' ELSE mine
      /\ choice' = choice
  BY DEF Probe!Snapshot, Probe!sights
<1>2. Probe!Remembered \subseteq proved'
  BY <1>1 DEF ProbeInv, Probe!Remembered, Probe!Apart, Probe!Alias, Probe!Usable
<1>3. \A p \in Probe!Probes : choice = "auto" /\ Probe!Eligible(p) => p \in proved'
  BY <1>1 DEF Probe!Eligible, Probe!Probes
<1>4. CASE Probe!BoilSnapshot
  BY <1>1, <1>4 DEF Probe!BoilSnapshot, ProbeInv, Probe!Stretch, Probe!Probes
<1>5. CASE Probe!FreeSnapshot
  <2>1. process' \in Probe!Probes => Probe!Eligible(process')
    BY <1>5, ResolvedFits DEF Probe!FreeSnapshot, ProbeInv, Probe!Probes
  <2> QED
    BY <1>1, <1>2, <1>3, <1>5, <2>1 DEF Probe!FreeSnapshot, ProbeInv, Probe!Stretch
<1>6. CASE Probe!OwnedSnapshot
  <2>1. Probe!Stretch /\ choice = "auto" /\ verified' = Probe!Remembered
    BY <1>6 DEF Probe!OwnedSnapshot, Probe!Stretch
  <2>2. CASE lock # None /\ lock' = lock /\ process' = (IF Probe!Usable(lock) THEN lock ELSE None)
    <3>1. process' = lock \/ process' \notin Probe!Probes
      BY <2>2 DEF Probe!Probes
    <3> QED
      BY <1>1, <1>2, <2>1, <2>2, <3>1 DEF ProbeInv
  <2>3. CASE lock = None /\ Probe!Taken # None /\ lock' = Probe!Taken /\ process' = Probe!Taken
    <3>1. Probe!Taken \in Probe!Probes /\ Probe!Taken \in proved'
      BY <1>2, <1>3, <2>1, <2>3, TakenFits
    <3> QED
      BY <1>1, <1>2, <2>1, <2>3, <3>1 DEF ProbeInv
  <2>4. CASE lock = None /\ Probe!Taken = None /\ process' = Probe!Resolved /\ lock' = lock
    <3>1. Probe!Resolved \notin Probe!Probes
      BY <2>4, TakenFits DEF Probe!Probes
    <3> QED
      BY <1>1, <1>2, <2>1, <2>4, <3>1 DEF ProbeInv
  <2> QED
    BY <1>6, <2>2, <2>3, <2>4 DEF Probe!OwnedSnapshot, Probe!Keeps, Probe!InGap
<1> QED
  BY <1>4, <1>5, <1>6 DEF Probe!Snapshot

LEMMA ProbeNextInv == ProbeInv /\ [Probe!Next]_Probe!probeVars => ProbeInv'
<1> SUFFICES ASSUME ProbeInv, [Probe!Next]_Probe!probeVars PROVE ProbeInv'
  OBVIOUS
<1>1. CASE Probe!Change
  BY <1>1 DEF Probe!Change, ProbeInv
<1>2. CASE Probe!Snapshot
  BY <1>2, SnapshotProves
<1>3. CASE Probe!Restart
  BY <1>3 DEF Probe!Restart, Probe!sights, ProbeInv
<1>4. CASE UNCHANGED Probe!probeVars
  BY <1>4 DEF Probe!probeVars, Probe!sights, ProbeInv
<1> QED
  BY <1>1, <1>2, <1>3, <1>4 DEF Probe!Next

LEMMA ProbeAlways == AllSpec => []ProbeInv
<1>1. AllInit => ProbeInv
  BY DEF AllInit, Probe!Init, ProbeInv, Probe!Order
<1> QED
  BY <1>1, ProbeNextInv, OnePart, PTL DEF AllSpec

(* From Heat strike to the boil the probe that was taken for the mash is   *)
(* the mash whenever it is usable and the mash is unknown while it is not, *)
(* whatever other thermometer is; and nothing that only ever repeated      *)
(* BrewZilla's own thermometer is taken, wherever the brewday may be.      *)
THEOREM ProbeKept == AllSpec => ProbeIsKept
<1>1. ProbeInv => [Probe!Snapshot =>
         /\ Probe!Stretch /\ mine # None
              => process' = IF Probe!Usable(mine) THEN mine ELSE None
         /\ choice = "auto" /\ process' \in Probe!Probes => process' \in proved']_Probe!probeVars
  BY SnapshotProves
<1> QED
  BY <1>1, ProbeAlways, PTL DEF ProbeIsKept, Probe!ProbeIsKept

-----------------------------------------------------------------------------
(* The brewing advice                                                      *)

AdviceInv == Advice!RateIsOfOneProbe /\ Advice!ShownIsRemembered /\ sound = TRUE

(* A look follows one thermometer, or begins to.                           *)
LEMMA RateLook ==
  ASSUME Advice!RateIsOfOneProbe, Advice!Observed(Advice!Snapshot)
  PROVE  Advice!RateIsOfOneProbe'
<1> DEFINE source == Advice!Source(Advice!Stage)
           seen == report[source]
           t == Advice!Trend(source, seen)
<1>1. last' = t.last /\ previous' = t.previous /\ rate' = t.rate
  BY DEF Advice!Observed, Advice!Snapshot
<1>2. t.rate # None => t.previous # None /\ t.previous.of = t.last.of
  <2> HIDE DEF source, seen
  <2>1. CASE t = [last |-> last, previous |-> previous, rate |-> rate]
    BY <2>1 DEF Advice!RateIsOfOneProbe
  <2>2. CASE t = Advice!Followed([temp |-> seen.temp, at |-> seen.at, of |-> source])
    BY <2>2 DEF Advice!Followed
  <2> QED
    BY <2>1, <2>2 DEF Advice!Trend
<1> HIDE DEF t
<1> QED
  BY <1>1, <1>2 DEF Advice!RateIsOfOneProbe

(* What a look offers suits the moment and is not put off.                 *)
LEMMA OfferedFits ==
  Advice!Snapshot.offered = None \/ Advice!Fits(Advice!Snapshot.offered)
<1> DEFINE stage == Advice!Stage
           seen == report[Advice!Source(stage)]
           heat == Advice!Suggested(stage, seen, Advice!Trend(Advice!Source(stage), seen).rate)
           advice == Advice!Candidate(stage, heat)
           offered == Advice!Snapshot.offered
<1>1. offered = IF scene.owned THEN None
                ELSE IF advice # None /\ Advice!Snoozed(advice) THEN None ELSE advice
  BY DEF Advice!Snapshot
<1> HIDE DEF heat
<1>2. \/ advice = None
      \/ /\ device.flow > 0
         /\ advice = [kind |-> "flow", stage |-> stage, from |-> 0, to |-> 0]
      \/ /\ ~Advice!Lacks(stage)
         /\ advice = [kind |-> "heat", stage |-> stage, from |-> Advice!Round5(device.heat),
                      to |-> Advice!Round5(heat)]
  BY DEF Advice!Candidate
<1>3. advice = None \/ Advice!Snoozed(advice) \/ Advice!Fits(advice)
  <2> HIDE DEF advice, stage
  <2>1. stage = Advice!Stage
    BY DEF stage
  <2> QED
    BY <1>2, <2>1 DEF Advice!Fits
<1> HIDE DEF advice, offered
<1> QED
  BY <1>1, <1>3 DEF offered

LEMMA AdviceNextInv ==
  AdviceInv /\ [Advice!Next]_Advice!adviceVars => AdviceInv'
<1> SUFFICES ASSUME AdviceInv, [Advice!Next]_Advice!adviceVars PROVE AdviceInv'
  OBVIOUS
<1> USE DEF AdviceInv
<1>1. UNCHANGED <<last, previous, rate>> => Advice!RateIsOfOneProbe'
  BY DEF Advice!RateIsOfOneProbe
<1>2. UNCHANGED <<notified, onScreen>> \/ onScreen' \in {None, notified'} => Advice!ShownIsRemembered'
  BY DEF Advice!ShownIsRemembered
<1>3. CASE Advice!Change \/ Advice!Later \/ Advice!Cleared
  BY <1>1, <1>2, <1>3 DEF Advice!Change, Advice!Later, Advice!Cleared, Advice!trend, Advice!told
<1>4. CASE Advice!Look
  BY <1>2, <1>4, RateLook DEF Advice!Look, Advice!told
<1>5. CASE Advice!NotifyQuietly
  BY <1>1, <1>2, <1>5 DEF Advice!NotifyQuietly, Advice!Dismiss, Advice!trend, Advice!told
<1>6. CASE Advice!Notify
  BY <1>2, <1>6, RateLook DEF Advice!Notify, Advice!Dismiss, Advice!told
<1>7. CASE Advice!Apply
  <2>1. sound' = (Advice!Snapshot.offered = None \/ Advice!Fits(Advice!Snapshot.offered))
    BY <1>7 DEF Advice!Apply
  <2> QED
    BY <1>2, <1>7, <2>1, RateLook, OfferedFits DEF Advice!Apply, Advice!told
<1>8. CASE Advice!Landed \/ Advice!Failed \/ Advice!Restart
  BY <1>1, <1>2, <1>8
     DEF Advice!Landed, Advice!Failed, Advice!Restart, Advice!Dismiss, Advice!trend, Advice!told,
         Advice!RateIsOfOneProbe
<1>9. CASE Advice!Deny
  BY <1>2, <1>9, RateLook DEF Advice!Deny, Advice!Dismiss, Advice!told
<1>10. CASE UNCHANGED Advice!adviceVars
  BY <1>1, <1>2, <1>10 DEF Advice!adviceVars, Advice!trend, Advice!told
<1> QED
  BY <1>3, <1>4, <1>5, <1>6, <1>7, <1>8, <1>9, <1>10 DEF Advice!Next

(* A rate is of one thermometer, the notification shown is the one that    *)
(* the next press withdraws, and APPLY writes only what is advised at that *)
(* moment and not put off: for any scenes, devices and readings.           *)
THEOREM AdviceTrue == AllSpec => []AdviceIsTrue
<1>1. AllInit => AdviceInv
  BY DEF AllInit, Advice!Init, AdviceInv, Advice!RateIsOfOneProbe, Advice!ShownIsRemembered
<1>2. AdviceInv /\ [AllNext]_allVars => AdviceInv'
  BY AdviceNextInv, OnePart
<1>3. AdviceInv => AdviceIsTrue
  BY DEF AdviceInv, AdviceIsTrue, Advice!AdviceIsTrue, Advice!AppliedIsAdvised
<1> QED
  BY <1>1, <1>2, <1>3, PTL DEF AllSpec

-----------------------------------------------------------------------------
(* The fermenter's pairs                                                   *)

(* A pair's two times are no further apart than freshness allows.          *)
IsPair(e) ==
    /\ e.at \in Nat /\ e.pill \in Nat
    /\ e.at - e.pill <= Pairing!Fresh /\ e.pill - e.at <= Pairing!Fresh

IsRecord(s) == s \in Seq({e \in [at : Nat, pill : Nat] : IsPair(e)} \cup {None})

PairInv ==
    /\ hour \in Nat /\ pill \in Nat \cup {None}
    /\ IsRecord(observations) /\ IsRecord(kept)
    /\ Len(observations) <= MaxPairs /\ Len(kept) <= MaxPairs
    /\ saves \in BOOLEAN /\ (~saves => kept = observations)

(* The limit drops the first entries and changes none.                     *)
LEMMA TrimmedRecord ==
  ASSUME NEW s, IsRecord(s)
  PROVE  /\ IsRecord(Pairing!Trimmed(s)) /\ Len(Pairing!Trimmed(s)) <= MaxPairs
         /\ Len(s) <= MaxPairs => Pairing!Trimmed(s) = s
<1> DEFINE S == {e \in [at : Nat, pill : Nat] : IsPair(e)} \cup {None}
<1>1. s \in Seq(S)
  BY DEF IsRecord
<1>2. MaxPairs \in Nat /\ Len(s) \in Nat
  BY <1>1, PreflightAssumption
<1>3. ASSUME Len(s) > MaxPairs
      PROVE  /\ SubSeq(s, Len(s) - MaxPairs + 1, Len(s)) \in Seq(S)
             /\ Len(SubSeq(s, Len(s) - MaxPairs + 1, Len(s))) <= MaxPairs
  <2> HIDE DEF S
  <2>1. \A i \in (Len(s) - MaxPairs + 1) .. Len(s) : s[i] \in S
    BY <1>1, <1>2, <1>3
  <2> QED
    BY <1>1, <1>2, <1>3, <2>1
<1>4. CASE Len(s) > MaxPairs
  BY <1>2, <1>3, <1>4 DEF Pairing!Trimmed, IsRecord
<1>5. CASE ~(Len(s) > MaxPairs)
  BY <1>2, <1>5 DEF Pairing!Trimmed
<1> QED
  BY <1>2, <1>4, <1>5

(* An entry becomes a pair only while both of its times are fresh.         *)
LEMMA PairedIsPair ==
  ASSUME hour \in Nat, pill \in Nat \cup {None}, NEW manualAt \in Nat
  PROVE  \/ Pairing!Paired(manualAt) = None
         \/ Pairing!Paired(manualAt) \in [at : Nat, pill : Nat] /\ IsPair(Pairing!Paired(manualAt))
<1>1. CASE pill # None /\ Pairing!IsFresh(pill) /\ Pairing!IsFresh(manualAt)
  <2>1. Pairing!Paired(manualAt) = [at |-> manualAt, pill |-> pill]
    BY <1>1 DEF Pairing!Paired
  <2>2. pill \in Nat /\ manualAt - pill <= Pairing!Fresh /\ pill - manualAt <= Pairing!Fresh
    BY <1>1 DEF Pairing!IsFresh, Pairing!Fresh
  <2> QED
    BY <2>1, <2>2 DEF IsPair
<1>2. CASE ~(pill # None /\ Pairing!IsFresh(pill) /\ Pairing!IsFresh(manualAt))
  BY <1>2 DEF Pairing!Paired
<1> QED
  BY <1>1, <1>2

LEMMA PairNextInv == PairInv /\ [Pairing!Next]_Pairing!preflightVars => PairInv'
<1> SUFFICES ASSUME PairInv, [Pairing!Next]_Pairing!preflightVars PROVE PairInv'
  OBVIOUS
<1>1. CASE Pairing!Report \/ Pairing!Pass
  BY <1>1 DEF PairInv, Pairing!Report, Pairing!Pass
<1>2. CASE Pairing!Record
  <2>1. PICK manualAt \in Nat :
          observations' = Pairing!Trimmed(Append(observations, Pairing!Paired(manualAt)))
    BY <1>2 DEF Pairing!Record, PairInv
  <2>2. IsRecord(Append(observations, Pairing!Paired(manualAt)))
    BY PairedIsPair DEF PairInv, IsRecord
  <2>3. IsRecord(observations') /\ Len(observations') <= MaxPairs
    BY <2>1, <2>2, TrimmedRecord
  <2> QED
    BY <1>2, <2>3 DEF Pairing!Record, PairInv
<1>3. CASE Pairing!Clear
  <2>1. IsRecord(<<>>) /\ Len(<<>>) <= MaxPairs
    BY PreflightAssumption DEF IsRecord
  <2> QED
    BY <1>3, <2>1 DEF Pairing!Clear, PairInv
<1>4. CASE Pairing!Save
  BY <1>4 DEF Pairing!Save, PairInv
<1>5. CASE Pairing!Restart
  BY <1>5, TrimmedRecord DEF Pairing!Restart, PairInv
<1>6. CASE UNCHANGED Pairing!preflightVars
  BY <1>6 DEF Pairing!preflightVars, PairInv
<1> QED
  BY <1>1, <1>2, <1>3, <1>4, <1>5, <1>6 DEF Pairing!Next

LEMMA PairAlways == AllSpec => []PairInv
<1>1. AllInit => PairInv
  <2> SUFFICES ASSUME AllInit PROVE PairInv
    OBVIOUS
  <2>1. IsRecord(<<>>) /\ Len(<<>>) <= MaxPairs
    BY PreflightAssumption DEF IsRecord
  <2>2. observations = <<>> /\ kept = <<>> /\ hour = 0 /\ pill = None /\ saves = FALSE
    BY DEF AllInit, Pairing!Init
  <2>3. IsRecord(observations) /\ IsRecord(kept)
    BY <2>1, <2>2
  <2> QED
    BY <2>1, <2>2, <2>3 DEF PairInv
<1> QED
  BY <1>1, PairNextInv, OnePart, PTL DEF AllSpec

(* Two pairs whose entries are MinSpan apart have updates of the Pill that *)
(* are apart by no less than that but for freshness on both sides.         *)
LEMMA PillSpans ==
  ASSUME PairInv, Pairing!Spans({e.at : e \in Pairing!Pairs}, Pairing!MinSpan)
  PROVE  Pairing!Spans({e.pill : e \in Pairing!Pairs}, Pairing!MinSpan - 2 * Pairing!Fresh)
<1>1. PICK d \in Pairing!Pairs, e \in Pairing!Pairs : d.at - e.at >= Pairing!MinSpan
  BY DEF Pairing!Spans
<1>2. \A f \in Pairing!Pairs : f \in [at : Nat, pill : Nat] /\ IsPair(f)
  BY DEF Pairing!Pairs, PairInv, IsRecord
<1>3. d.pill - e.pill >= Pairing!MinSpan - 2 * Pairing!Fresh
  BY <1>1, <1>2 DEF IsPair, Pairing!MinSpan, Pairing!Fresh
<1> QED
  BY <1>3 DEF Pairing!Spans

(* Evidence is called observational only if it rests on two updates of the *)
(* Pill that are half an hour apart, however entries were dated, dropped,  *)
(* cleared and restored; and a finished save leaves the memory stored.     *)
THEOREM EvidenceEarned == AllSpec => []Pairing!LearningIsEarned
<1>1. ASSUME PairInv PROVE Pairing!LearningIsEarned
  <2>1. ASSUME Pairing!Confidence = "observational" PROVE Pairing!Spans({e.at : e \in Pairing!Pairs}, Pairing!MinSpan)
    BY <2>1, Zenon DEF Pairing!Confidence
  <2> QED
    BY <1>1, <2>1, PillSpans DEF Pairing!LearningIsEarned, PairInv
<1> QED
  BY <1>1, PairAlways, PTL

-----------------------------------------------------------------------------
(* The equipment's evidence                                                *)

Models ==
    [total : Nat, counts : [Kit!Keys -> Nat], sight : {v.sight : v \in Views} \cup {None},
     recent : Nat]

(* Between two saves the timer passes no observation that would be stored. *)
KitInv ==
    /\ view \in Views \cup {None} /\ model \in Models /\ disk \in Models \cup {None}
    /\ setup \in {"none", "started", "complete"} /\ task \in {"none", "due", "saving"}
    /\ savingModel \in BOOLEAN /\ written \in Nat
    /\ written = (IF disk = None THEN 0 ELSE disk.total)
    /\ (setup # "complete" => task = "none" /\ ~savingModel)
    /\ (setup = "complete" =>
         /\ model.total >= written
         /\ (task # "saving" /\ ~savingModel =>
               \A n \in Nat : written < n /\ n <= model.total => n % SaveEvery # 0))

LEMMA OneOfAny ==
  ASSUME NEW w \in Nat
  PROVE  \E n \in Nat : w < n /\ n <= w + SaveEvery /\ n % SaveEvery = 0
<1>1. SaveEvery \in Nat \ {0}
  BY EquipmentAssumption
<1>2. /\ w = SaveEvery * (w \div SaveEvery) + (w % SaveEvery)
      /\ w % SaveEvery \in 0 .. (SaveEvery - 1) /\ w \div SaveEvery \in Nat
  BY <1>1
<1> DEFINE n == SaveEvery * ((w \div SaveEvery) + 1)
<1>3. n \in Nat /\ n % SaveEvery = 0
  <2>1. (w \div SaveEvery) + 1 \in Nat
    BY <1>2
  <2> QED
    BY <1>1, <2>1
<1>4. n = SaveEvery * (w \div SaveEvery) + SaveEvery
  BY <1>1, <1>2
<1>5. w < n /\ n <= w + SaveEvery
  <2> DEFINE p == SaveEvery * (w \div SaveEvery)
             m == w % SaveEvery
  <2>1. p \in Nat /\ m \in Nat /\ m < SaveEvery /\ w = p + m /\ n = p + SaveEvery
    BY <1>1, <1>2, <1>4
  <2> HIDE DEF p, m, n
  <2> QED
    BY <1>1, <2>1
<1> HIDE DEF n
<1> QED
  BY <1>3, <1>5

LEMMA LesserOfTwo ==
  ASSUME NEW a \in Nat, NEW b \in Nat
  PROVE  Kit!Min({a, b}) \in Nat
<1>1. \E x \in {a, b} : \A y \in {a, b} : x =< y
  <2>1. CASE a <= b
    BY <2>1
  <2>2. CASE b <= a
    BY <2>2
  <2> QED
    BY <2>1, <2>2
<1> QED
  BY <1>1 DEF Kit!Min

LEMMA RecordedModel ==
  ASSUME NEW m \in Models, view \in Views
  PROVE  Kit!Recorded(m) \in Models /\ Kit!Recorded(m).total = m.total + 1
<1>1. view.key \in Kit!Keys /\ view.sight \in {v.sight : v \in Views}
  BY DEF Kit!Keys
<1>2. MaxRecent \in Nat /\ m.recent + 1 \in Nat /\ m.total + 1 \in Nat
  BY EquipmentAssumption DEF Models
<1>3. Kit!Min({m.recent + 1, MaxRecent}) \in Nat
  BY <1>2, LesserOfTwo
<1>4. [m.counts EXCEPT ![view.key] = @ + 1] \in [Kit!Keys -> Nat]
  BY <1>1 DEF Models
<1> QED
  BY <1>1, <1>2, <1>3, <1>4 DEF Kit!Recorded, Models

LEMMA KitNextInv ==
  KitInv /\ [Kit!Next]_Kit!equipmentVars => KitInv'
<1> SUFFICES ASSUME KitInv, [Kit!Next]_Kit!equipmentVars PROVE KitInv'
  OBVIOUS
<1> USE DEF KitInv
<1>1. Kit!NoModel \in Models /\ Kit!NoModel.total = 0
  <2>1. [k \in Kit!Keys |-> 0] \in [Kit!Keys -> Nat]
    OBVIOUS
  <2> QED
    BY <2>1 DEF Kit!NoModel, Models
<1>2. None \notin Views /\ None \notin Models
  BY EquipmentAssumption DEF Models, Kit!Keys
<1>3. model.total \in Nat /\ (disk # None => disk.total \in Nat)
  BY DEF Models
<1>4. CASE Kit!Sight
  BY <1>4 DEF Kit!Sight
<1>5. CASE Kit!Look
  BY <1>5 DEF Kit!Look
<1>6. CASE Kit!Loaded
  <2>1. setup' = "complete" /\ task' = "none" /\ savingModel' = FALSE
        /\ disk' = disk /\ written' = written /\ view' = view
    BY <1>6 DEF Kit!Loaded
  <2>2. model' \in Models /\ model'.total = written
    BY <1>1, <1>6 DEF Kit!Loaded
  <2>3. /\ model'.total >= written'
        /\ \A n \in Nat : written' < n /\ n <= model'.total => n % SaveEvery # 0
    BY <2>1, <2>2
  <2>4. written' \in Nat /\ written' = (IF disk' = None THEN 0 ELSE disk'.total)
    BY <2>1
  <2> QED
    BY <2>1, <2>2, <2>3, <2>4
<1>7. CASE Kit!RecordLook
  <2>1. CASE view = None /\ task' = "none" /\ UNCHANGED model
    BY <1>7, <2>1 DEF Kit!RecordLook
  <2>2. CASE view # None /\ task' = "saving" /\ model' = Kit!Recorded(model)
    <3>1. model' \in Models /\ model'.total = model.total + 1
      BY <2>2, RecordedModel
    <3> QED
      BY <1>3, <1>7, <2>2, <3>1 DEF Kit!RecordLook
  <2> QED
    BY <1>7, <2>1, <2>2 DEF Kit!RecordLook
<1>8. CASE Kit!RecordTick
  <2>1. /\ setup = "complete" /\ view # None /\ model' = Kit!Recorded(model)
        /\ savingModel' = (savingModel \/ (model.total + 1) % SaveEvery = 0)
        /\ UNCHANGED <<view, disk, setup, task, written>>
    BY <1>8 DEF Kit!RecordTick, Kit!Due
  <2>2. model' \in Models /\ model'.total = model.total + 1
    BY <2>1, RecordedModel
  <2>3. savingModel' \in BOOLEAN
    BY <2>1
  <2>4. ASSUME task # "saving", ~savingModel', NEW n \in Nat, written < n, n <= model'.total
        PROVE  n % SaveEvery # 0
    <3>1. CASE n = model.total + 1
      BY <2>1, <2>4, <3>1
    <3>2. CASE n <= model.total
      BY <2>1, <2>4, <3>2
    <3> QED
      BY <1>3, <2>2, <2>4, <3>1, <3>2
  <2>5. model'.total >= written
    BY <1>3, <2>1, <2>2
  <2> QED
    BY <2>1, <2>2, <2>3, <2>4, <2>5
<1>9. CASE Kit!Save
  <2>1. /\ disk' = model /\ written' = model.total /\ UNCHANGED <<view, model, setup>>
        /\ task' \in {"none", task} /\ savingModel' \in {FALSE, savingModel}
        /\ (setup # "complete" => task' = "none" /\ ~savingModel')
    BY <1>9 DEF Kit!Save
  <2>2. disk' # None /\ model'.total = written' /\ written' \in Nat
    BY <1>2, <1>3, <2>1
  <2>3. /\ model'.total >= written'
        /\ \A n \in Nat : written' < n /\ n <= model'.total => n % SaveEvery # 0
    BY <2>2
  <2>4. /\ disk' \in Models /\ model' \in Models /\ view' = view /\ setup' = setup
        /\ written' = disk'.total
    BY <2>1
  <2>5. task' \in {"none", "due", "saving"} /\ savingModel' \in BOOLEAN
    BY <2>1
  <2> QED
    BY <2>1, <2>2, <2>3, <2>4, <2>5
<1>10. CASE Kit!Restart
  BY <1>1, <1>10 DEF Kit!Restart
<1>11. CASE UNCHANGED Kit!equipmentVars
  BY <1>11 DEF Kit!equipmentVars
<1> QED
  BY <1>4, <1>5, <1>6, <1>7, <1>8, <1>9, <1>10, <1>11 DEF Kit!Next

(* Nothing that was stored of the equipment is lost by a restart or a      *)
(* load, and fewer than SaveEvery observations are in memory only: for any *)
(* views, numbers and limits.                                              *)
THEOREM EquipmentRemembered == AllSpec => []Kit!StoredSurvives
<1>1. AllInit => KitInv
  <2> SUFFICES ASSUME AllInit PROVE KitInv
    OBVIOUS
  <2>1. /\ view = None /\ model = Kit!NoModel /\ disk = None
        /\ setup = "none" /\ task = "none" /\ savingModel = FALSE /\ written = 0
    BY DEF AllInit, Kit!Init
  <2>2. [k \in Kit!Keys |-> 0] \in [Kit!Keys -> Nat]
    OBVIOUS
  <2>3. Kit!NoModel \in Models
    BY <2>2 DEF Kit!NoModel, Models
  <2> QED
    BY <2>1, <2>3 DEF KitInv
<1>2. KitInv /\ [AllNext]_allVars => KitInv'
  BY KitNextInv, OnePart
<1>3. ASSUME KitInv PROVE Kit!StoredSurvives
  <2>1. disk # None => disk.total >= written
    BY <1>3 DEF KitInv, Models
  <2>2. ASSUME setup = "complete", task # "saving", ~savingModel
        PROVE  model.total < written + SaveEvery
    <3>1. PICK n \in Nat : written < n /\ n <= written + SaveEvery /\ n % SaveEvery = 0
      BY <1>3, OneOfAny DEF KitInv
    <3>2. ~(n <= model.total)
      BY <1>3, <2>2, <3>1 DEF KitInv
    <3>3. model.total \in Nat /\ written \in Nat /\ SaveEvery \in Nat
      BY <1>3, EquipmentAssumption DEF KitInv, Models
    <3> QED
      BY <3>1, <3>2, <3>3
  <2> QED
    BY <1>3, <2>1, <2>2 DEF KitInv, Kit!StoredSurvives
<1> QED
  BY <1>1, <1>2, <1>3, PTL DEF AllSpec

-----------------------------------------------------------------------------
(* Sizes, and the first and the last of a set of numbers                  *)

NumberBelow == {p \in Nat \X Nat : p[1] < p[2]}

LEMMA LeastOf ==
  ASSUME NEW S, S \subseteq Nat, S # {}
  PROVE  \E m \in S : \A n \in S : m <= n
<1>1. IsWellFoundedOn(NumberBelow, Nat)
  BY NatLessThanWellFounded DEF OpToRel, NumberBelow
<1>2. PICK m \in S : \A n \in S : <<n, m>> \notin NumberBelow
  BY <1>1, WFMin
<1>3. \A n \in S : ~(n < m)
  BY <1>2 DEF NumberBelow
<1> QED
  BY <1>3

LEMMA GreatestOf ==
  ASSUME NEW k \in Nat, NEW S, S \subseteq 1 .. k, S # {}
  PROVE  \E m \in S : \A n \in S : n <= m
<1> DEFINE T == {k - i : i \in S}
<1>1. T \subseteq Nat /\ T # {}
  <2>1. \A i \in S : k - i \in Nat
    OBVIOUS
  <2> QED
    BY <2>1
<1>2. PICK t \in T : \A u \in T : t <= u
  BY <1>1, LeastOf
<1>3. PICK m \in S : t = k - m
  BY <1>2
<1>4. \A n \in S : k - m <= k - n
  BY <1>2, <1>3
<1> QED
  BY <1>4

(* The positions in a set are numbered by how many are not after them.     *)
LEMMA Ranked ==
  ASSUME NEW N \in Nat, NEW I \in SUBSET (1 .. N)
  PROVE  /\ Cardinality(I) \in Nat /\ Cardinality(I) <= N
         /\ \A i \in I : Cardinality({j \in I : j <= i}) \in 1 .. Cardinality(I)
         /\ \A i, k \in I : i < k =>
              Cardinality({j \in I : j <= i}) < Cardinality({j \in I : j <= k})
         /\ \A n \in 1 .. Cardinality(I) : \E i \in I : Cardinality({j \in I : j <= i}) = n
<1> DEFINE Upto(i) == {j \in I : j <= i}
           c == Cardinality(I)
<1>1. IsFiniteSet(I) /\ c \in Nat /\ c <= N
  <2>1. IsFiniteSet(1 .. N) /\ Cardinality(1 .. N) = N
    BY FS_Interval
  <2>2. IsFiniteSet(I) /\ c <= N
    BY <2>1, FS_Subset
  <2> QED
    BY <2>2, FS_CardinalityType
<1>2. ASSUME NEW i \in I
      PROVE  IsFiniteSet(Upto(i)) /\ Cardinality(Upto(i)) \in 1 .. c
  <2>1. IsFiniteSet(Upto(i)) /\ Cardinality(Upto(i)) <= c
    BY <1>1, FS_Subset, Upto(i) \in SUBSET I
  <2>2. Cardinality(Upto(i)) \in Nat
    BY <2>1, FS_CardinalityType
  <2>3. i \in Upto(i)
    OBVIOUS
  <2>4. Cardinality(Upto(i)) # 0
    BY <2>1, <2>3, FS_EmptySet
  <2> QED
    BY <1>1, <2>1, <2>2, <2>4
<1>3. ASSUME NEW i \in I, NEW k \in I, i < k
      PROVE  Cardinality(Upto(i)) < Cardinality(Upto(k))
  <2>1. Upto(i) \in SUBSET Upto(k)
    <3>1. \A j \in I : j \in Nat
      OBVIOUS
    <3>2. \A j \in I : j <= i => j <= k
      BY <1>3, <3>1
    <3> QED
      BY <3>2
  <2>2. k \in Upto(k) /\ k \notin Upto(i)
    BY <1>3
  <2>3. Cardinality(Upto(i)) <= Cardinality(Upto(k))
    BY <1>2, <2>1, FS_Subset
  <2>4. Cardinality(Upto(i)) # Cardinality(Upto(k))
    BY <1>2, <2>1, <2>2, FS_Subset
  <2>5. Cardinality(Upto(i)) \in Nat /\ Cardinality(Upto(k)) \in Nat
    BY <1>2, FS_CardinalityType
  <2> HIDE DEF Upto
  <2> QED
    BY <2>3, <2>4, <2>5
<1>4. ASSUME NEW n \in 1 .. c PROVE \E i \in I : Cardinality(Upto(i)) = n
  <2> DEFINE f == [i \in I |-> Cardinality(Upto(i))]
  <2> HIDE DEF Upto
  <2>1. f \in [I -> 1 .. c]
    BY <1>2
  <2>2. \A i, k \in I : f[i] = f[k] => i = k
    BY <1>2, <1>3
  <2>3. f \in Injection(I, 1 .. c)
    BY <2>1, <2>2 DEF Injection, IsInjective
  <2>4. IsFiniteSet(1 .. c) /\ Cardinality(1 .. c) = c
    BY <1>1, FS_Interval
  <2>5. f \in Surjection(I, 1 .. c)
    BY <2>3, <2>4, FS_Injection
  <2> QED
    BY <2>5 DEF Surjection
<1> HIDE DEF c
<1> QED
  BY <1>1, <1>2, <1>3, <1>4 DEF c

(* The parts count sets as every module does.                              *)
LEMMA CountedAlike ==
  \A S : Beer!Cardinality(S) = Cardinality(S) /\ Kit!Cardinality(S) = Cardinality(S)
<1>1. \A S : Beer!Cardinality(S) = Cardinality(S)
  BY DEF Beer!Cardinality, Cardinality
<1>2. \A S : Kit!Cardinality(S) = Cardinality(S)
  BY DEF Kit!Cardinality, Cardinality
<1> QED
  BY <1>1, <1>2

-----------------------------------------------------------------------------
(* The fermentation's record                                               *)

Readings == [unit : {"sg", "brix", "c"}, value : Nat]
Obs == [at : Nat, unit : {"sg", "brix", "c"}, value : Nat,
        sg : {Beer!Normalized(r, c) : r \in Readings, c \in Configs}]
ByTime(s) == \A i, j \in DOMAIN s : i < j => s[i].at <= s[j].at

(* What is chosen of a record keeps its order, and all of it is there.     *)
LEMMA ChosenInOrder ==
  ASSUME NEW S, NEW s \in Seq(S), NEW I \in SUBSET (DOMAIN s)
  PROVE  /\ Beer!Chosen(s, I) \in Seq(S) /\ Len(Beer!Chosen(s, I)) <= Len(s)
         /\ \E f \in [1 .. Len(Beer!Chosen(s, I)) -> I] :
              /\ \A n \in DOMAIN Beer!Chosen(s, I) : Beer!Chosen(s, I)[n] = s[f[n]]
              /\ \A n, m \in DOMAIN Beer!Chosen(s, I) : n < m => f[n] < f[m]
              /\ \A i \in I : \E n \in DOMAIN Beer!Chosen(s, I) : f[n] = i
<1> DEFINE rank(i) == Cardinality({j \in I : j <= i})
           nth(n) == CHOOSE i \in I : rank(i) = n
           c == Cardinality(I)
           f == [n \in 1 .. c |-> nth(n)]
           t == Beer!Chosen(s, I)
<1>1. Len(s) \in Nat /\ DOMAIN s = 1 .. Len(s) /\ I \in SUBSET (1 .. Len(s))
  OBVIOUS
<1>2. /\ c \in Nat /\ c <= Len(s)
      /\ \A i \in I : rank(i) \in 1 .. c
      /\ \A i, k \in I : i < k => rank(i) < rank(k)
      /\ \A n \in 1 .. c : \E i \in I : rank(i) = n
  <2>1. /\ Cardinality(I) \in Nat /\ Cardinality(I) <= Len(s)
        /\ \A i \in I : Cardinality({j \in I : j <= i}) \in 1 .. Cardinality(I)
        /\ \A i, k \in I : i < k =>
             Cardinality({j \in I : j <= i}) < Cardinality({j \in I : j <= k})
        /\ \A n \in 1 .. Cardinality(I) : \E i \in I : Cardinality({j \in I : j <= i}) = n
    <3> HIDE DEF rank, c, nth, f, t
    <3> QED
      BY <1>1, Ranked
  <2> HIDE DEF nth, f, t
  <2> QED
    BY <2>1
<1>3. t = [n \in 1 .. c |-> s[nth(n)]]
  BY DEF Beer!Chosen, Beer!Cardinality, Cardinality
<1> HIDE DEF rank, c, t
<1>4. ASSUME NEW n \in 1 .. c PROVE nth(n) \in I /\ rank(nth(n)) = n
  BY <1>2
<1> HIDE DEF nth
<1>5. t \in Seq(S) /\ Len(t) = c /\ DOMAIN t = 1 .. c
  <2>1. \A n \in 1 .. c : s[nth(n)] \in S
    BY <1>1, <1>4
  <2> QED
    BY <1>2, <1>3, <2>1
<1>6. f \in [1 .. c -> I] /\ \A n \in 1 .. c : t[n] = s[f[n]]
  BY <1>3, <1>4
<1>7. ASSUME NEW n \in 1 .. c, NEW m \in 1 .. c, n < m PROVE f[n] < f[m]
  <2>1. f[n] \in I /\ f[m] \in I /\ rank(f[n]) = n /\ rank(f[m]) = m
    BY <1>4
  <2>2. f[n] \in Nat /\ f[m] \in Nat
    BY <1>1, <2>1
  <2>3. f[n] # f[m]
    BY <1>7, <2>1
  <2>4. ~(f[m] < f[n])
    <3>1. SUFFICES ASSUME f[m] < f[n] PROVE FALSE
      OBVIOUS
    <3>2. m < n
      BY <1>2, <2>1, <3>1
    <3> QED
      BY <1>2, <1>7, <3>2
  <2> QED
    BY <2>2, <2>3, <2>4
<1>8. ASSUME NEW i \in I PROVE \E n \in 1 .. c : f[n] = i
  <2>1. rank(i) \in 1 .. c
    BY <1>2
  <2>2. f[rank(i)] \in I /\ rank(f[rank(i)]) = rank(i)
    BY <1>4, <2>1
  <2>3. i \in Nat /\ f[rank(i)] \in Nat
    BY <1>1, <2>2
  <2>4. f[rank(i)] = i
    <3>1. ~(i < f[rank(i)])
      <4>1. i < f[rank(i)] => rank(i) < rank(f[rank(i)])
        BY <1>2, <2>2
      <4> QED
        BY <1>2, <2>1, <2>2, <4>1
    <3>2. ~(f[rank(i)] < i)
      <4>1. f[rank(i)] < i => rank(f[rank(i)]) < rank(i)
        BY <1>2, <2>2
      <4> QED
        BY <1>2, <2>1, <2>2, <4>1
    <3> QED
      BY <2>3, <3>1, <3>2
  <2> QED
    BY <2>1, <2>4
<1> HIDE DEF f
<1>9. t \in Seq(S) /\ Len(t) <= Len(s)
  BY <1>2, <1>5
<1>10. \E g \in [1 .. Len(t) -> I] :
         /\ \A n \in DOMAIN t : t[n] = s[g[n]]
         /\ \A n, m \in DOMAIN t : n < m => g[n] < g[m]
         /\ \A i \in I : \E n \in DOMAIN t : g[n] = i
  <2>1. /\ f \in [1 .. Len(t) -> I]
        /\ \A n \in DOMAIN t : t[n] = s[f[n]]
        /\ \A n, m \in DOMAIN t : n < m => f[n] < f[m]
        /\ \A i \in I : \E n \in DOMAIN t : f[n] = i
    BY <1>5, <1>6, <1>7, <1>8
  <2> QED
    BY <2>1
<1> QED
  BY <1>9, <1>10 DEF t

(* A sorted record has a place for every time.                             *)
LEMMA PlaceOfTime ==
  ASSUME NEW s \in Seq(Obs), ByTime(s), NEW at \in Nat
  PROVE  /\ Beer!NotAfter(s, at) \in 0 .. Len(s)
         /\ \A i \in DOMAIN s : s[i].at <= at <=> i <= Beer!NotAfter(s, at)
<1> DEFINE P == {p \in 0 .. Len(s) : \A i \in DOMAIN s : p < i => at < s[i].at}
<1>1. Len(s) \in Nat /\ DOMAIN s = 1 .. Len(s) /\ \A i \in DOMAIN s : s[i].at \in Nat
  <2>1. \A o \in Obs : o.at \in Nat
    BY DEF Obs
  <2> HIDE DEF P
  <2> QED
    BY <2>1
<1>2. P \subseteq Nat /\ Len(s) \in P
  BY <1>1
<1>3. PICK p \in P : \A q \in P : p <= q
  BY <1>2, LeastOf
<1>4. p \in 0 .. Len(s) /\ \A i \in DOMAIN s : p < i => at < s[i].at
  BY <1>3
<1>5. ASSUME p # 0 PROVE s[p].at <= at
  <2>0. p \in Nat /\ p - 1 \in Nat /\ ~(p <= p - 1) /\ p - 1 <= p
    BY <1>4, <1>5
  <2>1. p - 1 \in 0 .. Len(s) /\ p - 1 \notin P
    <3>1. p - 1 \in 0 .. Len(s)
      BY <1>1, <1>4, <2>0
    <3> HIDE DEF P
    <3> QED
      BY <1>3, <2>0, <3>1
  <2>2. PICK i \in DOMAIN s : p - 1 < i /\ ~(at < s[i].at)
    BY <2>1
  <2>3. i = p
    BY <1>1, <1>4, <2>2
  <2> QED
    BY <1>1, <2>2, <2>3
<1>6. ASSUME NEW i \in DOMAIN s PROVE s[i].at <= at <=> i <= p
  <2>1. CASE i <= p
    <3>1. p # 0 /\ p \in DOMAIN s
      BY <1>1, <1>4, <2>1
    <3>2. i = p \/ s[i].at <= s[p].at
      BY <1>1, <2>1, <3>1 DEF ByTime
    <3> QED
      BY <1>1, <1>5, <2>1, <3>1, <3>2
  <2>2. CASE p < i
    BY <1>1, <1>4, <2>2
  <2> QED
    BY <1>1, <1>4, <2>1, <2>2
<1>7. \E q \in 0 .. Len(s) : \A i \in DOMAIN s : s[i].at <= at <=> i <= q
  BY <1>4, <1>6
<1> QED
  BY <1>7 DEF Beer!NotAfter

Merged(s, new, p) == SubSeq(s, 1, p) \o new \o SubSeq(s, p + 1, Len(s))
Interleaved(M, s, new, p) ==
    /\ M \in Seq(Obs) /\ Len(M) = Len(s) + Len(new) /\ ByTime(M)
    /\ \A i \in DOMAIN s : M[IF i <= p THEN i ELSE i + Len(new)] = s[i]
    /\ \A i \in DOMAIN new : M[p + i] = new[i]
    /\ \A i \in DOMAIN M : i <= p => i \in DOMAIN s /\ M[i] = s[i]
    /\ \A i \in DOMAIN M : p + Len(new) < i => i - Len(new) \in DOMAIN s /\ M[i] = s[i - Len(new)]
    /\ \A i \in DOMAIN M : p < i /\ i <= p + Len(new) => i - p \in DOMAIN new /\ M[i] = new[i - p]

(* The new records come after those that are not later, each of the others *)
(* keeping its place.                                                      *)
LEMMA MergedByTime ==
  ASSUME NEW s \in Seq(Obs), ByTime(s), NEW at \in Nat,
         NEW new \in Seq(Obs), \A i \in DOMAIN new : new[i].at = at,
         NEW p \in 0 .. Len(s), \A i \in DOMAIN s : s[i].at <= at <=> i <= p
  PROVE  Interleaved(Merged(s, new, p), s, new, p)
<1> DEFINE a == SubSeq(s, 1, p)
           b == SubSeq(s, p + 1, Len(s))
           M == a \o new \o b
           k == Len(new)
           l == Len(s)
<1>1. l \in Nat /\ k \in Nat /\ p \in Nat /\ p <= l /\ DOMAIN s = 1 .. l /\ DOMAIN new = 1 .. k
  OBVIOUS
<1>2. a \in Seq(Obs) /\ Len(a) = p /\ \A i \in 1 .. p : a[i] = s[i]
  BY <1>1, SubSeqProperties
<1>3. b \in Seq(Obs) /\ Len(b) = l - p /\ \A i \in 1 .. (l - p) : b[i] = s[p + i]
  <2> HIDE DEF k, l
  <2>1. p + 1 \in Int /\ l \in Int /\ \A i \in (p + 1) .. l : s[i] \in Obs
    BY <1>1
  <2>2. /\ SubSeq(s, p + 1, l) \in Seq(Obs)
        /\ Len(SubSeq(s, p + 1, l)) = IF p + 1 <= l THEN l - (p + 1) + 1 ELSE 0
        /\ \A i \in 1 .. (l - (p + 1) + 1) : SubSeq(s, p + 1, l)[i] = s[(p + 1) + i - 1]
    BY <2>1, SubSeqProperties
  <2>3. l - (p + 1) + 1 = l - p /\ \A i \in 1 .. (l - p) : (p + 1) + i - 1 = p + i
    BY <1>1
  <2>4. SubSeq(s, p + 1, l) = b
    BY DEF l
  <2>5. (IF p + 1 <= l THEN l - (p + 1) + 1 ELSE 0) = l - p
    BY <1>1
  <2>6. b \in Seq(Obs) /\ Len(b) = l - p
    BY <2>2, <2>4, <2>5
  <2>7. \A i \in 1 .. (l - p) : b[i] = s[(p + 1) + i - 1]
    BY <2>2, <2>3, <2>4
  <2> HIDE DEF b
  <2> QED
    BY <2>3, <2>6, <2>7
<1> HIDE DEF a, b, k, l
<1>4. a \o new \in Seq(Obs) /\ Len(a \o new) = p + k
      /\ \A i \in 1 .. (p + k) : (a \o new)[i] = IF i <= p THEN a[i] ELSE new[i - p]
  <2>1. /\ a \o new \in Seq(Obs) /\ Len(a \o new) = Len(a) + Len(new)
        /\ \A i \in 1 .. Len(a) + Len(new) :
             (a \o new)[i] = IF i <= Len(a) THEN a[i] ELSE new[i - Len(a)]
    BY <1>2, ConcatProperties
  <2> QED
    BY <1>2, <2>1 DEF k
<1>5. M \in Seq(Obs) /\ Len(M) = l + k
      /\ \A i \in 1 .. (l + k) : M[i] = IF i <= p + k THEN (a \o new)[i] ELSE b[i - (p + k)]
  <2> DEFINE an == a \o new
  <2>1. an \in Seq(Obs) /\ Len(an) = p + k
    BY <1>4
  <2> HIDE DEF an
  <2>2. /\ an \o b \in Seq(Obs) /\ Len(an \o b) = Len(an) + Len(b)
        /\ \A i \in 1 .. Len(an) + Len(b) :
             (an \o b)[i] = IF i <= Len(an) THEN an[i] ELSE b[i - Len(an)]
    BY <1>3, <2>1, ConcatProperties
  <2>3. Len(an) + Len(b) = l + k
    BY <1>1, <1>3, <2>1
  <2>4. an \o b = M
    BY DEF an
  <2> HIDE DEF M
  <2>5. M \in Seq(Obs) /\ Len(M) = l + k
        /\ \A i \in 1 .. (l + k) : M[i] = IF i <= p + k THEN an[i] ELSE b[i - (p + k)]
    BY <2>1, <2>2, <2>3, <2>4
  <2> QED
    BY <2>5 DEF an
<1> HIDE DEF M
<1>6. ASSUME NEW i \in 1 .. (l + k), i <= p PROVE M[i] = s[i]
  <2>1. i \in 1 .. p /\ i \in 1 .. (p + k) /\ i <= p + k
    BY <1>1, <1>6
  <2>2. M[i] = (a \o new)[i]
    BY <1>5, <2>1
  <2>3. (a \o new)[i] = a[i]
    BY <1>4, <1>6, <2>1
  <2> QED
    BY <1>2, <2>1, <2>2, <2>3
<1>7. ASSUME NEW i \in 1 .. (l + k), p < i, i <= p + k PROVE i - p \in 1 .. k /\ M[i] = new[i - p]
  <2>1. i \in 1 .. (p + k) /\ i - p \in 1 .. k /\ ~(i <= p)
    BY <1>1, <1>7
  <2>2. M[i] = (a \o new)[i]
    BY <1>5, <1>7
  <2>3. (a \o new)[i] = new[i - p]
    BY <1>4, <2>1
  <2> QED
    BY <2>1, <2>2, <2>3
<1>8. ASSUME NEW i \in 1 .. (l + k), p + k < i PROVE i - k \in 1 .. l /\ M[i] = s[i - k]
  <2>1. i - (p + k) \in 1 .. (l - p) /\ p + (i - (p + k)) = i - k /\ i - k \in 1 .. l
    BY <1>1, <1>8
  <2>2. M[i] = b[i - (p + k)]
    BY <1>1, <1>5, <1>8
  <2> QED
    BY <1>3, <2>1, <2>2
<1>9. \A i \in 1 .. l : s[i].at \in Nat
  <2>1. \A o \in Obs : o.at \in Nat
    BY DEF Obs
  <2> QED
    BY <1>1, <2>1
<1>10. ASSUME NEW i \in 1 .. (l + k), NEW j \in 1 .. (l + k), i < j PROVE M[i].at <= M[j].at
  <2>1. CASE j <= p
    BY <1>1, <1>6, <1>10, <2>1 DEF ByTime
  <2>2. CASE p + k < i
    <3>1. /\ M[i] = s[i - k] /\ M[j] = s[j - k] /\ i - k \in 1 .. l /\ j - k \in 1 .. l
      BY <1>1, <1>8, <1>10, <2>2
    <3>2. i - k < j - k
      BY <1>1, <1>10
    <3> QED
      BY <1>1, <3>1, <3>2 DEF ByTime
  <2>3. CASE i <= p + k /\ p < j
    <3>1. M[i].at <= at /\ M[i].at \in Nat
      <4>1. CASE i <= p
        BY <1>1, <1>6, <1>9, <4>1
      <4>2. CASE p < i
        <5>1. i - p \in DOMAIN new /\ M[i] = new[i - p]
          BY <1>1, <1>7, <2>3, <4>2
        <5> QED
          BY <5>1
      <4> QED
        BY <1>1, <4>1, <4>2
    <3>2. at <= M[j].at /\ M[j].at \in Nat
      <4>1. CASE j <= p + k
        <5>1. j - p \in DOMAIN new /\ M[j] = new[j - p]
          BY <1>1, <1>7, <2>3, <4>1
        <5> QED
          BY <5>1
      <4>2. CASE p + k < j
        <5>1. j - k \in 1 .. l /\ M[j] = s[j - k] /\ ~(j - k <= p)
          BY <1>1, <1>8, <4>2
        <5> QED
          BY <1>1, <1>9, <5>1
      <4> QED
        BY <1>1, <4>1, <4>2
    <3> QED
      BY <3>1, <3>2
  <2> QED
    BY <1>1, <1>10, <2>1, <2>2, <2>3
<1>11. DOMAIN M = 1 .. (l + k)
  BY <1>1, <1>5
<1>12. ASSUME NEW i \in 1 .. l PROVE M[IF i <= p THEN i ELSE i + k] = s[i]
  <2>1. CASE i <= p
    BY <1>1, <1>6, <2>1
  <2>2. CASE ~(i <= p)
    <3>1. i + k \in 1 .. (l + k) /\ p + k < i + k /\ i + k - k = i
      BY <1>1, <2>2
    <3>2. PICK j \in 1 .. (l + k) : j = i + k /\ p + k < j
      BY <3>1
    <3>3. M[j] = s[j - k]
      BY <1>8, <3>2
    <3>4. j - k = i
      BY <1>1, <3>2
    <3> QED
      BY <2>2, <3>2, <3>3, <3>4
  <2> QED
    BY <2>1, <2>2
<1>13. ASSUME NEW i \in 1 .. k PROVE M[p + i] = new[i]
  <2>1. p + i \in 1 .. (l + k) /\ p < p + i /\ p + i <= p + k /\ p + i - p = i
    BY <1>1
  <2> QED
    BY <1>7, <2>1
<1>14. ByTime(M)
  BY <1>10, <1>11 DEF ByTime
<1>15. Interleaved(M, s, new, p)
  <2>1. \A i \in DOMAIN M : i <= p => i \in DOMAIN s /\ M[i] = s[i]
    BY <1>1, <1>6, <1>11
  <2>2. \A i \in DOMAIN M : p + k < i => i - k \in DOMAIN s /\ M[i] = s[i - k]
    BY <1>1, <1>8, <1>11
  <2>3. \A i \in DOMAIN M : p < i /\ i <= p + k => i - p \in DOMAIN new /\ M[i] = new[i - p]
    BY <1>1, <1>7, <1>11
  <2>4. /\ \A i \in DOMAIN s : M[IF i <= p THEN i ELSE i + k] = s[i]
        /\ \A i \in DOMAIN new : M[p + i] = new[i]
    BY <1>1, <1>12, <1>13
  <2> QED
    BY <1>5, <1>14, <2>1, <2>2, <2>3, <2>4 DEF Interleaved, k, l
<1> QED
  BY <1>15 DEF Merged, M, a, b, l

(* The limit keeps the newest of a sorted record: all, or as many as it    *)
(* allows, and what is dropped is not later than what stays.               *)
LEMMA NewestKept ==
  ASSUME NEW M \in Seq(Obs), ByTime(M)
  PROVE  LET t == Beer!Newest(M)
             d == IF Len(M) > MaxKept THEN Len(M) - MaxKept ELSE 0
         IN  /\ t \in Seq(Obs) /\ ByTime(t) /\ Len(t) = Len(M) - d /\ Len(t) <= MaxKept
             /\ d # 0 => Len(t) = MaxKept
             /\ \A i \in DOMAIN t : i + d \in DOMAIN M /\ t[i] = M[i + d]
             /\ \A i \in DOMAIN M : d < i => i - d \in DOMAIN t /\ t[i - d] = M[i]
<1> DEFINE t == Beer!Newest(M)
           d == IF Len(M) > MaxKept THEN Len(M) - MaxKept ELSE 0
           l == Len(M)
<1>1. l \in Nat /\ MaxKept \in Nat \ {0} /\ d \in Nat /\ d <= l /\ DOMAIN M = 1 .. l
  BY FermentationAssumption
<1>2. t = SubSeq(M, d + 1, l)
  <2>1. CASE l > MaxKept
    <3>1. d + 1 = l - MaxKept + 1
      BY <1>1, <2>1
    <3> HIDE DEF d
    <3> QED
      BY <2>1, <3>1 DEF Beer!Newest
  <2>2. CASE ~(l > MaxKept)
    <3>1. d + 1 = 1
      BY <2>2
    <3> HIDE DEF d
    <3> QED
      BY <2>2, <3>1 DEF Beer!Newest
  <2> QED
    BY <2>1, <2>2
<1>3. t \in Seq(Obs) /\ Len(t) = l - d /\ \A i \in 1 .. (l - d) : t[i] = M[d + i]
  <2> HIDE DEF t, d, l
  <2>1. d + 1 \in Int /\ l \in Int /\ \A i \in (d + 1) .. l : M[i] \in Obs
    BY <1>1
  <2>2. /\ t \in Seq(Obs) /\ Len(t) = IF d + 1 <= l THEN l - (d + 1) + 1 ELSE 0
        /\ \A i \in 1 .. (l - (d + 1) + 1) : t[i] = M[(d + 1) + i - 1]
    BY <1>2, <2>1, SubSeqProperties
  <2>3. l - (d + 1) + 1 = l - d /\ \A i \in 1 .. (l - d) : (d + 1) + i - 1 = d + i
    BY <1>1
  <2>4. (IF d + 1 <= l THEN l - (d + 1) + 1 ELSE 0) = l - d
    BY <1>1
  <2>5. \A i \in 1 .. (l - d) : t[i] = M[(d + 1) + i - 1]
    BY <2>2, <2>3
  <2> QED
    BY <2>2, <2>3, <2>4, <2>5
<1>4. (d # 0 => l - d = MaxKept) /\ l - d <= MaxKept
  BY <1>1
<1> HIDE DEF t, d
<1>5. DOMAIN t = 1 .. (l - d)
  BY <1>1, <1>3
<1>6. ByTime(t)
  <2>1. ASSUME NEW i \in 1 .. (l - d), NEW j \in 1 .. (l - d), i < j PROVE t[i].at <= t[j].at
    <3>1. d + i \in 1 .. l /\ d + j \in 1 .. l /\ d + i < d + j
      BY <1>1, <2>1
    <3> QED
      BY <1>1, <1>3, <3>1 DEF ByTime
  <2> QED
    BY <1>5, <2>1 DEF ByTime
<1>7. ASSUME NEW i \in 1 .. (l - d) PROVE i + d \in 1 .. l /\ t[i] = M[i + d]
  BY <1>1, <1>3
<1>8. ASSUME NEW i \in 1 .. l, d < i PROVE i - d \in 1 .. (l - d) /\ t[i - d] = M[i]
  <2>1. i - d \in 1 .. (l - d) /\ d + (i - d) = i
    BY <1>1, <1>8
  <2> QED
    BY <1>3, <2>1
<1>9. /\ t \in Seq(Obs) /\ ByTime(t) /\ Len(t) = Len(M) - d /\ Len(t) <= MaxKept
      /\ d # 0 => Len(t) = MaxKept
      /\ \A i \in DOMAIN t : i + d \in DOMAIN M /\ t[i] = M[i + d]
      /\ \A i \in DOMAIN M : d < i => i - d \in DOMAIN t /\ t[i - d] = M[i]
  BY <1>1, <1>3, <1>4, <1>5, <1>6, <1>7, <1>8
<1> QED
  BY <1>9 DEF t, d

(* What a call of Record leaves: a sorted record within the limit, of what *)
(* was there and what is new; what it dropped is not later than what stays,*)
(* and where the record was full nothing gets in before what it had.       *)
LEMMA KeptByTime ==
  ASSUME NEW s \in Seq(Obs), ByTime(s), Len(s) <= MaxKept, NEW at \in Nat,
         NEW new \in Seq(Obs), \A i \in DOMAIN new : new[i].at = at
  PROVE  LET t == Beer!Kept(s, at, new)
         IN  /\ t \in Seq(Obs) /\ ByTime(t) /\ Len(t) <= MaxKept
             /\ \A i \in DOMAIN t : \/ \E j \in DOMAIN s : t[i] = s[j]
                                    \/ \E j \in DOMAIN new : t[i] = new[j]
             /\ \A j \in DOMAIN s : \/ \E i \in DOMAIN t : t[i] = s[j]
                                    \/ Len(t) = MaxKept /\ \A i \in DOMAIN t : s[j].at <= t[i].at
             /\ \A j \in DOMAIN new : \/ \E i \in DOMAIN t : t[i] = new[j]
                                      \/ /\ Len(t) = MaxKept
                                         /\ \A i \in DOMAIN t : new[j].at <= t[i].at
             /\ Len(s) = MaxKept =>
                  /\ Len(t) = MaxKept
                  /\ \A x \in Nat, i \in DOMAIN t :
                       (\A j \in DOMAIN s : x <= s[j].at) => x <= t[i].at
<1> DEFINE p == Beer!NotAfter(s, at)
           M == Merged(s, new, p)
           t == Beer!Kept(s, at, new)
           k == Len(new)
           l == Len(s)
           d == IF Len(M) > MaxKept THEN Len(M) - MaxKept ELSE 0
<1>1. p \in 0 .. l /\ \A i \in DOMAIN s : s[i].at <= at <=> i <= p
  BY PlaceOfTime
<1> HIDE DEF p
<1>2. /\ M \in Seq(Obs) /\ Len(M) = l + k /\ ByTime(M)
      /\ \A i \in DOMAIN s : M[IF i <= p THEN i ELSE i + k] = s[i]
      /\ \A i \in DOMAIN new : M[p + i] = new[i]
      /\ \A i \in DOMAIN M : i <= p => i \in DOMAIN s /\ M[i] = s[i]
      /\ \A i \in DOMAIN M : p + k < i => i - k \in DOMAIN s /\ M[i] = s[i - k]
      /\ \A i \in DOMAIN M : p < i /\ i <= p + k => i - p \in DOMAIN new /\ M[i] = new[i - p]
  <2> HIDE DEF t, d
  <2>1. p \in 0 .. Len(s) /\ \A i \in DOMAIN s : s[i].at <= at <=> i <= p
    BY <1>1
  <2> HIDE DEF l, k
  <2>2. Interleaved(M, s, new, p)
    BY <2>1, MergedByTime
  <2> HIDE DEF M
  <2> QED
    BY <2>2 DEF Interleaved, l, k
<1>3. t = Beer!Newest(M)
  BY DEF Beer!Kept, Merged, p
<1> HIDE DEF M, t
<1>4. /\ t \in Seq(Obs) /\ ByTime(t) /\ Len(t) = Len(M) - d /\ Len(t) <= MaxKept
      /\ d # 0 => Len(t) = MaxKept
      /\ \A i \in DOMAIN t : i + d \in DOMAIN M /\ t[i] = M[i + d]
      /\ \A i \in DOMAIN M : d < i => i - d \in DOMAIN t /\ t[i - d] = M[i]
  BY <1>2, <1>3, NewestKept
<1>5. /\ l \in Nat /\ k \in Nat /\ MaxKept \in Nat \ {0} /\ p \in Nat /\ p <= l
      /\ DOMAIN s = 1 .. l /\ DOMAIN new = 1 .. k /\ DOMAIN M = 1 .. (l + k)
  <2>1. l \in Nat /\ k \in Nat /\ DOMAIN s = 1 .. l /\ DOMAIN new = 1 .. k
    OBVIOUS
  <2>2. p \in Nat /\ p <= l
    BY <1>1, <2>1
  <2>3. DOMAIN M = 1 .. Len(M)
    BY <1>2
  <2>4. MaxKept \in Nat \ {0}
    BY FermentationAssumption
  <2>5. Len(M) = l + k
    BY <1>2
  <2>6. DOMAIN M = 1 .. (l + k)
    BY <2>3, <2>5
  <2> QED
    BY <2>1, <2>2, <2>4, <2>6
<1>6. d \in Nat /\ (l = MaxKept => d = k)
  <2>1. Len(M) = l + k
    BY <1>2
  <2> HIDE DEF k, l
  <2>2. d = IF l + k > MaxKept THEN (l + k) - MaxKept ELSE 0
    BY <2>1
  <2> HIDE DEF d
  <2>3. l \in Nat /\ k \in Nat /\ MaxKept \in Nat
    BY <1>5
  <2> QED
    BY <2>2, <2>3
<1> HIDE DEF k, l, d
<1>7. ASSUME NEW i \in DOMAIN M
      PROVE  (\E j \in DOMAIN s : M[i] = s[j]) \/ (\E j \in DOMAIN new : M[i] = new[j])
  <2>1. i \in Nat /\ (i <= p \/ (p < i /\ i <= p + k) \/ p + k < i)
    BY <1>5
  <2> QED
    BY <1>2, <2>1
<1>8. ASSUME NEW i \in DOMAIN M
      PROVE  \/ \E j \in DOMAIN t : t[j] = M[i]
             \/ Len(t) = MaxKept /\ \A j \in DOMAIN t : M[i].at <= t[j].at
  <2>1. CASE d < i
    BY <1>4, <2>1
  <2>2. CASE ~(d < i)
    <3>1. d # 0 /\ i <= d
      BY <1>5, <1>6, <2>2
    <3>2. ASSUME NEW j \in DOMAIN t PROVE M[i].at <= t[j].at
      <4>1. j + d \in DOMAIN M /\ t[j] = M[j + d] /\ j \in Nat /\ j # 0
        BY <1>4
      <4>2. i < j + d
        BY <1>5, <1>6, <3>1, <4>1
      <4> QED
        BY <1>2, <4>1, <4>2 DEF ByTime
    <3> QED
      BY <1>4, <3>1, <3>2
  <2> QED
    BY <2>1, <2>2
<1>9. ASSUME NEW j \in DOMAIN s PROVE \E i \in DOMAIN M : M[i] = s[j]
  <2>1. (IF j <= p THEN j ELSE j + k) \in DOMAIN M
    BY <1>5
  <2> QED
    BY <1>2, <2>1
<1>10. ASSUME NEW j \in DOMAIN new PROVE \E i \in DOMAIN M : M[i] = new[j]
  <2>1. p + j \in DOMAIN M
    BY <1>5
  <2> QED
    BY <1>2, <2>1
<1>11. ASSUME l = MaxKept, NEW x \in Nat, \A j \in DOMAIN s : x <= s[j].at, NEW i \in DOMAIN t
       PROVE  x <= t[i].at
  <2>1. i + k \in DOMAIN M /\ t[i] = M[i + k] /\ i \in Nat /\ i # 0
    BY <1>4, <1>6, <1>11
  <2>2. PICK m \in DOMAIN M : m = i + k
    BY <2>1
  <2>3. CASE m <= p
    BY <1>2, <1>11, <2>1, <2>2, <2>3
  <2>4. CASE p + k < m
    BY <1>2, <1>11, <2>1, <2>2, <2>4
  <2>5. CASE p < m /\ m <= p + k
    <3>1. m - p \in DOMAIN new /\ M[m] = new[m - p]
      BY <1>2, <2>5
    <3>2. M[m].at = at
      BY <3>1
    <3>3. i <= p /\ i \in DOMAIN s
      BY <1>5, <2>1, <2>2, <2>5
    <3>4. x <= s[i].at /\ s[i].at <= at
      BY <1>1, <1>11, <3>3
    <3>5. s[i].at \in Nat
      <4>1. s[i] \in Obs
        BY <1>5, <3>3
      <4> QED
        BY <4>1 DEF Obs
    <3> QED
      BY <2>1, <2>2, <3>2, <3>4, <3>5
  <2>6. m \in Nat
    BY <1>5
  <2> QED
    BY <1>5, <2>3, <2>4, <2>5, <2>6
<1>12. l = MaxKept => Len(t) = MaxKept
  BY <1>2, <1>4, <1>5, <1>6 DEF l, k
<1>13. ASSUME NEW i \in DOMAIN t
       PROVE  (\E j \in DOMAIN s : t[i] = s[j]) \/ (\E j \in DOMAIN new : t[i] = new[j])
  BY <1>4, <1>7
<1>14. ASSUME NEW j \in DOMAIN s
       PROVE  \/ \E i \in DOMAIN t : t[i] = s[j]
              \/ Len(t) = MaxKept /\ \A i \in DOMAIN t : s[j].at <= t[i].at
  <2>1. PICK i \in DOMAIN M : M[i] = s[j]
    BY <1>9
  <2> QED
    BY <1>8, <2>1
<1>15. ASSUME NEW j \in DOMAIN new
       PROVE  \/ \E i \in DOMAIN t : t[i] = new[j]
              \/ Len(t) = MaxKept /\ \A i \in DOMAIN t : new[j].at <= t[i].at
  <2>1. PICK i \in DOMAIN M : M[i] = new[j]
    BY <1>10
  <2> QED
    BY <1>8, <2>1
<1>16. Len(s) = MaxKept =>
         /\ Len(t) = MaxKept
         /\ \A x \in Nat, i \in DOMAIN t : (\A j \in DOMAIN s : x <= s[j].at) => x <= t[i].at
  BY <1>11, <1>12 DEF l
<1>17. t \in Seq(Obs) /\ ByTime(t) /\ Len(t) <= MaxKept
  BY <1>4
<1> QED
  BY <1>13, <1>14, <1>15, <1>16, <1>17 DEF t

(* An observation without what was made of it.                             *)
Noted(o) == [at |-> o.at, unit |-> o.unit, value |-> o.value]
Fermentations == [active : BOOLEAN, config : Configs, seen : Seq(Obs)]

(* A stored SG is the one of the settings in force, which can give it.     *)
SoundRecord(t) ==
    /\ t \in Fermentations /\ Len(t.seen) <= MaxKept /\ ByTime(t.seen)
    /\ \A i \in DOMAIN t.seen :
         /\ t.seen[i].sg = Beer!Normalized(t.seen[i], t.config)
         /\ t.seen[i].unit = "brix" => t.config.og # None

(* What was accepted is there, or the record is full of what is no older.  *)
Covered(s) ==
    \A r \in taken : \/ \E i \in DOMAIN s : Noted(s[i]) = r
                     \/ Len(s) = MaxKept /\ \A i \in DOMAIN s : r.at <= s[i].at

BeerInv ==
    /\ SoundRecord(runtime) /\ SoundRecord(stored)
    /\ taken \subseteq [at : Nat, unit : {"sg", "brix", "c"}, value : Nat]
    /\ \A i \in DOMAIN runtime.seen : Noted(runtime.seen[i]) \in taken
    /\ Covered(runtime.seen)

LEMMA EmptyRecord ==
  /\ <<>> \in Seq(Obs) /\ Len(<<>>) <= MaxKept /\ ByTime(<<>>) /\ DOMAIN <<>> = {}
  /\ SoundRecord(Beer!NoFermentation) /\ Beer!NoFermentation.seen = <<>>
<1>1. <<>> \in Seq(Obs) /\ Len(<<>>) <= MaxKept /\ DOMAIN <<>> = {}
  BY FermentationAssumption
<1>2. ByTime(<<>>)
  BY <1>1 DEF ByTime
<1>3. (CHOOSE c \in Configs : c.og = None) \in Configs
  BY FermentationAssumption
<1>4. /\ Beer!NoFermentation \in Fermentations /\ Beer!NoFermentation.seen = <<>>
  BY <1>1, <1>3 DEF Beer!NoFermentation, Fermentations
<1> QED
  BY <1>1, <1>2, <1>4 DEF SoundRecord

(* Read or computed, an SG is one of those there may be.                   *)
LEMMA ObservationFits ==
  /\ \A r \in Readings, at \in Nat, c \in Configs :
       /\ Beer!Observation(r, at, c) \in Obs
       /\ Beer!Observation(r, at, c).at = at
       /\ Noted(Beer!Observation(r, at, c)) = [at |-> at, unit |-> r.unit, value |-> r.value]
       /\ Beer!Observation(r, at, c).unit = r.unit
       /\ Beer!Observation(r, at, c).sg = Beer!Normalized(Beer!Observation(r, at, c), c)
  /\ \A o \in Obs, c \in Configs :
       LET u == [o EXCEPT !.sg = Beer!Normalized(o, c)]
       IN  /\ u \in Obs /\ Noted(u) = Noted(o) /\ u.unit = o.unit /\ u.at = o.at
           /\ u.sg = Beer!Normalized(u, c)
<1>1. ASSUME NEW r \in Readings, NEW at \in Nat, NEW c \in Configs
      PROVE  /\ Beer!Observation(r, at, c) \in Obs
             /\ Beer!Observation(r, at, c).at = at
             /\ Noted(Beer!Observation(r, at, c)) = [at |-> at, unit |-> r.unit, value |-> r.value]
             /\ Beer!Observation(r, at, c).unit = r.unit
             /\ Beer!Observation(r, at, c).sg = Beer!Normalized(Beer!Observation(r, at, c), c)
  <2>1. r.unit \in {"sg", "brix", "c"} /\ r.value \in Nat
    BY DEF Readings
  <2>2. Beer!Normalized(r, c) \in {Beer!Normalized(q, d) : q \in Readings, d \in Configs}
    OBVIOUS
  <2>3. Beer!Observation(r, at, c) \in Obs
    <3> HIDE DEF Readings
    <3> QED
      BY <2>1, <2>2 DEF Beer!Observation, Obs
  <2> QED
    BY <2>3 DEF Beer!Observation, Beer!Normalized, Noted
<1>2. ASSUME NEW o \in Obs, NEW c \in Configs
      PROVE  LET u == [o EXCEPT !.sg = Beer!Normalized(o, c)]
             IN  /\ u \in Obs /\ Noted(u) = Noted(o) /\ u.unit = o.unit /\ u.at = o.at
                 /\ u.sg = Beer!Normalized(u, c)
  <2> DEFINE r == [unit |-> o.unit, value |-> o.value]
  <2>1. r \in Readings
    BY DEF Obs, Readings
  <2>2. Beer!Normalized(o, c) = Beer!Normalized(r, c)
    BY DEF Beer!Normalized
  <2>3. Beer!Normalized(o, c) \in {Beer!Normalized(q, d) : q \in Readings, d \in Configs}
    BY <2>1, <2>2
  <2>4. PICK x \in {Beer!Normalized(q, d) : q \in Readings, d \in Configs} :
          x = Beer!Normalized(o, c)
    BY <2>3
  <2> DEFINE u == [o EXCEPT !.sg = x]
  <2>5. u \in Obs /\ u.at = o.at /\ u.unit = o.unit /\ u.value = o.value /\ u.sg = x
    BY DEF Obs
  <2> HIDE DEF u
  <2>6. Beer!Normalized(u, c) = x
    BY <2>4, <2>5 DEF Beer!Normalized
  <2>7. Noted(u) = Noted(o)
    BY <2>5 DEF Noted
  <2> QED
    BY <2>4, <2>5, <2>6, <2>7 DEF u
<1> QED
  BY <1>1, <1>2

LEMMA BeerRecord ==
  ASSUME BeerInv, Beer!Record
  PROVE  BeerInv'
<1> DEFINE s == runtime.seen
           c == runtime.config
<1>1. PICK rs \in Records, at \in 0 .. MaxHour :
        /\ (\E r \in Beer!Range(rs) : r.unit = "brix") => c.og # None
        /\ LET new == [i \in DOMAIN rs |-> Beer!Observation(rs[i], at, c)]
           IN  runtime' = [runtime EXCEPT !.seen = Beer!Kept(s, at, new)]
        /\ taken' = taken \cup {[at |-> at, unit |-> r.unit, value |-> r.value] : r \in Beer!Range(rs)}
        /\ stored' = stored
  BY DEF Beer!Record, Beer!Served
<1> DEFINE new == [i \in DOMAIN rs |-> Beer!Observation(rs[i], at, c)]
           t == Beer!Kept(s, at, new)
<1>2. at \in Nat /\ rs \in Seq(Readings) /\ Beer!Range(rs) = {rs[i] : i \in DOMAIN rs}
  BY FermentationAssumption DEF Readings, Beer!Range
<1>3. runtime \in Fermentations /\ s \in Seq(Obs) /\ c \in Configs /\ ByTime(s) /\ Len(s) <= MaxKept
  BY DEF BeerInv, SoundRecord, Fermentations
<1>4. new \in Seq(Obs) /\ DOMAIN new = DOMAIN rs
      /\ \A i \in DOMAIN rs : /\ new[i] = Beer!Observation(rs[i], at, c) /\ rs[i] \in Readings
  <2>1. \A i \in DOMAIN rs : rs[i] \in Readings
    BY <1>2
  <2>2. \A i \in DOMAIN rs : Beer!Observation(rs[i], at, c) \in Obs
    BY <1>2, <1>3, <2>1, ObservationFits
  <2>3. DOMAIN rs = 1 .. Len(rs) /\ Len(rs) \in Nat
    BY <1>2
  <2> QED
    BY <2>1, <2>2, <2>3
<1> HIDE DEF new
<1>5. \A i \in DOMAIN new :
        /\ new[i].at = at /\ new[i].sg = Beer!Normalized(new[i], c) /\ new[i].unit = rs[i].unit
        /\ Noted(new[i]) = [at |-> at, unit |-> rs[i].unit, value |-> rs[i].value]
  BY <1>2, <1>3, <1>4, ObservationFits
<1>6. /\ t \in Seq(Obs) /\ ByTime(t) /\ Len(t) <= MaxKept
      /\ \A i \in DOMAIN t : \/ \E j \in DOMAIN s : t[i] = s[j]
                             \/ \E j \in DOMAIN new : t[i] = new[j]
      /\ \A j \in DOMAIN s : \/ \E i \in DOMAIN t : t[i] = s[j]
                             \/ Len(t) = MaxKept /\ \A i \in DOMAIN t : s[j].at <= t[i].at
      /\ \A j \in DOMAIN new : \/ \E i \in DOMAIN t : t[i] = new[j]
                               \/ Len(t) = MaxKept /\ \A i \in DOMAIN t : new[j].at <= t[i].at
      /\ Len(s) = MaxKept =>
           /\ Len(t) = MaxKept
           /\ \A x \in Nat, i \in DOMAIN t : (\A j \in DOMAIN s : x <= s[j].at) => x <= t[i].at
  <2> HIDE DEF s, c
  <2> QED
    BY <1>2, <1>3, <1>4, <1>5, KeptByTime
<1> HIDE DEF t
<1>7. runtime' \in Fermentations /\ runtime'.seen = t /\ runtime'.config = c
  BY <1>1, <1>3, <1>6 DEF Fermentations, t, new
<1>8. ASSUME NEW i \in DOMAIN t
      PROVE  /\ t[i].sg = Beer!Normalized(t[i], c)
             /\ t[i].unit = "brix" => c.og # None
             /\ Noted(t[i]) \in taken'
  <2>1. CASE \E j \in DOMAIN s : t[i] = s[j]
    BY <1>1, <2>1 DEF BeerInv, SoundRecord
  <2>2. CASE \E j \in DOMAIN new : t[i] = new[j]
    <3>1. PICK j \in DOMAIN new : t[i] = new[j]
      BY <2>2
    <3>2. rs[j] \in Beer!Range(rs)
      BY <1>2, <1>4
    <3>3. t[i].unit = "brix" => c.og # None
      BY <1>1, <1>5, <3>1, <3>2
    <3>4. Noted(t[i]) \in taken'
      BY <1>1, <1>5, <3>1, <3>2
    <3> QED
      BY <1>5, <3>1, <3>3, <3>4
  <2> QED
    BY <1>6, <2>1, <2>2
<1>9. ASSUME NEW r \in taken'
      PROVE  \/ \E i \in DOMAIN t : Noted(t[i]) = r
             \/ Len(t) = MaxKept /\ \A i \in DOMAIN t : r.at <= t[i].at
  <2>1. CASE r \in taken /\ \E j \in DOMAIN s : Noted(s[j]) = r
    <3>1. PICK j \in DOMAIN s : Noted(s[j]) = r
      BY <2>1
    <3>2. r.at = s[j].at
      BY <3>1 DEF Noted
    <3> QED
      BY <1>6, <3>1, <3>2
  <2>2. CASE r \in taken /\ Len(s) = MaxKept /\ \A j \in DOMAIN s : r.at <= s[j].at
    <3>1. r.at \in Nat
      BY <2>2 DEF BeerInv
    <3> QED
      BY <1>6, <2>2, <3>1
  <2>3. CASE r \notin taken
    <3>1. PICK q \in Beer!Range(rs) : r = [at |-> at, unit |-> q.unit, value |-> q.value]
      BY <1>1, <2>3
    <3>2. PICK j \in DOMAIN new : q = rs[j]
      BY <1>2, <1>4, <3>1
    <3>3. Noted(new[j]) = r /\ new[j].at = r.at
      BY <1>5, <3>1, <3>2
    <3> QED
      BY <1>6, <3>3
  <2> QED
    BY <2>1, <2>2, <2>3 DEF BeerInv, Covered
<1>10. taken' \subseteq [at : Nat, unit : {"sg", "brix", "c"}, value : Nat]
  <2>1. \A q \in Beer!Range(rs) : q \in Readings
    BY <1>2, <1>4
  <2>2. \A q \in Beer!Range(rs) :
          [at |-> at, unit |-> q.unit, value |-> q.value] \in
             [at : Nat, unit : {"sg", "brix", "c"}, value : Nat]
    BY <1>2, <2>1 DEF Readings
  <2> QED
    BY <1>1, <2>2 DEF BeerInv
<1>11. SoundRecord(runtime') /\ SoundRecord(stored')
  BY <1>1, <1>6, <1>7, <1>8 DEF SoundRecord, BeerInv
<1>12. Covered(runtime.seen)' /\ \A i \in DOMAIN runtime'.seen : Noted(runtime'.seen[i]) \in taken'
  BY <1>7, <1>8, <1>9 DEF Covered
<1> QED
  BY <1>10, <1>11, <1>12 DEF BeerInv, SoundRecord

LEMMA BeerUpdate ==
  ASSUME BeerInv, Beer!Update
  PROVE  BeerInv'
<1> DEFINE s == runtime.seen
<1>1. PICK c \in Configs :
        /\ c.og = None => ~Beer!NeedsOg(s)
        /\ runtime' = [runtime EXCEPT !.config = c, !.seen = Beer!Recalculated(s, c)]
        /\ taken' = taken /\ stored' = stored
  BY DEF Beer!Update, Beer!Served
<1> DEFINE t == Beer!Recalculated(s, c)
<1>2. runtime \in Fermentations /\ s \in Seq(Obs) /\ ByTime(s) /\ Len(s) <= MaxKept
  BY DEF BeerInv, SoundRecord, Fermentations
<1>3. DOMAIN s = 1 .. Len(s) /\ Len(s) \in Nat /\ \A i \in DOMAIN s : s[i] \in Obs
  BY <1>2
<1>4. t = [i \in DOMAIN s |-> [s[i] EXCEPT !.sg = Beer!Normalized(s[i], c)]]
  BY DEF Beer!Recalculated
<1>5. ASSUME NEW i \in DOMAIN s
      PROVE  /\ t[i] \in Obs /\ Noted(t[i]) = Noted(s[i]) /\ t[i].unit = s[i].unit
             /\ t[i].at = s[i].at /\ t[i].sg = Beer!Normalized(t[i], c)
  <2>1. t[i] = [s[i] EXCEPT !.sg = Beer!Normalized(s[i], c)]
    BY <1>4
  <2>2. s[i] \in Obs
    BY <1>3
  <2> HIDE DEF s, t
  <2> QED
    BY <2>1, <2>2, ObservationFits
<1>6. DOMAIN t = DOMAIN s /\ t \in Seq(Obs) /\ Len(t) = Len(s)
  <2>1. t \in [1 .. Len(s) -> Obs]
    BY <1>3, <1>4, <1>5
  <2> HIDE DEF t, s
  <2> QED
    BY <1>3, <2>1
<1> HIDE DEF t
<1>7. runtime' \in Fermentations /\ runtime'.seen = t /\ runtime'.config = c
  BY <1>1, <1>2, <1>6 DEF Fermentations, t
<1>8. ByTime(t)
  BY <1>2, <1>5, <1>6 DEF ByTime
<1>9. ASSUME NEW i \in DOMAIN t, t[i].unit = "brix" PROVE c.og # None
  BY <1>1, <1>5, <1>6, <1>9 DEF Beer!NeedsOg
<1>10. SoundRecord(runtime') /\ SoundRecord(stored')
  BY <1>1, <1>2, <1>5, <1>6, <1>7, <1>8, <1>9 DEF SoundRecord, BeerInv
<1>11. \A i \in DOMAIN runtime'.seen : Noted(runtime'.seen[i]) \in taken'
  BY <1>1, <1>5, <1>6, <1>7 DEF BeerInv
<1>12. \A r \in taken : \/ \E i \in DOMAIN t : Noted(t[i]) = r
                        \/ Len(t) = MaxKept /\ \A i \in DOMAIN t : r.at <= t[i].at
  BY <1>5, <1>6 DEF BeerInv, Covered
<1>13. Covered(runtime.seen)'
  BY <1>1, <1>7, <1>12 DEF Covered
<1> QED
  BY <1>1, <1>10, <1>11, <1>13 DEF BeerInv, SoundRecord

(* What a restart reads back is in order and starts the count anew.        *)
LEMMA BeerRestart ==
  ASSUME BeerInv, Beer!Restart
  PROVE  BeerInv'
<1> DEFINE s == stored.seen
           I == {i \in DOMAIN s : Beer!ReadBack(s[i])}
           t == Beer!Chosen(s, I)
<1>1. /\ runtime' = [stored EXCEPT !.seen = t] /\ stored' = stored
      /\ taken' = {[at |-> o.at, unit |-> o.unit, value |-> o.value] :
                     o \in Beer!Range(runtime'.seen)}
  BY DEF Beer!Restart, Beer!Loaded
<1>2. stored \in Fermentations /\ s \in Seq(Obs) /\ ByTime(s) /\ Len(s) <= MaxKept
  BY DEF BeerInv, SoundRecord, Fermentations
<1>3. /\ t \in Seq(Obs) /\ Len(t) <= Len(s)
      /\ \E f \in [1 .. Len(t) -> I] :
           /\ \A n \in DOMAIN t : t[n] = s[f[n]]
           /\ \A n, m \in DOMAIN t : n < m => f[n] < f[m]
           /\ \A i \in I : \E n \in DOMAIN t : f[n] = i
  <2>1. I \in SUBSET (DOMAIN s)
    OBVIOUS
  <2> HIDE DEF I, s
  <2> QED
    BY <1>2, <2>1, ChosenInOrder
<1>4. I \subseteq DOMAIN s
  OBVIOUS
<1> HIDE DEF I, t
<1>5. PICK f \in [1 .. Len(t) -> I] : /\ \A n \in DOMAIN t : t[n] = s[f[n]]
                                      /\ \A n, m \in DOMAIN t : n < m => f[n] < f[m]
  BY <1>3
<1>6. DOMAIN t = 1 .. Len(t) /\ Len(t) \in Nat /\ Len(s) \in Nat /\ MaxKept \in Nat
  BY <1>2, <1>3, FermentationAssumption
<1>7. \A n \in DOMAIN t : f[n] \in DOMAIN s
  BY <1>4, <1>5, <1>6
<1>8. ByTime(t) /\ Len(t) <= MaxKept
  <2>1. ASSUME NEW n \in DOMAIN t, NEW m \in DOMAIN t, n < m
        PROVE  t[n].at <= t[m].at
    <3>1. f[n] \in DOMAIN s /\ f[m] \in DOMAIN s /\ f[n] < f[m]
      BY <1>5, <1>7, <2>1
    <3>2. s[f[n]].at <= s[f[m]].at
      BY <1>2, <3>1 DEF ByTime
    <3> QED
      BY <1>5, <3>2
  <2>2. Len(t) <= MaxKept
    <3> HIDE DEF s
    <3> QED
      BY <1>2, <1>3, <1>6
  <2> QED
    BY <2>1, <2>2 DEF ByTime
<1>9. runtime' \in Fermentations /\ runtime'.seen = t /\ runtime'.config = stored.config
  BY <1>1, <1>2, <1>3 DEF Fermentations
<1>10. SoundRecord(runtime') /\ SoundRecord(stored')
  <2>1. \A n \in DOMAIN t : /\ t[n].sg = Beer!Normalized(t[n], stored.config)
                            /\ t[n].unit = "brix" => stored.config.og # None
    BY <1>5, <1>7 DEF BeerInv, SoundRecord
  <2> QED
    BY <1>1, <1>8, <1>9, <2>1 DEF SoundRecord, BeerInv
<1>11. taken' = {Noted(t[n]) : n \in DOMAIN t}
  BY <1>1, <1>9 DEF Beer!Range, Noted
<1>12. taken' \subseteq [at : Nat, unit : {"sg", "brix", "c"}, value : Nat]
  <2>1. \A o \in Obs : Noted(o) \in [at : Nat, unit : {"sg", "brix", "c"}, value : Nat]
    BY DEF Obs, Noted
  <2>2. \A n \in DOMAIN t : t[n] \in Obs
    BY <1>3, <1>6
  <2> QED
    BY <1>11, <2>1, <2>2
<1>13. Covered(runtime.seen)' /\ \A i \in DOMAIN runtime'.seen : Noted(runtime'.seen[i]) \in taken'
  BY <1>9, <1>11 DEF Covered
<1> QED
  BY <1>10, <1>12, <1>13 DEF BeerInv, SoundRecord

LEMMA BeerNextInv == BeerInv /\ [Beer!Next]_Beer!trackingVars => BeerInv'
<1> SUFFICES ASSUME BeerInv, [Beer!Next]_Beer!trackingVars PROVE BeerInv'
  OBVIOUS
<1>1. CASE Beer!Start
  <2>1. PICK c \in Configs : runtime' = [active |-> TRUE, config |-> c, seen |-> <<>>]
    BY <1>1 DEF Beer!Start
  <2>2. runtime' \in Fermentations /\ runtime'.seen = <<>>
    BY <2>1, EmptyRecord DEF Fermentations
  <2>3. SoundRecord(runtime') /\ stored' = stored /\ taken' = {}
    BY <1>1, <2>2, EmptyRecord DEF SoundRecord, Beer!Start, Beer!Served
  <2> QED
    BY <2>2, <2>3, EmptyRecord DEF BeerInv, SoundRecord, Covered
<1>2. CASE Beer!Reset
  <2>1. runtime' = Beer!NoFermentation /\ stored' = stored /\ taken' = {}
    BY <1>2 DEF Beer!Reset, Beer!Served
  <2>2. SoundRecord(runtime') /\ runtime'.seen = <<>>
    BY <2>1, EmptyRecord
  <2> QED
    BY <2>1, <2>2, EmptyRecord DEF BeerInv, SoundRecord, Covered
<1>3. CASE Beer!Save
  BY <1>3 DEF Beer!Save, BeerInv, Covered
<1>4. CASE UNCHANGED Beer!trackingVars
  BY <1>4 DEF Beer!trackingVars, BeerInv, Covered
<1> QED
  BY <1>1, <1>2, <1>3, <1>4, BeerRecord, BeerUpdate, BeerRestart DEF Beer!Next

(* Of the gravities the last is the newest, and the window reaches from it *)
(* back to the last one before the stable time.                            *)
LEMMA WindowReaches ==
  ASSUME BeerInv, Beer!Stable
  PROVE  \E a, z \in Beer!Gravities :
           /\ z = Beer!Max(Beer!Gravities) /\ \A i \in Beer!Gravities : i <= z
           /\ a \in Beer!StableWindow /\ Beer!At(z) - Beer!At(a) >= runtime.config.hours
           /\ \A i \in Beer!Gravities :
                Beer!At(i) > Beer!At(z) - runtime.config.hours => i \in Beer!StableWindow
<1> DEFINE s == runtime.seen
           G == Beer!Gravities
           W == Beer!StableWindow
           z == Beer!Max(G)
           hours == runtime.config.hours
           Older == {i \in G : Beer!At(i) < Beer!At(z) - hours}
<1>1. s \in Seq(Obs) /\ ByTime(s) /\ hours \in Nat
  BY FermentationAssumption DEF BeerInv, SoundRecord, Fermentations
<1>2. DOMAIN s = 1 .. Len(s) /\ Len(s) \in Nat /\ \A i \in DOMAIN s : Beer!At(i) \in Nat
  <2>1. \A o \in Obs : o.at \in Nat
    BY DEF Obs
  <2> QED
    BY <1>1, <2>1 DEF Beer!At
<1>3. G \subseteq 1 .. Len(s) /\ W \subseteq G
  BY <1>2 DEF Beer!Gravities, Beer!StableWindow
<1>4. G # {}
  <2>1. Beer!Cardinality({}) = 0
    BY CountedAlike, FS_EmptySet
  <2> QED
    BY <2>1 DEF Beer!Stable
<1>5. z \in G /\ \A i \in G : i <= z
  <2>1. \E m \in G : \A n \in G : n <= m
    BY <1>2, <1>3, <1>4, GreatestOf
  <2> HIDE DEF G
  <2> QED
    BY <2>1 DEF Beer!Max
<1>6. W = {i \in G : \A j \in Older : j <= i}
  BY DEF Beer!StableWindow
<1> HIDE DEF G, W, s, hours
<1>7. Beer!At(Beer!Max(W)) - Beer!At(Beer!Min(W)) >= hours
  BY DEF Beer!Stable, W, hours
<1> HIDE DEF z
<1>8. z \in W
  BY <1>5, <1>6
<1>9. Beer!Max(W) = z
  <2>1. z \in W /\ \A i \in W : i <= z
    BY <1>3, <1>5, <1>8
  <2>2. Beer!Max(W) \in W /\ \A i \in W : i <= Beer!Max(W)
    BY <2>1 DEF Beer!Max
  <2> DEFINE m == Beer!Max(W)
  <2> HIDE DEF m
  <2>3. m \in W /\ m <= z /\ z <= m
    BY <2>1, <2>2 DEF m
  <2>4. m \in Nat /\ z \in Nat
    <3>1. W \subseteq 1 .. Len(s)
      BY <1>3
    <3> QED
      BY <2>1, <2>3, <3>1
  <2>5. m = z
    BY <2>3, <2>4
  <2> QED
    BY <2>5 DEF m
<1>10. Beer!Min(W) \in W
  <2>1. W \subseteq Nat /\ W # {}
    BY <1>2, <1>3, <1>8
  <2>2. \E m \in W : \A n \in W : m <= n
    BY <2>1, LeastOf
  <2> QED
    BY <2>2 DEF Beer!Min
<1>11. ASSUME NEW i \in G, Beer!At(i) > Beer!At(z) - hours PROVE i \in W
  <2>1. ASSUME NEW j \in Older PROVE j <= i
    <3>1. Beer!At(j) < Beer!At(i) /\ i \in DOMAIN s /\ j \in DOMAIN s
      BY <1>1, <1>2, <1>3, <1>5, <1>11
    <3>2. ~(i < j)
      <4>1. i < j => Beer!At(i) <= Beer!At(j)
        BY <1>1, <3>1 DEF ByTime, Beer!At, s
      <4> QED
        BY <1>2, <3>1, <4>1
    <3> QED
      BY <1>2, <3>1, <3>2
  <2> QED
    BY <1>6, <2>1
<1>12. Beer!Min(W) \in G
  BY <1>3, <1>10
<1>13. \E a, y \in G :
         /\ y = z /\ \A i \in G : i <= y
         /\ a \in W /\ Beer!At(y) - Beer!At(a) >= hours
         /\ \A i \in G : Beer!At(i) > Beer!At(y) - hours => i \in W
  BY <1>5, <1>7, <1>9, <1>10, <1>11, <1>12
<1> QED
  BY <1>13 DEF G, W, z, hours

(* The beer is called ready only by readings of this session that span the *)
(* stable time and lie within the tolerance, every accepted reading of it  *)
(* among them: for any settings, readings and limit of what is kept.       *)
THEOREM ReadyEarned == AllSpec => []Beer!ReadyIsEarned
<1>1. ASSUME BeerInv PROVE Beer!ReadyIsEarned
  <2> DEFINE s == runtime.seen
             c == runtime.config
             G == Beer!Gravities
             W == Beer!StableWindow
             readings == {r \in taken : Beer!IsGravity(r) /\ (c.og = None => r.unit = "sg")}
             Apart(r, q) == Beer!Normalized(r, c) - Beer!Normalized(q, c)
  <2>1. s \in Seq(Obs) /\ ByTime(s) /\ c.hours \in Nat
    BY <1>1, FermentationAssumption DEF BeerInv, SoundRecord, Fermentations
  <2>2. /\ DOMAIN s = 1 .. Len(s) /\ Len(s) \in Nat
        /\ \A i \in DOMAIN s : Beer!At(i) \in Nat /\ Beer!At(i) = s[i].at
    <3>1. \A o \in Obs : o.at \in Nat
      BY DEF Obs
    <3> QED
      BY <2>1, <3>1 DEF Beer!At
  <2>3. ASSUME Beer!Stable
        PROVE  \E first, newest \in readings :
                 /\ newest.at - first.at >= c.hours
                 /\ \A r \in readings : r.at <= newest.at
                 /\ \A r, q \in {first} \cup {x \in readings : x.at > newest.at - c.hours} :
                      Apart(r, q) <= Beer!Tolerance
    <3>1. PICK a \in G, z \in G :
            /\ \A i \in G : i <= z
            /\ a \in W /\ Beer!At(z) - Beer!At(a) >= c.hours
            /\ \A i \in G : Beer!At(i) > Beer!At(z) - c.hours => i \in W
      BY <1>1, <2>3, WindowReaches
    <3>2. \A i \in G : i \in DOMAIN s /\ Beer!IsGravity(s[i])
      BY DEF Beer!Gravities
    <3>3. ASSUME NEW i \in G
          PROVE  Noted(s[i]) \in readings /\ Noted(s[i]).at = s[i].at
      <4>1. Noted(s[i]) \in taken
        BY <1>1, <3>2 DEF BeerInv
      <4>2. Beer!IsGravity(Noted(s[i])) /\ Noted(s[i]).unit = s[i].unit /\ Noted(s[i]).at = s[i].at
        BY <3>2 DEF Noted, Beer!IsGravity
      <4>3. c.og = None => s[i].unit = "sg"
        BY <1>1, <3>2 DEF BeerInv, SoundRecord, Beer!IsGravity
      <4> QED
        BY <4>1, <4>2, <4>3
    <3>4. ASSUME NEW i \in G PROVE Beer!Normalized(Noted(s[i]), c) = s[i].sg
      <4>1. s[i].sg = Beer!Normalized(s[i], c)
        BY <1>1, <3>2 DEF BeerInv, SoundRecord
      <4> QED
        BY <4>1 DEF Noted, Beer!Normalized
    <3> DEFINE first == Noted(s[a])
               newest == Noted(s[z])
    <3>5. first \in readings /\ newest \in readings /\ first.at = s[a].at /\ newest.at = s[z].at
      BY <3>3
    <3>6. s[a].at \in Nat /\ s[z].at \in Nat /\ s[z].at - s[a].at >= c.hours
      BY <2>2, <3>1, <3>2
    <3>7. \A i \in G : s[i].at <= s[z].at
      <4>1. \A i \in G : i = z \/ i < z
        BY <2>2, <3>1, <3>2
      <4> QED
        BY <2>1, <2>2, <3>2, <4>1 DEF ByTime
    <3>8. ASSUME NEW r \in readings
          PROVE  \/ \E i \in G : r = Noted(s[i])
                 \/ r.at \in Nat /\ \A i \in DOMAIN s : r.at <= s[i].at
      <4>1. CASE \E i \in DOMAIN s : Noted(s[i]) = r
        <5>1. PICK i \in DOMAIN s : Noted(s[i]) = r
          BY <4>1
        <5>2. Beer!IsGravity(s[i])
          BY <5>1 DEF Noted, Beer!IsGravity
        <5>3. i \in G
          BY <5>2 DEF Beer!Gravities
        <5> QED
          BY <5>1, <5>3
      <4>2. r \in taken /\ r.at \in Nat
        BY <1>1 DEF BeerInv
      <4> QED
        BY <1>1, <4>1, <4>2 DEF BeerInv, Covered
    <3>9. ASSUME NEW r \in readings PROVE r.at <= newest.at
      BY <3>2, <3>3, <3>5, <3>7, <3>8
    <3>10. ASSUME NEW r \in {first} \cup {x \in readings : x.at > newest.at - c.hours}
           PROVE  \E i \in W : r = Noted(s[i])
      <4>1. CASE r = first
        BY <3>1, <4>1
      <4>2. CASE r \in readings /\ r.at > newest.at - c.hours
        <5>1. ~(r.at \in Nat /\ r.at <= s[a].at)
          BY <2>1, <3>5, <3>6, <4>2
        <5>2. PICK i \in G : r = Noted(s[i])
          BY <3>2, <3>8, <4>2, <5>1
        <5>3. r.at = Beer!At(i) /\ newest.at = Beer!At(z)
          BY <2>2, <3>2, <3>3, <3>5, <5>2
        <5>4. i \in W
          BY <3>1, <4>2, <5>3
        <5> QED
          BY <5>2, <5>4
      <4> QED
        BY <4>1, <4>2
    <3>11. W \subseteq G
      BY DEF Beer!StableWindow
    <3>12. ASSUME NEW r \in {first} \cup {x \in readings : x.at > newest.at - c.hours},
                  NEW q \in {first} \cup {x \in readings : x.at > newest.at - c.hours}
           PROVE  Apart(r, q) <= Beer!Tolerance
      <4>1. PICK i \in W : r = Noted(s[i])
        BY <3>10
      <4>2. PICK j \in W : q = Noted(s[j])
        BY <3>10
      <4>3. s[i].sg - s[j].sg <= Beer!Tolerance
        BY <2>3 DEF Beer!Stable
      <4> QED
        BY <3>4, <3>11, <4>1, <4>2, <4>3
    <3> HIDE DEF first, newest, readings, Apart
    <3> QED
      BY <3>5, <3>6, <3>9, <3>12
  <2>4. \A sensor \in Sensors : Beer!ReadyForColdCrash(sensor) => Beer!Stable
    BY DEF Beer!ReadyForColdCrash
  <2> QED
    BY <2>3, <2>4 DEF Beer!ReadyIsEarned
<1>2. AllInit => BeerInv
  <2> SUFFICES ASSUME AllInit PROVE BeerInv
    OBVIOUS
  <2>1. runtime = Beer!NoFermentation /\ stored = Beer!NoFermentation /\ taken = {}
    BY DEF AllInit, Beer!Init
  <2> QED
    BY <2>1, EmptyRecord DEF BeerInv, Covered
<1>3. [AllNext]_allVars => [Beer!Next]_Beer!trackingVars
  BY DEF AllNext, allVars, GateOnly, ProbeOnly, AdviceOnly, KitOnly, BeerOnly, PairOnly,
         beerVars, Beer!trackingVars
<1> QED
  BY <1>1, <1>2, <1>3, BeerNextInv, PTL DEF AllSpec
-----------------------------------------------------------------------------
(* The equipment's evidence adds up                                        *)

Tallied(m) ==
    /\ m \in Models
    /\ IsFiniteSet(Kit!Evidence(m)) /\ Cardinality(Kit!Evidence(m)) = m.total
    /\ m.recent = Kit!Min({m.total, MaxRecent})

TallyInv ==
    /\ view \in Views \cup {None} /\ None \notin Views
    /\ Tallied(model) /\ (disk # None => Tallied(disk))

LEMMA LesserIs ==
  ASSUME NEW a \in Nat, NEW b \in Nat
  PROVE  Kit!Min({a, b}) = IF a <= b THEN a ELSE b
<1> DEFINE m == Kit!Min({a, b})
<1>1. m \in {a, b} /\ \A y \in {a, b} : m =< y
  <2>1. \E x \in {a, b} : \A y \in {a, b} : x =< y
    <3>1. CASE a <= b
      BY <3>1
    <3>2. CASE b <= a
      BY <3>2
    <3> QED
      BY <3>1, <3>2
  <2> QED
    BY <2>1 DEF Kit!Min
<1> HIDE DEF m
<1>2. m = IF a <= b THEN a ELSE b
  BY <1>1
<1> QED
  BY <1>2 DEF m

(* A record adds one observation to the evidence.                          *)
LEMMA RecordedTally ==
  ASSUME NEW m, Tallied(m), view \in Views
  PROVE  Tallied(Kit!Recorded(m))
<1> DEFINE r == Kit!Recorded(m)
           k == view.key
           e == <<k, m.counts[k] + 1>>
<1>1. r \in Models /\ r.total = m.total + 1 /\ m \in Models
  BY RecordedModel DEF Tallied
<1>2. /\ k \in Kit!Keys /\ m.counts \in [Kit!Keys -> Nat] /\ m.total \in Nat
      /\ r.counts = [m.counts EXCEPT ![k] = @ + 1] /\ r.recent = Kit!Min({m.recent + 1, MaxRecent})
  BY <1>1 DEF Kit!Keys, Models, Kit!Recorded
<1> HIDE DEF r, k
<1>3. Kit!Evidence(r) = Kit!Evidence(m) \cup {e}
  <2>1. \A j \in Kit!Keys :
          {j} \X (1 .. r.counts[j]) =
             ({j} \X (1 .. m.counts[j])) \cup (IF j = k THEN {e} ELSE {})
    <3> TAKE j \in Kit!Keys
    <3>1. CASE j = k
      <4>1. r.counts[j] = m.counts[k] + 1 /\ m.counts[k] \in Nat
        BY <1>2, <3>1
      <4>2. 1 .. (m.counts[k] + 1) = (1 .. m.counts[k]) \cup {m.counts[k] + 1}
        BY <4>1
      <4> QED
        BY <3>1, <4>1, <4>2
    <3>2. CASE j # k
      <4>1. r.counts[j] = m.counts[j]
        BY <1>2, <3>2
      <4> QED
        BY <3>2, <4>1
    <3> QED
      BY <3>1, <3>2
  <2> QED
    BY <1>2, <2>1 DEF Kit!Evidence
<1>4. e \notin Kit!Evidence(m)
  <2>1. ASSUME NEW j \in Kit!Keys, e \in {j} \X (1 .. m.counts[j]) PROVE FALSE
    <3>1. j = k /\ m.counts[k] + 1 \in 1 .. m.counts[k] /\ m.counts[k] \in Nat
      BY <1>2, <2>1
    <3> QED
      BY <3>1
  <2> QED
    BY <2>1 DEF Kit!Evidence
<1>5. IsFiniteSet(Kit!Evidence(r)) /\ Cardinality(Kit!Evidence(r)) = m.total + 1
  <2> HIDE DEF e
  <2> QED
    BY <1>3, <1>4, FS_AddElement DEF Tallied
<1>6. r.recent = Kit!Min({r.total, MaxRecent})
  <2>1. MaxRecent \in Nat /\ m.total + 1 \in Nat
    BY <1>2, EquipmentAssumption
  <2>2. m.recent = IF m.total <= MaxRecent THEN m.total ELSE MaxRecent
    BY <1>2, <2>1, LesserIs DEF Tallied
  <2>3. m.recent + 1 \in Nat
    BY <1>2, <2>1, <2>2
  <2>4. /\ r.recent = (IF m.recent + 1 <= MaxRecent THEN m.recent + 1 ELSE MaxRecent)
        /\ Kit!Min({m.total + 1, MaxRecent}) =
             (IF m.total + 1 <= MaxRecent THEN m.total + 1 ELSE MaxRecent)
    BY <1>2, <2>1, <2>3, LesserIs
  <2> QED
    BY <1>1, <1>2, <2>1, <2>2, <2>4
<1> QED
  BY <1>1, <1>5, <1>6 DEF Tallied, r

LEMMA NothingTallied == Tallied(Kit!NoModel)
<1>1. Kit!NoModel \in Models /\ Kit!NoModel.total = 0 /\ Kit!NoModel.recent = 0
  <2>1. [k \in Kit!Keys |-> 0] \in [Kit!Keys -> Nat]
    OBVIOUS
  <2> QED
    BY <2>1 DEF Kit!NoModel, Models
<1>2. Kit!Evidence(Kit!NoModel) = {}
  <2>1. \A k \in Kit!Keys : Kit!NoModel.counts[k] = 0
    BY DEF Kit!NoModel
  <2> QED
    BY <2>1 DEF Kit!Evidence
<1>3. Kit!Min({0, MaxRecent}) = 0
  BY LesserIs, EquipmentAssumption
<1> QED
  BY <1>1, <1>2, <1>3, FS_EmptySet DEF Tallied

LEMMA TallyNextInv ==
  TallyInv /\ [Kit!Next]_Kit!equipmentVars => TallyInv'
<1> SUFFICES ASSUME TallyInv, [Kit!Next]_Kit!equipmentVars PROVE TallyInv'
  OBVIOUS
<1>1. CASE Kit!Sight
  BY <1>1 DEF Kit!Sight, TallyInv
<1>2. CASE Kit!Look
  BY <1>2 DEF Kit!Look, TallyInv
<1>3. CASE Kit!Loaded
  BY <1>3, NothingTallied DEF Kit!Loaded, TallyInv
<1>4. CASE Kit!RecordLook
  BY <1>4, RecordedTally DEF Kit!RecordLook, TallyInv
<1>5. CASE Kit!RecordTick
  BY <1>5, RecordedTally DEF Kit!RecordTick, TallyInv
<1>6. CASE Kit!Save
  BY <1>6 DEF Kit!Save, TallyInv
<1>7. CASE Kit!Restart
  BY <1>7, NothingTallied DEF Kit!Restart, TallyInv
<1>8. CASE UNCHANGED Kit!equipmentVars
  BY <1>8 DEF Kit!equipmentVars, TallyInv
<1> QED
  BY <1>1, <1>2, <1>3, <1>4, <1>5, <1>6, <1>7, <1>8 DEF Kit!Next

(* In memory and as stored, the segments of the profiles together count    *)
(* every observation once, and as many are recent as may be: for any       *)
(* views, numbers and limits.                                              *)
THEOREM EquipmentKept == AllSpec => []Kit!EvidenceIsKept
<1>1. ASSUME TallyInv PROVE Kit!AddsUp(model) /\ (disk # None => Kit!AddsUp(disk))
  BY <1>1, CountedAlike DEF TallyInv, Tallied, Kit!AddsUp
<1>2. AllInit => TallyInv
  BY NothingTallied, EquipmentAssumption DEF AllInit, Kit!Init, TallyInv
<1>3. TallyInv /\ [AllNext]_allVars => TallyInv'
  BY TallyNextInv, OnePart
<1>4. Kit!StoredSurvives /\ Kit!AddsUp(model) /\ (disk # None => Kit!AddsUp(disk))
        => Kit!EvidenceIsKept
  BY DEF Kit!EvidenceIsKept
<1> QED
  BY <1>1, <1>2, <1>3, <1>4, EquipmentRemembered, PTL DEF AllSpec

(* What is recorded earns what is made of it, for any values of the        *)
(* constants: the equipment's evidence is kept, the fermenter's rests on   *)
(* different reports of the Pill, the beer is ready only by readings that  *)
(* say so.                                                                 *)
THEOREM AllEvidenceEarned == AllSpec => []EvidenceIsEarned
<1>1. Kit!EvidenceIsKept /\ Pairing!LearningIsEarned /\ Beer!ReadyIsEarned => EvidenceIsEarned
  BY DEF EvidenceIsEarned
<1> QED
  BY <1>1, EquipmentKept, EvidenceEarned, ReadyEarned, PTL

-----------------------------------------------------------------------------
(* The types of the records                                                *)

ProbeTypes == Probe!TypeOK /\ choice \in DOMAIN Probe!Order

LEMMA ProbeNextTypes ==
  ProbeTypes /\ ProbeInv /\ [Probe!Next]_Probe!probeVars => ProbeTypes'
<1> SUFFICES ASSUME ProbeTypes, ProbeInv, [Probe!Next]_Probe!probeVars PROVE ProbeTypes'
  OBVIOUS
<1> USE DEF ProbeTypes, Probe!TypeOK
<1>1. CASE Probe!Change
  <2>1. reading' \in [Probe!Probes -> Probe!Readings \cup {None}]
    <3>1. CASE reading' = reading
      BY <3>1
    <3>2. CASE \E p \in Probe!Probes, r \in Probe!Readings \cup {None} :
                 reading' = [reading EXCEPT ![p] = r]
      BY <3>2
    <3> QED
      BY <1>1, <3>1, <3>2 DEF Probe!Change
  <2>2. where' \in Spots /\ choice' \in DOMAIN Probe!Order
    BY <1>1 DEF Probe!Change
  <2> QED
    BY <1>1, <2>1, <2>2 DEF Probe!Change
<1>2. CASE Probe!Snapshot
  <2>1. ProbeInv' /\ UNCHANGED Probe!sights
    BY <1>2, SnapshotProves DEF Probe!Snapshot
  <2>2. Probe!Resolved \in Probe!Probes \cup {"internal", None}
    BY ResolvedFits DEF Probe!Probes
  <2>3. Probe!Taken \in Probe!Probes \cup {None}
    BY TakenFits
  <2>4. process' \in Probe!Probes \cup {"internal", None}
    BY <1>2, <2>2, <2>3
       DEF Probe!Snapshot, Probe!BoilSnapshot, Probe!FreeSnapshot, Probe!OwnedSnapshot, Probe!InGap, ProbeInv
  <2> QED
    BY <2>1, <2>4 DEF ProbeInv, Probe!sights
<1>3. CASE Probe!Restart
  BY <1>3 DEF Probe!Restart, Probe!sights
<1>4. CASE UNCHANGED Probe!probeVars
  BY <1>4 DEF Probe!probeVars, Probe!sights
<1> QED
  BY <1>1, <1>2, <1>3, <1>4 DEF Probe!Next

(* The bound of the observations bounds what is stored.                    *)
KitBound ==
    /\ TallyInv /\ model.total <= MaxTotal /\ written \in 0 .. MaxTotal
    /\ (disk # None => disk.total <= MaxTotal)
    /\ setup \in {"none", "started", "complete"} /\ task \in {"none", "due", "saving"}
    /\ savingModel \in BOOLEAN

LEMMA KitNextTypes == KitBound /\ [Kit!Next]_Kit!equipmentVars => KitBound'
<1> SUFFICES ASSUME KitBound, [Kit!Next]_Kit!equipmentVars PROVE KitBound'
  OBVIOUS
<1>1. TallyInv'
  BY TallyNextInv DEF KitBound
<1>2. MaxTotal \in Nat /\ model.total \in Nat /\ Kit!NoModel.total = 0
  BY EquipmentAssumption DEF KitBound, TallyInv, Tallied, Models, Kit!NoModel
<1>3. Kit!Recorded(model).total = model.total + 1
  BY DEF Kit!Recorded
<1> USE DEF KitBound
<1>4. CASE Kit!Sight
  BY <1>1, <1>4 DEF Kit!Sight
<1>5. CASE Kit!Look
  BY <1>1, <1>5 DEF Kit!Look
<1>6. CASE Kit!Loaded
  BY <1>1, <1>2, <1>6 DEF Kit!Loaded
<1>7. CASE Kit!RecordLook
  BY <1>1, <1>2, <1>3, <1>7 DEF Kit!RecordLook
<1>8. CASE Kit!RecordTick
  <2>1. savingModel' \in BOOLEAN /\ model' = Kit!Recorded(model) /\ model.total < MaxTotal
    BY <1>8 DEF Kit!RecordTick
  <2>2. model'.total <= MaxTotal
    BY <1>2, <1>3, <2>1
  <2> QED
    BY <1>1, <1>8, <2>1, <2>2 DEF Kit!RecordTick
<1>9. CASE Kit!Save
  <2>1. savingModel' \in BOOLEAN /\ task' \in {"none", "due", "saving"} /\ setup' = setup
        /\ disk' = model /\ written' = model.total /\ model' = model
    BY <1>9 DEF Kit!Save
  <2>2. written' \in 0 .. MaxTotal
    BY <1>2, <2>1
  <2> QED
    BY <1>1, <2>1, <2>2
<1>10. CASE Kit!Restart
  <2>1. /\ model' = Kit!NoModel /\ disk' = disk /\ written' = written
        /\ setup' = "none" /\ task' = "none" /\ savingModel' = FALSE
    BY <1>10 DEF Kit!Restart
  <2>2. model'.total <= MaxTotal
    BY <1>2, <2>1
  <2> QED
    BY <1>1, <2>1, <2>2
<1>11. CASE UNCHANGED Kit!equipmentVars
  BY <1>1, <1>11 DEF Kit!equipmentVars
<1> QED
  BY <1>4, <1>5, <1>6, <1>7, <1>8, <1>9, <1>10, <1>11 DEF Kit!Next

LEMMA KitTyped == KitBound => Kit!TypeOK
<1>1. ASSUME NEW m, Tallied(m) PROVE m \in Kit!Model
  <2>1. m.total \in Nat /\ MaxRecent \in Nat /\ m \in Models
    BY <1>1, EquipmentAssumption DEF Tallied, Models
  <2>2. m.recent = IF m.total <= MaxRecent THEN m.total ELSE MaxRecent
    BY <1>1, <2>1, LesserIs DEF Tallied
  <2>3. m.recent \in 0 .. MaxRecent
    BY <2>1, <2>2
  <2> QED
    BY <2>1, <2>3 DEF Models, Kit!Model
<1> QED
  BY <1>1 DEF KitBound, TallyInv, Kit!TypeOK

(* No entry is of a time to come.                                          *)
PairTypes ==
    /\ PairInv /\ hour \in 0 .. MaxQuarter /\ pill \in 0 .. MaxQuarter \cup {None}
    /\ observations \in Seq(Pairing!Entry) /\ kept \in Seq(Pairing!Entry)

LEMMA TrimmedIn ==
  ASSUME NEW S, NEW s \in Seq(S)
  PROVE  Pairing!Trimmed(s) \in Seq(S)
<1>1. MaxPairs \in Nat /\ Len(s) \in Nat
  BY PreflightAssumption
<1>2. CASE Len(s) > MaxPairs
  <2>1. \A i \in (Len(s) - MaxPairs + 1) .. Len(s) : s[i] \in S
    BY <1>1, <1>2
  <2>2. SubSeq(s, Len(s) - MaxPairs + 1, Len(s)) \in Seq(S)
    BY <1>1, <1>2, <2>1
  <2> QED
    BY <1>2, <2>2 DEF Pairing!Trimmed
<1>3. CASE ~(Len(s) > MaxPairs)
  BY <1>3 DEF Pairing!Trimmed
<1> QED
  BY <1>2, <1>3

LEMMA PairNextTypes ==
  PairTypes /\ [Pairing!Next]_Pairing!preflightVars => PairTypes'
<1> SUFFICES ASSUME PairTypes, [Pairing!Next]_Pairing!preflightVars PROVE PairTypes'
  OBVIOUS
<1>1. MaxQuarter \in Nat /\ PairInv'
  BY PreflightAssumption, PairNextInv DEF PairTypes
<1> USE DEF PairTypes
<1>2. CASE Pairing!Report
  BY <1>1, <1>2 DEF Pairing!Report
<1>3. CASE Pairing!Pass
  BY <1>1, <1>3 DEF Pairing!Pass
<1>4. CASE Pairing!Record
  <2>1. PICK at \in 0 .. hour + 1 :
          observations' = Pairing!Trimmed(Append(observations, Pairing!Paired(at)))
    BY <1>4 DEF Pairing!Record
  <2>2. Pairing!Paired(at) \in Pairing!Entry
    <3>1. CASE pill # None /\ Pairing!IsFresh(pill) /\ Pairing!IsFresh(at)
      <4>1. Pairing!Paired(at) = [at |-> at, pill |-> pill]
        BY <3>1 DEF Pairing!Paired
      <4>2. at \in 0 .. MaxQuarter /\ pill \in 0 .. MaxQuarter
        BY <1>1, <3>1 DEF Pairing!IsFresh
      <4> QED
        BY <4>1, <4>2 DEF Pairing!Entry
    <3>2. CASE ~(pill # None /\ Pairing!IsFresh(pill) /\ Pairing!IsFresh(at))
      BY <3>2 DEF Pairing!Paired, Pairing!Entry
    <3> QED
      BY <3>1, <3>2
  <2>3. Append(observations, Pairing!Paired(at)) \in Seq(Pairing!Entry)
    BY <2>2
  <2>4. observations' \in Seq(Pairing!Entry)
    BY <2>1, <2>3, TrimmedIn
  <2> QED
    BY <1>1, <1>4, <2>4 DEF Pairing!Record
<1>5. CASE Pairing!Clear
  BY <1>1, <1>5 DEF Pairing!Clear
<1>6. CASE Pairing!Save
  BY <1>1, <1>6 DEF Pairing!Save
<1>7. CASE Pairing!Restart
  BY <1>1, <1>7, TrimmedIn DEF Pairing!Restart
<1>8. CASE UNCHANGED Pairing!preflightVars
  BY <1>1, <1>8 DEF Pairing!preflightVars
<1> QED
  BY <1>2, <1>3, <1>4, <1>5, <1>6, <1>7, <1>8 DEF Pairing!Next

(* What was last heard of a thermometer is no later than its report.       *)
AdviceTypes ==
    /\ Advice!TypeOK /\ clock \in 0 .. MaxClock
    /\ report \in [Advice!Thermometers -> [temp : Temps, at : 0 .. MaxClock] \cup {None}]
    /\ \A t \in Advice!Thermometers : report[t] # None => report[t].at <= clock
    /\ last # None =>
         /\ last.at <= clock
         /\ report[last.of] # None => last.at <= report[last.of].at

Percents == 0 .. 100

LEMMA SourceIs == \A stage : Advice!Source(stage) \in Advice!Thermometers
<1> TAKE stage
<1> DEFINE readable == {t \in Advice!Thermometers : report[t] # None}
           wanted == IF stage \in Advice!InMash THEN "probe" ELSE "own"
<1>1. Advice!Source(stage) = IF wanted \in readable \/ stage = "boil" \/ readable = {} THEN wanted
                             ELSE CHOOSE t \in readable : TRUE
  BY DEF Advice!Source
<1>2. wanted \in Advice!Thermometers
  BY DEF Advice!Thermometers
<1>3. readable # {} => (CHOOSE t \in readable : TRUE) \in Advice!Thermometers
  OBVIOUS
<1> HIDE DEF readable, wanted
<1> QED
  BY <1>1, <1>2, <1>3

LEMMA AdviceLeast ==
  ASSUME NEW S, S \subseteq Nat, S # {}
  PROVE  Advice!Min(S) \in S
<1>1. \E m \in S : \A n \in S : m <= n
  BY LeastOf
<1> QED
  BY <1>1 DEF Advice!Min

LEMMA StageIs == Advice!Stage \in {"ramp", "hold", "boil", "cooling", "unknown"}
<1> DEFINE named == {i \in DOMAIN Advice!Order : Advice!Order[i] \in scene.words}
<1>1. /\ DOMAIN Advice!Order = 1 .. 4
      /\ \A i \in 1 .. 4 : Advice!Order[i] \in {"ramp", "hold", "boil", "cooling"}
  BY DEF Advice!Order
<1>2. named # {} => Advice!Min(named) \in named
  <2>1. named \subseteq Nat
    BY <1>1
  <2> HIDE DEF named
  <2> QED
    BY <2>1, AdviceLeast
<1>3. Advice!Stage = IF scene.profile THEN "boil" ELSE IF named = {} THEN "unknown"
                     ELSE Advice!Order[Advice!Min(named)]
  BY DEF Advice!Stage
<1> QED
  BY <1>1, <1>2, <1>3

LEMMA RoundFits == \A n \in Percents : Advice!Round5(n) \in Percents
BY DEF Percents, Advice!Round5

LEMMA OvershotFits == AdviceTypes => Advice!Overshot \in Percents
<1> SUFFICES ASSUME AdviceTypes PROVE Advice!Overshot \in Percents
  OBVIOUS
<1>1. device.heat \in Percents
  BY DEF AdviceTypes, Advice!TypeOK, Percents
<1>2. Advice!Min({device.heat, 30}) \in {device.heat, 30}
  <2>1. {device.heat, 30} \subseteq Nat
    BY <1>1 DEF Percents
  <2> QED
    BY <2>1, AdviceLeast
<1> QED
  BY <1>1, <1>2 DEF Advice!Overshot, Percents

LEMMA ApproachFits ==
  ASSUME AdviceTypes, NEW stage, NEW below \in Int, NEW risen
  PROVE  Advice!Approach(stage, below, risen) \in Percents
<1> DEFINE in == {b \in DOMAIN Advice!Bands : below > Advice!Bands[b].above}
<1>1. /\ DOMAIN Advice!Bands = 1 .. 4
      /\ \A b \in 1 .. 4 : Advice!Bands[b].fast \in Percents /\ Advice!Bands[b].slow \in Percents
  BY DEF Advice!Bands, Percents
<1>2. in # {} => Advice!Min(in) \in in
  <2>1. in \subseteq Nat
    BY <1>1
  <2> HIDE DEF in
  <2> QED
    BY <2>1, AdviceLeast
<1>3. Advice!Held(stage) \in Percents
  BY DEF Advice!Held, Percents
<1>4. Advice!Approach(stage, below, risen) =
        IF in # {}
        THEN (IF Advice!Rising(risen, Advice!Bands[Advice!Min(in)].limit)
              THEN Advice!Bands[Advice!Min(in)].fast ELSE Advice!Bands[Advice!Min(in)].slow)
        ELSE IF below >= -3 THEN Advice!Held(stage) ELSE Advice!Overshot
  BY DEF Advice!Approach
<1>5. in # {} => Advice!Min(in) \in 1 .. 4
  BY <1>1, <1>2
<1> HIDE DEF in
<1> QED
  BY <1>1, <1>3, <1>4, <1>5, OvershotFits

LEMMA BiasedFits ==
  ASSUME NEW stage, NEW heat \in Percents
  PROVE  Advice!Biased(stage, heat) \in Percents
<1> DEFINE low == heat - Advice!PumpBias(stage) - (IF scene.water THEN 5 ELSE 0)
<1>1. Advice!PumpBias(stage) \in 0 .. 25
  BY DEF Advice!PumpBias
<1>2. low \in Int /\ low <= 100
  BY <1>1 DEF Percents
<1> HIDE DEF low
<1>3. Advice!Max({0, low}) \in {0, low} /\ Advice!Max({0, low}) >= 0
  <2>1. \E x \in {0, low} : \A y \in {0, low} : x >= y
    <3>1. CASE low <= 0
      BY <1>2, <3>1
    <3>2. CASE low >= 0
      BY <1>2, <3>2
    <3> QED
      BY <1>2, <3>1, <3>2
  <2>2. /\ Advice!Max({0, low}) \in {0, low}
        /\ \A y \in {0, low} : Advice!Max({0, low}) >= y
    BY <2>1 DEF Advice!Max
  <2> QED
    BY <2>2
<1>4. Advice!Max({0, low}) \in Percents
  BY <1>2, <1>3 DEF Percents
<1> QED
  BY <1>4 DEF Advice!Biased, low

LEMMA SuggestedFits ==
  ASSUME AdviceTypes, NEW stage, NEW t \in Advice!Thermometers, NEW risen
  PROVE  Advice!Suggested(stage, report[t], risen) \in Percents \cup {None}
<1>1. 0 \in Percents /\ 100 \in Percents
  BY DEF Percents
<1>2. Advice!Biased(stage, 100) \in Percents
  BY <1>1, BiasedFits
<1>3. report[t] # None =>
        Advice!Biased(stage, Advice!Approach(stage, Target - report[t].temp, risen)) \in Percents
  <2> SUFFICES ASSUME report[t] # None
               PROVE Advice!Biased(stage, Advice!Approach(stage, Target - report[t].temp, risen))
                       \in Percents
    OBVIOUS
  <2>1. Target - report[t].temp \in Int
    <3>1. report[t] \in [temp : Temps, at : 0 .. MaxClock]
      BY DEF AdviceTypes
    <3>2. report[t].temp \in Temps
      BY <3>1
    <3>3. report[t].temp \in Nat /\ Target \in Nat
      BY <3>2, AdviceAssumption
    <3> QED
      BY <3>3
  <2> QED
    BY <2>1, ApproachFits, BiasedFits
<1> QED
  BY <1>1, <1>2, <1>3 DEF Advice!Suggested

LEMMA CandidateFits ==
  ASSUME AdviceTypes, NEW stage \in {"ramp", "hold", "boil", "cooling", "unknown"},
         NEW heat \in Percents \cup {None}
  PROVE  Advice!Candidate(stage, heat) \in Advice!Advice \cup {None}
<1>1. device.heat \in Percents
  BY DEF AdviceTypes, Advice!TypeOK, Percents
<1>2. Advice!Round5(device.heat) \in 0 .. 100 /\ (heat # None => Advice!Round5(heat) \in 0 .. 100)
  BY <1>1, RoundFits DEF Percents
<1>3. \/ Advice!Candidate(stage, heat) = None
      \/ Advice!Candidate(stage, heat) = [kind |-> "flow", stage |-> stage, from |-> 0, to |-> 0]
      \/ /\ heat # None
         /\ Advice!Candidate(stage, heat) =
              [kind |-> "heat", stage |-> stage, from |-> Advice!Round5(device.heat),
               to |-> Advice!Round5(heat)]
  BY DEF Advice!Candidate
<1> QED
  BY <1>2, <1>3 DEF Advice!Advice

(* A rate is over some time, and all that is told is an advice.            *)
LEMMA TrendFits ==
  ASSUME AdviceTypes, NEW source \in Advice!Thermometers
  PROVE  LET t == Advice!Trend(source, report[source])
         IN  /\ t.last \in Advice!Heard \cup {None} /\ t.previous \in Advice!Heard \cup {None}
             /\ t.rate # None => t.rate.rise \in Int /\ t.rate.span \in 1 .. MaxClock
             /\ t.last # None =>
                  /\ t.last.at <= clock
                  /\ report[t.last.of] # None => t.last.at <= report[t.last.of].at
<1> DEFINE seen == report[source]
           now == [temp |-> seen.temp, at |-> seen.at, of |-> source]
           t == Advice!Trend(source, seen)
<1>1. CASE t = [last |-> last, previous |-> previous, rate |-> rate]
  BY <1>1 DEF AdviceTypes, Advice!TypeOK
<1>2. CASE seen # None /\ ~(last # None /\ last.of = source /\ last.at = seen.at)
           /\ t = Advice!Followed(now)
  <2>1. seen \in [temp : Temps, at : 0 .. MaxClock] /\ seen.at <= clock
    BY <1>2 DEF AdviceTypes
  <2>2. now \in Advice!Heard /\ now.at = seen.at /\ now.of = source /\ now.temp = seen.temp
    BY <2>1 DEF Advice!Heard
  <2>3. seen.at \in 0 .. MaxClock /\ seen.temp \in Nat /\ MaxClock \in Nat
    BY <2>1, AdviceAssumption
  <2> HIDE DEF now
  <2>4. CASE last = None \/ last.of # now.of
    <3>1. t = [last |-> now, previous |-> None, rate |-> None]
      BY <1>2, <2>4 DEF Advice!Followed
    <3> QED
      BY <2>1, <2>2, <2>3, <3>1
  <2>5. CASE last # None /\ last.of = now.of
    <3>1. t = [last |-> now, previous |-> last,
               rate |-> [rise |-> now.temp - last.temp, span |-> now.at - last.at]]
      BY <1>2, <2>5 DEF Advice!Followed
    <3>2. last \in Advice!Heard
      BY <2>5 DEF AdviceTypes, Advice!TypeOK
    <3>3. last.at \in 0 .. MaxClock /\ last.temp \in Nat
      BY <3>2, AdviceAssumption DEF Advice!Heard
    <3>4. last.at <= seen.at /\ last.at # seen.at
      BY <1>2, <2>2, <2>5 DEF AdviceTypes
    <3>5. now.temp - last.temp \in Int /\ now.at - last.at \in 1 .. MaxClock
      BY <2>2, <2>3, <3>3, <3>4
    <3> QED
      BY <2>1, <2>2, <2>3, <3>1, <3>2, <3>5
  <2> QED
    BY <2>4, <2>5
<1>3. t = [last |-> last, previous |-> previous, rate |-> rate]
      \/ (seen # None /\ ~(last # None /\ last.of = source /\ last.at = seen.at)
          /\ t = Advice!Followed(now))
  BY DEF Advice!Trend
<1> QED
  BY <1>1, <1>2, <1>3

LEMMA SnapshotFits ==
  ASSUME AdviceTypes
  PROVE  /\ Advice!Snapshot.built \in Advice!Advice \cup {None}
         /\ Advice!Snapshot.offered \in Advice!Advice \cup {None}
         /\ Advice!Snapshot.trend = Advice!Trend(Advice!Source(Advice!Stage),
                                                 report[Advice!Source(Advice!Stage)])
<1> DEFINE stage == Advice!Stage
           source == Advice!Source(stage)
           observed == Advice!Trend(source, report[source])
           heat == Advice!Suggested(stage, report[source], observed.rate)
           advice == Advice!Candidate(stage, heat)
<1>1. advice \in Advice!Advice \cup {None}
  <2>1. source \in Advice!Thermometers
    BY SourceIs
  <2>2. heat \in Percents \cup {None}
    <3> HIDE DEF source, observed, stage
    <3> QED
      BY <2>1, SuggestedFits
  <2>3. stage \in {"ramp", "hold", "boil", "cooling", "unknown"}
    BY StageIs
  <2> HIDE DEF heat, stage
  <2> QED
    BY <2>2, <2>3, CandidateFits
<1>2. Advice!Snapshot =
        [trend |-> observed,
         built |-> IF advice # None /\ Advice!Snoozed(advice) THEN None ELSE advice,
         offered |-> IF scene.owned THEN None
                     ELSE IF advice # None /\ Advice!Snoozed(advice) THEN None ELSE advice]
  BY DEF Advice!Snapshot
<1> HIDE DEF advice, observed
<1> QED
  BY <1>1, <1>2 DEF observed

(* A look keeps the types of what it changes.                              *)
TrendTypes ==
    /\ last \in Advice!Heard \cup {None} /\ previous \in Advice!Heard \cup {None}
    /\ rate # None => rate.rise \in Int /\ rate.span \in 1 .. MaxClock
    /\ last # None =>
         /\ last.at <= clock
         /\ report[last.of] # None => last.at <= report[last.of].at
WorldTypes ==
    /\ device \in [heat : Percents, heater : BOOLEAN, pump : BOOLEAN, flow : Percents]
    /\ clock \in 0 .. MaxClock
    /\ report \in [Advice!Thermometers -> [temp : Temps, at : 0 .. MaxClock] \cup {None}]
    /\ \A t \in Advice!Thermometers : report[t] # None => report[t].at <= clock
ToldTypes ==
    /\ {pending, notified, onScreen, call} \subseteq Advice!Advice \cup {None}
    /\ \A d \in denied : d.advice \in Advice!Advice /\ d.until \in Nat

LEMMA AdviceTypesAre == AdviceTypes <=> TrendTypes /\ WorldTypes /\ ToldTypes
BY DEF AdviceTypes, TrendTypes, WorldTypes, ToldTypes, Advice!TypeOK, Percents

LEMMA LookTypes ==
  ASSUME AdviceTypes, Advice!Observed(Advice!Snapshot), clock' = clock, report' = report
  PROVE  TrendTypes'
<1> DEFINE source == Advice!Source(Advice!Stage)
           t == Advice!Trend(source, report[source])
<1>1. last' = t.last /\ previous' = t.previous /\ rate' = t.rate
  BY SnapshotFits DEF Advice!Observed
<1>2. source \in Advice!Thermometers
  BY SourceIs
<1> HIDE DEF source
<1>3. /\ t.last \in Advice!Heard \cup {None} /\ t.previous \in Advice!Heard \cup {None}
      /\ t.rate # None => t.rate.rise \in Int /\ t.rate.span \in 1 .. MaxClock
      /\ t.last # None =>
           /\ t.last.at <= clock
           /\ report[t.last.of] # None => t.last.at <= report[t.last.of].at
  BY <1>2, TrendFits
<1> HIDE DEF t
<1> QED
  BY <1>1, <1>3 DEF TrendTypes

LEMMA AdviceNextTypes ==
  AdviceTypes /\ [Advice!Next]_Advice!adviceVars => AdviceTypes'
<1> SUFFICES ASSUME AdviceTypes, [Advice!Next]_Advice!adviceVars
             PROVE  TrendTypes' /\ WorldTypes' /\ ToldTypes'
  BY DEF AdviceTypes, TrendTypes, WorldTypes, ToldTypes, Advice!TypeOK, Percents
<1>1. TrendTypes /\ WorldTypes /\ ToldTypes
  BY AdviceTypesAre
<1>2. MaxClock \in Nat /\ Temps \subseteq Nat
  BY AdviceAssumption
<1>3. UNCHANGED Advice!world => WorldTypes' /\ clock' = clock /\ report' = report
  BY <1>1 DEF Advice!world, WorldTypes
<1>4. UNCHANGED <<Advice!trend, clock, report>> => TrendTypes'
  BY <1>1 DEF Advice!trend, TrendTypes
<1>5. CASE Advice!Change
  <2>1. ToldTypes' /\ clock' = clock
    BY <1>1, <1>5 DEF Advice!Change, Advice!told, ToldTypes
  <2>2. UNCHANGED <<last, previous, rate>>
    BY <1>5 DEF Advice!Change, Advice!trend
  <2>3. device' \in [heat : Percents, heater : BOOLEAN, pump : BOOLEAN, flow : Percents]
    BY <1>1, <1>5, AdviceAssumption DEF Advice!Change, WorldTypes, Percents
  <2>4. CASE report' = report
    BY <1>1, <2>1, <2>2, <2>3, <2>4 DEF TrendTypes, WorldTypes
  <2>5. CASE \E t \in Advice!Thermometers : report' = [report EXCEPT ![t] = None]
    <3>1. PICK t \in Advice!Thermometers : report' = [report EXCEPT ![t] = None]
      BY <2>5
    <3>2. report' \in [Advice!Thermometers -> [temp : Temps, at : 0 .. MaxClock] \cup {None}]
          /\ \A u \in Advice!Thermometers : report'[u] = report[u] \/ report'[u] = None
      BY <1>1, <3>1 DEF WorldTypes
    <3>3. last # None => last.of \in Advice!Thermometers
      BY <1>1 DEF TrendTypes, Advice!Heard
    <3> QED
      BY <1>1, <2>1, <2>2, <2>3, <3>2, <3>3 DEF TrendTypes, WorldTypes
  <2>6. CASE \E t \in Advice!Thermometers, c \in Temps :
               report' = [report EXCEPT ![t] = [temp |-> c, at |-> clock]]
    <3>1. PICK t \in Advice!Thermometers, c \in Temps :
            report' = [report EXCEPT ![t] = [temp |-> c, at |-> clock]]
      BY <2>6
    <3>2. report' \in [Advice!Thermometers -> [temp : Temps, at : 0 .. MaxClock] \cup {None}]
          /\ \A u \in Advice!Thermometers : report'[u] = report[u] \/ report'[u].at = clock
      BY <1>1, <3>1 DEF WorldTypes
    <3>3. last # None => last.of \in Advice!Thermometers
      BY <1>1 DEF TrendTypes, Advice!Heard
    <3> QED
      BY <1>1, <2>1, <2>2, <2>3, <3>2, <3>3 DEF TrendTypes, WorldTypes
  <2> QED
    BY <1>5, <2>4, <2>5, <2>6 DEF Advice!Change
<1>6. CASE Advice!Later
  <2>1. clock' = clock + 1 /\ clock' \in 0 .. MaxClock /\ clock \in Nat
    BY <1>1, <1>2, <1>6 DEF Advice!Later, WorldTypes
  <2>2. WorldTypes'
    BY <1>1, <1>6, <2>1 DEF Advice!Later, WorldTypes
  <2>3. TrendTypes'
    <3>1. UNCHANGED <<last, previous, rate, report>>
      BY <1>6 DEF Advice!Later, Advice!trend
    <3>2. last # None => last.at \in Nat
      BY <1>1 DEF TrendTypes, Advice!Heard
    <3> QED
      BY <1>1, <2>1, <3>1, <3>2 DEF TrendTypes
  <2> QED
    BY <1>1, <1>6, <2>2, <2>3 DEF Advice!Later, Advice!told, ToldTypes
<1>7. CASE Advice!Cleared
  BY <1>1, <1>3, <1>4, <1>7 DEF Advice!Cleared, ToldTypes
<1>8. CASE Advice!Look
  BY <1>1, <1>3, <1>8, LookTypes, SnapshotFits DEF Advice!Look, Advice!told, ToldTypes
<1>9. CASE Advice!NotifyQuietly
  BY <1>1, <1>3, <1>4, <1>9 DEF Advice!NotifyQuietly, Advice!Dismiss, Advice!told, ToldTypes
<1>10. CASE Advice!Notify
  BY <1>1, <1>3, <1>10, LookTypes, SnapshotFits
     DEF Advice!Notify, Advice!Dismiss, Advice!told, ToldTypes
<1>11. CASE Advice!Apply
  BY <1>1, <1>3, <1>11, LookTypes, SnapshotFits DEF Advice!Apply, Advice!told, ToldTypes
<1>12. CASE Advice!Landed
  <2>1. call \in Advice!Advice
    BY <1>1, <1>12 DEF Advice!Landed, ToldTypes
  <2>2. call.kind \in {"heat", "flow"} /\ call.to \in Percents
    BY <2>1 DEF Advice!Advice, Percents
  <2>3. device' \in [heat : Percents, heater : BOOLEAN, pump : BOOLEAN, flow : Percents]
    BY <1>1, <1>12, <2>2 DEF Advice!Landed, WorldTypes
  <2> QED
    BY <1>1, <1>4, <1>12, <2>3 DEF Advice!Landed, Advice!Dismiss, WorldTypes, ToldTypes
<1>13. CASE Advice!Failed
  BY <1>1, <1>3, <1>4, <1>13 DEF Advice!Failed, Advice!told, ToldTypes
<1>14. CASE Advice!Deny
  <2>1. PICK advice \in Advice!Advice \cup {None} :
          /\ advice = Advice!Snapshot.offered
          /\ IF advice = None THEN UNCHANGED <<denied, Advice!told>>
             ELSE denied' = Advice!Snoozes(advice) /\ Advice!Dismiss
    BY <1>14, SnapshotFits DEF Advice!Deny
  <2>2. pending' = None /\ call' = call /\ Advice!Observed(Advice!Snapshot) /\ UNCHANGED Advice!world
    BY <1>14 DEF Advice!Deny
  <2>3. clock + Advice!Snooze \in Nat
    BY <1>1, <1>2 DEF WorldTypes, Advice!Snooze
  <2>4. \A d \in denied' : d.advice \in Advice!Advice /\ d.until \in Nat
    BY <1>1, <2>1, <2>3 DEF ToldTypes, Advice!Snoozes
  <2>5. {pending, notified, onScreen, call}' \subseteq Advice!Advice \cup {None}
    BY <1>1, <2>1, <2>2 DEF ToldTypes, Advice!Dismiss, Advice!told
  <2> QED
    BY <1>3, <2>2, <2>4, <2>5, LookTypes DEF ToldTypes
<1>15. CASE Advice!Restart
  BY <1>1, <1>3, <1>15 DEF Advice!Restart, TrendTypes, ToldTypes
<1>16. CASE UNCHANGED Advice!adviceVars
  BY <1>1, <1>3, <1>4, <1>16 DEF Advice!adviceVars, Advice!told, ToldTypes
<1> QED
  BY <1>5, <1>6, <1>7, <1>8, <1>9, <1>10, <1>11, <1>12, <1>13, <1>14, <1>15, <1>16
     DEF Advice!Next

(* What the parts beside the gate remember is well formed, for any values  *)
(* of the constants: an advice is one that the device takes, a rate is     *)
(* over some time, no record is over its limit or of a time to come.       *)
THEOREM RecordTypes == AllSpec => []RecordTypesOK
<1> DEFINE Typed == ProbeInv /\ ProbeTypes /\ AdviceTypes /\ KitBound /\ BeerInv /\ PairTypes
<1>1. AllInit => Typed
  <2> SUFFICES ASSUME AllInit PROVE Typed
    OBVIOUS
  <2>1. ProbeInv /\ ProbeTypes
    BY DEF AllInit, Probe!Init, ProbeInv, ProbeTypes, Probe!TypeOK, Probe!Order
  <2>2. TrendTypes /\ WorldTypes /\ ToldTypes
    <3>1. MaxClock \in Nat
      BY AdviceAssumption
    <3>2. device \in [heat : Percents, heater : BOOLEAN, pump : BOOLEAN, flow : Percents]
      BY AdviceAssumption DEF AllInit, Advice!Init, Percents
    <3> QED
      BY <3>1, <3>2 DEF AllInit, Advice!Init, TrendTypes, WorldTypes, ToldTypes
  <2>3. KitBound
    <3>1. Kit!NoModel.total = 0 /\ MaxTotal \in Nat
      BY EquipmentAssumption DEF Kit!NoModel
    <3> QED
      <4>1. /\ view = None /\ model = Kit!NoModel /\ disk = None /\ written = 0
            /\ setup = "none" /\ task = "none" /\ savingModel = FALSE
        BY DEF AllInit, Kit!Init
      <4>2. TallyInv
        BY <4>1, NothingTallied, EquipmentAssumption DEF TallyInv
      <4>3. model.total <= MaxTotal /\ written \in 0 .. MaxTotal
        BY <3>1, <4>1
      <4> QED
        BY <4>1, <4>2, <4>3 DEF KitBound
  <2>4. BeerInv
    <3>1. runtime = Beer!NoFermentation /\ stored = Beer!NoFermentation /\ taken = {}
      BY DEF AllInit, Beer!Init
    <3> QED
      BY <3>1, EmptyRecord DEF BeerInv, Covered
  <2>5. PairTypes
    <3>1. IsRecord(<<>>) /\ Len(<<>>) <= MaxPairs /\ MaxQuarter \in Nat
          /\ <<>> \in Seq(Pairing!Entry)
      BY PreflightAssumption DEF IsRecord
    <3>2. observations = <<>> /\ kept = <<>> /\ hour = 0 /\ pill = None /\ saves = FALSE
      BY DEF AllInit, Pairing!Init
    <3> QED
      <4>1. PairInv
        BY <3>1, <3>2 DEF PairInv
      <4>2. hour \in 0 .. MaxQuarter
        BY <3>1, <3>2
      <4> QED
        BY <3>1, <3>2, <4>1, <4>2 DEF PairTypes
  <2> QED
    BY <2>1, <2>2, <2>3, <2>4, <2>5, AdviceTypesAre
<1>2. [AllNext]_allVars => [Beer!Next]_Beer!trackingVars
  BY DEF AllNext, allVars, GateOnly, ProbeOnly, AdviceOnly, KitOnly, BeerOnly, PairOnly,
         beerVars, Beer!trackingVars
<1>3. Typed /\ [AllNext]_allVars => Typed'
  BY <1>2, OnePart, ProbeNextInv, ProbeNextTypes, AdviceNextTypes, KitNextTypes, BeerNextInv, PairNextTypes
<1>4. Typed => RecordTypesOK
  <2>1. PairTypes => Pairing!TypeOK
    BY DEF PairTypes, PairInv, Pairing!TypeOK, Pairing!IsHistory
  <2>2. BeerInv => Beer!TypeOK
    BY DEF BeerInv, SoundRecord, Fermentations, ByTime, Beer!TypeOK
  <2> QED
    BY <2>1, <2>2, KitTyped DEF ProbeTypes, AdviceTypes, RecordTypesOK
<1> QED
  BY <1>1, <1>3, <1>4, PTL DEF AllSpec

(* The gate and the records beside it, together.                           *)
THEOREM AllTypes == AllSpec => []AllTypesOK
  BY GateBesideRecords, TypeCorrect, RecordTypes, PTL DEF AllTypesOK
=============================================================================
