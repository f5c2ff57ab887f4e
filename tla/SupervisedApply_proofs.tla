------------------------ MODULE SupervisedApply_proofs ------------------------
(***************************************************************************)
(* Proofs about SupervisedApply, for any number of presses of CONFIRM      *)
(* served at once and any sets of plans: the types, that a grant is never  *)
(* left over, that only the selected fermentation provider has a plan      *)
(* before the operator, and that what is executed is what is live.         *)
(***************************************************************************)
EXTENDS SupervisedApply, TLAPS

-----------------------------------------------------------------------------
(* The operators of the slot                                               *)

(* What a tick plans while it wants an action is one of the plans.         *)
LEMMA LivePlanIsPlan ==
  ASSUME live \in Lives, live.act # None
  PROVE  LivePlan \in BzPlan
<1>1. PICK b \in BzPlans : live = [intent |-> b[1], act |-> b[2]]
  BY DEF Lives
<1>2. b = <<b[1], b[2]>>
  BY PlanAssumption
<1> QED
  BY <1>1, <1>2 DEF LivePlan, BzPlan, Bz

(* set_pending_action of a plan keeps the types of the slot, and a grant   *)
(* that it keeps is the one there was.                                     *)
LEMMA SetPendingType ==
  ASSUME TypeOK, NEW plan \in Plan, SetPending(plan, cancelled)
  PROVE  /\ pending' = plan
         /\ cancelled' \in Plan \cup {None}
         /\ grant' \in {grant, None}
  BY DEF TypeOK, SetPending, Retained

(* clear_pending_action_from_source empties the slot or leaves it.         *)
LEMMA ClearPendingSlot ==
  ASSUME NEW source, ClearPending(source)
  PROVE  /\ pending' \in {pending, None}
         /\ grant' \in {grant, None}
         /\ From(pending, source) => pending' = None
         /\ ~From(pending, source) => pending' = pending
  BY DEF ClearPending

LEMMA PlansArePlans ==
  /\ BzPlan \subseteq Plan /\ Generic \subseteq Plan
  /\ Chamber \in Plan /\ Router \in Plan
  /\ \A t \in Targets : Gf30(t) \in Plan
  BY DEF Plan, Generic

-----------------------------------------------------------------------------
(* Ticks                                                                   *)

(* A tick that begins: the slot is emptied of a BrewZilla plan or left,    *)
(* and what is kept for the end of the tick is a plan.                     *)
LEMMA StartTickSlot ==
  ASSUME TypeOK, StartTick
  PROVE  /\ pending' \in {pending, None} /\ grant' \in {grant, None}
         /\ cancelled' \in {cancelled, None} /\ grace' \in {grace, None}
         /\ tick' \in [pc : {"idle", "clear", "ask"}, plan : BzPlan \cup {None}]
<1>1. CASE TickInPhase
  BY <1>1, ClearPendingSlot DEF TypeOK, TickInPhase
<1>2. CASE TickWithoutAuthority
  BY <1>2, ClearPendingSlot DEF TypeOK, TickWithoutAuthority
<1>3. CASE TickInGrace
  BY <1>3 DEF TypeOK, TickInGrace, Waits, slot
<1>4. CASE TickWithoutPlan
  BY <1>4, ClearPendingSlot DEF TypeOK, TickWithoutPlan, StillRejected
<1>5. CASE TickWithPlan
  <2>1. LivePlan \in BzPlan
    BY <1>5, LivePlanIsPlan DEF TypeOK, TickWithPlan
  <2> QED
    BY <1>5, <2>1, ClearPendingSlot DEF TypeOK, TickWithPlan, Waits, slot
<1> QED
  BY <1>1, <1>2, <1>3, <1>4, <1>5 DEF StartTick

-----------------------------------------------------------------------------
(* Types                                                                   *)

ConfirmType ==
    [Confirms -> {NoConfirm} \cup [pc : {"record", "running", "closing"},
                                   plan : Plan, status : Statuses]]

(* A CONFIRM that moves on keeps its plan.                                 *)
LEMMA MovesType ==
  ASSUME TypeOK, NEW c \in Confirms, confirm[c].pc # "idle",
         NEW pc \in {"running", "closing"}, NEW status \in Statuses,
         Moves(c, pc, status)
  PROVE  confirm' \in ConfirmType
<1>1. confirm[c] \in [pc : {"record", "running", "closing"},
                     plan : Plan, status : Statuses]
  BY DEF TypeOK, NoConfirm
<1>2. [confirm[c] EXCEPT !.pc = pc, !.status = status]
         \in [pc : {"record", "running", "closing"},
              plan : Plan, status : Statuses]
  BY <1>1
<1>3. confirm' = [confirm EXCEPT ![c] =
                    [confirm[c] EXCEPT !.pc = pc, !.status = status]]
  BY <1>1 DEF Moves, TypeOK
<1> QED
  BY <1>2, <1>3 DEF TypeOK, ConfirmType

LEMMA NextType == TypeOK /\ [Next]_vars => TypeOK'
<1> SUFFICES ASSUME TypeOK, [Next]_vars PROVE TypeOK'
  OBVIOUS
<1> USE PlansArePlans
<1>1. ASSUME NEW c \in Confirms, Press(c) PROVE TypeOK'
  BY <1>1 DEF TypeOK, Press, world, Statuses, NoConfirm
<1>2. ASSUME NEW c \in Confirms, Refuse(c) PROVE TypeOK'
  <2>1. confirm' \in ConfirmType
    BY <1>2, MovesType DEF Refuse, Statuses
  <2> QED
    BY <1>2, <2>1 DEF TypeOK, ConfirmType, Refuse, slot, world
<1>3. ASSUME NEW c \in Confirms, Execute(c) PROVE TypeOK'
  <2>1. confirm' \in ConfirmType
    BY <1>3, MovesType DEF Execute, Statuses
  <2> QED
    BY <1>3, <2>1 DEF TypeOK, ConfirmType, Execute, slot, world
<1>4. ASSUME NEW c \in Confirms, Dispatch(c) PROVE TypeOK'
  <2>1. confirm[c].plan \in Generic
    BY <1>4 DEF TypeOK, Dispatch, Registered, Plan, BzPlan, Bz, Gf30, NoConfirm
  <2>2. confirm' \in ConfirmType
    BY <1>4, MovesType DEF Dispatch, Statuses
  <2> QED
    BY <1>4, <2>1, <2>2 DEF TypeOK, ConfirmType, Dispatch, world
<1>5. ASSUME NEW c \in Confirms, Invalid(c) PROVE TypeOK'
  <2>1. CASE confirm' = [confirm EXCEPT ![c] = NoConfirm]
    BY <1>5, <2>1 DEF TypeOK, Invalid, Moves, world
  <2>2. CASE Moves(c, "closing", "error") /\ UNCHANGED <<pending, grant>>
    <3>1. confirm' \in ConfirmType
      BY <1>5, <2>2, MovesType DEF Invalid, Statuses
    <3> QED
      BY <1>5, <2>2, <3>1 DEF TypeOK, ConfirmType, Invalid, world
  <2> QED
    BY <1>5, <2>1, <2>2 DEF Invalid
<1>6. ASSUME NEW c \in Confirms, Return(c) PROVE TypeOK'
  <2>1. confirm[c].plan.source = "brewzilla" => confirm[c].plan \in BzPlan
    BY <1>6 DEF TypeOK, Return, NoConfirm, Plan, Gf30, Generic, Chamber, Router
  <2>2. grace' \in BzPlan \cup {None}
    BY <1>6, <2>1 DEF TypeOK, Return
  <2>3. confirm' \in ConfirmType
    BY <1>6, MovesType DEF Return, Statuses
  <2> QED
    BY <1>6, <2>2, <2>3 DEF TypeOK, ConfirmType, Return, slot, world
<1>7. ASSUME NEW c \in Confirms, Fail(c) PROVE TypeOK'
  <2>1. confirm' \in ConfirmType
    BY <1>7, MovesType DEF Fail, Statuses
  <2> QED
    BY <1>7, <2>1 DEF TypeOK, ConfirmType, Fail, slot, world
<1>8. ASSUME NEW c \in Confirms, Close(c) PROVE TypeOK'
  BY <1>8 DEF TypeOK, Close, NoConfirm, world, Statuses
<1>9. CASE Cancel
  BY <1>9 DEF TypeOK, Cancel, world
<1>10. CASE Discard
  BY <1>10 DEF TypeOK, Discard, Controls
<1>11. CASE StartTick
  BY <1>11, StartTickSlot DEF TypeOK, StartTick, world
<1>12. CASE EndTick
  <2>1. CASE tick.pc = "clear"
    BY <1>12, <2>1, ClearPendingSlot DEF TypeOK, EndTick, NoTick, world
  <2>2. CASE tick.pc = "ask"
    <3>1. pending' \in Plan \cup {None} /\ cancelled' \in Plan \cup {None}
          /\ grant' \in {grant, None}
      BY <1>12, <2>2 DEF TypeOK, EndTick, SetPending, Retained, slot
    <3> QED
      BY <1>12, <3>1 DEF TypeOK, EndTick, NoTick, world
  <2> QED
    BY <1>12, <2>1, <2>2 DEF EndTick
<1>13. CASE EvaluateChamber
  BY <1>13, SetPendingType, ClearPendingSlot DEF TypeOK, EvaluateChamber, world
<1>14. CASE RequestGf30
  BY <1>14, SetPendingType DEF TypeOK, RequestGf30, world
<1>15. CASE RequestRouter
  BY <1>15, SetPendingType DEF TypeOK, RequestRouter, world
<1>16. ASSUME NEW p \in Providers, SwitchProvider(p) PROVE TypeOK'
  BY <1>16, ClearPendingSlot DEF TypeOK, SwitchProvider
<1>17. ASSUME NEW p \in Providers, NewTracking(p) PROVE TypeOK'
  BY <1>17 DEF TypeOK, NewTracking
<1>18. CASE GraceExpires
  BY <1>18 DEF TypeOK, GraceExpires, slot, world
<1>19. CASE WorldChanges
  BY <1>19 DEF TypeOK, WorldChanges, slot
<1>20. CASE UNCHANGED vars
  BY <1>20 DEF TypeOK, vars
<1> QED
  BY <1>1, <1>2, <1>3, <1>4, <1>5, <1>6, <1>7, <1>8, <1>9, <1>10, <1>11,
     <1>12, <1>13, <1>14, <1>15, <1>16, <1>17, <1>18, <1>19, <1>20
  DEF Next, Serve

(* The slot, the tick and every CONFIRM hold what they are meant to hold.  *)
THEOREM TypeCorrect == Spec => []TypeOK
<1>1. Init => TypeOK
  BY DEF Init, TypeOK, Controls, Providers, Statuses, NoTick, NoConfirm
<1>2. TypeOK /\ [Next]_vars => TypeOK'
  BY NextType
<1> QED
  BY <1>1, <1>2, PTL DEF Spec

-----------------------------------------------------------------------------
(* The grant                                                               *)

(* A grant that is kept is still served by a CONFIRM that goes on being    *)
(* served.                                                                 *)
LEMMA GrantKept ==
  ASSUME GrantOnlyWhileServed, grant' \in {grant, None},
         \A c \in Confirms : Serving(c) =>
             Serving(c)' /\ confirm'[c].plan = confirm[c].plan
  PROVE  GrantOnlyWhileServed'
  BY DEF GrantOnlyWhileServed

LEMMA SameConfirms ==
  ASSUME UNCHANGED confirm, NEW c \in Confirms, Serving(c)
  PROVE  Serving(c)' /\ confirm'[c].plan = confirm[c].plan
  BY DEF Serving

LEMMA NextGrant ==
  TypeOK /\ GrantOnlyWhileServed /\ [Next]_vars => GrantOnlyWhileServed'
<1> SUFFICES ASSUME TypeOK, GrantOnlyWhileServed, [Next]_vars
             PROVE  GrantOnlyWhileServed'
  OBVIOUS
<1>0. ASSUME NEW c \in Confirms, NEW pc \in {"running", "closing"}, NEW s,
             Moves(c, pc, s)
      PROVE  \A d \in Confirms : Serving(d) =>
                Serving(d)' /\ confirm'[d].plan = confirm[d].plan
  BY <1>0 DEF Moves, Serving, TypeOK
<1>1. ASSUME NEW c \in Confirms, Press(c) PROVE GrantOnlyWhileServed'
  <2>1. \A d \in Confirms : Serving(d) =>
           Serving(d)' /\ confirm'[d].plan = confirm[d].plan
    BY <1>1 DEF Press, Serving, TypeOK
  <2> QED
    BY <1>1, <2>1, GrantKept DEF Press
<1>2. ASSUME NEW c \in Confirms, Refuse(c) PROVE GrantOnlyWhileServed'
  BY <1>2, <1>0, GrantKept DEF Refuse, slot
<1>3. ASSUME NEW c \in Confirms, Execute(c) PROVE GrantOnlyWhileServed'
  BY <1>3, <1>0, GrantKept DEF Execute, slot
<1>4. ASSUME NEW c \in Confirms, Dispatch(c) PROVE GrantOnlyWhileServed'
  <2>1. Serving(c)' /\ confirm'[c].plan = confirm[c].plan
    BY <1>4 DEF Dispatch, Moves, Serving, TypeOK
  <2> QED
    BY <1>4, <2>1 DEF Dispatch, GrantOnlyWhileServed
<1>5. ASSUME NEW c \in Confirms, Invalid(c) PROVE GrantOnlyWhileServed'
  <2>1. CASE grant' = None
    BY <2>1 DEF GrantOnlyWhileServed
  <2>2. CASE Moves(c, "closing", "error") /\ UNCHANGED <<pending, grant>>
    BY <2>2, <1>0, GrantKept
  <2> QED
    BY <1>5, <2>1, <2>2 DEF Invalid
<1>6. ASSUME NEW c \in Confirms, Return(c) PROVE GrantOnlyWhileServed'
  <2>1. \A d \in Confirms : Serving(d) =>
           Serving(d)' /\ confirm'[d].plan = confirm[d].plan
    BY <1>6, <1>0 DEF Return
  <2> QED
    BY <1>6, <2>1, GrantKept DEF Return, slot
<1>7. ASSUME NEW c \in Confirms, Fail(c) PROVE GrantOnlyWhileServed'
  BY <1>7, <1>0, GrantKept DEF Fail, slot
<1>8. ASSUME NEW c \in Confirms, Close(c) PROVE GrantOnlyWhileServed'
  BY <1>8 DEF Close, GrantOnlyWhileServed
<1>9. CASE Cancel
  BY <1>9 DEF Cancel, GrantOnlyWhileServed
<1>10. CASE Discard
  BY <1>10 DEF Discard, GrantOnlyWhileServed
<1>11. CASE StartTick
  BY <1>11, StartTickSlot, SameConfirms, GrantKept DEF StartTick
<1>12. CASE EndTick
  <2>1. grant' \in {grant, None}
    BY <1>12 DEF EndTick, ClearPending, SetPending, Retained, slot
  <2> QED
    BY <1>12, <2>1, SameConfirms, GrantKept DEF EndTick
<1>13. CASE EvaluateChamber
  <2>1. grant' \in {grant, None}
    BY <1>13 DEF EvaluateChamber, ClearPending, SetPending, Retained
  <2> QED
    BY <1>13, <2>1, SameConfirms, GrantKept DEF EvaluateChamber
<1>14. CASE RequestGf30
  <2>1. grant' \in {grant, None}
    BY <1>14 DEF RequestGf30, SetPending, Retained
  <2> QED
    BY <1>14, <2>1, SameConfirms, GrantKept DEF RequestGf30
<1>15. CASE RequestRouter
  <2>1. grant' \in {grant, None}
    BY <1>15 DEF RequestRouter, SetPending, Retained
  <2> QED
    BY <1>15, <2>1, SameConfirms, GrantKept DEF RequestRouter
<1>16. ASSUME NEW p \in Providers, SwitchProvider(p)
       PROVE  GrantOnlyWhileServed'
  BY <1>16, ClearPendingSlot, SameConfirms, GrantKept DEF SwitchProvider
<1>17. ASSUME NEW p \in Providers, NewTracking(p) PROVE GrantOnlyWhileServed'
  BY <1>17, SameConfirms, GrantKept DEF NewTracking
<1>18. CASE GraceExpires
  BY <1>18, SameConfirms, GrantKept DEF GraceExpires, slot
<1>19. CASE WorldChanges
  BY <1>19, SameConfirms, GrantKept DEF WorldChanges, slot
<1>20. CASE UNCHANGED vars
  BY <1>20, SameConfirms, GrantKept DEF vars
<1> QED
  BY <1>1, <1>2, <1>3, <1>4, <1>5, <1>6, <1>7, <1>8, <1>9, <1>10, <1>11,
     <1>12, <1>13, <1>14, <1>15, <1>16, <1>17, <1>18, <1>19, <1>20
  DEF Next, Serve

(* However many CONFIRMs overlap, none leaves its one-shot grant behind.   *)
THEOREM NoGrantLeftOver == Spec => []GrantOnlyWhileServed
<1>1. Init => GrantOnlyWhileServed
  BY DEF Init, GrantOnlyWhileServed
<1> QED
  BY <1>1, NextGrant, TypeCorrect, PTL DEF Spec

-----------------------------------------------------------------------------
(* The selected fermentation provider                                      *)

LEMMA PlanSources ==
  /\ Chamber.source = "chamber" /\ Router.source = "router"
  /\ \A t : Gf30(t).source = "gf30"
  /\ \A plan \in BzPlan : plan.source = "brewzilla"
  BY DEF Chamber, Router, Gf30, BzPlan, Bz

(* Nobody but a provider's own request puts a provider's plan in the slot. *)
LEMMA ProviderKept ==
  ASSUME OnlyTheSelectedProviderAsks, pending' \in {pending, None},
         UNCHANGED provider
  PROVE  OnlyTheSelectedProviderAsks'
  BY DEF OnlyTheSelectedProviderAsks, From

LEMMA NextProvider ==
  TypeOK /\ OnlyTheSelectedProviderAsks /\ [Next]_vars
     => OnlyTheSelectedProviderAsks'
<1> SUFFICES ASSUME TypeOK, OnlyTheSelectedProviderAsks, [Next]_vars
             PROVE  OnlyTheSelectedProviderAsks'
  OBVIOUS
<1>1. ASSUME NEW c \in Confirms, Serve(c)
      PROVE  OnlyTheSelectedProviderAsks'
  <2>1. pending' \in {pending, None} /\ UNCHANGED provider
    BY <1>1 DEF Serve, Press, Refuse, Execute, Dispatch, Invalid, Return, Fail,
                Close, slot, world
  <2> QED
    BY <2>1, ProviderKept
<1>2. CASE Cancel \/ Discard
  BY <1>2, ProviderKept DEF Cancel, Discard, world
<1>3. CASE StartTick
  BY <1>3, StartTickSlot, ProviderKept DEF StartTick, world
<1>4. CASE EndTick
  <2>1. CASE pending' \in {pending, None}
    BY <1>4, <2>1, ProviderKept DEF EndTick, world
  <2>2. CASE pending' = tick.plan
    BY <2>2, PlanSources
    DEF OnlyTheSelectedProviderAsks, From, Providers, TypeOK
  <2> QED
    BY <1>4, <2>1, <2>2, ClearPendingSlot DEF EndTick, SetPending, slot
<1>5. CASE EvaluateChamber
  <2>1. CASE ClearPending("chamber")
    BY <1>5, <2>1, ClearPendingSlot, ProviderKept DEF EvaluateChamber, world
  <2>2. CASE provider = "chamber" /\ SetPending(Chamber, cancelled)
    BY <1>5, <2>2, PlanSources
    DEF EvaluateChamber, SetPending, OnlyTheSelectedProviderAsks, From, world
  <2> QED
    BY <1>5, <2>1, <2>2 DEF EvaluateChamber
<1>6. CASE RequestGf30
  BY <1>6, PlanSources
  DEF RequestGf30, SetPending, OnlyTheSelectedProviderAsks, From, world
<1>7. CASE RequestRouter
  BY <1>7, PlanSources
  DEF RequestRouter, SetPending, OnlyTheSelectedProviderAsks, From, Providers
<1>8. ASSUME NEW p \in Providers, SwitchProvider(p)
      PROVE  OnlyTheSelectedProviderAsks'
  BY <1>8 DEF SwitchProvider, ClearPending, OnlyTheSelectedProviderAsks, From,
              TypeOK
<1>9. ASSUME NEW p \in Providers, NewTracking(p)
       PROVE  OnlyTheSelectedProviderAsks'
  BY <1>9 DEF NewTracking, OnlyTheSelectedProviderAsks, From
<1>10. CASE GraceExpires
  BY <1>10, ProviderKept DEF GraceExpires, slot, world
<1>11. CASE WorldChanges
  BY <1>11, ProviderKept DEF WorldChanges, slot
<1>12. CASE UNCHANGED vars
  BY <1>12, ProviderKept DEF vars
<1> QED
  BY <1>1, <1>2, <1>3, <1>4, <1>5, <1>6, <1>7, <1>8, <1>9, <1>10, <1>11,
     <1>12 DEF Next

(* A provider that is not selected has no plan before the operator: its    *)
(* plan left the slot with the selection, and nothing puts it back.        *)
THEOREM SelectedProviderAsks == Spec => []OnlyTheSelectedProviderAsks
<1>1. Init => OnlyTheSelectedProviderAsks
  BY DEF Init, OnlyTheSelectedProviderAsks, From
<1> QED
  BY <1>1, NextProvider, TypeCorrect, PTL DEF Spec

-----------------------------------------------------------------------------
(* What is executed                                                        *)

ConfirmedIsLive ==
    \A c \in Confirms :
       (confirm[c].pc = "record" /\ confirm'[c].pc = "running") =>
          \/ confirm[c].plan \in Generic
          \/ confirm[c].plan = LivePlan
          \/ confirm[c].plan = Gf30(target) /\ provider = "gf30"

(* Only Execute and Dispatch lead a CONFIRM from its record to what it     *)
(* runs, and whoever else acts leaves it where it is.                      *)
LEMMA RecordToRunning ==
  ASSUME TypeOK, [Next]_vars, NEW c \in Confirms,
         confirm[c].pc = "record", confirm'[c].pc = "running"
  PROVE  Execute(c) \/ Dispatch(c)
<1>1. confirm' # confirm
  OBVIOUS
<1>2. PICK d \in Confirms : Serve(d)
  BY <1>1 DEF Next, vars, Cancel, Discard, StartTick, EndTick, EvaluateChamber,
     RequestGf30, RequestRouter, SwitchProvider, NewTracking,
     GraceExpires, WorldChanges
<1>3. d = c
  BY <1>2 DEF TypeOK, Serve, Press, Refuse, Execute, Dispatch, Invalid, Return,
     Fail, Close, Moves
<1> QED
  BY <1>2, <1>3 DEF TypeOK, Serve, Press, Refuse, Invalid, Return, Fail, Close,
     Moves, NoConfirm

(* A registered plan is executed only if it is what BA wants when the      *)
(* awaited record has been written, for any number of overlapping CONFIRMs.*)
THEOREM ExecutedPlanIsLive == Spec => ConfirmedPlanIsLive
<1>1. TypeOK /\ [Next]_vars => ConfirmedIsLive
  <2> SUFFICES ASSUME TypeOK, [Next]_vars, NEW c \in Confirms,
                      confirm[c].pc = "record", confirm'[c].pc = "running"
               PROVE  \/ confirm[c].plan \in Generic
                      \/ confirm[c].plan = LivePlan
                      \/ confirm[c].plan = Gf30(target) /\ provider = "gf30"
    BY DEF ConfirmedIsLive
  <2>1. CASE Execute(c)
    <3>1. confirm[c].plan \in Plan
      BY DEF TypeOK, NoConfirm
    <3>2. CASE confirm[c].plan.source = "gf30" /\ Gf30Accepts(confirm[c].plan)
      BY <3>1, <3>2
      DEF Gf30Accepts, Plan, BzPlan, Bz, Gf30, Generic, Chamber, Router
    <3> QED
      BY <2>1, <3>2 DEF Execute, Accepts, BzAccepts
  <2>2. CASE Dispatch(c)
    BY <2>2 DEF TypeOK, NoConfirm, Dispatch, Registered, Plan, BzPlan, Bz, Gf30
  <2> QED
    BY <2>1, <2>2, RecordToRunning
<1> QED
  BY <1>1, TypeCorrect, PTL DEF Spec, ConfirmedPlanIsLive, ConfirmedIsLive
=============================================================================
