---------------------------- MODULE SupervisedApply ----------------------------
(***************************************************************************)
(* One slot for the plan that waits for the operator, shared by every part *)
(* of BA: the BrewZilla coordinator tick, the fermentation chamber's       *)
(* supervisor, the GF30 target adapter and the policy router put plans in  *)
(* it; CONFIRM executes what it holds and CANCEL remembers it as rejected. *)
(*                                                                         *)
(* Handlers run on one event loop and interleave at their awaits only: a   *)
(* CONFIRM awaits its audit record, then what it executes, then a second   *)
(* record; a tick awaits its safe-down writes between the decision and     *)
(* the use of its plan.                                                    *)
(***************************************************************************)
EXTENDS Naturals

CONSTANTS
    None,           \* no plan, no action wanted
    Confirms,       \* presses of CONFIRM that may be served at a time
    Intents,        \* what the runtime is at: source, stage, step, target
    Actions,        \* the positive actions that it can call for
    BzPlans,        \* the BrewZilla plans: pairs of an intent and actions
    Targets         \* fermentation targets of the GF30

ASSUME PlanAssumption ==
    /\ BzPlans \subseteq Intents \X Actions
    /\ None \notin Actions
    /\ None \notin [source : {"brewzilla", "gf30", "chamber", "router"},
                    intent : Intents \cup {None},
                    act : Actions \cup Targets \cup {None}]

Bz(b)   == [source |-> "brewzilla", intent |-> b[1], act |-> b[2]]
Gf30(t) == [source |-> "gf30", intent |-> None, act |-> t]
Chamber == [source |-> "chamber", intent |-> None, act |-> None]
Router  == [source |-> "router", intent |-> None, act |-> None]

Generic == {Chamber, Router}        \* no executor is registered for these
BzPlan  == {Bz(b) : b \in BzPlans}
Plan    == BzPlan \cup {Gf30(t) : t \in Targets} \cup Generic

(* How the tick finds the BrewZilla: no authority, an ABORT or no control; *)
(* regulated by Play until Mash-In Complete; else the policy of the plan.  *)
Controls  == {"blocked", "phase", "read_only", "confirm", "direct"}
Providers == {"chamber", "gf30"}

VARIABLES
    pending,     \* supervised_apply_pending_action
    cancelled,   \* supervised_apply_cancelled_action
    grant,       \* supervised_apply_execution_grant
    grace,       \* the confirmed plan whose readback is still awaited
    live,        \* the runtime as it is: its intent and the actions it needs
    control,     \* the authority and policy the BrewZilla is under
    provider,    \* the selected fermentation provider
    target,      \* the profile's fermentation target
    tick,        \* the coordinator tick: what it does after its await
    confirm      \* each CONFIRM: where it is, its plan and its result

vars == <<pending, cancelled, grant, grace, live, control, provider, target,
          tick, confirm>>
slot == <<pending, cancelled, grant>>
world == <<live, control, provider, target>>

NoTick == [pc |-> "idle", plan |-> None]
NoConfirm == [pc |-> "idle", plan |-> None, status |-> None]

Statuses == {None, "executed", "not_executed", "error"}
Lives == {[intent |-> b[1], act |-> b[2]] : b \in BzPlans} \cup
         {[intent |-> i, act |-> None] : i \in Intents}

Init ==
    /\ pending = None /\ cancelled = None /\ grant = None /\ grace = None
    /\ live \in {l \in Lives : l.act = None}
    /\ control = "blocked" /\ provider = "chamber" /\ target \in Targets
    /\ tick = NoTick
    /\ confirm = [c \in Confirms |-> NoConfirm]

-----------------------------------------------------------------------------
(* The slot                                                                *)

(* The identity of a BrewZilla plan digests the whole plan; those of the   *)
(* others name the source, the kind and the entity, never the value.       *)
SameId(p, q) ==
    /\ p.source = q.source
    /\ p.source = "brewzilla" => p = q

From(p, source) == p # None /\ p.source = source

Retained(p, plan) == IF p # None /\ ~SameId(p, plan) THEN None ELSE p

(* set_pending_action.                                                     *)
SetPending(plan, rejected) ==
    /\ pending' = plan
    /\ cancelled' = Retained(rejected, plan)
    /\ grant' = Retained(grant, plan)

(* clear_pending_action_from_source.                                       *)
ClearPending(source) ==
    IF From(pending, source)
    THEN pending' = None /\ grant' = None
    ELSE UNCHANGED <<pending, grant>>

(* CANCEL, and Read only chosen as the apply mode or for the section.      *)
Cancel ==
    /\ pending' = None /\ grant' = None
    /\ cancelled' = IF pending # None THEN pending ELSE cancelled
    /\ UNCHANGED <<grace, world, tick, confirm>>

(* ABORT and OBSERVE ONLY drop the plan of any source, and BrewZilla's     *)
(* authority with it.                                                      *)
Discard ==
    /\ pending' = None /\ grant' = None
    /\ control' = "blocked"
    /\ UNCHANGED <<cancelled, grace, live, provider, target, tick, confirm>>

-----------------------------------------------------------------------------
(* CONFIRM                                                                 *)

Moves(c, pc, status) ==
    confirm' = [confirm EXCEPT ![c].pc = pc, ![c].status = status]

Press(c) ==
    /\ confirm[c].pc = "idle"
    /\ pending # None
    /\ cancelled' = IF cancelled # None /\ SameId(cancelled, pending)
                    THEN None ELSE cancelled
    /\ confirm' = [confirm EXCEPT ![c] =
                      [pc |-> "record", plan |-> pending, status |-> None]]
    /\ UNCHANGED <<pending, grant, grace, world, tick>>

LivePlan == IF live.act = None THEN None ELSE Bz(<<live.intent, live.act>>)

(* Mutant: the live plan must be of the confirmed plan's intent only.      *)
BzAcceptsByIntent(plan) ==
    /\ control \notin {"blocked", "read_only"}
    /\ LivePlan # None /\ LivePlan.intent = plan.intent

BzAccepts(plan) ==
    /\ control \notin {"blocked", "read_only"}
    /\ LivePlan = plan

Gf30Accepts(plan) ==
    /\ provider = "gf30"
    /\ target = plan.act

Registered(plan) == plan.source \in {"brewzilla", "gf30"}
Accepts(plan) ==
    \/ plan.source = "brewzilla" /\ BzAccepts(plan)
    \/ plan.source = "gf30" /\ Gf30Accepts(plan)

(* The executor refuses: what is live is no longer what was confirmed, the *)
(* GF30 is not ready, or a policy is read only in a phase that Play runs.  *)
Refuse(c) ==
    /\ confirm[c].pc = "record" /\ Registered(confirm[c].plan)
    /\ \/ ~Accepts(confirm[c].plan)
       \/ confirm[c].plan.source = "gf30"
       \/ control = "phase"
    /\ Moves(c, "closing", "not_executed")
    /\ UNCHANGED <<slot, grace, world, tick>>

(* Mutant: the grant is issued before an executor is looked for.           *)
ExecuteUnderGrant(c) ==
    /\ confirm[c].pc = "record" /\ Registered(confirm[c].plan)
    /\ Accepts(confirm[c].plan)
    /\ grant' = confirm[c].plan
    /\ Moves(c, "running", None)
    /\ UNCHANGED <<pending, cancelled, grace, world, tick>>

Execute(c) ==
    /\ confirm[c].pc = "record" /\ Registered(confirm[c].plan)
    /\ Accepts(confirm[c].plan)
    /\ Moves(c, "running", None)
    /\ UNCHANGED <<slot, grace, world, tick>>

(* A plan with no executor: the grant is issued and the service called.    *)
Dispatch(c) ==
    /\ confirm[c].pc = "record" /\ ~Registered(confirm[c].plan)
    /\ grant' = confirm[c].plan
    /\ Moves(c, "running", None)
    /\ UNCHANGED <<pending, cancelled, grace, world, tick>>

(* A router action with no service, or one on a BrewZilla entity that the  *)
(* fallback guard refuses: no grant.                                       *)
Invalid(c) ==
    /\ confirm[c].pc = "record" /\ confirm[c].plan = Router
    /\ \/ /\ pending' = None /\ grant' = None
          /\ confirm' = [confirm EXCEPT ![c] = NoConfirm]
       \/ Moves(c, "closing", "error") /\ UNCHANGED <<pending, grant>>
    /\ UNCHANGED <<cancelled, grace, world, tick>>

(* What was executed returns.  A BrewZilla plan leaves the readback grace  *)
(* for what it sent, if it sent any of it; a generic service is taken to   *)
(* have been executed when its grant is gone; the GF30 verifies or not.    *)
Return(c) ==
    LET plan == confirm[c].plan IN
    /\ confirm[c].pc = "running"
    /\ \/ /\ plan.source = "brewzilla"
          /\ Moves(c, "closing", "executed")
          /\ grace' \in {plan, None}
       \/ /\ plan.source = "gf30"
          /\ \E s \in {"executed", "not_executed"} : Moves(c, "closing", s)
          /\ UNCHANGED grace
       \/ /\ ~Registered(plan)
          /\ Moves(c, "closing", IF grant = None THEN "executed"
                                                  ELSE "not_executed")
          /\ UNCHANGED grace
    /\ UNCHANGED <<slot, world, tick>>

Fail(c) ==
    /\ confirm[c].pc = "running"
    /\ Moves(c, "closing", "error")
    /\ UNCHANGED <<slot, grace, world, tick>>

(* Mutant: the slot is given back, the grant is not.                       *)
CloseKeepingGrant(c) ==
    /\ confirm[c].pc = "closing"
    /\ pending' = None
    /\ confirm' = [confirm EXCEPT ![c] = NoConfirm]
    /\ UNCHANGED <<cancelled, grant, grace, world, tick>>

(* The second record and the finally, which empties the slot whatever it   *)
(* holds by now.                                                           *)
Close(c) ==
    /\ confirm[c].pc = "closing"
    /\ pending' = None /\ grant' = None
    /\ confirm' = [confirm EXCEPT ![c] = NoConfirm]
    /\ UNCHANGED <<cancelled, grace, world, tick>>

-----------------------------------------------------------------------------
(* The coordinator tick                                                    *)

Waits(pc, plan) == tick' = [pc |-> pc, plan |-> plan]

(* The grace survives a tick that still wants what was confirmed, or       *)
(* nothing yet, under the same intent.                                     *)
GraceHolds == grace # None /\ grace.intent = live.intent /\
              (live.act = None \/ LivePlan = grace)

(* Mutant: a rejection by its source alone.                                *)
RejectedBySource(plan) == From(cancelled, plan.source)

(* cancelled_action_matches.                                               *)
Rejected(plan) == cancelled = plan

(* A rejection of the BrewZilla's lasts as long as its intent.             *)
StillRejected ==
    IF From(cancelled, "brewzilla") /\ cancelled.intent # live.intent
    THEN None ELSE cancelled

(* Heatstrike and Mash-In are authorised by Play: nothing is asked, what   *)
(* was asked or rejected is forgotten.                                     *)
TickInPhase ==
    /\ control = "phase"
    /\ ClearPending("brewzilla")
    /\ cancelled' = IF From(cancelled, "brewzilla") THEN None ELSE cancelled
    /\ UNCHANGED <<grace, tick>>

(* Every action wanted was confirmed and sent a moment ago.                *)
TickInGrace ==
    /\ control # "phase" /\ GraceHolds /\ live.act # None
    /\ Waits("clear", None)
    /\ UNCHANGED <<slot, grace>>

(* _apply of the source authority, outside all the others.                 *)
TickWithoutAuthority ==
    /\ control = "blocked"
    /\ ClearPending("brewzilla")
    /\ UNCHANGED <<cancelled, grace, tick>>

(* No plan, or one that may not be applied (the build of some gates has    *)
(* then cleared the slot): only the writes of the inner layers follow.     *)
TickWithoutPlan ==
    /\ control = "blocked" \/ (control # "phase" /\ live.act = None)
    /\ ~GraceHolds \/ live.act = None
    /\ \/ ClearPending("brewzilla")
       \/ control = "blocked" /\ live.act # None /\ UNCHANGED <<pending, grant>>
    /\ cancelled' = StillRejected
    /\ grace' = IF GraceHolds THEN grace ELSE None
    /\ UNCHANGED tick

TickWithPlan ==
    /\ control \in {"read_only", "confirm", "direct"} /\ live.act # None
    /\ ~GraceHolds
    /\ grace' = None
    /\ IF Rejected(LivePlan)
       THEN Waits("clear", None) /\ UNCHANGED slot
       ELSE /\ cancelled' = IF From(cancelled, "brewzilla") THEN None
                                                           ELSE cancelled
            /\ \/ /\ control = "direct"
                  /\ ClearPending("brewzilla") /\ UNCHANGED tick
               \/ /\ control = "read_only"
                  /\ Waits("clear", None) /\ UNCHANGED <<pending, grant>>
               \/ /\ control = "confirm"
                  /\ Waits("ask", LivePlan) /\ UNCHANGED <<pending, grant>>

StartTick ==
    /\ tick.pc = "idle"
    /\ \/ TickInPhase \/ TickWithoutAuthority
       \/ TickInGrace \/ TickWithoutPlan \/ TickWithPlan
    /\ UNCHANGED <<world, confirm>>

(* The safe-down writes have been awaited.                                 *)
EndTick ==
    /\ tick.pc # "idle"
    /\ tick' = NoTick
    /\ \/ /\ tick.pc = "clear"
          /\ ClearPending("brewzilla") /\ UNCHANGED cancelled
       \/ /\ tick.pc = "ask"
          /\ IF pending = tick.plan THEN UNCHANGED slot
             ELSE SetPending(tick.plan, cancelled)
    /\ UNCHANGED <<grace, world, confirm>>

-----------------------------------------------------------------------------
(* The other sources of plans                                              *)

(* The chamber's supervisor, on each build of its snapshot.                *)
EvaluateChamber ==
    /\ \/ ClearPending("chamber") /\ UNCHANGED cancelled
       \/ provider = "chamber" /\ SetPending(Chamber, cancelled)
    /\ UNCHANGED <<grace, world, tick, confirm>>

(* The GF30 adapter gives way to a plan of another source.                 *)
RequestGf30 ==
    /\ provider = "gf30"
    /\ pending = None \/ From(pending, "gf30")
    /\ SetPending(Gf30(target), cancelled)
    /\ UNCHANGED <<grace, world, tick, confirm>>

(* request_action under a policy of confirmation.                          *)
RequestRouter ==
    /\ SetPending(Router, cancelled)
    /\ UNCHANGED <<grace, world, tick, confirm>>

(* Mutant: the plans of the new provider are dropped, not of the old one.  *)
SwitchProviderClearingNew(p) ==
    /\ p # provider
    /\ provider' = p
    /\ ClearPending(p)
    /\ UNCHANGED <<cancelled, grace, live, control, target, tick, confirm>>

SwitchProvider(p) ==
    /\ p # provider
    /\ provider' = p
    /\ ClearPending(provider)
    /\ UNCHANGED <<cancelled, grace, live, control, target, tick, confirm>>

(* A tracking session started or reset, under a given or kept provider.    *)
NewTracking(p) ==
    /\ provider' = p
    /\ IF \E q \in Providers : From(pending, q)
       THEN pending' = None /\ grant' = None
       ELSE UNCHANGED <<pending, grant>>
    /\ UNCHANGED <<cancelled, grace, live, control, target, tick, confirm>>

-----------------------------------------------------------------------------
(* What changes around them                                                *)

GraceExpires ==
    /\ grace # None
    /\ grace' = None
    /\ UNCHANGED <<slot, world, tick, confirm>>

(* The runtime moves, an entity reads back, the authority or a policy      *)
(* changes, the fermentation profile moves on.                             *)
WorldChanges ==
    /\ \/ live' \in Lives /\ UNCHANGED <<control, target>>
       \/ control' \in Controls /\ UNCHANGED <<live, target>>
       \/ target' \in Targets /\ UNCHANGED <<live, control>>
    /\ UNCHANGED <<slot, grace, provider, tick, confirm>>

Serve(c) ==
    \/ Press(c) \/ Refuse(c) \/ Execute(c) \/ Dispatch(c) \/ Invalid(c)
    \/ Return(c) \/ Fail(c) \/ Close(c)

Next ==
    \/ \E c \in Confirms : Serve(c)
    \/ Cancel \/ Discard
    \/ StartTick \/ EndTick
    \/ EvaluateChamber \/ RequestGf30 \/ RequestRouter
    \/ \E p \in Providers : SwitchProvider(p) \/ NewTracking(p)
    \/ GraceExpires \/ WorldChanges

(* The coordinator keeps ticking; what a handler awaits answers or raises; *)
(* time passes.                                                            *)
Fairness ==
    /\ WF_vars(StartTick) /\ WF_vars(EndTick) /\ WF_vars(GraceExpires)
    /\ \A c \in Confirms :
          /\ WF_vars(Refuse(c) \/ Execute(c) \/ Dispatch(c) \/ Invalid(c))
          /\ WF_vars(Return(c) \/ Fail(c))
          /\ WF_vars(Close(c))

Spec == Init /\ [][Next]_vars /\ Fairness

-----------------------------------------------------------------------------
(* Properties                                                              *)

(* The type invariant: what the slot, the tick and each CONFIRM hold.      *)
TypeOK ==
    /\ pending \in Plan \cup {None}
    /\ cancelled \in Plan \cup {None}
    /\ grant \in Generic \cup {None}
    /\ grace \in BzPlan \cup {None}
    /\ live \in Lives /\ control \in Controls
    /\ provider \in Providers /\ target \in Targets
    /\ tick \in [pc : {"idle", "clear", "ask"}, plan : BzPlan \cup {None}]
    /\ confirm \in [Confirms -> {NoConfirm} \cup
                       [pc : {"record", "running", "closing"},
                        plan : Plan, status : Statuses]]

Serving(c) == confirm[c].pc \in {"running", "closing"}

(* A grant exists only while a CONFIRM executes the very plan it names: no *)
(* tick, request or later press finds one left over.                       *)
GrantOnlyWhileServed ==
    grant # None =>
        \E c \in Confirms : Serving(c) /\ confirm[c].plan = grant

(* Only the selected fermentation provider has a plan before the operator, *)
(* whatever order of evaluations, requests and selections led there.       *)
OnlyTheSelectedProviderAsks ==
    \A p \in Providers : From(pending, p) => provider = p

(* What a CONFIRM of a registered plan begins to execute is what BA wants  *)
(* at that moment, not what it wanted when the button was pressed: the     *)
(* audit record was awaited in between.                                    *)
ConfirmedPlanIsLive ==
    [][\A c \in Confirms :
          (confirm[c].pc = "record" /\ confirm'[c].pc = "running") =>
             \/ confirm[c].plan \in Generic
             \/ confirm[c].plan = LivePlan
             \/ confirm[c].plan = Gf30(target) /\ provider = "gf30"]_vars

(* A BrewZilla plan that stays wanted and has not been rejected comes      *)
(* before the operator, whatever the other sources put in the slot.        *)
Wanted(b) ==
    /\ LivePlan = Bz(b) /\ control = "confirm"
    /\ cancelled # Bz(b)

EventuallyAsked ==
    \A b \in BzPlans : Wanted(b) ~> (pending = Bz(b) \/ ~Wanted(b))
=============================================================================
