------------------------------ MODULE RaptSource ------------------------------
(***************************************************************************)
(* Who owns the recipe of the brew: the RAPT profile that the BrewZilla    *)
(* runs (RCL Brewing), Brewfather, or the operator's own plan.  The        *)
(* machinery under SourceArbiter: what Home Assistant shows of the RAPT    *)
(* profile, the store that remembers an active profile, the execution      *)
(* context with its fallback and its sticky reconnection lock, the manual  *)
(* plan that a loss of the source primes, and the context's copy on disk.  *)
(*                                                                         *)
(* One Observe is one build of the Brewday snapshot: it runs without       *)
(* awaiting, on every tick and before every write.  ABORT is not latched   *)
(* here (StartGate has it): while it is, nothing is built from a source.   *)
(***************************************************************************)
EXTENDS Naturals

CONSTANTS
    Sessions,       \* RAPT profile session identifiers, unique per start
    Steps,          \* the steps of a profile
    NoSession       \* no session at all

ASSUME SessionAssumption == NoSession \notin Sessions

RCL    == "rcl"      \* RCL_BREWING
BF     == "bf"       \* BREWFATHER_BREWING
NoMode == "none"

Identities == [session : Sessions, step : Steps]
NoIdentity == [session |-> NoSession, step |-> NoSession]

ProfileStates ==
    {"gone",         \* missing, unknown or unavailable
     "off",          \* OFF that attests nothing (old or restored)
     "stopped",      \* OFF with a fresh attestation of a stopped session
     "unverified",   \* ON, but restored, ambiguous or no longer reported
     "partial",      \* ON and fresh, the step contract incomplete
     "live"}         \* ON and fresh, the contract complete
TrackerStates == {"gone", "idle", "stale", "live"}
Views == {"none", "rcl", "bf", "manual", "fallback", "resync", "unverified"}

VARIABLES
    prof,        \* the RAPT profile: its state and the identity it carries
    over,        \* sessions that have ended
    bf,          \* the Brewfather tracker
    rcl,         \* rapt_profile_runtime's store, observed session, listener
    ctx,         \* brewday_execution_mode's store
    manual,      \* the manual plan: "idle", "running" or "paused"
    view,        \* what the last Observe told the rest of BA
    disk,        \* the persisted context
    pending      \* a delayed save of the context is scheduled

vars == <<prof, over, bf, rcl, ctx, manual, view, disk, pending>>

Profiles ==
    [state : ProfileStates,
     id : [session : Sessions \cup {NoSession}, step : Steps \cup {NoSession}]]
Stores ==
    [wasActive : BOOLEAN, stopGuard : BOOLEAN, observed : Sessions \cup {NoSession},
     listening : BOOLEAN]
Modes == {NoMode, RCL, BF}
Contexts ==
    [snapR : Identities \cup {NoIdentity}, snapB : BOOLEAN, last : Modes, fb : BOOLEAN,
     fbFrom : Modes, resync : BOOLEAN, resyncFrom : Modes, planLoaded : BOOLEAN,
     restored : BOOLEAN]

EmptyContext ==
    [snapR |-> NoIdentity, snapB |-> FALSE, last |-> NoMode,
     fb |-> FALSE, fbFrom |-> NoMode, resync |-> FALSE, resyncFrom |-> NoMode,
     planLoaded |-> FALSE, restored |-> FALSE]
EmptyStore ==
    [wasActive |-> FALSE, stopGuard |-> FALSE, observed |-> NoSession,
     listening |-> FALSE]

(* _persisted_context, as far as a restart reads it back.                  *)
Persisted(c) == [last |-> c.last, snapR |-> c.snapR, snapB |-> c.snapB]

Init ==
    /\ prof = [state |-> "gone", id |-> NoIdentity]
    /\ over = {}
    /\ bf = "gone"
    /\ rcl = EmptyStore
    /\ ctx = EmptyContext
    /\ manual = "idle"
    /\ view = "none"
    /\ disk = Persisted(EmptyContext) /\ pending = FALSE

-----------------------------------------------------------------------------
(* What the code reads off the profile                                     *)

Active(p)      == p.state \in {"partial", "live"}
Attested(p, r) == p.state = "stopped" /\ r.observed = p.id.session

(***************************************************************************)
(* _remember_active and _mark_confirmed_stop: what a build or a state      *)
(* event of the profile leaves in the store.                               *)
(***************************************************************************)
Track(p, r) ==
    IF Active(p)
    THEN [r EXCEPT !.wasActive = TRUE, !.stopGuard = FALSE,
                   !.observed = p.id.session]
    ELSE IF Attested(p, r) /\ r.wasActive
    THEN [r EXCEPT !.wasActive = FALSE, !.stopGuard = TRUE]
    ELSE r

(***************************************************************************)
(* The branch of the RAPT snapshot, once the store has been updated.       *)
(***************************************************************************)
ProfileClass(p, r) ==
    CASE Active(p)                                       -> "active"
      [] ~Active(p) /\ Attested(p, r)                    ->
             IF r.stopGuard THEN "stopped" ELSE "none"
      [] ~Active(p) /\ ~Attested(p, r) /\ r.wasActive    -> "lost"
      [] ~Active(p) /\ ~Attested(p, r) /\ ~r.wasActive   ->
             IF r.stopGuard THEN "stopped"
             ELSE IF p.state = "unverified" THEN "lost" ELSE "none"

OwnsBrewing(p, r) == Active(p) \/ p.state = "unverified" \/ r.wasActive

-----------------------------------------------------------------------------
(* The execution context                                                   *)

HasSnapshot(c, mode) ==
    \/ mode = RCL /\ c.snapR # NoIdentity
    \/ mode = BF /\ c.snapB

Remember(c, mode, id) ==
    [c EXCEPT !.snapR = IF mode = RCL THEN id ELSE @,
              !.snapB = mode = BF \/ @,
              !.last = mode, !.fb = FALSE, !.fbFrom = NoMode,
              !.resync = FALSE, !.resyncFrom = NoMode, !.restored = FALSE]

(* Mutant: a snapshot is saved only when the step is another one.          *)
MaterialOnNewStep(c, id) == c.snapR.step # id.step

Material(c, id) == c.snapR # id

Ended(c, mode) ==
    [c EXCEPT !.last = IF @ = mode THEN NoMode ELSE @,
              !.fb = FALSE, !.fbFrom = NoMode,
              !.resync = FALSE, !.resyncFrom = NoMode]

(* Mutant: the lock remembers the session it came from, not the mode.      *)
BlockedBySession(c, mode) ==
    [c EXCEPT !.resync = TRUE, !.resyncFrom = c.snapR.session,
              !.fb = TRUE, !.fbFrom = mode]

Blocked(c, mode) ==
    [c EXCEPT !.resync = TRUE, !.resyncFrom = mode,
              !.fb = TRUE, !.fbFrom = mode]

(* decorate_snapshot for a snapshot that is not a fallback.                *)
Decorated(c) ==
    IF c.resync THEN c ELSE [c EXCEPT !.fb = FALSE, !.fbFrom = NoMode]

(* Mutant: the step may have changed during the outage.                    *)
IdentityMatchesSession(cached, live) == cached.session = live.session

IdentityMatches(cached, live) == cached = live

(* Mutant: a session that changed between two polls is not noticed.        *)
ReconnectAllowedBetweenPolls(c, live) ==
    /\ ~c.resync
    /\ IF c.fb /\ c.fbFrom = RCL
       THEN HasSnapshot(c, RCL) /\ c.planLoaded /\ IdentityMatches(c.snapR, live)
       ELSE TRUE

ReconnectAllowed(c, live) ==
    /\ ~c.resync
    /\ IF c.fb /\ c.fbFrom = RCL
       THEN HasSnapshot(c, RCL) /\ c.planLoaded /\ IdentityMatches(c.snapR, live)
       ELSE c.last = RCL /\ HasSnapshot(c, RCL) => c.snapR.session = live.session

PausedPlan(plan) == IF plan = "running" THEN "paused" ELSE plan

-----------------------------------------------------------------------------
(* build_manual_fallback_snapshot.  A branch of the build gets the context *)
(* c it starts from, and whether a save of it is due already.              *)

EnterFallback(c, mode) ==
    /\ HasSnapshot(c, mode)
    /\ ~c.fb \/ c.fbFrom # mode
    /\ \E loaded \in BOOLEAN, plan \in {"running", "paused"} :
         /\ ctx' = [c EXCEPT !.last = mode, !.fb = TRUE, !.fbFrom = mode,
                             !.planLoaded = loaded]
         /\ IF loaded
            THEN /\ manual' = IF c.restored THEN "paused" ELSE plan
            ELSE UNCHANGED manual
    /\ view' = IF c.resync THEN "resync" ELSE "fallback"
    /\ pending' = TRUE

StayInFallback(c, mode, due) ==
    /\ HasSnapshot(c, mode)
    /\ c.fb /\ c.fbFrom = mode
    /\ ctx' = [c EXCEPT !.last = mode]
    /\ view' = IF c.resync THEN "resync" ELSE "fallback"
    /\ pending' = due
    /\ UNCHANGED manual

FallBack(c, mode, due) == EnterFallback(c, mode) \/ StayInFallback(c, mode, due)

-----------------------------------------------------------------------------
(* One build of the Brewday snapshot, by the branch it takes               *)

Reads == /\ rcl' = [Track(prof, rcl) EXCEPT !.listening = @ \/ prof.state # "gone"]
         /\ UNCHANGED <<prof, over, bf, disk>>

Class == ProfileClass(prof, Track(prof, rcl))
Owned == OwnsBrewing(prof, Track(prof, rcl))

ObserveAccepted ==
    /\ Class = "active"
    /\ ReconnectAllowed(ctx, prof.id)
    /\ Reads
    /\ ctx' = Remember(ctx, RCL, prof.id)
    /\ manual' = PausedPlan(manual)
    /\ view' = "rcl"
    /\ pending' = (pending \/ Material(ctx, prof.id))

ObserveBlocked ==
    /\ Class = "active"
    /\ ~ReconnectAllowed(ctx, prof.id)
    /\ Reads
    /\ IF ctx.resync THEN UNCHANGED <<ctx, pending>>
       ELSE ctx' = Blocked(ctx, RCL) /\ pending' = TRUE
    /\ view' = "resync"
    /\ UNCHANGED manual

ObserveLost ==
    /\ Class = "lost"
    /\ Reads
    /\ \/ FallBack(ctx, RCL, pending)
       \/ /\ ~HasSnapshot(ctx, RCL)
          /\ view' = "unverified"
          /\ UNCHANGED <<ctx, manual, pending>>

(***************************************************************************)
(* Brewfather, when RAPT does not own the brew: a fresh tracker ...        *)
(***************************************************************************)
TrackerLive(c, due) ==
    /\ bf = "live" /\ ~Owned
    /\ IF c.resync
       THEN ctx' = c /\ view' = "resync" /\ pending' = due /\ UNCHANGED manual
       ELSE IF c.fb /\ c.fbFrom = BF
       THEN /\ ctx' = Blocked(c, BF) /\ view' = "resync"
            /\ pending' = TRUE /\ UNCHANGED manual
       ELSE /\ ctx' = Remember(c, BF, NoIdentity) /\ view' = "bf"
            /\ pending' \in {TRUE, due}      \* saved if it changed
            /\ manual' = PausedPlan(manual)

(***************************************************************************)
(* ... an old snapshot of it, ...                                          *)
(***************************************************************************)
TrackerStale(c, due) ==
    /\ bf = "stale" /\ ~Owned
    /\ \/ FallBack(c, BF, due)
       \/ /\ ~HasSnapshot(c, BF)
          /\ ctx' = c /\ view' = "unverified" /\ pending' = due
          /\ UNCHANGED manual

(***************************************************************************)
(* ... a tracker that is gone or ended after BA followed it, or no         *)
(* external owner at all.                                                  *)
(***************************************************************************)
NoTracker(c, due) ==
    /\ bf \in {"gone", "idle"} \/ Owned
    /\ \/ c.last = BF /\ FallBack(c, BF, due)
       \/ /\ c.last # BF \/ ~HasSnapshot(c, BF)
          /\ ctx' = Decorated(c)
          /\ view' = IF c.resync THEN "resync"
                     ELSE IF manual # "idle" THEN "manual" ELSE "none"
          /\ pending' = due
          /\ UNCHANGED manual

ObserveWithoutRapt ==
    /\ Class = "none"
    /\ Reads
    /\ \/ TrackerLive(ctx, pending)
       \/ TrackerStale(ctx, pending)
       \/ NoTracker(ctx, pending)

(***************************************************************************)
(* A verified STOP releases the context, and has that saved, on every      *)
(* build while the stop guard stands.                                      *)
(***************************************************************************)
ObserveStopped ==
    /\ Class = "stopped"
    /\ Reads
    /\ LET released == Ended(ctx, RCL) IN
         \/ TrackerLive(released, TRUE)
         \/ TrackerStale(released, TRUE)
         \/ NoTracker(released, TRUE)

Observe == ObserveAccepted \/ ObserveBlocked \/ ObserveLost
           \/ ObserveWithoutRapt \/ ObserveStopped

-----------------------------------------------------------------------------
(* The RAPT profile and the tracker move; BA hears of the profile through  *)
(* its listener, once a build has found the entity to listen to.           *)

Ends(p) == over' = over \cup ({prof.id.session} \ {p.id.session, NoSession})

ProfileBecomes(p) ==
    /\ p # prof
    /\ prof' = p
    /\ rcl' = IF rcl.listening THEN Track(p, rcl) ELSE rcl
    /\ UNCHANGED <<bf, ctx, manual, view, disk, pending>>

ProfileRuns(i, state) ==
    LET p == [state |-> state, id |-> i] IN
    /\ i.session \notin over
    /\ Ends(p)
    /\ ProfileBecomes(p)

ProfileStops(s) ==
    LET p == [state |-> "stopped", id |-> [session |-> s, step |-> NoSession]] IN
    /\ s \notin over
    /\ over' = over \cup ({s, prof.id.session} \ {NoSession})
    /\ ProfileBecomes(p)

ProfileFades(state) ==
    /\ ProfileBecomes([prof EXCEPT !.state = state])
    /\ UNCHANGED over

TrackerMoves(b) ==
    /\ b # bf
    /\ bf' = b
    /\ manual' = IF b = "live" THEN PausedPlan(manual) ELSE manual
    /\ UNCHANGED <<prof, over, rcl, ctx, view, disk, pending>>

-----------------------------------------------------------------------------
(* The operator                                                            *)

(***************************************************************************)
(* assert_manual_brewday_mutation_allowed, before every manual service.    *)
(***************************************************************************)
ManualAllowed ==
    /\ ~ctx.resync /\ ~ctx.fb
    /\ ~HasSnapshot(ctx, ctx.last)
    /\ Class = "none"
    /\ bf \notin {"stale", "live"}

ManualChanges(plan) ==
    /\ ManualAllowed
    /\ manual' = plan
    /\ UNCHANGED <<prof, over, bf, rcl, ctx, view, disk, pending>>

AcknowledgeRapt ==
    /\ ctx.resync /\ ctx.resyncFrom = RCL
    /\ Active(prof)
    /\ Reads
    /\ ctx' = Remember(ctx, RCL, prof.id)
    /\ pending' = (pending \/ Material(ctx, prof.id))
    /\ UNCHANGED <<manual, view>>

AcknowledgeBrewfather ==
    /\ ctx.resync /\ ctx.resyncFrom = BF
    /\ bf = "live"
    /\ ctx' = Remember(ctx, BF, NoIdentity)
    /\ pending' \in {TRUE, pending}
    /\ UNCHANGED <<prof, over, bf, rcl, manual, view, disk>>

-----------------------------------------------------------------------------
(* Storage and restarts                                                    *)

SaveContext ==
    /\ pending
    /\ disk' = Persisted(ctx) /\ pending' = FALSE
    /\ UNCHANGED <<prof, over, bf, rcl, ctx, manual, view>>

Restored ==
    IF disk.last # NoMode /\ HasSnapshot(disk, disk.last)
    THEN [EmptyContext EXCEPT
            !.snapR = IF disk.last = RCL THEN disk.snapR ELSE @,
            !.snapB = disk.last = BF,
            !.last = disk.last, !.restored = TRUE,
            !.resync = TRUE, !.resyncFrom = disk.last]
    ELSE EmptyContext

Restart ==
    /\ rcl' = EmptyStore
    /\ ctx' = Restored
    /\ manual' = "idle"
    /\ view' = "none"
    /\ pending' = FALSE
    /\ UNCHANGED <<prof, over, bf, disk>>

Next ==
    \/ ObserveAccepted
    \/ ObserveBlocked
    \/ ObserveLost
    \/ ObserveWithoutRapt
    \/ ObserveStopped
    \/ \E i \in Identities, state \in {"partial", "live"} : ProfileRuns(i, state)
    \/ \E s \in Sessions : ProfileStops(s)
    \/ \E state \in {"gone", "off", "unverified"} : ProfileFades(state)
    \/ \E b \in TrackerStates : TrackerMoves(b)
    \/ \E plan \in {"idle", "running", "paused"} : ManualChanges(plan)
    \/ AcknowledgeRapt
    \/ AcknowledgeBrewfather
    \/ SaveContext
    \/ Restart

Spec == Init /\ [][Next]_vars

-----------------------------------------------------------------------------
(* Properties                                                              *)

(* Every variable keeps its type; the lock stays a Boolean, the modes stay *)
(* the two external ones.                                                  *)
TypeOK ==
    /\ prof \in Profiles /\ over \subseteq Sessions /\ bf \in TrackerStates
    /\ rcl \in Stores /\ ctx \in Contexts
    /\ disk \in [last : Modes, snapR : Identities \cup {NoIdentity}, snapB : BOOLEAN]
    /\ manual \in {"idle", "running", "paused"} /\ pending \in BOOLEAN
    /\ view \in Views

(* The source arbitration keeps the promise StartGate relies on: one       *)
(* accepted session, replaced only after a verified STOP or by the         *)
(* operator's acknowledgement, and never a grant under the lock.           *)
AcceptedSession == IF ctx.last = RCL THEN ctx.snapR.session ELSE NoSession
MayAssist ==
    /\ prof.state = "live"
    /\ prof.id.session = AcceptedSession
    /\ ~ctx.fb /\ ~ctx.resync
SA == INSTANCE SourceArbiter WITH
          accepted <- AcceptedSession, granted <- MayAssist,
          resync <- ctx.resync
ImplementsSourceArbiter == SA!SourceSpec

(* A fallback from RAPT ends by itself only on the very session and step   *)
(* that was lost, whatever restarts, saves and other owners come between.  *)
OnlyTheSameRecipeComesBack ==
    [][ctx.fb /\ ctx.fbFrom = RCL /\ ~ctx.resync
       /\ ctx'.last = RCL /\ ~ctx'.fb /\ ~ctx'.resync
       => ctx'.snapR = ctx.snapR]_vars

(* The RAPT recipe BA follows survives a crash: it is on disk, or about to *)
(* be written, so that a restart comes back to it locked.                  *)
FollowedRecipeIsKept ==
    ctx.last = RCL => pending \/ (disk.last = RCL /\ disk.snapR = ctx.snapR)
=============================================================================
