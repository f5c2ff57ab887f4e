-------------------------- MODULE RaptSource_proofs --------------------------
(***************************************************************************)
(* Proofs about RaptSource, for any sessions of any steps: the recipe that *)
(* BA follows is on disk or about to be, a fallback ends by itself only on *)
(* the recipe that was lost, and the machinery keeps the promise of        *)
(* SourceArbiter.                                                          *)
(***************************************************************************)
EXTENDS RaptSource, TLAPS

(* A session that cannot come back: it has ended, or is none.              *)
Past(s) == s \in over \cup {NoSession}

(* A profile runs for a session that has not ended; a stop ends it.        *)
ProfileOK ==
    /\ Active(prof) => prof.id \in Identities /\ prof.id.session \notin over
    /\ prof.state = "stopped" => prof.id.session \in over

(* What BA remembers is the profile's session, or one of the past.         *)
KnownSessions ==
    /\ Past(ctx.snapR.session) \/ ctx.snapR.session = prof.id.session
    /\ Past(disk.snapR.session) \/ disk.snapR.session = prof.id.session

(* A recipe that is no longer followed is of the past: another source has  *)
(* taken over, or holds the lock, or the profile was seen to stop.         *)
LetGo ==
    /\ rcl.stopGuard => Past(ctx.snapR.session)
    /\ ctx.last # RCL \/ (ctx.resync /\ ctx.resyncFrom = BF) => Past(ctx.snapR.session)

(* Until a restarted BA has seen the profile, a recipe it remembers is     *)
(* locked, and the only one.                                               *)
UnseenIsLocked ==
    ~rcl.wasActive /\ ~rcl.stopGuard =>
        \/ ctx.snapR = NoIdentity
        \/ ctx.resync /\ ctx.resyncFrom = RCL /\ ~ctx.snapB /\ ctx.last = RCL

(* A fallback is from the source that was followed last.                   *)
FallbackIsFromLast == ctx.fb => ctx.fbFrom = ctx.last /\ ctx.last # NoMode

Inv == /\ TypeOK /\ ProfileOK /\ KnownSessions /\ LetGo /\ UnseenIsLocked
       /\ FallbackIsFromLast /\ FollowedRecipeIsKept

-----------------------------------------------------------------------------
(* Identities and stores                                                   *)

LEMMA SessionOf ==
  ASSUME NEW i \in Identities \cup {NoIdentity}
  PROVE  /\ i.session \in Sessions \cup {NoSession}
         /\ i.session = NoSession <=> i = NoIdentity
         /\ i # NoIdentity => i.session \in Sessions
  BY SessionAssumption DEF Identities, NoIdentity

LEMMA TrackType ==
  ASSUME NEW p \in Profiles, NEW r \in Stores
  PROVE  Track(p, r) \in Stores
  BY DEF Track, Profiles, Stores

(* What a build learns from the profile, whatever it makes of it.          *)
LEMMA ReadsInv ==
  ASSUME Inv, Reads
  PROVE  /\ rcl' \in Stores /\ rcl'.wasActive = Track(prof, rcl).wasActive
         /\ rcl'.stopGuard = Track(prof, rcl).stopGuard
         /\ UNCHANGED <<prof, over, bf, disk>> /\ ProfileOK'
         /\ rcl'.stopGuard => Past(ctx.snapR.session)
         /\ ~rcl'.wasActive /\ ~rcl'.stopGuard => ~rcl.wasActive /\ ~rcl.stopGuard
         /\ Active(prof) => rcl'.wasActive
<1> DEFINE T == Track(prof, rcl)
<1>1. T \in Stores
  BY TrackType DEF Inv, TypeOK
<1>2. UNCHANGED <<prof, over, bf, disk>> /\ rcl' = [T EXCEPT !.listening = @ \/ prof.state # "gone"]
  BY DEF Reads
<1>3. rcl' \in Stores /\ rcl'.wasActive = T.wasActive /\ rcl'.stopGuard = T.stopGuard
  <2> HIDE DEF T
  <2> QED
    BY <1>1, <1>2 DEF Stores
<1>4. T.stopGuard => Past(ctx.snapR.session)
  BY DEF Track, Inv, LetGo, TypeOK, Stores, Attested, ProfileOK, KnownSessions, Past
<1>5. ~T.wasActive /\ ~T.stopGuard => ~rcl.wasActive /\ ~rcl.stopGuard
  BY DEF Track, Inv, TypeOK, Stores
<1>6. Active(prof) => T.wasActive
  BY DEF Track, Inv, TypeOK, Stores
<1> QED
  BY <1>2, <1>3, <1>4, <1>5, <1>6 DEF Inv, ProfileOK, Active

(* What the branch of a build says of the profile and of the store.        *)
LEMMA ClassMeans ==
  ASSUME Inv
  PROVE  /\ Class = "active" <=> Active(prof)
         /\ Class = "none" => ~Track(prof, rcl).wasActive /\ ~Track(prof, rcl).stopGuard
         /\ Class = "stopped" => Track(prof, rcl).stopGuard
         /\ Class \in {"active", "none", "stopped", "lost"}
<1> DEFINE T == Track(prof, rcl)
<1>1. Attested(prof, T) /\ ~Active(prof) => ~T.wasActive
  BY DEF Track, Attested, Inv, TypeOK, Stores, Profiles
<1>2. CASE Active(prof)
  BY <1>2 DEF Class, ProfileClass
<1>3. CASE ~Active(prof) /\ Attested(prof, T)
  <2>1. Class = IF T.stopGuard THEN "stopped" ELSE "none"
    BY <1>3 DEF Class, ProfileClass
  <2> QED
    BY <1>1, <1>3, <2>1
<1>4. CASE ~Active(prof) /\ ~Attested(prof, T) /\ T.wasActive
  BY <1>4 DEF Class, ProfileClass
<1>5. CASE ~Active(prof) /\ ~Attested(prof, T) /\ ~T.wasActive
  <2>1. Class = IF T.stopGuard THEN "stopped"
                ELSE IF prof.state = "unverified" THEN "lost" ELSE "none"
    BY <1>5 DEF Class, ProfileClass
  <2> QED
    BY <1>5, <2>1
<1> QED
  BY <1>2, <1>3, <1>4, <1>5

-----------------------------------------------------------------------------
(* The operators on contexts                                               *)

LEMMA RememberFields ==
  ASSUME NEW c \in Contexts, NEW mode \in {RCL, BF}, NEW id \in Identities \cup {NoIdentity},
         NEW d, d = Remember(c, mode, id)
  PROVE  /\ d \in Contexts /\ d.last = mode /\ ~d.fb /\ ~d.resync
         /\ d.snapR = IF mode = RCL THEN id ELSE c.snapR
  BY DEF Remember, Contexts, Modes, RCL, BF

LEMMA BlockedFields ==
  ASSUME NEW c \in Contexts, NEW mode \in {RCL, BF}, NEW d, d = Blocked(c, mode)
  PROVE  /\ d \in Contexts /\ d.resync /\ d.resyncFrom = mode /\ d.fb /\ d.fbFrom = mode
         /\ d.snapR = c.snapR /\ d.last = c.last
  BY DEF Blocked, Contexts, Modes

LEMMA EndedFields ==
  ASSUME NEW c \in Contexts, NEW d, d = Ended(c, RCL)
  PROVE  /\ d \in Contexts /\ ~d.resync /\ ~d.fb /\ d.snapR = c.snapR /\ d.snapB = c.snapB
         /\ d.last # RCL /\ d.last \in {c.last, NoMode}
  BY DEF Ended, Contexts, Modes, RCL, NoMode

LEMMA DecoratedFields ==
  ASSUME NEW c \in Contexts, NEW d, d = Decorated(c)
  PROVE  /\ d \in Contexts /\ d.resync = c.resync /\ d.resyncFrom = c.resyncFrom
         /\ d.snapR = c.snapR /\ d.snapB = c.snapB /\ d.last = c.last
         /\ d.fb => c.fb /\ d.fbFrom = c.fbFrom
         /\ d.fb => d.resync
  BY DEF Decorated, Contexts, Modes

(* A fallback is from a source that was followed, and is that source's.    *)
LEMMA FallBackFields ==
  ASSUME NEW c \in Contexts, NEW mode \in {RCL, BF}, NEW due \in BOOLEAN,
         manual \in {"idle", "running", "paused"}, FallBack(c, mode, due)
  PROVE  /\ ctx' \in Contexts /\ ctx'.last = mode /\ ctx'.fb /\ ctx'.fbFrom = mode
         /\ HasSnapshot(c, mode) /\ ctx'.snapR = c.snapR /\ ctx'.snapB = c.snapB
         /\ ctx'.resync = c.resync /\ ctx'.resyncFrom = c.resyncFrom
         /\ \/ pending' = TRUE
            \/ pending' = due /\ c.fb /\ c.fbFrom = mode
         /\ view' \in Views /\ manual' \in {"idle", "running", "paused"}
<1>1. CASE EnterFallback(c, mode)
  <2>1. PICK loaded \in BOOLEAN :
          ctx' = [c EXCEPT !.last = mode, !.fb = TRUE, !.fbFrom = mode, !.planLoaded = loaded]
    BY <1>1 DEF EnterFallback
  <2>2. manual' \in {"idle", "running", "paused"} /\ view' \in Views /\ pending' = TRUE
    BY <1>1 DEF EnterFallback, Views
  <2>3. HasSnapshot(c, mode)
    BY <1>1 DEF EnterFallback
  <2> QED
    BY <2>1, <2>2, <2>3 DEF Contexts, Modes
<1>2. CASE StayInFallback(c, mode, due)
  <2>1. ctx' = [c EXCEPT !.last = mode] /\ c.fb /\ c.fbFrom = mode
    BY <1>2 DEF StayInFallback
  <2>2. manual' \in {"idle", "running", "paused"} /\ view' \in Views /\ pending' = due
    BY <1>2 DEF StayInFallback, Views
  <2>3. HasSnapshot(c, mode)
    BY <1>2 DEF StayInFallback
  <2> QED
    BY <2>1, <2>2, <2>3 DEF Contexts, Modes
<1> QED
  BY <1>1, <1>2 DEF FallBack

LEMMA PausedPlanType ==
  ASSUME NEW plan \in {"idle", "running", "paused"}
  PROVE  PausedPlan(plan) \in {"idle", "running", "paused"}
  BY DEF PausedPlan

-----------------------------------------------------------------------------
(* The builds preserve the invariant                                       *)

(* Accepting or acknowledging the recipe of the profile that runs: if it   *)
(* is the one that was remembered it was followed already, for the others  *)
(* are of the past.                                                        *)
LEMMA RememberRaptInv ==
  ASSUME Inv, Reads, Active(prof), ~(ctx.resync /\ ctx.resyncFrom = BF),
         ctx' = Remember(ctx, RCL, prof.id), pending' = (pending \/ Material(ctx, prof.id)),
         manual' \in {"idle", "running", "paused"}, view' \in Views
  PROVE  Inv'
<1>1. ctx \in Contexts /\ prof.id \in Identities /\ prof.id.session \notin over
  BY DEF Inv, TypeOK, ProfileOK
<1>2. prof.id.session \in Sessions
  BY <1>1 DEF Identities
<1>3. /\ ctx' \in Contexts /\ ctx'.last = RCL /\ ~ctx'.fb /\ ~ctx'.resync /\ ctx'.snapR = prof.id
  BY <1>1, RememberFields
<1>4. /\ rcl' \in Stores /\ UNCHANGED <<prof, over, bf, disk>> /\ ProfileOK'
      /\ rcl'.wasActive /\ ~rcl'.stopGuard
  <2>1. ~Track(prof, rcl).stopGuard
    BY DEF Track, Inv, TypeOK, Stores
  <2> QED
    BY <2>1, ReadsInv
<1>5. TypeOK'
  BY <1>3, <1>4 DEF Inv, TypeOK
<1>6. KnownSessions'
  BY <1>3, <1>4 DEF Inv, KnownSessions, Past
<1>7. LetGo' /\ UnseenIsLocked' /\ FallbackIsFromLast'
  BY <1>3, <1>4 DEF LetGo, UnseenIsLocked, FallbackIsFromLast
<1>8. FollowedRecipeIsKept'
  <2>1. CASE Material(ctx, prof.id)
    BY <2>1 DEF FollowedRecipeIsKept
  <2>2. CASE ctx.snapR = prof.id
    <3>1. ctx.last = RCL
      BY <1>1, <1>2, <2>2, SessionAssumption DEF Inv, LetGo, Past
    <3> QED
      BY <1>3, <1>4, <2>2, <3>1 DEF Inv, FollowedRecipeIsKept
  <2> QED
    BY <2>1, <2>2 DEF Material
<1> QED
  BY <1>4, <1>5, <1>6, <1>7, <1>8 DEF Inv

LEMMA AcceptedInv ==
  ASSUME Inv, ObserveAccepted
  PROVE  Inv'
<1>1. Reads /\ Active(prof) /\ ~ctx.resync
  BY ClassMeans DEF ObserveAccepted, ReconnectAllowed
<1>2. manual' \in {"idle", "running", "paused"} /\ view' \in Views
  BY PausedPlanType DEF ObserveAccepted, Inv, TypeOK, Views
<1> QED
  BY <1>1, <1>2, RememberRaptInv DEF ObserveAccepted

LEMMA BlockedInv ==
  ASSUME Inv, ObserveBlocked
  PROVE  Inv'
<1>1. Reads /\ Active(prof) /\ ~ReconnectAllowed(ctx, prof.id) /\ ctx \in Contexts
  BY ClassMeans DEF ObserveBlocked, Inv, TypeOK
<1>2. /\ rcl' \in Stores /\ UNCHANGED <<prof, over, bf, disk>> /\ ProfileOK'
      /\ rcl'.wasActive /\ (rcl'.stopGuard => Past(ctx.snapR.session))
  BY <1>1, ReadsInv
<1>3. view' \in Views /\ manual' = manual
  BY DEF ObserveBlocked, Views
<1>4. CASE ctx.resync
  <2>1. ctx' = ctx /\ pending' = pending
    BY <1>4 DEF ObserveBlocked
  <2> QED
    BY <1>2, <1>3, <2>1
    DEF Inv, TypeOK, KnownSessions, LetGo, Past, UnseenIsLocked, FallbackIsFromLast,
        FollowedRecipeIsKept
<1>5. CASE ~ctx.resync
  <2>1. ctx.last = RCL
    BY <1>1, <1>5 DEF ReconnectAllowed, Inv, FallbackIsFromLast
  <2>2. ctx' = Blocked(ctx, RCL) /\ pending' = TRUE
    BY <1>5 DEF ObserveBlocked
  <2>3. /\ ctx' \in Contexts /\ ctx'.resync /\ ctx'.resyncFrom = RCL /\ ctx'.fb
        /\ ctx'.fbFrom = RCL /\ ctx'.snapR = ctx.snapR /\ ctx'.last = ctx.last
    BY <1>1, <2>2, BlockedFields
  <2>4. TypeOK'
    BY <1>2, <1>3, <2>2, <2>3 DEF Inv, TypeOK
  <2>5. KnownSessions' /\ LetGo'
    BY <1>2, <2>1, <2>3 DEF Inv, KnownSessions, LetGo, Past, RCL, BF
  <2>6. UnseenIsLocked' /\ FallbackIsFromLast' /\ FollowedRecipeIsKept'
    BY <1>2, <2>1, <2>2, <2>3
    DEF UnseenIsLocked, FallbackIsFromLast, FollowedRecipeIsKept, RCL, NoMode
  <2> QED
    BY <1>2, <2>4, <2>5, <2>6 DEF Inv
<1> QED
  BY <1>4, <1>5

LEMMA LostInv ==
  ASSUME Inv, ObserveLost
  PROVE  Inv'
<1>1. Reads /\ ~Active(prof) /\ ctx \in Contexts /\ pending \in BOOLEAN
  BY ClassMeans DEF ObserveLost, Inv, TypeOK
<1>2. /\ rcl' \in Stores /\ UNCHANGED <<prof, over, bf, disk>> /\ ProfileOK'
      /\ rcl'.stopGuard => Past(ctx.snapR.session)
      /\ ~rcl'.wasActive /\ ~rcl'.stopGuard => ~rcl.wasActive /\ ~rcl.stopGuard
  BY <1>1, ReadsInv
<1>3. CASE FallBack(ctx, RCL, pending)
  <2>1. manual \in {"idle", "running", "paused"}
    BY DEF Inv, TypeOK
  <2>2. /\ ctx' \in Contexts /\ ctx'.last = RCL /\ ctx'.fb /\ ctx'.fbFrom = RCL
        /\ HasSnapshot(ctx, RCL) /\ ctx'.snapR = ctx.snapR /\ ctx'.snapB = ctx.snapB
        /\ ctx'.resync = ctx.resync /\ ctx'.resyncFrom = ctx.resyncFrom
        /\ \/ pending' = TRUE
           \/ pending' = pending /\ ctx.fb /\ ctx.fbFrom = RCL
        /\ view' \in Views /\ manual' \in {"idle", "running", "paused"}
    BY <1>1, <1>3, <2>1, FallBackFields
  <2>3. TypeOK'
    BY <1>1, <1>2, <2>2 DEF Inv, TypeOK
  <2>4. KnownSessions' /\ LetGo'
    BY <1>2, <2>2 DEF Inv, KnownSessions, LetGo, Past
  <2>5. UnseenIsLocked'
    BY <1>2, <2>2 DEF Inv, UnseenIsLocked
  <2>6. FallbackIsFromLast' /\ FollowedRecipeIsKept'
    BY <1>2, <2>2 DEF Inv, FallbackIsFromLast, FollowedRecipeIsKept, RCL, NoMode
  <2> QED
    BY <1>2, <2>3, <2>4, <2>5, <2>6 DEF Inv
<1>4. CASE UNCHANGED <<ctx, manual, pending>> /\ view' = "unverified"
  BY <1>2, <1>4
  DEF Inv, TypeOK, Views, KnownSessions, LetGo, Past, UnseenIsLocked, FallbackIsFromLast,
      FollowedRecipeIsKept
<1> QED
  BY <1>3, <1>4 DEF ObserveLost

(* The context that the Brewfather branches start from: RAPT's recipe is   *)
(* none, or of the past, or locked by a restart.                           *)
Locked(c) == c.resync /\ c.resyncFrom = RCL /\ ~c.snapB /\ c.last = RCL
Apart(c, due) ==
    /\ c.snapR = ctx.snapR
    /\ c.snapR = NoIdentity \/ (rcl'.stopGuard /\ Past(c.snapR.session)) \/ Locked(c)
    /\ c.fb => c.fbFrom = c.last /\ c.last # NoMode
    /\ c.last = RCL => due \/ (disk.last = RCL /\ disk.snapR = c.snapR)

LEMMA OtherSourceInv ==
  ASSUME Inv, Reads, NEW c \in Contexts, NEW due \in BOOLEAN, Apart(c, due),
         TrackerLive(c, due) \/ TrackerStale(c, due) \/ NoTracker(c, due)
  PROVE  Inv'
<1>1. /\ rcl' \in Stores /\ UNCHANGED <<prof, over, bf, disk>> /\ ProfileOK'
      /\ rcl'.stopGuard => Past(ctx.snapR.session)
      /\ ~rcl'.wasActive /\ ~rcl'.stopGuard => ~rcl.wasActive /\ ~rcl.stopGuard
  BY ReadsInv
<1>2. manual \in {"idle", "running", "paused"}
  BY DEF Inv, TypeOK
<1>3. Past(c.snapR.session) \/ Locked(c)
  BY DEF Apart, Past, NoIdentity
<1>a. ASSUME ctx' \in Contexts, ctx'.snapR = c.snapR, pending' \in BOOLEAN, view' \in Views,
             manual' \in {"idle", "running", "paused"},
             Locked(ctx') \/ ctx'.snapR = NoIdentity \/ (rcl'.stopGuard /\ Past(c.snapR.session)),
             ctx'.fb => ctx'.fbFrom = ctx'.last /\ ctx'.last # NoMode,
             ctx'.last = RCL => c.last = RCL /\ (pending' \/ pending' = due)
      PROVE  Inv'
  <2>1. TypeOK'
    BY <1>1, <1>a DEF Inv, TypeOK
  <2>2. KnownSessions'
    BY <1>1, <1>a DEF Apart, Inv, KnownSessions, Past
  <2>3. LetGo'
    BY <1>1, <1>a DEF Apart, LetGo, Past, Locked, NoIdentity, RCL, BF
  <2>4. UnseenIsLocked' /\ FallbackIsFromLast'
    BY <1>1, <1>a DEF UnseenIsLocked, FallbackIsFromLast, Locked
  <2>5. FollowedRecipeIsKept'
    BY <1>1, <1>a DEF Apart, FollowedRecipeIsKept
  <2> QED
    BY <1>1, <2>1, <2>2, <2>3, <2>4, <2>5 DEF Inv
<1>4. CASE TrackerLive(c, due)
  <2>1. CASE c.resync
    <3>1. ctx' = c /\ view' = "resync" /\ pending' = due /\ manual' = manual
      BY <1>4, <2>1 DEF TrackerLive
    <3> QED
      BY <1>2, <1>a, <3>1 DEF Apart, Views, Locked
  <2>2. CASE ~c.resync /\ c.fb /\ c.fbFrom = BF
    <3>1. ctx' = Blocked(c, BF) /\ view' = "resync" /\ pending' = TRUE /\ manual' = manual
      BY <1>4, <2>2 DEF TrackerLive
    <3>2. /\ ctx' \in Contexts /\ ctx'.fb /\ ctx'.fbFrom = BF
          /\ ctx'.snapR = c.snapR /\ ctx'.last = c.last
      BY <3>1, BlockedFields
    <3>3. c.last = BF /\ BF # NoMode /\ BF # RCL /\ ~Locked(c)
      BY <2>2 DEF Apart, BF, NoMode, RCL, Locked
    <3> QED
      BY <1>2, <1>a, <3>1, <3>2, <3>3 DEF Apart, Views
  <2>3. CASE ~c.resync /\ ~(c.fb /\ c.fbFrom = BF)
    <3>1. /\ ctx' = Remember(c, BF, NoIdentity) /\ view' = "bf" /\ pending' \in {TRUE, due}
          /\ manual' = PausedPlan(manual)
      BY <1>4, <2>3 DEF TrackerLive
    <3>2. ctx' \in Contexts /\ ctx'.last = BF /\ ~ctx'.fb /\ ctx'.snapR = c.snapR
      BY <3>1, RememberFields DEF BF, RCL
    <3>3. BF # RCL /\ ~Locked(c)
      BY <2>3 DEF BF, RCL, Locked
    <3>4. manual' \in {"idle", "running", "paused"} /\ view' \in Views /\ pending' \in BOOLEAN
      BY <1>2, <3>1, PausedPlanType DEF Views
    <3> QED
      BY <1>a, <3>2, <3>3, <3>4 DEF Apart
  <2> QED
    BY <2>1, <2>2, <2>3
<1>5. CASE FallBack(c, BF, due)
  <2>1. /\ ctx' \in Contexts /\ ctx'.last = BF /\ ctx'.fb /\ ctx'.fbFrom = BF
        /\ HasSnapshot(c, BF) /\ ctx'.snapR = c.snapR
        /\ \/ pending' = TRUE
           \/ pending' = due /\ c.fb /\ c.fbFrom = BF
        /\ view' \in Views /\ manual' \in {"idle", "running", "paused"}
    BY <1>2, <1>5, FallBackFields
  <2>2. ~Locked(c) /\ BF # RCL /\ BF # NoMode
    BY <2>1 DEF HasSnapshot, Locked, BF, RCL, NoMode
  <2> QED
    BY <1>a, <2>1, <2>2 DEF Apart
<1>6. CASE ctx' = c /\ view' = "unverified" /\ pending' = due /\ manual' = manual
  BY <1>2, <1>6, <1>a DEF Apart, Views, Locked
<1>7. CASE /\ ctx' = Decorated(c) /\ pending' = due /\ manual' = manual
           /\ view' = IF c.resync THEN "resync" ELSE IF manual # "idle" THEN "manual" ELSE "none"
  <2>1. /\ ctx' \in Contexts /\ ctx'.resync = c.resync /\ ctx'.resyncFrom = c.resyncFrom
        /\ ctx'.snapR = c.snapR /\ ctx'.snapB = c.snapB /\ ctx'.last = c.last
        /\ ctx'.fb => c.fb /\ ctx'.fbFrom = c.fbFrom
    BY <1>7, DecoratedFields
  <2>2. view' \in Views
    BY <1>7 DEF Views
  <2> QED
    BY <1>2, <1>7, <1>a, <2>1, <2>2 DEF Apart, Locked
<1>8. CASE TrackerStale(c, due)
  BY <1>5, <1>6, <1>8 DEF TrackerStale
<1>9. CASE NoTracker(c, due)
  BY <1>5, <1>7, <1>9 DEF NoTracker
<1> QED
  BY <1>4, <1>8, <1>9

LEMMA WithoutRaptInv ==
  ASSUME Inv, ObserveWithoutRapt
  PROVE  Inv'
<1>1. Reads /\ ctx \in Contexts /\ pending \in BOOLEAN
  BY DEF ObserveWithoutRapt, Inv, TypeOK
<1>2. ~rcl'.wasActive /\ ~rcl'.stopGuard
  BY <1>1, ClassMeans, ReadsInv DEF ObserveWithoutRapt
<1>3. ~rcl.wasActive /\ ~rcl.stopGuard
  BY <1>1, <1>2, ReadsInv
<1>4. Apart(ctx, pending)
  BY <1>3 DEF Apart, Inv, UnseenIsLocked, Locked, FallbackIsFromLast, FollowedRecipeIsKept
<1> QED
  BY <1>1, <1>4, OtherSourceInv DEF ObserveWithoutRapt

LEMMA StoppedInv ==
  ASSUME Inv, ObserveStopped
  PROVE  Inv'
<1> DEFINE released == Ended(ctx, RCL)
<1>1. Reads /\ ctx \in Contexts
  BY DEF ObserveStopped, Inv, TypeOK
<1>2. rcl'.stopGuard /\ Past(ctx.snapR.session)
  BY <1>1, ClassMeans, ReadsInv DEF ObserveStopped
<1>3. /\ released \in Contexts /\ ~released.fb /\ released.snapR = ctx.snapR
      /\ released.last # RCL
  BY <1>1, EndedFields
<1>4. Apart(released, TRUE)
  BY <1>2, <1>3 DEF Apart
<1>5. TrackerLive(released, TRUE) \/ TrackerStale(released, TRUE) \/ NoTracker(released, TRUE)
  BY DEF ObserveStopped
<1> HIDE DEF released
<1> QED
  BY <1>1, <1>3, <1>4, <1>5, OtherSourceInv

-----------------------------------------------------------------------------
(* The other steps preserve the invariant                                  *)

(* The profile moves on: the session that it leaves is of the past.        *)
LEMMA ProfileMovesInv ==
  ASSUME Inv, NEW p \in Profiles, ProfileBecomes(p), over' \subseteq Sessions,
         over \subseteq over', prof.id.session \in over' \cup {NoSession, p.id.session},
         Active(p) => p.id \in Identities /\ p.id.session \notin over',
         p.state = "stopped" => p.id.session \in over'
  PROVE  Inv'
<1>1. prof' = p /\ UNCHANGED <<bf, ctx, manual, view, disk, pending>>
  BY DEF ProfileBecomes
<1>2. rcl' = Track(p, rcl) \/ rcl' = rcl
  BY DEF ProfileBecomes
<1>3. rcl' \in Stores
  BY <1>2, TrackType DEF Inv, TypeOK
<1>4. ProfileOK' /\ TypeOK'
  BY <1>1, <1>3 DEF Inv, ProfileOK, TypeOK, Active
<1>5. KnownSessions'
  BY <1>1 DEF Inv, KnownSessions, Past
<1>6. rcl'.stopGuard => rcl.stopGuard \/ p.state = "stopped"
  BY <1>2 DEF Track, Inv, TypeOK, Stores, Attested
<1>7. LetGo'
  BY <1>1, <1>5, <1>6 DEF Inv, LetGo, KnownSessions, Past
<1>8. ~rcl'.wasActive /\ ~rcl'.stopGuard => ~rcl.wasActive /\ ~rcl.stopGuard
  BY <1>2 DEF Track, Inv, TypeOK, Stores
<1>9. UnseenIsLocked' /\ FallbackIsFromLast' /\ FollowedRecipeIsKept'
  BY <1>1, <1>8 DEF Inv, UnseenIsLocked, FallbackIsFromLast, FollowedRecipeIsKept
<1> QED
  BY <1>4, <1>5, <1>7, <1>9 DEF Inv

LEMMA ProfileRunsInv ==
  ASSUME Inv, NEW i \in Identities, NEW state \in {"partial", "live"}, ProfileRuns(i, state)
  PROVE  Inv'
<1> DEFINE p == [state |-> state, id |-> i]
<1>1. p \in Profiles /\ p.id = i /\ p.state = state
  BY DEF Profiles, ProfileStates, Identities
<1>2. i.session \notin over /\ i.session \in Sessions
  BY DEF ProfileRuns, Identities
<1>3. over' = over \cup ({prof.id.session} \ {i.session, NoSession}) /\ ProfileBecomes(p)
  BY DEF ProfileRuns, Ends
<1>4. prof.id.session \in Sessions \cup {NoSession} /\ over \subseteq Sessions
  BY DEF Inv, TypeOK, Profiles
<1>5. state # "stopped"
  OBVIOUS
<1> HIDE DEF p
<1> QED
  BY <1>1, <1>2, <1>3, <1>4, <1>5, ProfileMovesInv

LEMMA ProfileStopsInv ==
  ASSUME Inv, NEW s \in Sessions, ProfileStops(s)
  PROVE  Inv'
<1> DEFINE p == [state |-> "stopped", id |-> [session |-> s, step |-> NoSession]]
<1>1. p \in Profiles /\ p.id.session = s /\ ~Active(p)
  BY DEF Profiles, ProfileStates, Active
<1>2. over' = over \cup ({s, prof.id.session} \ {NoSession}) /\ ProfileBecomes(p)
  BY DEF ProfileStops
<1>3. prof.id.session \in Sessions \cup {NoSession} /\ over \subseteq Sessions /\ s # NoSession
  BY SessionAssumption DEF Inv, TypeOK, Profiles
<1> HIDE DEF p
<1> QED
  BY <1>1, <1>2, <1>3, ProfileMovesInv

LEMMA ProfileFadesInv ==
  ASSUME Inv, NEW state \in {"gone", "off", "unverified"}, ProfileFades(state)
  PROVE  Inv'
<1> DEFINE p == [prof EXCEPT !.state = state]
<1>1. p \in Profiles /\ p.id = prof.id /\ p.state = state
  BY DEF Inv, TypeOK, Profiles, ProfileStates
<1>2. over' = over /\ ProfileBecomes(p) /\ over \subseteq Sessions
  BY DEF ProfileFades, Inv, TypeOK
<1> HIDE DEF p
<1> QED
  BY <1>1, <1>2, ProfileMovesInv DEF Active

LEMMA TrackerOrPlanInv ==
  ASSUME Inv, \/ \E b \in TrackerStates : TrackerMoves(b)
              \/ \E plan \in {"idle", "running", "paused"} : ManualChanges(plan)
  PROVE  Inv'
<1>1. bf' \in TrackerStates /\ manual' \in {"idle", "running", "paused"}
  BY PausedPlanType DEF TrackerMoves, ManualChanges, Inv, TypeOK
<1>2. UNCHANGED <<prof, over, rcl, ctx, view, disk, pending>>
  BY DEF TrackerMoves, ManualChanges
<1> QED
  BY <1>1, <1>2
  DEF Inv, TypeOK, ProfileOK, Active, KnownSessions, LetGo, Past, UnseenIsLocked,
      FallbackIsFromLast, FollowedRecipeIsKept

LEMMA AcknowledgeRaptInv ==
  ASSUME Inv, AcknowledgeRapt
  PROVE  Inv'
<1>1. /\ Reads /\ Active(prof) /\ ~(ctx.resync /\ ctx.resyncFrom = BF)
      /\ manual' \in {"idle", "running", "paused"} /\ view' \in Views
  BY DEF AcknowledgeRapt, Inv, TypeOK, RCL, BF
<1> QED
  BY <1>1, RememberRaptInv DEF AcknowledgeRapt

LEMMA AcknowledgeBrewfatherInv ==
  ASSUME Inv, AcknowledgeBrewfather
  PROVE  Inv'
<1>1. /\ ctx.resync /\ ctx.resyncFrom = BF /\ ctx' = Remember(ctx, BF, NoIdentity)
      /\ pending' \in {TRUE, pending} /\ UNCHANGED <<prof, over, bf, rcl, manual, view, disk>>
  BY DEF AcknowledgeBrewfather
<1>2. /\ ctx' \in Contexts /\ ctx'.last = BF /\ ~ctx'.fb /\ ctx'.snapR = ctx.snapR
  BY <1>1, RememberFields DEF Inv, TypeOK, BF, RCL
<1>3. TypeOK' /\ ProfileOK' /\ KnownSessions'
  BY <1>1, <1>2 DEF Inv, TypeOK, ProfileOK, Active, KnownSessions, Past
<1>4. LetGo' /\ UnseenIsLocked'
  BY <1>1, <1>2 DEF Inv, LetGo, Past, UnseenIsLocked, BF, RCL
<1>5. FallbackIsFromLast' /\ FollowedRecipeIsKept'
  BY <1>2 DEF FallbackIsFromLast, FollowedRecipeIsKept, BF, RCL
<1> QED
  BY <1>3, <1>4, <1>5 DEF Inv

LEMMA SaveInv ==
  ASSUME Inv, SaveContext
  PROVE  Inv'
<1>1. /\ disk' = Persisted(ctx) /\ pending' = FALSE
      /\ UNCHANGED <<prof, over, bf, rcl, ctx, manual, view>>
  BY DEF SaveContext
<1>2. TypeOK'
  BY <1>1 DEF Inv, TypeOK, Persisted, Contexts
<1>3. KnownSessions' /\ FollowedRecipeIsKept'
  BY <1>1 DEF Inv, KnownSessions, Past, FollowedRecipeIsKept, Persisted
<1> QED
  BY <1>1, <1>2, <1>3
  DEF Inv, ProfileOK, Active, LetGo, Past, UnseenIsLocked, FallbackIsFromLast

LEMMA RestartInv ==
  ASSUME Inv, Restart
  PROVE  Inv'
<1>1. /\ rcl' = EmptyStore /\ ctx' = Restored /\ manual' = "idle" /\ view' = "none"
      /\ pending' = FALSE /\ UNCHANGED <<prof, over, bf, disk>>
  BY DEF Restart
<1>2. disk \in [last : Modes, snapR : Identities \cup {NoIdentity}, snapB : BOOLEAN]
  BY DEF Inv, TypeOK
<1>3. CASE disk.last = RCL /\ disk.snapR # NoIdentity
  <2>1. Restored = [EmptyContext EXCEPT !.snapR = disk.snapR, !.snapB = FALSE, !.last = RCL,
                      !.restored = TRUE, !.resync = TRUE, !.resyncFrom = RCL]
    <3>1. disk.last # NoMode /\ HasSnapshot(disk, disk.last) /\ disk.last # BF
      BY <1>3 DEF HasSnapshot, NoMode, RCL, BF
    <3> QED
      BY <1>3, <3>1 DEF Restored, EmptyContext
  <2>2. /\ ctx' \in Contexts /\ ctx'.snapR = disk.snapR /\ ~ctx'.snapB /\ ctx'.last = RCL
        /\ ctx'.resync /\ ctx'.resyncFrom = RCL /\ ~ctx'.fb
    BY <1>1, <1>2, <2>1 DEF EmptyContext, Contexts, Modes
  <2>3. TypeOK' /\ ProfileOK' /\ KnownSessions'
    BY <1>1, <2>2
    DEF Inv, TypeOK, EmptyStore, Stores, Views, ProfileOK, Active, KnownSessions, Past
  <2>4. LetGo' /\ UnseenIsLocked' /\ FallbackIsFromLast' /\ FollowedRecipeIsKept'
    BY <1>1, <1>3, <2>2
    DEF LetGo, UnseenIsLocked, FallbackIsFromLast, FollowedRecipeIsKept, EmptyStore, RCL, BF
  <2> QED
    BY <2>3, <2>4 DEF Inv
<1>4. CASE ~(disk.last = RCL /\ disk.snapR # NoIdentity)
  <2>1. /\ ctx' \in Contexts /\ ctx'.snapR = NoIdentity /\ ctx'.last # RCL /\ ~ctx'.fb
    <3>1. CASE disk.last = BF /\ disk.snapB
      <4>1. Restored = [EmptyContext EXCEPT !.snapB = TRUE, !.last = BF,
                          !.restored = TRUE, !.resync = TRUE, !.resyncFrom = BF]
        BY <3>1 DEF Restored, HasSnapshot, NoMode, RCL, BF, EmptyContext
      <4> QED
        BY <1>1, <4>1 DEF EmptyContext, Contexts, Modes, RCL, BF
    <3>2. CASE ~(disk.last = BF /\ disk.snapB)
      <4>1. Restored = EmptyContext
        BY <1>4, <3>2 DEF Restored, HasSnapshot
      <4> QED
        BY <1>1, <4>1 DEF EmptyContext, Contexts, Modes, RCL, NoMode
    <3> QED
      BY <3>1, <3>2
  <2>a. ctx'.snapR.session = NoSession
    BY <2>1 DEF NoIdentity
  <2>2. TypeOK' /\ ProfileOK' /\ KnownSessions'
    BY <1>1, <2>1, <2>a
    DEF Inv, TypeOK, EmptyStore, Stores, Views, ProfileOK, Active, KnownSessions, Past
  <2>3. LetGo' /\ UnseenIsLocked' /\ FallbackIsFromLast' /\ FollowedRecipeIsKept'
    BY <1>1, <2>1, <2>a
    DEF LetGo, Past, UnseenIsLocked, FallbackIsFromLast, FollowedRecipeIsKept,
        EmptyStore
  <2> QED
    BY <2>2, <2>3 DEF Inv
<1> QED
  BY <1>3, <1>4

LEMMA StepInv == Inv /\ [Next]_vars => Inv'
<1> SUFFICES ASSUME Inv, [Next]_vars PROVE Inv'
  OBVIOUS
<1>1. CASE UNCHANGED vars
  BY <1>1
  DEF vars, Inv, TypeOK, ProfileOK, Active, KnownSessions, LetGo, Past, UnseenIsLocked,
      FallbackIsFromLast, FollowedRecipeIsKept
<1>2. CASE Next
  BY <1>2, AcceptedInv, BlockedInv, LostInv, WithoutRaptInv, StoppedInv, ProfileRunsInv,
     ProfileStopsInv, ProfileFadesInv, TrackerOrPlanInv, AcknowledgeRaptInv,
     AcknowledgeBrewfatherInv, SaveInv, RestartInv DEF Next
<1> QED
  BY <1>1, <1>2

LEMMA InitInv == Init => Inv
<1> SUFFICES ASSUME Init PROVE Inv
  OBVIOUS
<1>1. ctx = EmptyContext /\ ctx \in Contexts /\ ctx.snapR.session = NoSession /\ ~ctx.fb
      /\ ctx.last = NoMode
  BY DEF Init, EmptyContext, Contexts, Modes, NoIdentity
<1>2. prof \in Profiles /\ ~Active(prof) /\ prof.state # "stopped"
  BY DEF Init, Profiles, ProfileStates, NoIdentity, Active
<1>3. rcl \in Stores /\ ~rcl.stopGuard
  BY DEF Init, EmptyStore, Stores
<1>4. disk \in [last : Modes, snapR : Identities \cup {NoIdentity}, snapB : BOOLEAN]
      /\ disk.snapR.session = NoSession
  BY DEF Init, EmptyContext, Persisted, Modes, NoIdentity
<1>5. TypeOK
  BY <1>1, <1>2, <1>3, <1>4 DEF Init, TypeOK, TrackerStates, Views
<1>6. ProfileOK /\ KnownSessions /\ LetGo /\ FallbackIsFromLast /\ FollowedRecipeIsKept
  BY <1>1, <1>2, <1>3, <1>4
  DEF ProfileOK, KnownSessions, LetGo, Past, FallbackIsFromLast, FollowedRecipeIsKept, NoMode, RCL
<1>7. UnseenIsLocked
  BY <1>1 DEF UnseenIsLocked, EmptyContext
<1> QED
  BY <1>5, <1>6, <1>7 DEF Inv

LEMMA Invariance == Spec => []Inv
  BY InitInv, StepInv, PTL DEF Spec

(* Every variable keeps its type, whichever profile, source and operator   *)
(* come in whatever order.                                                 *)
THEOREM TypeCorrect == Spec => []TypeOK
<1>1. Inv => TypeOK
  BY DEF Inv
<1> QED
  BY <1>1, Invariance, PTL

(* The RAPT recipe that BA follows survives a crash: at every moment it is *)
(* on disk, or a save of it is due.                                        *)
THEOREM RecipeSurvives == Spec => []FollowedRecipeIsKept
<1>1. Inv => FollowedRecipeIsKept
  BY DEF Inv
<1> QED
  BY <1>1, Invariance, PTL

-----------------------------------------------------------------------------
(* Which fallback ends by itself                                           *)

FromRapt == ctx.fb /\ ctx.fbFrom = RCL /\ ~ctx.resync
Followed == ctx.last = RCL /\ ~ctx.fb /\ ~ctx.resync

LEMMA SameRecipeStep == Inv /\ [Next]_vars => (FromRapt /\ Followed' => ctx'.snapR = ctx.snapR)
<1> SUFFICES ASSUME Inv, [Next]_vars, FromRapt, Followed', ctx' # ctx
             PROVE  ctx'.snapR = ctx.snapR
  OBVIOUS
<1>0. ctx \in Contexts /\ manual \in {"idle", "running", "paused"} /\ pending \in BOOLEAN
  BY DEF Inv, TypeOK
<1>1. CASE ObserveAccepted
  <2>1. ctx' = Remember(ctx, RCL, prof.id) /\ ctx.snapR = prof.id
    BY <1>1 DEF ObserveAccepted, ReconnectAllowed, FromRapt, IdentityMatches
  <2> QED
    BY <1>0, <2>1, RememberFields DEF Contexts
<1>2. CASE ObserveBlocked
  <2>1. ctx' = Blocked(ctx, RCL)
    BY <1>2 DEF ObserveBlocked, FromRapt
  <2> QED
    BY <1>0, <2>1, BlockedFields DEF Followed
<1>3. CASE ObserveLost
  BY <1>0, <1>3, FallBackFields DEF ObserveLost
<1>4. ASSUME NEW c \in Contexts, NEW due \in BOOLEAN, c.snapR = ctx.snapR,
             TrackerLive(c, due) \/ TrackerStale(c, due) \/ NoTracker(c, due)
      PROVE  ctx'.snapR = ctx.snapR
  <2>1. CASE ctx' = c
    BY <1>4, <2>1
  <2>2. CASE FallBack(c, BF, due)
    BY <1>0, <1>4, <2>2, FallBackFields
  <2>3. CASE ctx' = Decorated(c)
    BY <1>4, <2>3, DecoratedFields
  <2>4. CASE ctx' = Blocked(c, BF)
    BY <1>4, <2>4, BlockedFields
  <2>5. CASE ctx' = Remember(c, BF, NoIdentity)
    BY <1>4, <2>5, RememberFields DEF BF, RCL
  <2> QED
    BY <1>4, <2>1, <2>2, <2>3, <2>4, <2>5 DEF TrackerLive, TrackerStale, NoTracker
<1>5. CASE ObserveWithoutRapt
  BY <1>0, <1>4, <1>5 DEF ObserveWithoutRapt
<1>6. CASE ObserveStopped
  <2> DEFINE released == Ended(ctx, RCL)
  <2>1. released \in Contexts /\ released.snapR = ctx.snapR
    BY <1>0, EndedFields
  <2>2. \/ TrackerLive(released, TRUE) \/ TrackerStale(released, TRUE)
        \/ NoTracker(released, TRUE)
    BY <1>6 DEF ObserveStopped
  <2> HIDE DEF released
  <2> QED
    BY <1>4, <2>1, <2>2
<1>7. CASE Restart
  BY <1>7 DEF Restart, Restored, EmptyContext, Followed, NoMode, RCL
<1>8. ~AcknowledgeRapt /\ ~AcknowledgeBrewfather
  BY DEF FromRapt, AcknowledgeRapt, AcknowledgeBrewfather
<1> QED
  BY <1>1, <1>2, <1>3, <1>5, <1>6, <1>7, <1>8
  DEF Next, vars, ProfileRuns, ProfileStops, ProfileFades, ProfileBecomes, TrackerMoves,
      ManualChanges, SaveContext

(* A fallback from RAPT ends by itself only on the very session and step   *)
(* that was lost.                                                          *)
THEOREM SameRecipe == Spec => OnlyTheSameRecipeComesBack
<1>1. Inv /\ [Next]_vars =>
        [ctx.fb /\ ctx.fbFrom = RCL /\ ~ctx.resync
         /\ ctx'.last = RCL /\ ~ctx'.fb /\ ~ctx'.resync => ctx'.snapR = ctx.snapR]_vars
  BY SameRecipeStep DEF FromRapt, Followed
<1> QED
  BY <1>1, Invariance, PTL DEF Spec, OnlyTheSameRecipeComesBack

-----------------------------------------------------------------------------
(* The machinery keeps the promise of SourceArbiter                        *)

(* What it shows of itself: a session, or none; a grant only for the       *)
(* session that is followed, outside the lock and the fallback.            *)
Shown ==
    /\ AcceptedSession \in Sessions \cup {NoSession} /\ MayAssist \in BOOLEAN
    /\ MayAssist => AcceptedSession \in Sessions /\ ~ctx.resync /\ ~ctx.fb

LEMMA InvShows == Inv => Shown
<1> SUFFICES ASSUME Inv PROVE Shown
  OBVIOUS
<1>1. ctx.snapR.session \in Sessions \cup {NoSession}
  BY SessionOf DEF Inv, TypeOK, Contexts
<1>2. MayAssist => Active(prof) /\ AcceptedSession = prof.id.session
  BY DEF MayAssist, Active
<1>3. Active(prof) => prof.id.session \in Sessions
  BY DEF Inv, ProfileOK, Identities
<1> QED
  BY <1>1, <1>2, <1>3 DEF Shown, AcceptedSession, MayAssist

LEMMA NextShows == Inv' => Shown'
  BY InvShows, PTL

(* The steps of the abstract source that the code's steps map to.          *)
SourceMoves ==
    \/ SA!SourceNext \/ SA!SourceRestart
    \/ UNCHANGED <<AcceptedSession, MayAssist, ctx.resync>>

LEMMA SameSession ==
  ASSUME Inv, Inv', UNCHANGED <<AcceptedSession, ctx.resync>>
  PROVE  SourceMoves
<1>1. CASE MayAssist' = MayAssist
  BY <1>1 DEF SourceMoves
<1>2. CASE MayAssist' /\ ~MayAssist
  <2>1. AcceptedSession # NoSession /\ ~ctx.resync
    BY <1>2, NextShows, SessionAssumption DEF Shown
  <2>2. MayAssist' = TRUE
    BY <1>2, NextShows DEF Shown
  <2> QED
    BY <2>1, <2>2 DEF SourceMoves, SA!SourceNext, SA!Regain
<1>3. CASE MayAssist /\ ~MayAssist'
  <2>1. MayAssist' = FALSE
    BY <1>3, NextShows DEF Shown
  <2> QED
    BY <1>3, <2>1 DEF SourceMoves, SA!SourceNext, SA!Lose
<1> QED
  BY <1>1, <1>2, <1>3, InvShows, NextShows DEF Shown

LEMMA Releases ==
  ASSUME Inv', AcceptedSession' = NoSession, ctx'.resync = FALSE
  PROVE  SourceMoves
<1>1. MayAssist' = FALSE
  BY NextShows, SessionAssumption DEF Shown
<1> QED
  BY <1>1 DEF SourceMoves, SA!SourceNext, SA!End

LEMMA Blocks ==
  ASSUME Inv', UNCHANGED AcceptedSession, ctx'.resync = TRUE
  PROVE  SourceMoves
<1>1. MayAssist' = FALSE
  BY NextShows DEF Shown
<1> QED
  BY <1>1 DEF SourceMoves, SA!SourceNext, SA!Block

LEMMA AcceptedMoves ==
  ASSUME Inv, Inv', ObserveAccepted
  PROVE  SourceMoves
<1>1. /\ ctx' = Remember(ctx, RCL, prof.id) /\ ReconnectAllowed(ctx, prof.id) /\ Active(prof)
      /\ ctx \in Contexts /\ prof.id \in Identities
  BY ClassMeans DEF ObserveAccepted, Inv, TypeOK, ProfileOK
<1>2. ctx'.last = RCL /\ ctx'.resync = FALSE /\ ctx.resync = FALSE /\ ctx'.snapR = prof.id
  BY <1>1, RememberFields DEF ReconnectAllowed, Contexts, Inv, TypeOK
<1>3. AcceptedSession' = prof.id.session /\ prof.id.session \in Sessions
  BY <1>1, <1>2 DEF AcceptedSession, Identities
<1>4. CASE AcceptedSession = NoSession
  <2>1. SA!Accept(prof.id.session)
    BY <1>2, <1>3, <1>4, NextShows DEF Shown, SA!Accept
  <2> QED
    BY <1>3, <2>1 DEF SourceMoves, SA!SourceNext
<1>5. CASE AcceptedSession # NoSession
  <2>1. ctx.last = RCL /\ HasSnapshot(ctx, RCL) /\ ctx.snapR.session = AcceptedSession
    BY <1>5 DEF AcceptedSession, HasSnapshot, NoIdentity
  <2>2. ctx.snapR.session = prof.id.session
    BY <1>1, <2>1 DEF ReconnectAllowed, IdentityMatches
  <2> QED
    BY <1>2, <1>3, <2>1, <2>2, SameSession
<1> QED
  BY <1>4, <1>5

LEMMA BlockedMoves ==
  ASSUME Inv, Inv', ObserveBlocked
  PROVE  SourceMoves
<1>1. CASE ctx.resync
  <2>1. ctx' = ctx
    BY <1>1 DEF ObserveBlocked
  <2> QED
    BY <2>1, SameSession DEF AcceptedSession
<1>2. CASE ~ctx.resync
  <2>1. ctx' = Blocked(ctx, RCL) /\ ctx \in Contexts
    BY <1>2 DEF ObserveBlocked, Inv, TypeOK
  <2>2. ctx'.resync = TRUE /\ ctx'.last = ctx.last /\ ctx'.snapR = ctx.snapR
    BY <2>1 DEF Blocked, Contexts
  <2> QED
    BY <2>2, Blocks DEF AcceptedSession
<1> QED
  BY <1>1, <1>2

LEMMA LostMoves ==
  ASSUME Inv, Inv', ObserveLost
  PROVE  SourceMoves
<1>1. /\ ctx \in Contexts /\ manual \in {"idle", "running", "paused"} /\ pending \in BOOLEAN
  BY DEF Inv, TypeOK
<1>2. CASE FallBack(ctx, RCL, pending)
  <2>1. /\ ctx'.last = RCL /\ ctx'.fb /\ ctx'.snapR = ctx.snapR /\ ctx'.resync = ctx.resync
        /\ ctx.snapR # NoIdentity
    BY <1>1, <1>2, FallBackFields DEF HasSnapshot, RCL, BF
  <2>2. CASE ctx.last = RCL
    BY <2>1, <2>2, SameSession DEF AcceptedSession
  <2>3. CASE ctx.last # RCL
    <3>1. AcceptedSession = NoSession /\ AcceptedSession' = ctx.snapR.session
      BY <2>1, <2>3 DEF AcceptedSession
    <3>2. ctx.snapR.session \in Sessions
      BY <1>1, <2>1, SessionOf DEF Contexts
    <3>3. MayAssist' = FALSE
      BY <2>1, NextShows DEF Shown
    <3>4. SA!Retain(ctx.snapR.session)
      BY <2>1, <3>1, <3>3 DEF SA!Retain
    <3> QED
      BY <3>2, <3>4 DEF SourceMoves, SA!SourceNext
  <2> QED
    BY <2>2, <2>3
<1>3. CASE ctx' = ctx
  BY <1>3, SameSession DEF AcceptedSession
<1> QED
  BY <1>2, <1>3 DEF ObserveLost

(* Brewfather or nobody, from a context that the lock keeps as it is, or   *)
(* that the verified stop has released.                                    *)
LEMMA OtherSourceMoves ==
  ASSUME Inv, Inv', NEW c \in Contexts, NEW due \in BOOLEAN, c.snapR = ctx.snapR,
         \/ c = ctx /\ (ctx.snapR = NoIdentity \/ Locked(ctx))
         \/ c.last # RCL /\ ~c.resync /\ ~c.fb,
         TrackerLive(c, due) \/ TrackerStale(c, due) \/ NoTracker(c, due)
  PROVE  SourceMoves
<1>0. manual \in {"idle", "running", "paused"} /\ ctx \in Contexts
  BY DEF Inv, TypeOK
<1>1. /\ ctx' \in Contexts /\ ctx'.snapR = c.snapR
      /\ \/ ctx'.last = c.last /\ (ctx'.resync = c.resync \/ (ctx'.resync /\ c.fb))
         \/ ctx'.last = BF /\ ctx'.resync = c.resync /\ ~Locked(c)
  <2>1. CASE ctx' = c
    BY <2>1
  <2>2. CASE FallBack(c, BF, due)
    <3>1. /\ ctx' \in Contexts /\ ctx'.last = BF /\ ctx'.snapR = c.snapR
          /\ ctx'.resync = c.resync /\ HasSnapshot(c, BF)
      BY <1>0, <2>2, FallBackFields
    <3> QED
      BY <3>1 DEF HasSnapshot, Locked, RCL, BF
  <2>3. CASE ctx' = Decorated(c)
    BY <2>3, DecoratedFields
  <2>4. CASE ctx' = Blocked(c, BF) /\ c.fb
    BY <2>4, BlockedFields
  <2>5. CASE ctx' = Remember(c, BF, NoIdentity) /\ ~c.resync
    <3>1. ctx' \in Contexts /\ ctx'.last = BF /\ ~ctx'.resync /\ ctx'.snapR = c.snapR
      BY <2>5, RememberFields DEF BF, RCL
    <3> QED
      BY <2>5, <3>1 DEF Locked, Contexts
  <2> QED
    BY <2>1, <2>2, <2>3, <2>4, <2>5 DEF TrackerLive, TrackerStale, NoTracker
<1>2. CASE c.last # RCL /\ ~c.resync /\ ~c.fb
  <2>1. ctx'.last # RCL /\ ctx'.resync = FALSE
    BY <1>1, <1>2 DEF BF, RCL, Contexts
  <2> QED
    BY <2>1, Releases DEF AcceptedSession
<1>3. CASE c = ctx /\ Locked(ctx)
  <2>1. ctx'.last = ctx.last /\ ctx'.resync = ctx.resync
    BY <1>0, <1>1, <1>3 DEF Locked, Contexts
  <2> QED
    BY <1>1, <1>3, <2>1, SameSession DEF AcceptedSession
<1>4. CASE c = ctx /\ ctx.snapR = NoIdentity
  <2>1. AcceptedSession = NoSession /\ AcceptedSession' = NoSession
    BY <1>1, <1>4 DEF AcceptedSession, NoIdentity
  <2>2. CASE ctx'.resync
    <3>1. ctx'.resync = TRUE
      BY <1>1, <2>2 DEF Contexts
    <3> QED
      BY <2>1, <3>1, Blocks
  <2>3. CASE ~ctx'.resync
    <3>1. ctx'.resync = FALSE
      BY <1>1, <2>3 DEF Contexts
    <3> QED
      BY <2>1, <3>1, Releases
  <2> QED
    BY <2>2, <2>3
<1> QED
  BY <1>2, <1>3, <1>4

LEMMA WithoutRaptMoves ==
  ASSUME Inv, Inv', ObserveWithoutRapt
  PROVE  SourceMoves
<1>1. Reads /\ ctx \in Contexts /\ pending \in BOOLEAN
  BY DEF ObserveWithoutRapt, Inv, TypeOK
<1>2. ~rcl'.wasActive /\ ~rcl'.stopGuard
  BY <1>1, ClassMeans, ReadsInv DEF ObserveWithoutRapt
<1>3. ctx.snapR = NoIdentity \/ Locked(ctx)
  BY <1>1, <1>2, ReadsInv DEF Inv, UnseenIsLocked, Locked
<1> QED
  BY <1>1, <1>3, OtherSourceMoves DEF ObserveWithoutRapt

LEMMA StoppedMoves ==
  ASSUME Inv, Inv', ObserveStopped
  PROVE  SourceMoves
<1> DEFINE released == Ended(ctx, RCL)
<1>1. ctx \in Contexts
  BY DEF Inv, TypeOK
<1>2. /\ released \in Contexts /\ ~released.fb /\ released.snapR = ctx.snapR
      /\ released.last # RCL /\ ~released.resync
  BY <1>1, EndedFields
<1>3. TrackerLive(released, TRUE) \/ TrackerStale(released, TRUE) \/ NoTracker(released, TRUE)
  BY DEF ObserveStopped
<1> HIDE DEF released
<1> QED
  BY <1>2, <1>3, OtherSourceMoves

LEMMA AcknowledgeMoves ==
  ASSUME Inv, Inv', AcknowledgeRapt \/ AcknowledgeBrewfather
  PROVE  SourceMoves
<1>0. ctx \in Contexts /\ ctx' \in Contexts
  BY DEF Inv, TypeOK
<1>1. CASE AcknowledgeRapt
  <2>1. ctx' = Remember(ctx, RCL, prof.id) /\ prof.id \in Identities /\ ctx.resync
    BY <1>1 DEF AcknowledgeRapt, Inv, ProfileOK
  <2>2. ctx'.last = RCL /\ ctx'.resync = FALSE /\ ctx'.snapR = prof.id
    BY <1>0, <2>1, RememberFields DEF Contexts
  <2>3. AcceptedSession' = prof.id.session /\ prof.id.session \in Sessions
    BY <2>1, <2>2 DEF AcceptedSession, Identities
  <2>4. SA!Acknowledge(prof.id.session)
    BY <2>1, <2>2, <2>3, NextShows DEF Shown, SA!Acknowledge
  <2> QED
    BY <2>3, <2>4 DEF SourceMoves, SA!SourceNext
<1>2. CASE AcknowledgeBrewfather
  <2>1. ctx' = Remember(ctx, BF, NoIdentity)
    BY <1>2 DEF AcknowledgeBrewfather
  <2>2. ctx'.last = BF /\ ctx'.resync = FALSE
    BY <1>0, <2>1, RememberFields DEF Contexts
  <2> QED
    BY <2>2, Releases DEF AcceptedSession, BF, RCL
<1> QED
  BY <1>1, <1>2

LEMMA RestartMoves ==
  ASSUME Inv, Inv', Restart
  PROVE  SourceMoves
<1>1. ctx' \in Contexts /\ ctx' = Restored
  BY DEF Inv, TypeOK, Restart
<1>2. CASE ctx'.resync
  <2>1. MayAssist' = FALSE /\ AcceptedSession' \in Sessions \cup {NoSession}
    BY <1>2, NextShows DEF Shown
  <2>2. ctx'.resync = TRUE
    BY <1>1, <1>2 DEF Contexts
  <2> QED
    BY <2>1, <2>2 DEF SourceMoves, SA!SourceRestart
<1>3. CASE ~ctx'.resync
  <2>1. Restored = EmptyContext
    BY <1>1, <1>3 DEF Restored, EmptyContext
  <2>2. AcceptedSession' = NoSession /\ ctx'.resync = FALSE
    BY <1>1, <2>1 DEF AcceptedSession, EmptyContext, NoMode, RCL
  <2> QED
    BY <2>2, Releases
<1> QED
  BY <1>2, <1>3

LEMMA NextMoves == Inv /\ Inv' /\ [Next]_vars => SourceMoves
<1> SUFFICES ASSUME Inv, Inv', [Next]_vars PROVE SourceMoves
  OBVIOUS
<1>1. CASE UNCHANGED ctx
  BY <1>1, SameSession DEF AcceptedSession
<1>2. CASE ~UNCHANGED ctx
  BY <1>2, AcceptedMoves, BlockedMoves, LostMoves, WithoutRaptMoves, StoppedMoves,
     AcknowledgeMoves, RestartMoves
  DEF Next, vars, ProfileRuns, ProfileStops, ProfileFades, ProfileBecomes, TrackerMoves,
      ManualChanges, SaveContext
<1> QED
  BY <1>1, <1>2

(* One session at a time is followed; it is replaced only after a verified *)
(* stop or by the operator's acknowledgement, and never granted under the  *)
(* lock: every build, stop, loss, restart and acknowledgement of the       *)
(* machinery is a step of the abstract source, or none.                    *)
THEOREM ArbiterImplemented == Spec => ImplementsSourceArbiter
<1>1. Init => SA!SourceInit
  <2> SUFFICES ASSUME Init PROVE SA!SourceInit
    OBVIOUS
  <2>1. ctx = EmptyContext /\ prof.state = "gone"
    BY DEF Init
  <2> QED
    BY <2>1 DEF SA!SourceInit, AcceptedSession, MayAssist, EmptyContext, NoMode, RCL
<1>2. Inv /\ Inv' /\ [Next]_vars => [SA!SourceNext \/ SA!SourceRestart]_SA!sourceVars
  BY NextMoves DEF SourceMoves, SA!sourceVars
<1> QED
  BY <1>1, <1>2, Invariance, PTL DEF Spec, ImplementsSourceArbiter, SA!SourceSpec
=============================================================================
