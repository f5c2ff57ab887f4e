---------------------------- MODULE SourceArbiter ----------------------------
(***************************************************************************)
(* What BrewAssistant promises about the external owner of a brew, without *)
(* the machinery that decides it (module RaptSource has the machinery).    *)
(*                                                                         *)
(* One RAPT session at a time is the accepted owner of the recipe.  While  *)
(* its evidence is live, the source grants BA the right to write; a change *)
(* of session that no verified STOP explains raises the resync lock, which *)
(* only the operator's acknowledgement or a verified STOP takes away.      *)
(***************************************************************************)

CONSTANTS
    Sessions,        \* RAPT profile session identifiers
    NoSession        \* no session at all

ASSUME SessionAssumption == NoSession \notin Sessions

VARIABLES
    accepted,        \* session whose recipe BA follows (last external snapshot)
    granted,         \* would the source authority let BA write right now
    resync           \* the sticky reconnection lock

sourceVars == <<accepted, granted, resync>>

SourceTypeOK ==
    /\ accepted \in Sessions \cup {NoSession}
    /\ granted \in BOOLEAN
    /\ resync \in BOOLEAN

SourceInit ==
    /\ accepted = NoSession
    /\ granted = FALSE
    /\ resync = FALSE

(***************************************************************************)
(* The first snapshot of a session, when no other session is retained.     *)
(***************************************************************************)
Accept(s) ==
    /\ accepted = NoSession
    /\ ~resync
    /\ accepted' = s
    /\ granted' \in BOOLEAN
    /\ UNCHANGED resync

(***************************************************************************)
(* Evidence goes away: link loss, an old report, an incomplete contract.   *)
(***************************************************************************)
Lose ==
    /\ granted
    /\ granted' = FALSE
    /\ UNCHANGED <<accepted, resync>>

(***************************************************************************)
(* Evidence of the same session comes back.                                *)
(***************************************************************************)
Regain ==
    /\ accepted # NoSession
    /\ ~resync
    /\ granted' = TRUE
    /\ UNCHANGED <<accepted, resync>>

(***************************************************************************)
(* Source loss retains a recipe that had already been released.            *)
(***************************************************************************)
Retain(s) ==
    /\ accepted = NoSession
    /\ accepted' = s
    /\ granted' = FALSE
    /\ UNCHANGED resync

(***************************************************************************)
(* Another session, or another step after an outage: lock.                 *)
(***************************************************************************)
Block ==
    /\ resync' = TRUE
    /\ granted' = FALSE
    /\ UNCHANGED accepted

(***************************************************************************)
(* The operator reconciles BA with the session that runs now.              *)
(***************************************************************************)
Acknowledge(s) ==
    /\ resync
    /\ resync' = FALSE
    /\ accepted' = s
    /\ granted' \in BOOLEAN

(***************************************************************************)
(* A verified STOP releases the recipe and any lock.                       *)
(***************************************************************************)
End ==
    /\ accepted' = NoSession
    /\ granted' = FALSE
    /\ resync' = FALSE

(***************************************************************************)
(* Home Assistant restarts: a recipe found on disk comes back locked; a     *)
(* lock may also come back for the other external owner, Brewfather.       *)
(***************************************************************************)
SourceRestart ==
    /\ granted' = FALSE
    /\ resync' \in BOOLEAN
    /\ accepted' \in IF resync' THEN Sessions \cup {NoSession} ELSE {NoSession}

SourceNext ==
    \/ \E s \in Sessions : Accept(s) \/ Retain(s) \/ Acknowledge(s)
    \/ Lose
    \/ Regain
    \/ Block
    \/ End

SourceSpec == SourceInit /\ [][SourceNext \/ SourceRestart]_sourceVars
=============================================================================
