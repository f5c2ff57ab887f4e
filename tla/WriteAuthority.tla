--------------------------- MODULE WriteAuthority ---------------------------
(***************************************************************************)
(* The promise BA makes about its own hands on the BrewZilla, as an        *)
(* operator would state it: BA may heat or pump only under a permit that   *)
(* START gave, ABORT puts a lock above every permit, and the lock only     *)
(* comes off when no permit is left, so that nothing resumes by itself.    *)
(***************************************************************************)
VARIABLES
    permit,     \* READ-ONLY has been released by a START transaction
    locked,     \* the persisted ABORT lock
    wrote       \* this step sent a positive command to the BrewZilla

authorityVars == <<permit, locked, wrote>>

Init ==
    /\ permit = FALSE
    /\ locked = FALSE
    /\ wrote = FALSE

Grant ==
    /\ ~locked
    /\ permit' = TRUE
    /\ wrote' = FALSE
    /\ UNCHANGED locked

Revoke ==
    /\ permit' = FALSE
    /\ wrote' = FALSE
    /\ UNCHANGED locked

Lock ==
    /\ locked' = TRUE
    /\ wrote' = FALSE
    /\ UNCHANGED permit

Unlock ==
    /\ ~permit
    /\ locked' = FALSE
    /\ wrote' = FALSE
    /\ UNCHANGED permit

Write ==
    /\ permit
    /\ ~locked
    /\ wrote' = TRUE
    /\ UNCHANGED <<permit, locked>>

Quiet ==
    /\ wrote' = FALSE
    /\ UNCHANGED <<permit, locked>>

(***************************************************************************)
(* A restart forgets the permit, never the other way round; the lock comes *)
(* back as it was last stored.                                             *)
(***************************************************************************)
Restart ==
    /\ permit' = FALSE
    /\ locked' \in BOOLEAN
    /\ wrote' = FALSE

Next == Grant \/ Revoke \/ Lock \/ Unlock \/ Write \/ Quiet \/ Restart

Spec == Init /\ [][Next]_authorityVars
=============================================================================
