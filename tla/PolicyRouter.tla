---------------------------- MODULE PolicyRouter ----------------------------
(***************************************************************************)
(* Where the policy of a section sends an intent: nowhere, to the slot for *)
(* the operator's CONFIRM, or to the device. The policies and the unlocks  *)
(* are entities that are read when the intent is made, never later.        *)
(***************************************************************************)
EXTENDS Naturals

Policies == {"read_only", "confirm", "direct"}

Rank(policy) == CASE policy = "read_only" -> 0
                  [] policy = "confirm"   -> 1
                  [] policy = "direct"    -> 2

(* An intent fed by a Brew Tracker is under the stricter of the section's  *)
(* policy and the feed's; "none" when there is no feed.                    *)
Effective(section, feed) ==
    IF feed # "none" /\ Rank(feed) < Rank(section) THEN feed ELSE section

(* request_action: what becomes of the intent.                             *)
Route(section, unlocked, feed, feedUnlocked) ==
    LET policy == Effective(section, feed)
    IN CASE policy = "read_only"                      -> "advised"
         [] policy = "confirm"                        -> "pending"
         [] ~unlocked                                 -> "locked"
         [] feed = "direct" /\ ~feedUnlocked          -> "locked"
         [] OTHER                                     -> "executed"

(* The kegerator's sections have no feed.                                  *)
Routed(section, unlocked) == Route(section, unlocked, "none", FALSE)
=============================================================================
