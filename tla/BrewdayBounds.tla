---------------------------- MODULE BrewdayBounds ----------------------------
(***************************************************************************)
(* The constants of the BrewTracker's snapshots, of the steps that RAPT    *)
(* runs and of the Manual engine, which one run checks side by side.       *)
(***************************************************************************)
EXTENDS Naturals, Sequences

CONSTANTS
    None,
    \* BrewTracker
    Recipe,     \* stages; a stage is a sequence of steps with their time left at the start
    Batches,    \* the batches, which have different identities
    Interval,   \* ticks between two refreshes, in a step that does not end soon
    BurstMax,   \* refreshes in a row that an awaited snapshot is worth
    Window,     \* ticks they are counted together
    Cooldown,   \* ticks between two refreshes by the operator
    MaxAge,     \* bound: ages are counted up to here
    \* RaptSteps
    MaxSessions, \* bound: RAPT sessions
    Agreeing,    \* the sessions whose sparge has BA's preboil target
    MaxFaults,   \* bound: lost links, ABORTs, restarts, hands on the outputs
    \* ManualBrewday
    Plans,      \* "default" and "retained": stages of steps [dur, waits]
    Jumps,      \* the stages that the operator's jumps look for
    LongTime    \* bound: no step is longer

ASSUME TrackerAssumption ==
    /\ Batches \subseteq Nat \ {0}
    /\ {Interval, BurstMax, Window, Cooldown, MaxAge} \subseteq Nat \ {0}
    /\ Recipe \in Seq(Seq([at : Nat, ramp : BOOLEAN, waits : BOOLEAN]) \ {<<>>}) \ {<<>>}
    /\ \A s \in DOMAIN Recipe : Recipe[s][1].at > 0

ASSUME StepsAssumption ==
    /\ MaxSessions \in Nat \ {0} /\ MaxFaults \in Nat
    /\ Agreeing \subseteq 1 .. MaxSessions /\ None \notin Nat

ASSUME PlanAssumption ==
    /\ LongTime \in Nat /\ Jumps \subseteq Nat \ {0}
    /\ Plans \in [{"default", "retained"} ->
                   Seq(Seq([dur : 0 .. LongTime, waits : BOOLEAN]) \ {<<>>}) \ {<<>>}]
=============================================================================
