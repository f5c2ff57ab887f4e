--------------------------- MODULE MashFlow_proofs ---------------------------
(***************************************************************************)
(* Proofs about MashFlow, for any recipe, any readings and any number of   *)
(* faults: the types, that the hold is released only after everything that *)
(* has to come before it, and that no write but Complete's own step down   *)
(* passes the hold or starts the pump without a press.                     *)
(*                                                                         *)
(* The inductive invariant says what has happened when the interlock is in *)
(* a phase or a press is under way (Order), what tells that a hold is over *)
(* (HoldInv), which presses meet which phases (PressInv), how fast the     *)
(* pump may run (PumpInv) and how high a pending write may go (CapInv).    *)
(* From the same invariant MashFlow implements the ladder of MashHold.     *)
(***************************************************************************)
EXTENDS MashFlow, WellFoundedInduction, TLAPS

Keys == (Sources \cup {None}) \X Targets
GateType == [state : {"idle", "ready", "started", "mash_in_complete"}, once : BOOLEAN,
             key : Keys \cup {None}, to : Targets \cup {None}]
LockType == [phase : Active \cup {None, "released"}, source : Sources \cup {None},
             key : Keys \cup {None}, hold : Targets \cup {None}, held : BOOLEAN,
             due : BOOLEAN]
StepType == [step : Steps \cup {None}, kind : {"ramp", "hold", None},
             to : Targets \cup {None}, started : BOOLEAN, paused : BOOLEAN,
             elapsed : BOOLEAN, done : BOOLEAN]
LedgerType == [active : StepType, held : SUBSET Targets]
Circling == {"recirculation_ready", "switch", "normal_ready"}
PressType == [pc : {"idle", "started", "complete", "lower"} \cup Circling,
              to : Targets \cup {None}]
PlanType == [to : Targets \cup {None}, pump : {"off", "low", "free", "keep", None}]

WorldTypes ==
    /\ source \in Sources \cup {None}
    /\ state \in {"idle", "running", "paused", "completed"}
    /\ step \in Steps /\ abort \in BOOLEAN /\ faults \in 0 .. MaxFaults
DeviceTypes == pump \in [on : BOOLEAN, pct : Pcts] /\ target \in Targets
TaskTypes ==
    /\ press \in PressType /\ plan \in PlanType
    /\ press.pc = "started" => press.to # None
    /\ plan # NoPlan => plan.to # None /\ plan.pump \in {"off", "keep"}

(* A hold was begun and not lost, or a press on its way assumes so.        *)
Begun(k, pc) == k.phase \in Waiting \cup Flowing \cup {"released"} \/ pc \in Circling

(* What has happened when the interlock is in a phase.                     *)
Order(k, pc, d) ==
    /\ k.phase = "settling" /\ k.due => "settling" \in d
    /\ Begun(k, pc) /\ ~(k.phase = "settling" /\ pc \notin Circling) => "settling" \in d
    /\ k.phase \in Flowing \cup {"released"} \/ pc \in Circling => "recirculation_ready" \in d
    /\ k.phase = "low_flow" /\ k.due => "low_flow" \in d
    /\ k.phase \in {"normal_ready", "normal_pending", "normal", "released"}
         \/ pc = "normal_ready" => "low_flow" \in d
    /\ k.phase \in {"normal_pending", "normal", "released"} \/ pc = "normal_ready"
         => "normal_ready" \in d

(* What tells that the hold of the interlock is over.                      *)
Tells(k, l) ==
    \/ k.held \/ k.phase = "released" \/ k.hold \in l.held
    \/ l.active.elapsed /\ l.active.to = k.hold

HoldInv(k, l, pc, d) == Begun(k, pc) => k.hold # None /\ (Tells(k, l) => "held" \in d)

DoneInv(l) ==
    /\ l.active.kind # None => l.active.to # None
    /\ l.active.kind = "hold" /\ l.active.done => l.active.elapsed

PressInv(g, k, pc) ==
    /\ pc \in {"recirculation_ready", "switch"} => k.phase \in {"recirculation_ready", "blocked"}
    /\ pc = "normal_ready" => k.phase \in {"normal_ready", "blocked"}
    /\ k.phase = "settling" /\ k.due => pc # "complete"
    /\ g.state = "started" => g.to # None /\ ~g.once /\ pc \notin Circling

PumpInv(k, pc, pct) ==
    /\ k.phase \in {"recirculation_ready", "low_flow_pending", "low_flow", "normal_ready"}
         => pct <= 1
    /\ k.phase = "settling" /\ pc # "complete" => pct <= 1
    /\ pc \in {"recirculation_ready", "switch"} => pct <= 1

(* How high the writes of a press p and of a plan w may go.                *)
CapInv(g, k, p, w) ==
    /\ w # NoPlan /\ g.state = "started" => w.to = g.to
    /\ k.source = Tracker =>
        /\ Holds(k) /\ g.state = "started" => g.to <= k.hold
        /\ Holds(k) /\ p.pc = "started" => p.to <= k.hold
        /\ w # NoPlan /\ (Holds(k) \/ p.pc \in Circling) => w.to <= k.hold

Sound(g, k, l, pc, pct, d) ==
    /\ g \in GateType /\ k \in LockType /\ l \in LedgerType
    /\ Order(k, pc, d) /\ HoldInv(k, l, pc, d) /\ DoneInv(l)
    /\ PressInv(g, k, pc) /\ PumpInv(k, pc, pct)

Inv ==
    /\ WorldTypes /\ DeviceTypes /\ TaskTypes
    /\ Sound(gate, lock, ledger, press.pc, pump.pct, deeds)
    /\ CapInv(gate, lock, press, plan)

-----------------------------------------------------------------------------
(* The recipe                                                              *)

LEMMA RecipeFacts ==
  /\ Steps \subseteq Nat \ {0} /\ 1 \in Steps
  /\ \A i \in Steps : /\ Recipe[i].kind \in {"ramp", "event", "hold", "boil"}
                      /\ Recipe[i].to \in Targets
  /\ Targets \subseteq Nat /\ Targets \subseteq Temps /\ None \notin Targets
<1> DEFINE Step == [kind : {"ramp", "event", "hold", "boil"}, to : Temps]
<1>1. Recipe \in Seq(Step) /\ Recipe # <<>>
  BY MashAssumption
<1>2. \A i \in Steps : Recipe[i] \in Step
  <2> HIDE DEF Step
  <2> QED
    BY <1>1 DEF Steps
<1>3. Len(Recipe) \in Nat /\ Len(Recipe) # 0 /\ Steps = 1 .. Len(Recipe)
  <2> HIDE DEF Step
  <2> QED
    BY <1>1 DEF Steps
<1>4. Steps \subseteq Nat \ {0} /\ 1 \in Steps
  BY <1>3
<1>5. \A i \in Steps : Recipe[i].to \in Temps /\ Recipe[i].to \in Targets
  BY <1>2 DEF Targets
<1> QED
  BY <1>2, <1>4, <1>5, MashAssumption DEF Targets

LEMMA EndOfRecipe ==
  ASSUME step \in Steps, step < Len(Recipe)
  PROVE  step + 1 \in Steps
<1>1. Len(Recipe) \in Nat /\ Steps = 1 .. Len(Recipe)
  BY MashAssumption DEF Steps
<1> QED
  BY <1>1

(* The strict order of the numbers, as a set of pairs.                     *)
Less == {pair \in Nat \X Nat : pair[1] < pair[2]}

LEMMA LeastNumber ==
  ASSUME NEW S, S \subseteq Nat, S # {}
  PROVE  \E m \in S : \A n \in S : m <= n
<1>1. IsWellFoundedOn(Less, Nat)
  BY NatLessThanWellFounded DEF OpToRel, Less
<1>2. PICK m \in S : \A n \in S : <<n, m>> \notin Less
  BY <1>1, WFMin
<1>3. \A n \in S : ~(n < m)
  BY <1>2 DEF Less
<1> QED
  BY <1>3

(* What is asked for, and the temperature that the grain goes in at.       *)
LEMMA RequestedType ==
  ASSUME WorldTypes, NEW k \in LockType
  PROVE  Requested(k) \in Targets
  BY RecipeFacts DEF Requested, HoldsTracker, Holds, LockType, WorldTypes

LEMMA MashTargetType ==
  ASSUME WorldTypes, NEW k \in LockType
  PROVE  MashTarget(k) \in Targets /\ MashTarget(k) <= Requested(k)
<1> DEFINE later == {i \in Steps : i > step /\ Recipe[i].kind = "hold"}
           next == IF later = {} THEN Requested(k)
                   ELSE Recipe[CHOOSE i \in later : \A j \in later : i <= j].to
<1>1. Requested(k) \in Targets /\ Requested(k) \in Nat
  BY RequestedType, RecipeFacts
<1>2. next \in Targets
  <2>1. CASE later = {}
    BY <1>1, <2>1
  <2>2. CASE later # {}
    <3>1. later \subseteq Nat /\ later \subseteq Steps
      BY RecipeFacts
    <3>2. \E i \in later : \A j \in later : i <= j
      <4> HIDE DEF later
      <4> QED
        BY <2>2, <3>1, LeastNumber
    <3>3. (CHOOSE i \in later : \A j \in later : i <= j) \in later
      <4> HIDE DEF later
      <4> QED
        BY <3>2
    <3>4. next = Recipe[CHOOSE i \in later : \A j \in later : i <= j].to
      BY <2>2
    <3> HIDE DEF later, next
    <3> QED
      BY <3>1, <3>3, <3>4, RecipeFacts
  <2> QED
    BY <2>1, <2>2
<1>3. MashTarget(k) = IF next <= Requested(k) THEN next ELSE Requested(k)
  BY DEF MashTarget
<1>4. next \in Nat
  BY <1>2, RecipeFacts
<1> HIDE DEF next
<1> QED
  BY <1>1, <1>2, <1>3, <1>4

-----------------------------------------------------------------------------
(* A look at the ledger                                                    *)

LEMMA AdvancedLook ==
  ASSUME NEW g \in GateType, NEW a \in StepType, NEW read \in Readings
  PROVE  /\ Advanced(g, a, read) \in StepType
         /\ Advanced(g, a, read).kind = a.kind /\ Advanced(g, a, read).to = a.to
         /\ Advanced(g, a, read).elapsed = a.elapsed
         /\ a.kind = "hold" /\ Advanced(g, a, read).done => a.done \/ a.elapsed
  BY ZenonT(60) DEF Advanced, StepType, GateType, Readings

(* A step that is new has not elapsed; a hold that is done, has.           *)
LEMMA LedgerLook ==
  ASSUME WorldTypes, NEW g \in GateType, NEW l \in LedgerType, NEW read \in Readings,
         DoneInv(l)
  PROVE  /\ Ledger(g, l, read) \in LedgerType /\ DoneInv(Ledger(g, l, read))
         /\ Ledger(g, l, read).active.elapsed =>
              l.active.elapsed /\ Ledger(g, l, read).active.to = l.active.to
         /\ Ledger(g, l, read).held \subseteq
              l.held \cup (IF l.active.elapsed THEN {l.active.to} ELSE {})
<1> DEFINE x == IF Takes(l.active) THEN NewStep ELSE l.active
           a == Advanced(g, x, read)
<1>1. NoStep \in StepType /\ ~NoStep.elapsed /\ NoStep.kind = None
  BY DEF NoStep, StepType
<1>2. Takes(l.active) =>
        /\ NewStep \in StepType /\ ~NewStep.elapsed /\ ~NewStep.done
        /\ NewStep.to \in Targets
  BY RecipeFacts DEF Takes, Timed, NewStep, NoStep, StepType, WorldTypes
<1>3. l.active \in StepType /\ l.held \subseteq Targets
  BY DEF LedgerType
<1>4. x \in StepType /\ (x.elapsed => x = l.active)
  BY <1>2, <1>3
<1>5. /\ a \in StepType /\ a.kind = x.kind /\ a.to = x.to /\ a.elapsed = x.elapsed
      /\ a.kind = "hold" /\ a.done => x.done \/ x.elapsed
  <2> HIDE DEF x
  <2> QED
    BY <1>4, AdvancedLook
<1>6. a.kind = "hold" /\ a.done => a.elapsed
  BY <1>2, <1>3, <1>5 DEF DoneInv
<1>7. a.kind = "hold" /\ a.done /\ ~l.active.done =>
        l.active.elapsed /\ a.to = l.active.to /\ a.to \in Targets
  <2> SUFFICES ASSUME a.kind = "hold", a.done, ~l.active.done
               PROVE  l.active.elapsed /\ a.to = l.active.to /\ a.to \in Targets
    OBVIOUS
  <2>1. a.elapsed /\ x = l.active
    BY <1>4, <1>5, <1>6
  <2>2. l.active.kind = "hold" /\ l.active.to # None
    BY <1>5, <2>1, NoneAssumption DEF DoneInv
  <2> QED
    BY <1>3, <1>5, <2>1, <2>2 DEF StepType
<1>8. CASE State = "idle"
  <2>1. Ledger(g, l, read) = NoLedger
    BY <1>8 DEF Ledger
  <2> QED
    BY <2>1, <1>1, NoneAssumption DEF NoLedger, LedgerType, DoneInv
<1>9. CASE State # "idle" /\ abort
  <2>1. Ledger(g, l, read) = [l EXCEPT !.active = NoStep]
    BY <1>9 DEF Ledger
  <2>2. Ledger(g, l, read) \in LedgerType /\ Ledger(g, l, read).active = NoStep
        /\ Ledger(g, l, read).held = l.held
    BY <2>1, <1>1 DEF LedgerType
  <2> QED
    BY <2>2, <1>1, NoneAssumption DEF DoneInv
<1>10. CASE State # "idle" /\ ~abort
  <2>1. Ledger(g, l, read) =
          [active |-> a, held |-> IF a.kind = "hold" /\ a.done /\ ~l.active.done
                                  THEN l.held \cup {a.to} ELSE l.held]
    BY <1>10 DEF Ledger
  <2>2. a.elapsed => l.active.elapsed /\ a.to = l.active.to
    BY <1>4, <1>5
  <2>3. a.kind # None => a.to # None
    BY <1>2, <1>3, <1>5, RecipeFacts DEF DoneInv
  <2> HIDE DEF a, x
  <2> QED
    BY <2>1, <2>2, <2>3, <1>3, <1>5, <1>6, <1>7 DEF LedgerType, DoneInv
<1> HIDE DEF a, x
<1> QED
  BY <1>8, <1>9, <1>10

-----------------------------------------------------------------------------
(* A look at the interlock                                                 *)

(* How a look may move the interlock from k to m.                          *)
Move(k, m) ==
    \/ m.phase = k.phase /\ m.due = k.due
    \/ m.phase = "blocked" /\ ~m.due
    \/ k.phase = None /\ m.phase = "recovery_required"
    \/ k.phase = "settling" /\ k.due /\ m.phase = "recirculation_ready" /\ ~m.due
    \/ k.phase = "low_flow_pending" /\ m.phase = "low_flow" /\ ~m.due
    \/ k.phase = "low_flow" /\ k.due /\ m.phase = "normal_ready" /\ ~m.due
    \/ k.phase = "normal_pending" /\ m.phase = "normal" /\ ~m.due
    \/ k.phase \in {"normal_pending", "normal"} /\ m.phase = "released" /\ m.held /\ ~m.due

LEMMA EnteredLook ==
  ASSUME NEW k \in LockType, NEW phase \in Active \cup {"released"}
  PROVE  /\ Entered(k, phase) \in LockType /\ Entered(k, phase).phase = phase
         /\ (phase = k.phase => Entered(k, phase).due = k.due)
         /\ (phase # k.phase => Entered(k, phase).due = FALSE)
         /\ Entered(k, phase).source = k.source /\ Entered(k, phase).hold = k.hold
         /\ Entered(k, phase).key = k.key /\ Entered(k, phase).held = k.held
  BY DEF Entered, LockType

LEMMA PhaseLook ==
  ASSUME NEW k \in LockType, NEW read \in Readings, k.phase \in Active
  PROVE  /\ Phase(k, read) \in Active
         /\ \/ Phase(k, read) = k.phase \/ Phase(k, read) = "blocked"
            \/ k.phase = "settling" /\ k.due /\ Phase(k, read) = "recirculation_ready"
            \/ k.phase = "low_flow_pending" /\ Phase(k, read) = "low_flow"
            \/ k.phase = "low_flow" /\ k.due /\ Phase(k, read) = "normal_ready"
            \/ k.phase = "normal_pending" /\ Phase(k, read) = "normal"
  BY DEF Phase, Active, Waiting, Flowing, Stuck

(* What a look finds of the hold's end is told by the ledger.              *)
LEMMA TickLook ==
  ASSUME NEW k \in LockType, NEW l \in LedgerType, NEW read \in Readings,
         NEW n, n = Tick(k, l, read)
  PROVE  /\ n \in LockType /\ n.hold = k.hold /\ n.source = k.source
         /\ Move(k, n) /\ (n.phase # "released" \/ n = k)
         /\ (k.phase = None => n.phase = None)
         /\ (n.held => k.held \/ HoldOver(k, l, read))
         /\ (Holds(n) => Source = n.source)
<1>1. CASE k.phase \notin Active
  <2>1. n = k
    BY <1>1 DEF Tick
  <2>2. ~Holds(k)
    BY <1>1 DEF Holds, Active
  <2> QED
    BY <2>1, <2>2 DEF Move
<1>2. CASE k.phase \in Active /\ (abort \/ Source # k.source)
  <2>1. n = Entered(k, "blocked")
    BY <1>2 DEF Tick
  <2>2. k.phase # None /\ "blocked" \in Active \cup {"released"}
    BY <1>2, NoneAssumption DEF Active, Stuck
  <2>3. /\ n \in LockType /\ n.phase = "blocked" /\ n.hold = k.hold /\ n.source = k.source
        /\ n.held = k.held /\ (k.phase = "blocked" => n.due = k.due)
        /\ (k.phase # "blocked" => n.due = FALSE)
    BY <2>1, <2>2 DEF Entered, LockType
  <2>4. Move(k, n)
    BY <2>3 DEF Move
  <2>5. ~Holds(n) /\ n.phase # "released"
    BY <2>3 DEF Holds, Waiting, Flowing
  <2> QED
    BY <2>2, <2>3, <2>4, <2>5
<1>3. CASE k.phase \in Active /\ ~abort /\ Source = k.source
  <2> DEFINE e == Entered(k, Phase(k, read))
             over == k.source = Tracker /\ ~(k.phase \in Pending /\ e.phase = "blocked")
                       /\ HoldOver(k, l, read)
  <2>1. n = [e EXCEPT !.held = @ \/ over]
    BY <1>3 DEF Tick
  <2>2. /\ e \in LockType /\ e.phase = Phase(k, read) /\ e.held = k.held
        /\ (Phase(k, read) = k.phase => e.due = k.due)
        /\ (Phase(k, read) # k.phase => e.due = FALSE)
        /\ e.source = k.source /\ e.hold = k.hold
    <3>1. Phase(k, read) \in Active \cup {"released"}
      BY <1>3, PhaseLook
    <3> QED
      BY <3>1, EnteredLook
  <2>3. over \in BOOLEAN /\ (over => HoldOver(k, l, read))
    OBVIOUS
  <2>4. /\ n \in LockType /\ n.phase = e.phase /\ n.due = e.due
        /\ n.source = e.source /\ n.hold = e.hold /\ n.held = (e.held \/ over)
    <3> HIDE DEF e, over
    <3> QED
      BY <2>1, <2>2, <2>3 DEF LockType
  <2> HIDE DEF e, over
  <2>5. Move(k, n)
    BY <1>3, <2>2, <2>4, PhaseLook DEF Move
  <2>6. n.phase \in Active /\ n.phase # None /\ n.phase # "released" /\ k.phase # None
    BY <1>3, <2>2, <2>4, PhaseLook, NoneAssumption DEF Active, Waiting, Flowing, Stuck
  <2> QED
    BY <1>3, <2>2, <2>3, <2>4, <2>5, <2>6
<1> QED
  BY <1>1, <1>2, <1>3

LEMMA LockLook ==
  ASSUME NEW g \in GateType, NEW k \in LockType, NEW l \in LedgerType,
         NEW read \in Readings, NEW m, m = Locked(g, k, l, read)
  PROVE  /\ m \in LockType /\ m.hold = k.hold
         /\ (m.phase # "recovery_required" => m.source = k.source)
         /\ Move(k, m)
         /\ (m.held => k.held \/ HoldOver(k, l, read))
         /\ (Holds(m) => Source = m.source)
<1> DEFINE n == Tick(k, l, read)
<1>1. /\ n \in LockType /\ n.hold = k.hold /\ n.source = k.source
      /\ Move(k, n) /\ (n.phase # "released" \/ n = k)
      /\ (k.phase = None => n.phase = None)
      /\ (n.held => k.held \/ HoldOver(k, l, read))
      /\ (Holds(n) => Source = n.source)
  BY TickLook
<1>2. m = IF LostAuthority(g, n)
          THEN [n EXCEPT !.phase = "recovery_required", !.source = Tracker]
          ELSE IF HoldsTracker(n) /\ n.phase = "normal" /\ n.held
               THEN Entered(n, "released") ELSE n
  BY DEF Locked
<1> HIDE DEF n
<1>3. CASE LostAuthority(g, n)
  <2>1. n.phase = None /\ ~n.held /\ ~n.due
    BY <1>3 DEF LostAuthority, NoLock
  <2>2. k.phase = None
    BY <1>1, <2>1, NoneAssumption DEF Move, Active, Waiting, Flowing, Stuck
  <2>3. /\ m \in LockType /\ m.phase = "recovery_required" /\ m.hold = n.hold
        /\ m.held = n.held
    BY ZenonT(60), <1>1, <1>2, <1>3, MashAssumption DEF LockType, Active, Stuck
  <2>4. Move(k, m)
    BY <2>2, <2>3 DEF Move
  <2>5. ~Holds(m)
    BY <2>3 DEF Holds, Waiting, Flowing
  <2> QED
    BY <1>1, <2>1, <2>3, <2>4, <2>5
<1>4. CASE ~LostAuthority(g, n) /\ HoldsTracker(n) /\ n.phase = "normal" /\ n.held
  <2>1. /\ m \in LockType /\ m.phase = "released" /\ ~m.due /\ m.hold = n.hold
        /\ m.source = n.source /\ m.held = n.held
    <3>1. m = Entered(n, "released") /\ "released" \in Active \cup {"released"}
      BY <1>2, <1>4
    <3>2. n \in LockType /\ n.phase # "released"
      BY <1>1, <1>4
    <3> QED
      BY <3>1, <3>2 DEF Entered, LockType
  <2>2. k.phase \in {"normal_pending", "normal"}
    BY <1>1, <1>4, NoneAssumption DEF Move, Active, Waiting, Flowing, Stuck
  <2>3. Move(k, m)
    BY <1>4, <2>1, <2>2 DEF Move
  <2>4. ~Holds(m)
    BY <2>1 DEF Holds, Waiting, Flowing
  <2> QED
    BY <1>1, <1>4, <2>1, <2>3, <2>4
<1>5. CASE ~LostAuthority(g, n) /\ ~(HoldsTracker(n) /\ n.phase = "normal" /\ n.held)
  <2>1. m = n
    BY <1>2, <1>5
  <2> QED
    BY <1>1, <2>1
<1> QED
  BY <1>3, <1>4, <1>5

(* What a look does to the interlock and the ledger keeps what is known.   *)
Known(g, k, l, pc, pct, d) ==
    /\ Order(k, pc, d) /\ HoldInv(k, l, pc, d) /\ PressInv(g, k, pc) /\ PumpInv(k, pc, pct)

(* How a look may move the ledger from l to n.                             *)
Timing(l, n) ==
    /\ n.active.elapsed => l.active.elapsed /\ n.active.to = l.active.to
    /\ n.held \subseteq l.held \cup (IF l.active.elapsed THEN {l.active.to} ELSE {})

LEMMA TellsLook ==
  ASSUME NEW k \in LockType, NEW m \in LockType, NEW l \in LedgerType, NEW n \in LedgerType,
         NEW read, DoneInv(n), Timing(l, n), Move(k, m), m.hold = k.hold,
         m.held => k.held \/ HoldOver(k, n, read), Tells(m, n)
  PROVE  Tells(k, l)
<1>1. HoldOver(k, n, read) => Tells(k, l)
  <2>1. n.active.kind = "hold" /\ n.active.to = k.hold /\ n.active.done =>
          l.active.elapsed /\ l.active.to = k.hold
    BY DEF DoneInv, Timing
  <2>2. k.hold \in n.held => k.hold \in l.held \/ (l.active.elapsed /\ l.active.to = k.hold)
    BY DEF Timing
  <2> QED
    BY <2>1, <2>2 DEF HoldOver, Tells
<1>2. m.held => Tells(k, l)
  BY <1>1 DEF Tells
<1>3. m.phase = "released" => k.phase = "released" \/ m.held
  BY DEF Move
<1>4. k.hold \in n.held \/ (n.active.elapsed /\ n.active.to = k.hold) => Tells(k, l)
  BY DEF Timing, Tells
<1> QED
  BY <1>2, <1>3, <1>4 DEF Tells

LEMMA MoveKeeps ==
  ASSUME NEW g, NEW k \in LockType, NEW m \in LockType, NEW l \in LedgerType,
         NEW n \in LedgerType, NEW pc, NEW pct, NEW d,
         Known(g, k, l, pc, pct, d), Move(k, m), m.hold = k.hold,
         Tells(m, n) => Tells(k, l)
  PROVE  Known(g, m, n, pc, pct, d)
<1> USE NoneAssumption DEF Active, Waiting, Flowing, Stuck
<1>1. Order(m, pc, d)
  <2>1. m.phase = "settling" /\ m.due => "settling" \in d
    BY DEF Known, Order, Move
  <2>2. Begun(m, pc) /\ ~(m.phase = "settling" /\ pc \notin Circling) => "settling" \in d
    BY DEF Known, Order, Begun, Move
  <2>3. m.phase \in Flowing \cup {"released"} \/ pc \in Circling
          => "recirculation_ready" \in d
    BY DEF Known, Order, Move
  <2>4. m.phase = "low_flow" /\ m.due => "low_flow" \in d
    BY DEF Known, Order, Move
  <2>5. m.phase \in {"normal_ready", "normal_pending", "normal", "released"}
          \/ pc = "normal_ready" => "low_flow" \in d
    BY DEF Known, Order, Move
  <2>6. m.phase \in {"normal_pending", "normal", "released"} \/ pc = "normal_ready"
          => "normal_ready" \in d
    BY DEF Known, Order, Move
  <2> QED
    BY <2>1, <2>2, <2>3, <2>4, <2>5, <2>6 DEF Order
<1>2. Begun(m, pc) => Begun(k, pc)
  BY DEF Begun, Move
<1>3. HoldInv(m, n, pc, d)
  BY <1>2 DEF Known, HoldInv
<1>4. PressInv(g, m, pc)
  BY DEF Known, PressInv, Move
<1>5. PumpInv(m, pc, pct)
  BY DEF Known, PumpInv, Move, PressInv
<1> QED
  BY <1>1, <1>3, <1>4, <1>5 DEF Known

-----------------------------------------------------------------------------
(* A look at everything                                                    *)

LEMMA GateLook ==
  ASSUME WorldTypes, NEW g \in GateType, NEW k \in LockType, NEW read \in Readings
  PROVE  /\ Gate(g, k, read) \in GateType
         /\ Gate(g, k, read) = g \/ (Gate(g, k, read).state \in {"idle", "ready"} /\
                                     Gate(g, k, read).to = None)
<1>1. Latched(k) \in GateType /\ Latched(k).state = "ready" /\ Latched(k).to = None
  BY RequestedType DEF Latched, NoGate, GateType, Keys, Source, WorldTypes
<1>2. NoGate \in GateType /\ NoGate.state = "idle" /\ NoGate.to = None
  BY DEF NoGate, GateType
<1> QED
  BY <1>1, <1>2 DEF Gate

LEMMA BuiltLook ==
  ASSUME Inv, NEW g \in GateType, g = gate \/ g = Completed(gate), NEW read \in Readings,
         NEW b, b = Built(g, read)
  PROVE  /\ b = [gate |-> b.gate, lock |-> b.lock, ledger |-> b.ledger]
         /\ b.gate \in GateType /\ b.lock \in LockType /\ b.ledger \in LedgerType
         /\ DoneInv(b.ledger) /\ Timing(ledger, b.ledger)
         /\ b.gate = g \/ (b.gate.state \in {"idle", "ready"} /\ b.gate.to = None)
         /\ Move(lock, b.lock) /\ b.lock.hold = lock.hold
         /\ (b.lock.phase # "recovery_required" => b.lock.source = lock.source)
         /\ (Holds(b.lock) => Source = b.lock.source)
         /\ Known(gate, b.lock, b.ledger, press.pc, pump.pct, deeds)
<1> DEFINE l == Ledger(g, ledger, read)
           k == Locked(g, lock, l, read)
<1>1. b = [gate |-> Gate(g, k, read), lock |-> k, ledger |-> l]
  BY DEF Built
<1>2. /\ gate \in GateType /\ lock \in LockType /\ ledger \in LedgerType
      /\ DoneInv(ledger) /\ WorldTypes /\ Known(gate, lock, ledger, press.pc, pump.pct, deeds)
  BY DEF Inv, Sound, Known
<1>3. l \in LedgerType /\ DoneInv(l) /\ Timing(ledger, l)
  BY <1>2, LedgerLook DEF Timing
<1> HIDE DEF l
<1>4. /\ k \in LockType /\ k.hold = lock.hold
      /\ (k.phase # "recovery_required" => k.source = lock.source)
      /\ Move(lock, k)
      /\ (k.held => lock.held \/ HoldOver(lock, l, read))
      /\ (Holds(k) => Source = k.source)
  BY <1>2, <1>3, LockLook
<1> HIDE DEF k
<1>5. Tells(k, l) => Tells(lock, ledger)
  BY <1>2, <1>3, <1>4, TellsLook
<1>6. Known(gate, k, l, press.pc, pump.pct, deeds)
  BY <1>2, <1>3, <1>4, <1>5, MoveKeeps
<1>7. /\ Gate(g, k, read) \in GateType
      /\ Gate(g, k, read) = g \/ (Gate(g, k, read).state \in {"idle", "ready"} /\
                                  Gate(g, k, read).to = None)
  BY <1>2, <1>4, GateLook
<1> QED
  BY <1>1, <1>3, <1>4, <1>6, <1>7

LEMMA CompletedType ==
  ASSUME NEW g \in GateType
  PROVE  /\ Completed(g) \in GateType /\ Completed(g).to = g.to
         /\ Completed(g).state = "mash_in_complete"
  BY DEF Completed, GateType

(* What holds, came from what held.                                        *)
LEMMA MoveHolds ==
  ASSUME NEW k \in LockType, NEW m \in LockType, Move(k, m), m.hold = k.hold, Holds(m)
  PROVE  Holds(k)
  BY NoneAssumption DEF Move, Holds, Active, Waiting, Flowing, Stuck

LEMMA LookSound ==
  ASSUME Inv, NEW read \in Readings, NEW b, b = Built(gate, read)
  PROVE  /\ Sound(b.gate, b.lock, b.ledger, press.pc, pump.pct, deeds)
         /\ CapInv(b.gate, b.lock, press, plan)
<1>1. /\ b.gate \in GateType /\ b.lock \in LockType /\ b.ledger \in LedgerType
      /\ DoneInv(b.ledger)
      /\ (b.gate = gate \/ b.gate.state \in {"idle", "ready"})
      /\ Move(lock, b.lock) /\ b.lock.hold = lock.hold
      /\ (b.lock.phase # "recovery_required" => b.lock.source = lock.source)
      /\ Known(gate, b.lock, b.ledger, press.pc, pump.pct, deeds)
  <2>1. gate \in GateType
    BY DEF Inv, Sound
  <2> QED
    BY <2>1, BuiltLook
<1>2. PressInv(b.gate, b.lock, press.pc)
  BY <1>1 DEF Known, PressInv
<1>3. Sound(b.gate, b.lock, b.ledger, press.pc, pump.pct, deeds)
  BY <1>1, <1>2 DEF Known, Sound
<1>4. lock \in LockType /\ CapInv(gate, lock, press, plan)
  BY DEF Inv, Sound
<1>5. Holds(b.lock) => Holds(lock) /\ b.lock.phase # "recovery_required"
  BY <1>1, <1>4, MoveHolds DEF Holds, Waiting, Flowing
<1>6. press.pc \in Circling => b.lock.phase # "recovery_required"
  BY <1>2 DEF PressInv, Circling
<1>7. CapInv(b.gate, b.lock, press, plan)
  BY <1>1, <1>4, <1>5, <1>6 DEF CapInv
<1> QED
  BY <1>3, <1>7

-----------------------------------------------------------------------------
(* The steps, one by one                                                   *)

KeepsToHold ==
    Holds(lock) /\ Holds(lock') =>
         /\ lock.source = Tracker /\ target' > target =>
              target' <= lock.hold \/ press.pc = "lower"
         /\ (~pump.on /\ pump'.on) \/ pump'.pct > pump.pct => Pressed

LEMMA SameDevice ==
  ASSUME DeviceTypes, UNCHANGED device
  PROVE  DeviceTypes' /\ KeepsToHold
<1>1. target \in Nat /\ pump.pct \in Nat /\ pump' = pump /\ target' = target
  BY RecipeFacts DEF DeviceTypes, device, Pcts
<1> QED
  BY <1>1 DEF DeviceTypes, KeepsToHold

LEMMA SameWorld ==
  ASSUME WorldTypes, UNCHANGED world
  PROVE  WorldTypes'
  BY DEF WorldTypes, world

LEMMA RefreshKeeps ==
  ASSUME Inv, Refresh
  PROVE  Inv' /\ KeepsToHold
<1>1. PICK read \in Readings : RefreshAt(read)
  BY DEF Refresh
<1> DEFINE b == Built(gate, read)
<1>2. Keep(b) /\ UNCHANGED <<world, device, seen, tasks, deeds>>
  BY <1>1 DEF RefreshAt
<1>3. /\ Sound(b.gate, b.lock, b.ledger, press.pc, pump.pct, deeds)
      /\ CapInv(b.gate, b.lock, press, plan)
  BY LookSound
<1> HIDE DEF b
<1>4. WorldTypes /\ DeviceTypes /\ TaskTypes
  BY DEF Inv
<1>5. WorldTypes' /\ DeviceTypes' /\ KeepsToHold
  BY <1>2, <1>4, SameDevice, SameWorld
<1>6. TaskTypes'
  BY <1>2, <1>4 DEF TaskTypes, tasks
<1>7. Sound(gate, lock, ledger, press.pc, pump.pct, deeds)'
  BY <1>2, <1>3 DEF Keep, tasks, device
<1>8. CapInv(gate, lock, press, plan)'
  BY <1>2, <1>3 DEF Keep, tasks
<1> QED
  BY <1>5, <1>6, <1>7, <1>8 DEF Inv

LEMMA OverrideKeeps ==
  ASSUME Inv, OverrideReady
  PROVE  Inv' /\ KeepsToHold
<1>1. PICK read \in Readings :
         /\ Keep([Built(gate, read) EXCEPT !.gate = Latched(Built(gate, read).lock)])
         /\ UNCHANGED <<world, device, seen, tasks, deeds>>
  BY DEF OverrideReady
<1> DEFINE b == Built(gate, read)
<1>2. /\ Sound(b.gate, b.lock, b.ledger, press.pc, pump.pct, deeds)
      /\ CapInv(b.gate, b.lock, press, plan)
  BY LookSound
<1>3. b = [gate |-> b.gate, lock |-> b.lock, ledger |-> b.ledger]
  BY DEF Built
<1>4. Keep([b EXCEPT !.gate = Latched(b.lock)])
  BY <1>1
<1> HIDE DEF b
<1>5. gate' = Latched(b.lock) /\ lock' = b.lock /\ ledger' = b.ledger
  BY <1>3, <1>4 DEF Keep
<1>6. WorldTypes /\ DeviceTypes /\ TaskTypes
  BY DEF Inv
<1>7. WorldTypes' /\ DeviceTypes' /\ KeepsToHold
  BY <1>1, <1>6, SameDevice, SameWorld
<1>8. TaskTypes'
  BY <1>1, <1>6 DEF TaskTypes, tasks
<1>9. gate' \in GateType /\ gate'.state = "ready"
  BY <1>2, <1>5, <1>6, RequestedType DEF Sound, Latched, NoGate, GateType, Keys, Source, WorldTypes
<1>10. Sound(gate, lock, ledger, press.pc, pump.pct, deeds)'
  <2>1. PressInv(gate', b.lock, press.pc)
    BY <1>2, <1>9 DEF Sound, PressInv
  <2>2. Sound(gate', b.lock, b.ledger, press.pc, pump.pct, deeds)
    BY <1>2, <1>9, <2>1 DEF Sound
  <2> QED
    BY <1>1, <1>5, <2>2 DEF tasks, device
<1>11. CapInv(gate, lock, press, plan)'
  <2>1. CapInv(gate', b.lock, press, plan)
    BY <1>2, <1>9 DEF CapInv
  <2> QED
    BY <1>1, <1>5, <2>1 DEF tasks
<1> QED
  BY <1>7, <1>8, <1>10, <1>11 DEF Inv

LEMMA MarkStartedKeeps ==
  ASSUME Inv, MarkStarted
  PROVE  Inv' /\ KeepsToHold
<1>1. PICK read \in Readings :
        LET b == Built(gate, read) IN
        /\ press = NoPress /\ plan = NoPlan
        /\ Keep([b EXCEPT !.gate.state = "started", !.gate.once = FALSE,
                          !.gate.to = MashTarget(b.lock)])
        /\ press' = [pc |-> "started", to |-> MashTarget(b.lock)]
        /\ UNCHANGED <<world, device, seen, plan, deeds>>
  BY DEF MarkStarted, ShortCalls
<1> DEFINE b == Built(gate, read)
           to == MashTarget(b.lock)
<1>2. /\ Sound(b.gate, b.lock, b.ledger, press.pc, pump.pct, deeds)
      /\ CapInv(b.gate, b.lock, press, plan)
  BY LookSound
<1>3. b = [gate |-> b.gate, lock |-> b.lock, ledger |-> b.ledger]
  BY DEF Built
<1>4. /\ Keep([b EXCEPT !.gate.state = "started", !.gate.once = FALSE, !.gate.to = to])
      /\ press' = [pc |-> "started", to |-> to]
  BY <1>1
<1>5. WorldTypes /\ DeviceTypes /\ TaskTypes
  BY DEF Inv
<1>6. gate \in GateType
  BY DEF Inv, Sound
<1>7. Holds(b.lock) => Source = b.lock.source
  BY <1>6, BuiltLook
<1> HIDE DEF b
<1>8. b.gate \in GateType /\ b.lock \in LockType
  BY <1>2 DEF Sound
<1>9. to \in Targets /\ to <= Requested(b.lock) /\ to # None
  BY <1>5, <1>8, MashTargetType, RecipeFacts
<1> HIDE DEF to
<1>10. /\ gate' = [b.gate EXCEPT !.state = "started", !.once = FALSE, !.to = to]
       /\ lock' = b.lock /\ ledger' = b.ledger
  BY <1>3, <1>4 DEF Keep
<1>11. gate' \in GateType /\ gate'.state = "started" /\ ~gate'.once /\ gate'.to = to
  BY <1>8, <1>9, <1>10 DEF GateType
<1>12. WorldTypes' /\ DeviceTypes' /\ KeepsToHold
  BY <1>1, <1>5, SameDevice, SameWorld
<1>13. TaskTypes'
  BY <1>1, <1>4, <1>5, <1>9 DEF TaskTypes, PressType
<1>14. press.pc = "idle" /\ press'.pc = "started"
  BY <1>1, <1>4 DEF NoPress
<1>15. Sound(gate, lock, ledger, press.pc, pump.pct, deeds)'
  <2>1. Order(b.lock, "started", deeds) /\ HoldInv(b.lock, b.ledger, "started", deeds)
    BY <1>2, <1>14 DEF Sound, Order, HoldInv, Begun, Circling
  <2>2. PressInv(gate', b.lock, "started") /\ PumpInv(b.lock, "started", pump.pct)
    BY <1>2, <1>9, <1>11, <1>14 DEF Sound, PressInv, PumpInv, Circling
  <2>3. Sound(gate', b.lock, b.ledger, "started", pump.pct, deeds)
    BY <1>2, <1>11, <2>1, <2>2 DEF Sound
  <2> QED
    BY <1>1, <1>10, <1>14, <2>3 DEF device
<1>16. b.lock.source = Tracker /\ Holds(b.lock) => to <= b.lock.hold
  BY <1>7, <1>9 DEF Requested, HoldsTracker
<1>17. CapInv(gate, lock, press, plan)'
  <2>1. CapInv(gate', b.lock, press', plan)
    BY <1>1, <1>4, <1>11, <1>16 DEF CapInv
  <2> QED
    BY <1>1, <1>10, <2>1
<1> QED
  BY <1>12, <1>13, <1>15, <1>17 DEF Inv

LEMMA StartedWritesKeep ==
  ASSUME Inv, StartedWrites
  PROVE  Inv' /\ KeepsToHold
<1> USE DEF Inv
<1>1. /\ press.pc = "started" /\ pump' = [on |-> FALSE, pct |-> 0]
      /\ target' \in {target, press.to} /\ press' = NoPress
      /\ UNCHANGED <<world, memory, seen, plan, deeds>>
  BY DEF StartedWrites, SetPump, MayWrite
<1>2. press.to \in Targets /\ target \in Targets /\ target \in Nat /\ pump.pct \in Nat
  BY <1>1, RecipeFacts DEF TaskTypes, PressType, DeviceTypes, Pcts
<1>3. WorldTypes' /\ DeviceTypes' /\ TaskTypes'
  <2>1. press' \in PressType /\ press'.pc = "idle"
    BY <1>1 DEF NoPress, PressType
  <2> QED
    BY <1>1, <1>2, <2>1, SameWorld DEF DeviceTypes, TaskTypes, Pcts
<1>4. Sound(gate, lock, ledger, press.pc, pump.pct, deeds)'
  <2>1. Sound(gate, lock, ledger, "idle", 0, deeds)
    BY <1>1 DEF Sound, Order, HoldInv, Begun, PressInv, PumpInv, Circling
  <2>2. press'.pc = "idle" /\ pump'.pct = 0
    BY <1>1 DEF NoPress
  <2> QED
    BY <1>1, <2>1, <2>2 DEF memory
<1>5. CapInv(gate, lock, press, plan)'
  BY <1>1 DEF CapInv, memory, NoPress, Circling
<1>6. KeepsToHold
  BY <1>1, <1>2 DEF KeepsToHold, CapInv, Sound
<1> QED
  BY <1>3, <1>4, <1>5, <1>6

(* Both ways to Complete.                                                  *)
LEMMA SettleKeeps ==
  ASSUME Inv, NEW b, NEW requested \in Targets, NEW fresh, Settle(b, requested, fresh),
         press = NoPress, UNCHANGED <<world, device, plan>>,
         b.gate \in GateType, b.lock \in LockType, b.ledger \in LedgerType,
         DoneInv(b.ledger), Timing(ledger, b.ledger), b.gate.state # "started",
         plan # NoPlan /\ b.gate.to # None => plan.to = b.gate.to
  PROVE  Inv' /\ KeepsToHold
<1> DEFINE safe == SafeContext(fresh) /\ b.gate.to # None
           d == IF ledger.active.elapsed /\ ledger.active.to = b.gate.to
                THEN {"held"} ELSE {}
           to == IF SafeContext(fresh) /\ requested < target THEN requested ELSE None
<1>1. /\ gate' = b.gate
      /\ lock' = (IF safe THEN [NoLock EXCEPT !.phase = "settling", !.source = Source,
                                              !.key = b.gate.key, !.hold = b.gate.to]
                  ELSE Entered(b.lock, "blocked"))
      /\ ledger' = (IF safe THEN [b.ledger EXCEPT !.held = {}] ELSE b.ledger)
      /\ press' = [pc |-> IF safe THEN "complete" ELSE "lower", to |-> to]
      /\ deeds' = d
  BY DEF Settle
<1>2. to \in Targets \cup {None}
  OBVIOUS
<1>3. d \subseteq {"held"}
  OBVIOUS
<1>4. ledger.active.elapsed /\ ledger.active.to = b.gate.to => "held" \in d
  OBVIOUS
<1> HIDE DEF to, d, safe
<1>5. WorldTypes /\ DeviceTypes /\ TaskTypes
  BY DEF Inv
<1>6. WorldTypes' /\ DeviceTypes' /\ KeepsToHold
  BY <1>5, SameWorld, SameDevice
<1>7. TaskTypes'
  BY <1>1, <1>2, <1>5 DEF TaskTypes, PressType
<1>8. CASE safe
  <2>1. /\ lock'.phase = "settling" /\ lock'.source = Source /\ lock'.hold = b.gate.to
        /\ lock'.held = FALSE /\ lock'.due = FALSE /\ b.gate.to # None
        /\ press'.pc = "complete"
    BY <1>1, <1>8 DEF NoLock, safe
  <2>2. lock' \in LockType
    <3>1. Source \in Sources \cup {None} /\ b.gate.key \in Keys \cup {None}
          /\ b.gate.to \in Targets \cup {None}
      BY <1>5 DEF Source, WorldTypes, GateType
    <3> QED
      BY <1>1, <1>8, <3>1 DEF LockType, NoLock, Active, Waiting
  <2>3. /\ ledger' \in LedgerType /\ ledger'.held = {} /\ ledger'.active = b.ledger.active
    BY <1>1, <1>8 DEF LedgerType
  <2>4. DoneInv(ledger')
    BY <2>3 DEF DoneInv
  <2>5. Tells(lock', ledger') => "held" \in d
    BY <2>1, <2>3, <1>4 DEF Tells, Timing
  <2>6. Sound(gate', lock', ledger', "complete", pump'.pct, d)
    BY <1>1, <2>1, <2>2, <2>3, <2>4, <2>5
       DEF Sound, Order, HoldInv, Begun, PressInv, PumpInv, Waiting, Flowing, Circling
  <2>7. Sound(gate, lock, ledger, press.pc, pump.pct, deeds)'
    BY <1>1, <2>1, <2>6
  <2>8. plan' = plan /\ (plan # NoPlan => plan.to = b.gate.to /\ plan.to \in Nat)
    BY <1>5, <2>1, RecipeFacts DEF TaskTypes, PlanType
  <2>9. CapInv(gate, lock, press, plan)'
    BY <1>1, <2>1, <2>8 DEF CapInv, Circling
  <2> QED
    BY <1>6, <1>7, <2>7, <2>9 DEF Inv
<1>9. CASE ~safe
  <2>1. lock' = Entered(b.lock, "blocked") /\ ledger' = b.ledger /\ press'.pc = "lower"
    BY <1>1, <1>9
  <2>2. lock' \in LockType /\ lock'.phase = "blocked"
    BY <2>1 DEF Entered, LockType, Active, Stuck
  <2>3. Sound(gate', lock', ledger', "lower", pump'.pct, d)
    BY <1>1, <2>1, <2>2
       DEF Sound, Order, HoldInv, Begun, PressInv, PumpInv, Waiting, Flowing, Circling
  <2>4. Sound(gate, lock, ledger, press.pc, pump.pct, deeds)'
    BY <1>1, <2>1, <2>3
  <2>5. CapInv(gate, lock, press, plan)'
    BY <1>1, <2>1, <2>2 DEF CapInv, Circling, Holds, Waiting, Flowing
  <2> QED
    BY <1>6, <1>7, <2>4, <2>5 DEF Inv
<1> QED
  BY <1>8, <1>9

LEMMA ConfirmKeeps ==
  ASSUME Inv, ConfirmComplete
  PROVE  Inv' /\ KeepsToHold
<1>1. PICK read \in Readings :
        LET b == Built(Completed(gate), read) IN
        /\ gate.state = "started" /\ press = NoPress
        /\ Settle(b, Clamped(b.lock, Requested(b.lock)), read.fresh)
        /\ UNCHANGED <<world, device, seen, plan>>
  BY DEF ConfirmComplete
<1> DEFINE b == Built(Completed(gate), read)
           requested == Clamped(b.lock, Requested(b.lock))
<1>2. Settle(b, requested, read.fresh)
  BY <1>1
<1>3. gate \in GateType /\ CapInv(gate, lock, press, plan) /\ WorldTypes
  BY DEF Inv, Sound
<1>4. Completed(gate) \in GateType /\ Completed(gate).to = gate.to
      /\ Completed(gate).state = "mash_in_complete"
  BY <1>3, CompletedType
<1>5. /\ b.gate \in GateType /\ b.lock \in LockType /\ b.ledger \in LedgerType
      /\ DoneInv(b.ledger) /\ Timing(ledger, b.ledger)
      /\ b.gate = Completed(gate) \/ (b.gate.state \in {"idle", "ready"} /\ b.gate.to = None)
  BY <1>4, BuiltLook
<1> HIDE DEF b
<1>6. requested \in Targets
  <2>1. Requested(b.lock) \in Targets
    BY <1>3, <1>5, RequestedType
  <2> QED
    BY <1>5, <2>1 DEF Clamped, Holds, LockType
<1> HIDE DEF requested
<1>7. b.gate.state # "started" /\ (plan # NoPlan /\ b.gate.to # None => plan.to = b.gate.to)
  BY <1>1, <1>3, <1>4, <1>5 DEF CapInv
<1> QED
  BY <1>1, <1>2, <1>5, <1>6, <1>7, SettleKeeps

LEMMA CompleteWritesKeep ==
  ASSUME Inv, CompleteWrites
  PROVE  Inv' /\ KeepsToHold
<1>1. UNCHANGED <<world, seen, plan, deeds>>
  BY DEF CompleteWrites
<1>2. WorldTypes /\ DeviceTypes /\ TaskTypes
  BY DEF Inv
<1>3. /\ Sound(gate, lock, ledger, press.pc, pump.pct, deeds)
      /\ CapInv(gate, lock, press, plan)
  BY DEF Inv
<1>4. /\ gate \in GateType /\ lock \in LockType /\ ledger \in LedgerType /\ DoneInv(ledger)
      /\ target \in Nat /\ pump.pct \in Nat
  BY <1>2, <1>3, RecipeFacts DEF Sound, DeviceTypes, Pcts
<1>5. WorldTypes'
  BY <1>1, <1>2, SameWorld
<1>6. CASE /\ press.pc = "complete"
           /\ SetPump(FALSE, 0) /\ UNCHANGED <<target, gate, lock>>
           /\ \E read \in Readings :
                 ledger' = IF lock.source = Tracker
                           THEN Ledger(gate, ledger, read) ELSE ledger
           /\ press' = [press EXCEPT !.pc = "lower"]
  <2>1. PICK read \in Readings : ledger' = IF lock.source = Tracker
                                           THEN Ledger(gate, ledger, read) ELSE ledger
    BY <1>6
  <2>2. ledger' \in LedgerType /\ DoneInv(ledger') /\ Timing(ledger, ledger')
    <3>1. CASE ledger' = ledger
      BY <1>4, <3>1 DEF Timing
    <3>2. CASE ledger' = Ledger(gate, ledger, read)
      BY <1>2, <1>4, <3>2, LedgerLook DEF Timing
    <3> QED
      BY <2>1, <3>1, <3>2
  <2>3. Move(lock, lock)
    BY DEF Move
  <2>4. Tells(lock, ledger') => Tells(lock, ledger)
    BY <1>4, <2>2, <2>3, TellsLook
  <2>5. Known(gate, lock, ledger, press.pc, pump.pct, deeds)
    BY <1>3 DEF Sound, Known
  <2>6. Known(gate, lock, ledger', press.pc, pump.pct, deeds)
    BY <1>4, <2>2, <2>3, <2>4, <2>5, MoveKeeps
  <2>7. press' \in PressType /\ press'.pc = "lower"
    BY <1>2, <1>6 DEF TaskTypes, PressType
  <2>8. pump' = [on |-> FALSE, pct |-> 0] /\ target' = target /\ gate' = gate /\ lock' = lock
    BY <1>6 DEF SetPump
  <2>9. Sound(gate, lock, ledger', "lower", 0, deeds)
    BY <1>4, <1>6, <2>2, <2>6
       DEF Known, Sound, Order, HoldInv, Begun, PressInv, PumpInv, Circling
  <2>10. Sound(gate, lock, ledger, press.pc, pump.pct, deeds)'
    BY <1>1, <2>7, <2>8, <2>9
  <2>11. CapInv(gate, lock, press, plan)'
    BY <1>1, <1>3, <2>7, <2>8 DEF CapInv, Circling
  <2>12. DeviceTypes' /\ TaskTypes' /\ KeepsToHold
    BY <1>1, <1>2, <1>4, <2>7, <2>8 DEF DeviceTypes, TaskTypes, KeepsToHold, Pcts
  <2> QED
    BY <1>5, <2>10, <2>11, <2>12 DEF Inv
<1>7. CASE /\ press.pc = "complete"
           /\ \E pct \in {0, pump.pct} : SetPump(pump.on, pct)
           /\ lock' = Entered(lock, "blocked")
           /\ UNCHANGED <<target, gate, ledger>>
           /\ press' = [press EXCEPT !.pc = "lower"]
  <2>1. press' \in PressType /\ press'.pc = "lower"
    BY <1>2, <1>7 DEF TaskTypes, PressType
  <2>2. /\ pump' = [on |-> pump.on, pct |-> 0] \/ pump' = [on |-> pump.on, pct |-> pump.pct]
        /\ target' = target /\ gate' = gate /\ ledger' = ledger
    BY <1>7 DEF SetPump
  <2>3. lock' \in LockType /\ lock'.phase = "blocked"
    BY <1>4, <1>7 DEF Entered, LockType, Active, Stuck
  <2>4. Sound(gate, lock', ledger, "lower", pump'.pct, deeds)
    BY <1>3, <1>4, <2>3
       DEF Sound, Order, HoldInv, Begun, PressInv, PumpInv, Waiting, Flowing, Circling
  <2>5. Sound(gate, lock, ledger, press.pc, pump.pct, deeds)'
    BY <1>1, <2>1, <2>2, <2>4
  <2>6. ~Holds(lock')
    BY <2>3 DEF Holds, Waiting, Flowing
  <2>7. CapInv(gate, lock, press, plan)'
    BY <1>1, <1>3, <2>1, <2>2, <2>6 DEF CapInv, Circling
  <2>8. DeviceTypes' /\ TaskTypes' /\ KeepsToHold
    BY <1>1, <1>2, <2>1, <2>2, <2>6 DEF DeviceTypes, TaskTypes, KeepsToHold, Pcts
  <2> QED
    BY <1>5, <2>5, <2>7, <2>8 DEF Inv
<1>8. CASE /\ press.pc = "lower"
           /\ target' = IF MayWrite /\ press.to # None THEN press.to ELSE target
           /\ UNCHANGED <<pump, memory>>
           /\ press' = NoPress
  <2>1. press' \in PressType /\ press'.pc = "idle"
    BY <1>8 DEF NoPress, PressType
  <2>2. target' \in Targets /\ pump' = pump /\ gate' = gate /\ lock' = lock /\ ledger' = ledger
    BY <1>2, <1>8 DEF TaskTypes, PressType, DeviceTypes, memory
  <2>3. Sound(gate, lock, ledger, "idle", pump.pct, deeds)
    BY <1>3, <1>8 DEF Sound, Order, HoldInv, Begun, PressInv, PumpInv, Circling
  <2>4. Sound(gate, lock, ledger, press.pc, pump.pct, deeds)'
    BY <1>1, <2>1, <2>2, <2>3
  <2>5. CapInv(gate, lock, press, plan)'
    BY <1>1, <1>3, <2>1, <2>2 DEF CapInv, Circling
  <2>6. DeviceTypes' /\ TaskTypes'
    BY <1>1, <1>2, <2>1, <2>2 DEF DeviceTypes, TaskTypes
  <2>7. KeepsToHold
    BY <1>4, <1>8, <2>2 DEF KeepsToHold
  <2> QED
    BY <1>5, <2>4, <2>5, <2>6, <2>7 DEF Inv
<1> QED
  BY <1>6, <1>7, <1>8 DEF CompleteWrites

LEMMA StartCirculationKeeps ==
  ASSUME Inv, StartCirculation
  PROVE  Inv' /\ KeepsToHold
<1>1. PICK read \in Readings :
        LET b == Built(gate, read) IN
        /\ press = NoPress
        /\ IF ~SafeContext(read.fresh)
           THEN /\ Keep([b EXCEPT !.lock = Entered(@, "blocked")])
                /\ UNCHANGED <<press, deeds>>
           ELSE /\ b.lock.phase \in {"recirculation_ready", "normal_ready"}
                /\ b.gate.key = b.lock.key /\ b.gate.once
                /\ PumpIsAs(b.lock.phase)
                /\ Keep(b)
                /\ press' = [NoPress EXCEPT !.pc = b.lock.phase]
                /\ deeds' = deeds \cup {b.lock.phase}
        /\ UNCHANGED <<world, device, seen, plan>>
  BY DEF StartCirculation
<1> DEFINE b == Built(gate, read)
<1>2. /\ press = NoPress /\ UNCHANGED <<world, device, plan>>
      /\ \/ /\ Keep([b EXCEPT !.lock = Entered(b.lock, "blocked")])
            /\ UNCHANGED <<press, deeds>>
         \/ /\ b.lock.phase \in {"recirculation_ready", "normal_ready"} /\ b.gate.once
            /\ Keep(b)
            /\ press' = [NoPress EXCEPT !.pc = b.lock.phase]
            /\ deeds' = deeds \cup {b.lock.phase}
  BY <1>1
<1>3. /\ Sound(b.gate, b.lock, b.ledger, press.pc, pump.pct, deeds)
      /\ CapInv(b.gate, b.lock, press, plan)
  BY LookSound
<1>4. b = [gate |-> b.gate, lock |-> b.lock, ledger |-> b.ledger]
  BY DEF Built
<1> HIDE DEF b
<1>5. WorldTypes /\ DeviceTypes /\ TaskTypes
  BY DEF Inv
<1>6. WorldTypes' /\ DeviceTypes' /\ KeepsToHold
  BY <1>2, <1>5, SameWorld, SameDevice
<1>7. press.pc = "idle" /\ pump' = pump /\ plan' = plan /\ b.lock \in LockType
  BY <1>2, <1>3 DEF NoPress, device, Sound
<1>8. CASE /\ Keep([b EXCEPT !.lock = Entered(b.lock, "blocked")])
           /\ UNCHANGED <<press, deeds>>
  <2>1. gate' = b.gate /\ lock' = Entered(b.lock, "blocked") /\ ledger' = b.ledger
    BY <1>4, <1>8 DEF Keep
  <2>2. lock' \in LockType /\ lock'.phase = "blocked"
    BY <1>7, <2>1 DEF Entered, LockType, Active, Stuck
  <2>3. Sound(gate', lock', ledger', "idle", pump.pct, deeds)
    BY <1>3, <1>7, <2>1, <2>2
       DEF Sound, Order, HoldInv, Begun, PressInv, PumpInv, Waiting, Flowing, Circling
  <2>4. Sound(gate, lock, ledger, press.pc, pump.pct, deeds)'
    BY <1>7, <1>8, <2>3
  <2>5. CapInv(gate, lock, press, plan)'
    BY <1>3, <1>7, <1>8, <2>1, <2>2 DEF CapInv, Circling, Holds, Waiting, Flowing
  <2>6. TaskTypes'
    BY <1>5, <1>7, <1>8 DEF TaskTypes
  <2> QED
    BY <1>6, <2>4, <2>5, <2>6 DEF Inv
<1>9. CASE /\ b.lock.phase \in {"recirculation_ready", "normal_ready"} /\ b.gate.once
           /\ Keep(b)
           /\ press' = [NoPress EXCEPT !.pc = b.lock.phase]
           /\ deeds' = deeds \cup {b.lock.phase}
  <2> DEFINE pc == b.lock.phase
  <2>1. gate' = b.gate /\ lock' = b.lock /\ ledger' = b.ledger
    BY <1>9 DEF Keep
  <2>2. press' \in PressType /\ press'.pc = pc /\ press'.to = None
    BY <1>9 DEF NoPress, PressType, Circling
  <2>3. Begun(b.lock, "idle") /\ Holds(b.lock)
    BY <1>3, <1>7, <1>9 DEF Begun, Sound, HoldInv, Holds, Waiting, Flowing
  <2>4. Order(b.lock, pc, deeds \cup {pc})
    BY <1>3, <1>7, <1>9, <2>3 DEF Sound, Order, Begun, Waiting, Flowing, Circling
  <2>5. HoldInv(b.lock, b.ledger, pc, deeds \cup {pc})
    BY <1>3, <1>7, <2>3 DEF Sound, HoldInv
  <2>6. PressInv(b.gate, b.lock, pc) /\ PumpInv(b.lock, pc, pump.pct)
    BY <1>3, <1>7, <1>9 DEF Sound, PressInv, PumpInv, Circling
  <2>7. Sound(b.gate, b.lock, b.ledger, pc, pump.pct, deeds \cup {pc})
    BY <1>3, <2>4, <2>5, <2>6 DEF Sound
  <2>8. Sound(gate, lock, ledger, press.pc, pump.pct, deeds)'
    BY <1>7, <1>9, <2>1, <2>2, <2>7
  <2>9. pc # "started"
    BY <1>9
  <2>10. CapInv(gate, lock, press, plan)'
    BY <1>3, <1>7, <2>1, <2>2, <2>3, <2>9 DEF CapInv
  <2>11. TaskTypes'
    BY <1>5, <1>7, <2>2, <2>9 DEF TaskTypes
  <2> QED
    BY <1>6, <2>8, <2>10, <2>11 DEF Inv
<1> QED
  BY <1>2, <1>8, <1>9

LEMMA CirculationWritesKeep ==
  ASSUME Inv, CirculationWrites
  PROVE  Inv' /\ KeepsToHold
<1>1. UNCHANGED <<world, target, gate, ledger, seen, plan, deeds>>
  BY DEF CirculationWrites
<1>2. WorldTypes /\ DeviceTypes /\ TaskTypes
  BY DEF Inv
<1>3. /\ Sound(gate, lock, ledger, press.pc, pump.pct, deeds)
      /\ CapInv(gate, lock, press, plan)
  BY DEF Inv
<1>4. /\ gate \in GateType /\ lock \in LockType /\ ledger \in LedgerType
      /\ target \in Nat /\ pump.pct \in Nat /\ pump \in [on : BOOLEAN, pct : Pcts]
  BY <1>2, <1>3, RecipeFacts DEF Sound, DeviceTypes, Pcts
<1>5. WorldTypes'
  BY <1>1, <1>2, SameWorld
<1>6. Pressed
  BY DEF CirculationWrites, Pressed
<1>7. press.pc \in Circling
  BY <1>6 DEF Pressed, Circling
<1>8. KeepsToHold
  BY <1>1, <1>4, <1>6 DEF KeepsToHold
<1>9. gate.state # "started"
  BY <1>3, <1>7 DEF Sound, PressInv
<1>10. NoPress \in PressType /\ NoPress.pc = "idle"
  BY DEF NoPress, PressType
<1>11. CASE /\ press.pc = "recirculation_ready"
            /\ SetPump(pump.on, IF MayWrite THEN 1 ELSE pump.pct)
            /\ press' = [press EXCEPT !.pc = "switch"] /\ UNCHANGED lock
  <2>1. press' \in PressType /\ press'.pc = "switch"
    BY <1>2, <1>11 DEF TaskTypes, PressType, Circling
  <2>2. pump' \in [on : BOOLEAN, pct : Pcts] /\ (pump'.pct = 1 \/ pump'.pct = pump.pct)
    BY <1>4, <1>11 DEF SetPump, Pcts
  <2>3. Sound(gate, lock, ledger, "switch", pump'.pct, deeds)
    BY <1>3, <1>4, <1>11, <2>2
       DEF Sound, Order, HoldInv, Begun, PressInv, PumpInv, Circling
  <2>4. Sound(gate, lock, ledger, press.pc, pump.pct, deeds)'
    BY <1>1, <1>11, <2>1, <2>3
  <2>5. CapInv(gate, lock, press, plan)'
    BY <1>1, <1>3, <1>7, <1>9, <1>11, <2>1 DEF CapInv
  <2>6. DeviceTypes' /\ TaskTypes'
    BY <1>1, <1>2, <2>1, <2>2 DEF DeviceTypes, TaskTypes
  <2> QED
    BY <1>5, <1>8, <2>4, <2>5, <2>6 DEF Inv
<1>12. ASSUME NEW phase \in {"low_flow_pending", "normal_pending", "blocked"}, Sent(phase),
              pump' \in [on : BOOLEAN, pct : Pcts],
              phase = "low_flow_pending" => pump'.pct <= 1,
              phase = "normal_pending" => press.pc = "normal_ready"
       PROVE  Inv'
  <2>1. /\ lock' \in LockType /\ lock'.phase = phase /\ ~lock'.due
        /\ lock'.hold = lock.hold /\ lock'.held = lock.held /\ lock'.source = lock.source
    BY <1>4, <1>12 DEF Sent, LockType, Active, Flowing, Stuck
  <2>2. press' = NoPress /\ press' \in PressType /\ press'.pc = "idle"
    BY <1>10, <1>12 DEF Sent
  <2>3. Order(lock', "idle", deeds)
    BY <1>3, <1>7, <1>12, <2>1
       DEF Sound, Order, Begun, Waiting, Flowing, Circling
  <2>4. Tells(lock', ledger) => Tells(lock, ledger)
    BY <2>1 DEF Tells
  <2>5. HoldInv(lock', ledger, "idle", deeds)
    BY <1>3, <1>7, <2>1, <2>4 DEF Sound, HoldInv, Begun
  <2>6. PressInv(gate, lock', "idle") /\ PumpInv(lock', "idle", pump'.pct)
    BY <1>9, <1>12, <2>1 DEF PressInv, PumpInv, Circling
  <2>7. Sound(gate, lock', ledger, "idle", pump'.pct, deeds)
    BY <1>3, <2>1, <2>3, <2>5, <2>6 DEF Sound
  <2>8. Sound(gate, lock, ledger, press.pc, pump.pct, deeds)'
    BY <1>1, <2>2, <2>7
  <2>9. CapInv(gate, lock, press, plan)'
    BY <1>1, <1>3, <1>7, <1>9, <2>1, <2>2 DEF CapInv, Circling
  <2>10. DeviceTypes' /\ TaskTypes'
    BY <1>1, <1>2, <1>12, <2>2 DEF DeviceTypes, TaskTypes
  <2> QED
    BY <1>5, <2>8, <2>9, <2>10 DEF Inv
<1>13. CASE /\ press.pc = "switch"
            /\ SetPump(pump.on \/ MayWrite, pump.pct)
            /\ Sent("low_flow_pending")
  <2>1. pump'.pct = pump.pct /\ pump' \in [on : BOOLEAN, pct : Pcts]
    <3>1. MayWrite \in BOOLEAN /\ (pump.on \/ MayWrite) \in BOOLEAN /\ pump.pct \in Pcts
      BY <1>2, <1>4 DEF MayWrite, WorldTypes
    <3> QED
      BY <1>13, <3>1 DEF SetPump
  <2>2. pump.pct <= 1
    BY <1>3, <1>13 DEF Sound, PumpInv
  <2> QED
    BY <1>8, <1>12, <1>13, <2>1, <2>2
<1>14. CASE /\ press.pc = "normal_ready"
            /\ SetPump(pump.on, IF MayWrite THEN 2 ELSE pump.pct)
            /\ Sent("normal_pending")
  <2>1. pump' \in [on : BOOLEAN, pct : Pcts]
    BY <1>4, <1>14 DEF SetPump, Pcts
  <2> QED
    BY <1>8, <1>12, <1>14, <2>1
<1>15. CASE Pressed /\ Sent("blocked") /\ UNCHANGED pump
  BY <1>4, <1>8, <1>12, <1>15
<1> QED
  BY <1>8, <1>11, <1>13, <1>14, <1>15 DEF CirculationWrites

PumpType == [on : BOOLEAN, pct : Pcts]

LEMMA PumpFacts ==
  /\ \A p \in PumpType : p.pct \in Nat
  /\ [on |-> FALSE, pct |-> 0] \in PumpType /\ [on |-> TRUE, pct |-> 2] \in PumpType
  /\ \A p \in PumpType : /\ [p EXCEPT !.on = FALSE] \in PumpType
                         /\ [p EXCEPT !.on = FALSE].on = FALSE
                         /\ [p EXCEPT !.on = FALSE].pct = p.pct
<1>1. Pcts \subseteq Nat /\ 0 \in Pcts /\ 2 \in Pcts
  BY DEF Pcts
<1> QED
  BY <1>1 DEF PumpType

(* What a tick may write, and what it may do to the pump.                  *)
LEMMA PlanLook ==
  ASSUME Inv, NEW b, NEW fresh, NEW p \in Plans(b, fresh), p # NoPlan,
         Sound(b.gate, b.lock, b.ledger, press.pc, pump.pct, deeds),
         CapInv(b.gate, b.lock, press, plan)
  PROVE  /\ p \in PlanType /\ p.to # None /\ p.pump \in {"off", "keep", "free"}
         /\ (b.gate.state = "started" => p.to = b.gate.to)
         /\ (b.lock.source = Tracker /\ (Holds(b.lock) \/ press.pc \in Circling)
               => p.to <= b.lock.hold)
         /\ (p.pump = "free" => b.lock.phase \notin Waiting \cup Flowing /\
                                press.pc \notin Circling)
<1> USE NoneAssumption, RecipeFacts
<1>1. /\ p = [to |-> PlanTarget(b), pump |-> PlanPump(b)] /\ b.lock.phase \notin Stuck
      /\ WorldTypes
  BY DEF Plans, Inv
<1>2. b.gate \in GateType /\ b.lock \in LockType
  BY DEF Sound
<1>3. Requested(b.lock) \in Targets
  BY <1>1, <1>2, RequestedType
<1>4. b.gate.state = "started" =>
        b.gate.to # None /\ b.gate.to \in Targets /\ press.pc \notin Circling
  BY <1>2 DEF Sound, PressInv, GateType
<1>5. Clamped(b.lock, Requested(b.lock)) \in Targets
  BY <1>2, <1>3 DEF Clamped, Holds, LockType
<1>6. PlanTarget(b) \in Targets
  BY <1>4, <1>5 DEF PlanTarget
<1>7. Holds(b.lock) => Clamped(b.lock, Requested(b.lock)) <= b.lock.hold
  <2>1. Holds(b.lock) => b.lock.hold \in Nat
    BY <1>2 DEF Holds, LockType
  <2>2. Requested(b.lock) \in Nat
    BY <1>3
  <2> QED
    BY <2>1, <2>2 DEF Clamped
<1>8. press.pc \in Circling => Holds(b.lock)
  BY <1>1 DEF Sound, PressInv, HoldInv, Begun, Holds, Circling, Waiting, Flowing, Stuck
<1>9. PlanPump(b) \in {"off", "keep", "free"}
  <2>1. pump.pct \in Nat
    BY DEF Inv, DeviceTypes, Pcts
  <2>2. b.lock.phase \in Flowing /\ b.lock.phase \notin {"normal_pending", "normal"}
          => ~(pump.pct > 1)
    BY <2>1 DEF Sound, PumpInv, Flowing
  <2> QED
    BY <2>2 DEF PlanPump
<1>10. PlanPump(b) = "free" => b.lock.phase \notin Waiting \cup Flowing
  BY DEF PlanPump
<1>11. p.to = PlanTarget(b) /\ p.pump = PlanPump(b) /\ p \in PlanType
  BY <1>1, <1>6, <1>9 DEF PlanType
<1>12. b.lock.source = Tracker /\ (Holds(b.lock) \/ press.pc \in Circling)
         => PlanTarget(b) <= b.lock.hold
  BY <1>4, <1>7, <1>8 DEF PlanTarget, CapInv
<1> QED
  BY <1>4, <1>6, <1>8, <1>9, <1>10, <1>11, <1>12 DEF PlanTarget, Holds

LEMMA TickKeeps ==
  ASSUME Inv, CoordinatorTick
  PROVE  Inv' /\ KeepsToHold
<1>1. PICK read \in Readings, bridge \in BOOLEAN :
        LET b == Built(gate, read) IN
        /\ plan = NoPlan
        /\ \/ /\ b.gate.state = "started" /\ press = NoPress
              /\ Settle([b EXCEPT !.gate = Completed(@)], b.gate.to, read.fresh)
              /\ UNCHANGED <<plan, device>>
           \/ /\ Keep(b)
              /\ \E p \in Plans(b, read.fresh) :
                    IF p.pump = "free"
                    THEN Written(p) /\ UNCHANGED plan
                    ELSE plan' = p /\ UNCHANGED device
              /\ UNCHANGED <<press, deeds>>
        /\ UNCHANGED world
  BY DEF CoordinatorTick
<1> DEFINE b == Built(gate, read)
<1>2. plan = NoPlan /\ UNCHANGED world
  BY <1>1
<1>3. \/ /\ b.gate.state = "started" /\ press = NoPress
         /\ Settle([b EXCEPT !.gate = Completed(b.gate)], b.gate.to, read.fresh)
         /\ UNCHANGED <<plan, device>>
      \/ /\ Keep(b)
         /\ \E p \in Plans(b, read.fresh) :
               IF p.pump = "free"
               THEN Written(p) /\ UNCHANGED plan
               ELSE plan' = p /\ UNCHANGED device
         /\ UNCHANGED <<press, deeds>>
  BY <1>1
<1>4. gate \in GateType
  BY DEF Inv, Sound
<1>5. /\ b = [gate |-> b.gate, lock |-> b.lock, ledger |-> b.ledger]
      /\ b.gate \in GateType /\ b.lock \in LockType /\ b.ledger \in LedgerType
      /\ DoneInv(b.ledger) /\ Timing(ledger, b.ledger)
  BY <1>4, BuiltLook
<1>6. /\ Sound(b.gate, b.lock, b.ledger, press.pc, pump.pct, deeds)
      /\ CapInv(b.gate, b.lock, press, plan)
  BY LookSound
<1>7. WorldTypes /\ DeviceTypes /\ TaskTypes
  BY DEF Inv
<1>8. WorldTypes'
  BY <1>2, <1>7, SameWorld
<1>9. \A p \in Plans(b, read.fresh) : p # NoPlan =>
        /\ p \in PlanType /\ p.to # None /\ p.pump \in {"off", "keep", "free"}
        /\ (b.gate.state = "started" => p.to = b.gate.to)
        /\ (b.lock.source = Tracker /\ (Holds(b.lock) \/ press.pc \in Circling)
              => p.to <= b.lock.hold)
        /\ (p.pump = "free" => b.lock.phase \notin Waiting \cup Flowing /\
                               press.pc \notin Circling)
  <2> HIDE DEF b
  <2> QED
    BY <1>6, PlanLook
<1> HIDE DEF b
<1>10. CASE /\ b.gate.state = "started" /\ press = NoPress
            /\ Settle([b EXCEPT !.gate = Completed(b.gate)], b.gate.to, read.fresh)
            /\ UNCHANGED <<plan, device>>
  <2> DEFINE c == [b EXCEPT !.gate = Completed(b.gate)]
  <2>1. c.gate = Completed(b.gate) /\ c.lock = b.lock /\ c.ledger = b.ledger
    BY <1>5
  <2>2. b.gate.to \in Targets
    BY <1>5, <1>6, <1>10 DEF Sound, PressInv, GateType
  <2>3. Completed(b.gate) \in GateType /\ Completed(b.gate).state = "mash_in_complete"
    BY <1>5, CompletedType
  <2>4. Settle(c, b.gate.to, read.fresh) /\ press = NoPress
    BY <1>10
  <2> HIDE DEF c
  <2> QED
    BY <1>2, <1>5, <1>10, <2>1, <2>2, <2>3, <2>4, SettleKeeps
<1>11. ASSUME NEW p \in Plans(b, read.fresh), Keep(b), UNCHANGED <<press, deeds>>,
              IF p.pump = "free" THEN Written(p) /\ UNCHANGED plan
              ELSE plan' = p /\ UNCHANGED device
       PROVE  Inv' /\ KeepsToHold
  <2>1. gate' = b.gate /\ lock' = b.lock /\ ledger' = b.ledger /\ press' = press /\ deeds' = deeds
    BY <1>11 DEF Keep
  <2>2. CASE p = NoPlan
    <3>1. plan' = plan /\ UNCHANGED device
      BY <1>2, <1>11, <2>2, NoneAssumption DEF NoPlan
    <3>2. DeviceTypes' /\ KeepsToHold /\ pump' = pump
      BY <1>7, <3>1, SameDevice DEF device
    <3>3. TaskTypes'
      BY <1>7, <2>1, <3>1 DEF TaskTypes
    <3>4. (Sound(gate, lock, ledger, press.pc, pump.pct, deeds) /\ CapInv(gate, lock, press, plan))'
      BY <1>6, <2>1, <3>1, <3>2
    <3> QED
      BY <1>8, <3>2, <3>3, <3>4 DEF Inv
  <2>3. CASE p # NoPlan /\ p.pump # "free"
    <3>1. plan' = p /\ UNCHANGED device
      BY <1>11, <2>3
    <3>2. DeviceTypes' /\ KeepsToHold /\ pump' = pump
      BY <1>7, <3>1, SameDevice DEF device
    <3>3. TaskTypes'
      BY <1>7, <1>9, <2>1, <2>3, <3>1 DEF TaskTypes
    <3>4. Sound(gate, lock, ledger, press.pc, pump.pct, deeds)'
      BY <1>6, <2>1, <3>2
    <3>5. CapInv(gate, lock, press, plan)'
      BY <1>6, <1>9, <2>1, <2>3, <3>1 DEF CapInv
    <3> QED
      BY <1>8, <3>2, <3>3, <3>4, <3>5 DEF Inv
  <2>4. CASE p # NoPlan /\ p.pump = "free"
    <3>1. plan' = plan /\ Written(p)
      BY <1>11, <2>4
    <3>2. b.lock.phase \notin Waiting \cup Flowing /\ press.pc \notin Circling
      BY <1>9, <2>4
    <3>3. p.to \in Targets
      BY <1>9, <2>4 DEF PlanType
    <3>4. target' \in Targets
      BY <1>7, <3>1, <3>3 DEF Written, DeviceTypes
    <3>5. pump' \in PumpType
      <4>1. pump \in PumpType
        BY <1>7 DEF DeviceTypes, PumpType
      <4>2. pump' \in {pump, [on |-> FALSE, pct |-> 0], [on |-> TRUE, pct |-> 2]}
        BY <2>4, <3>1 DEF Written, PlannedPump
      <4> QED
        BY <4>1, <4>2, PumpFacts
    <3>6. ~Holds(lock')
      BY <2>1, <3>2 DEF Holds
    <3>7. PumpInv(lock', press.pc, pump'.pct)
      BY <2>1, <3>2 DEF PumpInv, Waiting, Flowing, Circling
    <3>8. Sound(gate, lock, ledger, press.pc, pump.pct, deeds)'
      BY <1>6, <2>1, <3>7 DEF Sound
    <3>9. CapInv(gate, lock, press, plan)'
      BY <1>6, <2>1, <3>1
    <3>10. TaskTypes'
      BY <1>7, <2>1, <3>1 DEF TaskTypes
    <3> QED
      BY <1>8, <3>4, <3>5, <3>6, <3>8, <3>9, <3>10 DEF Inv, DeviceTypes, PumpType, KeepsToHold
  <2> QED
    BY <2>2, <2>3, <2>4
<1> QED
  BY <1>3, <1>10, <1>11

LEMMA PlanWritesKeep ==
  ASSUME Inv, PlanWrites
  PROVE  Inv' /\ KeepsToHold
<1>1. /\ plan # NoPlan /\ Written(plan) /\ plan' = NoPlan
      /\ UNCHANGED <<world, memory, seen, press, deeds>>
  BY DEF PlanWrites
<1>2. WorldTypes /\ DeviceTypes /\ TaskTypes
  BY DEF Inv
<1>3. plan.to \in Targets /\ plan.pump \in {"off", "keep"}
  BY <1>1, <1>2 DEF TaskTypes, PlanType
<1>4. /\ pump \in PumpType /\ target \in Targets /\ target \in Nat
      /\ plan.to \in Nat /\ pump.pct \in Nat
  <2>1. pump \in PumpType /\ target \in Targets
    BY <1>2 DEF DeviceTypes, PumpType
  <2> QED
    BY <1>3, <2>1, RecipeFacts, PumpFacts
<1>5. target' \in {target, plan.to}
  BY <1>1 DEF Written
<1>6. /\ pump' \in PumpType /\ (pump'.on => pump.on)
      /\ pump'.pct \in {0, pump.pct}
  <2>1. pump' \in {pump, [on |-> FALSE, pct |-> 0], [pump EXCEPT !.on = FALSE]}
    BY <1>1, <1>3 DEF Written, PlannedPump
  <2>2. pump' = pump => (pump' \in PumpType /\ (pump'.on => pump.on) /\ pump'.pct \in {0, pump.pct})
    BY <1>4
  <2>3. pump' = [on |-> FALSE, pct |-> 0] =>
          (pump' \in PumpType /\ (pump'.on => pump.on) /\ pump'.pct \in {0, pump.pct})
    BY PumpFacts
  <2>4. pump' = [pump EXCEPT !.on = FALSE] =>
          (pump' \in PumpType /\ (pump'.on => pump.on) /\ pump'.pct \in {0, pump.pct})
    BY <1>4, PumpFacts
  <2> QED
    BY <2>1, <2>2, <2>3, <2>4
<1>7. gate' = gate /\ lock' = lock /\ ledger' = ledger /\ press' = press /\ deeds' = deeds
  BY <1>1 DEF memory
<1>8. WorldTypes' /\ DeviceTypes'
  BY <1>1, <1>2, <1>3, <1>5, <1>6, SameWorld DEF DeviceTypes, PumpType
<1>9. TaskTypes'
  BY <1>1, <1>2, <1>7 DEF TaskTypes, NoPlan, PlanType
<1>10. Sound(gate, lock, ledger, press.pc, pump.pct, deeds)'
  <2>1. Sound(gate, lock, ledger, press.pc, pump.pct, deeds)
    BY DEF Inv
  <2>2. PumpInv(lock, press.pc, pump'.pct)
    BY <1>6, <2>1 DEF Sound, PumpInv
  <2> QED
    BY <1>7, <2>1, <2>2 DEF Sound
<1>11. CapInv(gate, lock, press, plan)'
  BY <1>1, <1>7 DEF Inv, CapInv
<1>12. KeepsToHold
  BY <1>1, <1>4, <1>5, <1>6 DEF KeepsToHold, Inv, CapInv
<1> QED
  BY <1>8, <1>9, <1>10, <1>11, <1>12 DEF Inv

LEMMA FaultsKeep ==
  ASSUME Inv, Abort \/ Rearm \/ Brewday
  PROVE  Inv' /\ KeepsToHold
<1>1. WorldTypes /\ DeviceTypes /\ TaskTypes
  BY DEF Inv
<1>2. UNCHANGED <<target, memory, seen, tasks, deeds>>
  BY DEF Abort, Rearm, Brewday, Moves, device
<1>3. pump' = pump \/ pump' = [on |-> FALSE, pct |-> 0]
  BY DEF Abort, Rearm, Brewday, Moves, device, SetPump
<1>4. gate' = gate /\ lock' = lock /\ ledger' = ledger /\ press' = press /\ plan' = plan
      /\ deeds' = deeds /\ target' = target
  BY <1>2 DEF memory, tasks
<1>5. pump \in PumpType /\ target \in Targets
  BY <1>1 DEF DeviceTypes, PumpType
<1>6. DeviceTypes' /\ KeepsToHold
  <2>1. pump.pct \in Nat /\ target \in Nat
    BY <1>5, RecipeFacts, PumpFacts
  <2>2. pump' \in PumpType /\ (pump'.on => pump.on)
        /\ pump'.pct \in {0, pump.pct}
    BY <1>3, <1>5, PumpFacts
  <2> QED
    BY <1>4, <1>5, <2>1, <2>2 DEF DeviceTypes, PumpType, KeepsToHold
<1>7. TaskTypes'
  BY <1>1, <1>4 DEF TaskTypes
<1>8. Sound(gate, lock, ledger, press.pc, pump.pct, deeds)'
  <2>1. Sound(gate, lock, ledger, press.pc, pump.pct, deeds)
    BY DEF Inv
  <2>2. PumpInv(lock, press.pc, pump'.pct)
    BY <1>3, <2>1 DEF Sound, PumpInv
  <2> QED
    BY <1>4, <2>1, <2>2 DEF Sound
<1>9. CapInv(gate, lock, press, plan)'
  BY <1>4 DEF Inv
<1>10. WorldTypes'
  <2>1. Fault => faults' \in 0 .. MaxFaults
    BY <1>1, MashAssumption DEF Fault, WorldTypes
  <2>2. ASSUME NEW s \in Sources \cup {None}, NEW st \in {"idle", "running", "paused", "completed"},
               NEW i \in Steps, Moves(s, st, i), UNCHANGED faults \/ Fault
        PROVE  WorldTypes'
    BY <1>1, <2>1, <2>2 DEF Moves, WorldTypes
  <2>3. CASE Abort
    BY <1>1, <2>1, <2>3 DEF Abort, WorldTypes
  <2>4. CASE Rearm
    BY <1>1, <2>4 DEF Rearm, WorldTypes
  <2>5. CASE Brewday
    <3>1. step + 1 \in Steps \/ ~(step < Len(Recipe))
      BY <1>1, EndOfRecipe DEF WorldTypes
    <3>2. source \in Sources \cup {None} /\ step \in Steps /\ 1 \in Steps
          /\ state \in {"idle", "running", "paused", "completed"}
      BY <1>1, RecipeFacts DEF WorldTypes
    <3> QED
      BY <2>2, <2>5, <3>1, <3>2 DEF Brewday
  <2> QED
    BY <2>3, <2>4, <2>5
<1> QED
  BY <1>6, <1>7, <1>8, <1>9, <1>10 DEF Inv

LEMMA NothingKnown ==
  /\ NoGate \in GateType /\ NoLock \in LockType /\ NoLedger \in LedgerType
  /\ NoPress \in PressType /\ NoPlan \in PlanType /\ NoPress.pc = "idle"
  /\ \A pct : Sound(NoGate, NoLock, NoLedger, "idle", pct, {})
  /\ CapInv(NoGate, NoLock, NoPress, NoPlan)
<1> USE NoneAssumption DEF Active, Waiting, Flowing, Stuck
<1>1. /\ NoGate \in GateType /\ NoLock \in LockType
      /\ NoPress \in PressType /\ NoPlan \in PlanType /\ NoPress.pc = "idle"
  BY DEF NoGate, GateType, NoLock, LockType, NoPress, PressType, NoPlan, PlanType
<1>2. NoLedger \in LedgerType /\ DoneInv(NoLedger)
  BY DEF NoLedger, NoStep, LedgerType, StepType, DoneInv
<1>3. \A pct : Sound(NoGate, NoLock, NoLedger, "idle", pct, {})
  BY <1>1, <1>2
     DEF Sound, Order, HoldInv, Begun, PressInv, PumpInv, Circling, NoLock, NoGate
<1>4. CapInv(NoGate, NoLock, NoPress, NoPlan)
  BY <1>1 DEF CapInv, NoLock, Holds, Circling
<1> QED
  BY <1>1, <1>2, <1>3, <1>4

LEMMA RestartKeeps ==
  ASSUME Inv, Restart
  PROVE  Inv' /\ KeepsToHold
<1>1. WorldTypes /\ DeviceTypes
  BY DEF Inv
<1>2. WorldTypes'
  BY <1>1, MashAssumption DEF Restart, Fault, WorldTypes
<1>3. DeviceTypes' /\ KeepsToHold
  BY <1>1, SameDevice DEF Restart
<1>4. TaskTypes'
  BY NothingKnown DEF Restart, TaskTypes
<1>5. Sound(gate, lock, ledger, press.pc, pump.pct, deeds)'
  BY NothingKnown DEF Restart
<1>6. CapInv(gate, lock, press, plan)'
  BY NothingKnown DEF Restart
<1> QED
  BY <1>2, <1>3, <1>4, <1>5, <1>6 DEF Inv

LEMMA PhaseElapsesKeeps ==
  ASSUME Inv, PhaseElapses
  PROVE  Inv' /\ KeepsToHold
<1>1. /\ lock.phase \in {"settling", "low_flow"} \cup Pending
      /\ press.pc \notin {"started", "complete", "lower"}
      /\ lock' = [lock EXCEPT !.due = TRUE]
      /\ deeds' = IF lock.phase \in Pending THEN deeds ELSE deeds \cup {lock.phase}
      /\ UNCHANGED <<world, device, gate, ledger, seen, tasks>>
  BY DEF PhaseElapses
<1>2. WorldTypes /\ DeviceTypes /\ TaskTypes
  BY DEF Inv
<1>3. /\ Sound(gate, lock, ledger, press.pc, pump.pct, deeds) /\ lock \in LockType
      /\ CapInv(gate, lock, press, plan)
  BY DEF Inv, Sound
<1>4. WorldTypes' /\ DeviceTypes' /\ KeepsToHold
  BY <1>1, <1>2, SameWorld, SameDevice
<1>5. gate' = gate /\ ledger' = ledger /\ press' = press /\ plan' = plan /\ pump' = pump
  BY <1>1 DEF tasks, device
<1>6. TaskTypes'
  BY <1>2, <1>5 DEF TaskTypes
<1>7. /\ lock' \in LockType /\ lock'.phase = lock.phase /\ lock'.hold = lock.hold
      /\ lock'.held = lock.held /\ lock'.source = lock.source /\ lock'.due = TRUE
  BY <1>1, <1>3 DEF LockType
<1>8. deeds \subseteq deeds' /\ (lock.phase \in {"settling", "low_flow"} => lock.phase \in deeds')
  BY <1>1 DEF Pending
<1>9. Order(lock', press.pc, deeds')
  BY <1>1, <1>3, <1>7, <1>8 DEF Sound, Order, Begun
<1>10. HoldInv(lock', ledger, press.pc, deeds')
  BY <1>3, <1>7, <1>8 DEF Sound, HoldInv, Begun, Tells
<1>11. PressInv(gate, lock', press.pc) /\ PumpInv(lock', press.pc, pump.pct)
  BY <1>1, <1>3, <1>7 DEF Sound, PressInv, PumpInv
<1>12. Sound(gate, lock, ledger, press.pc, pump.pct, deeds)'
  BY <1>3, <1>5, <1>7, <1>9, <1>10, <1>11 DEF Sound
<1>13. CapInv(gate, lock, press, plan)'
  BY <1>3, <1>5, <1>7 DEF CapInv, Holds
<1> QED
  BY <1>4, <1>6, <1>12, <1>13 DEF Inv

LEMMA HoldElapsesKeeps ==
  ASSUME Inv, HoldElapses
  PROVE  Inv' /\ KeepsToHold
<1>1. /\ ledger' = [ledger EXCEPT !.active.elapsed = TRUE]
      /\ deeds' = IF ledger.active.to = lock.hold THEN deeds \cup {"held"} ELSE deeds
      /\ UNCHANGED <<world, device, gate, lock, seen, tasks>>
  BY DEF HoldElapses
<1>2. WorldTypes /\ DeviceTypes /\ TaskTypes
  BY DEF Inv
<1>3. /\ Sound(gate, lock, ledger, press.pc, pump.pct, deeds) /\ ledger \in LedgerType
      /\ CapInv(gate, lock, press, plan)
  BY DEF Inv, Sound
<1>4. WorldTypes' /\ DeviceTypes' /\ KeepsToHold
  BY <1>1, <1>2, SameWorld, SameDevice
<1>5. gate' = gate /\ lock' = lock /\ press' = press /\ plan' = plan /\ pump' = pump
  BY <1>1 DEF tasks, device
<1>6. TaskTypes'
  BY <1>2, <1>5 DEF TaskTypes
<1>7. /\ ledger' \in LedgerType /\ ledger'.held = ledger.held
      /\ ledger'.active.to = ledger.active.to /\ ledger'.active.kind = ledger.active.kind
      /\ ledger'.active.elapsed = TRUE
  BY <1>1, <1>3 DEF LedgerType, StepType
<1>8. deeds \subseteq deeds' /\ (ledger.active.to = lock.hold => "held" \in deeds')
  BY <1>1
<1>9. Order(lock, press.pc, deeds')
  BY <1>3, <1>8 DEF Sound, Order
<1>10. HoldInv(lock, ledger', press.pc, deeds') /\ DoneInv(ledger')
  BY <1>3, <1>7, <1>8 DEF Sound, HoldInv, Tells, DoneInv
<1>11. Sound(gate, lock, ledger, press.pc, pump.pct, deeds)'
  BY <1>3, <1>5, <1>7, <1>9, <1>10 DEF Sound
<1>12. CapInv(gate, lock, press, plan)'
  BY <1>3, <1>5
<1> QED
  BY <1>4, <1>6, <1>11, <1>12 DEF Inv

-----------------------------------------------------------------------------
(* The theorems                                                            *)

LEMMA InitInv ==
  Init => Inv
<1> SUFFICES ASSUME Init
             PROVE  Inv
  OBVIOUS
<1>1. WorldTypes /\ DeviceTypes
  <2>1. 0 \in 0 .. MaxFaults /\ 1 \in Steps /\ FALSE \in BOOLEAN
    BY RecipeFacts, MashAssumption
  <2>2. WorldTypes
    BY <2>1 DEF Init, WorldTypes
  <2>3. DeviceTypes
    BY PumpFacts DEF Init, DeviceTypes, PumpType
  <2> QED
    BY <2>2, <2>3
<1>2. TaskTypes
  BY NothingKnown DEF Init, TaskTypes
<1>3. Sound(gate, lock, ledger, press.pc, pump.pct, deeds)
  BY NothingKnown DEF Init
<1>4. CapInv(gate, lock, press, plan)
  BY NothingKnown DEF Init
<1> QED
  BY <1>1, <1>2, <1>3, <1>4 DEF Inv

LEMMA StepInv ==
  Inv /\ [Next]_vars => Inv' /\ [KeepsToHold]_vars
<1> SUFFICES ASSUME Inv, [Next]_vars
             PROVE  Inv' /\ [KeepsToHold]_vars
  OBVIOUS
<1>1. CASE Next
  BY <1>1, RefreshKeeps, OverrideKeeps, MarkStartedKeeps, ConfirmKeeps,
     StartCirculationKeeps, TickKeeps, StartedWritesKeep, CompleteWritesKeep,
     CirculationWritesKeep, PlanWritesKeep, FaultsKeep, RestartKeeps,
     PhaseElapsesKeeps, HoldElapsesKeeps
     DEF Next, Writes
<1>2. CASE UNCHANGED vars
  BY <1>2 DEF vars, world, device, memory, tasks, Inv, WorldTypes, DeviceTypes, TaskTypes
<1> QED
  BY <1>1, <1>2

LEMMA Invariance ==
  Spec => []Inv
  BY InitInv, StepInv, PTL DEF Spec

(* Every part keeps its type, and an interlock that waits for the pump or  *)
(* lets it run always knows the temperature it holds.                      *)
THEOREM TypeCorrect == Spec => []TypeOK
<1>1. Inv => TypeOK
  BY RecipeFacts
     DEF Inv, WorldTypes, DeviceTypes, Sound, GateType, LockType, HoldInv, Begun, TypeOK
<1> QED
  BY <1>1, Invariance, PTL

(* The hold is never let go before the mash settled, the operator pressed  *)
(* twice with the ramp between, and the hold ran its whole time.           *)
THEOREM ReleaseInOrder == Spec => []ReleasedInOrder
<1>1. Inv => ReleasedInOrder
  BY DEF Inv, Sound, Order, HoldInv, Begun, Tells, ReleasedInOrder
<1> QED
  BY <1>1, Invariance, PTL

(* No write of a Brewfather mash takes the target past the hold, whatever  *)
(* decided on it, but Complete's own step down; and only a press starts or *)
(* speeds up the pump.                                                     *)
THEOREM WritesKept == Spec => WritesKeepToHold
<1>1. Inv /\ [Next]_vars =>
        [Holds(lock) /\ Holds(lock') =>
           /\ lock.source = Tracker /\ target' > target =>
                target' <= lock.hold \/ press.pc = "lower"
           /\ (~pump.on /\ pump'.on) \/ pump'.pct > pump.pct => Pressed]_vars
  BY StepInv DEF KeepsToHold
<1> QED
  BY <1>1, Invariance, PTL DEF Spec, WritesKeepToHold

-----------------------------------------------------------------------------
(* The ladder of MashHold                                                  *)

Phases == Active \cup {None, "released"}

(* Where the phases are on the ladder.                                     *)
LEMMA RungOf ==
  ASSUME NEW p \in Phases
  PROVE  /\ (p = "settling" <=> Rung(p) = "settling")
         /\ (p = "recirculation_ready" <=> Rung(p) = "settled")
         /\ (p \in {"low_flow_pending", "low_flow"} <=> Rung(p) = "low")
         /\ (p = "normal_ready" <=> Rung(p) = "ramped")
         /\ (p \in {"normal_pending", "normal"} <=> Rung(p) = "normal")
         /\ (p = "released" <=> Rung(p) = "released")
         /\ (p \in Stuck <=> Rung(p) = "stuck")
         /\ (p = None <=> Rung(p) = "none")
<1>1. None \notin Active \cup {"released"}
  BY NoneAssumption
<1>2. CASE p = None
  <2>1. Rung(p) = "none"
    BY <1>1, <1>2 DEF Rung, Active, Waiting, Flowing, Stuck
  <2> QED
    BY <1>1, <1>2, <2>1 DEF Active, Waiting, Flowing, Stuck
<1>3. CASE p # None
  <2>1. p \in {"settling", "recirculation_ready", "low_flow_pending", "low_flow",
               "normal_ready", "normal_pending", "normal", "blocked", "recovery_required",
               "released"}
    BY <1>3 DEF Phases, Active, Waiting, Flowing, Stuck
  <2>2. Rung(p) # "none"
    BY <1>3, <2>1 DEF Rung, Stuck
  <2> QED
    BY <1>3, <2>1, <2>2 DEF Rung, Stuck
<1> QED
  BY <1>2, <1>3

(* Whatever rung the interlock is on, it has earned it.                    *)
LEMMA RungEarned ==
  ASSUME NEW k \in LockType, NEW l, NEW pc, NEW d, Order(k, pc, d), HoldInv(k, l, pc, d),
         Rung(k.phase) \in DOMAIN Hold!Needs
  PROVE  Hold!Needs[Rung(k.phase)] \subseteq d
<1>1. k.phase \in Phases
  BY DEF LockType, Phases
<1>2. Rung(k.phase) \in {"settled", "low", "ramped", "normal", "released"}
  BY DEF Hold!Needs
<1>3. CASE Rung(k.phase) = "settled"
  <2>1. "settling" \in d
    BY <1>1, <1>3, RungOf DEF Order, Begun, Waiting
  <2> QED
    BY <1>3, <2>1 DEF Hold!Needs
<1>4. CASE Rung(k.phase) = "low"
  <2>1. "settling" \in d /\ "recirculation_ready" \in d
    BY <1>1, <1>4, RungOf DEF Order, Begun, Flowing
  <2> QED
    BY <1>4, <2>1 DEF Hold!Needs
<1>5. CASE Rung(k.phase) = "ramped"
  <2>1. "settling" \in d /\ "recirculation_ready" \in d /\ "low_flow" \in d
    BY <1>1, <1>5, RungOf DEF Order, Begun, Flowing
  <2> QED
    BY <1>5, <2>1 DEF Hold!Needs
<1>6. CASE Rung(k.phase) = "normal"
  <2>1. "settling" \in d /\ "recirculation_ready" \in d /\ "low_flow" \in d
        /\ "normal_ready" \in d
    BY <1>1, <1>6, RungOf DEF Order, Begun, Flowing
  <2> QED
    BY <1>6, <2>1 DEF Hold!Needs
<1>7. CASE Rung(k.phase) = "released"
  <2>1. k.phase = "released"
    BY <1>1, <1>7, RungOf
  <2>2. "settling" \in d /\ "recirculation_ready" \in d /\ "low_flow" \in d
        /\ "normal_ready" \in d
    BY <2>1 DEF Order, Begun
  <2>3. "held" \in d
    BY <2>1 DEF HoldInv, Begun, Tells
  <2> QED
    BY <1>7, <2>2, <2>3 DEF Hold!Needs
<1> QED
  BY <1>2, <1>3, <1>4, <1>5, <1>6, <1>7

(* A look at the interlock leaves it on its rung, or stuck, or one higher. *)
OneHigher(r, s) == r \in DOMAIN Hold!Above /\ Hold!Above[r] = s

LEMMA MoveRung ==
  ASSUME NEW k \in LockType, NEW m \in LockType, Move(k, m)
  PROVE  \/ Rung(m.phase) = Rung(k.phase) \/ Rung(m.phase) = "stuck"
         \/ /\ OneHigher(Rung(k.phase), Rung(m.phase))
            /\ Rung(m.phase) \in {"settled", "ramped", "released"}
<1>1. k.phase \in Phases /\ m.phase \in Phases
  BY DEF LockType, Phases
<1>2. CASE m.phase = k.phase \/ m.phase = "blocked" \/ m.phase = "recovery_required"
  BY <1>1, <1>2, RungOf DEF Stuck
<1>3. CASE \/ k.phase = "low_flow_pending" /\ m.phase = "low_flow"
           \/ k.phase = "normal_pending" /\ m.phase = "normal"
  BY <1>1, <1>3, RungOf
<1>4. CASE k.phase = "settling" /\ m.phase = "recirculation_ready"
  <2>1. Rung(k.phase) = "settling" /\ Rung(m.phase) = "settled"
    BY <1>1, <1>4, RungOf
  <2> QED
    BY <2>1 DEF OneHigher, Hold!Above
<1>5. CASE k.phase = "low_flow" /\ m.phase = "normal_ready"
  <2>1. Rung(k.phase) = "low" /\ Rung(m.phase) = "ramped"
    BY <1>1, <1>5, RungOf
  <2> QED
    BY <2>1 DEF OneHigher, Hold!Above
<1>6. CASE k.phase \in {"normal_pending", "normal"} /\ m.phase = "released"
  <2>1. Rung(k.phase) = "normal" /\ Rung(m.phase) = "released"
    BY <1>1, <1>6, RungOf
  <2> QED
    BY <2>1 DEF OneHigher, Hold!Above
<1> QED
  BY <1>2, <1>3, <1>4, <1>5, <1>6 DEF Move

LEMMA LookMoves ==
  ASSUME Inv, NEW m \in LockType, NEW l, Move(lock, m),
         Known(gate, m, l, press.pc, pump.pct, deeds), lock' = m, deeds' = deeds
  PROVE  Hold!Moves
<1>1. lock \in LockType
  BY DEF Inv, Sound
<1>2. \/ Rung(m.phase) = Rung(lock.phase) \/ Rung(m.phase) = "stuck"
      \/ /\ OneHigher(Rung(lock.phase), Rung(m.phase))
         /\ Rung(m.phase) \in {"settled", "ramped", "released"}
  BY <1>1, MoveRung
<1>3. CASE Rung(m.phase) = Rung(lock.phase)
  BY <1>3 DEF Hold!Moves
<1>4. CASE Rung(m.phase) = "stuck"
  BY <1>4 DEF Hold!Moves, Hold!Stick
<1>5. CASE /\ OneHigher(Rung(lock.phase), Rung(m.phase))
           /\ Rung(m.phase) \in {"settled", "ramped", "released"}
  <2>1. Rung(m.phase) \in DOMAIN Hold!Needs /\ Rung(m.phase) \in Hold!Rungs
    BY <1>5 DEF Hold!Needs, Hold!Rungs
  <2>2. Hold!Needs[Rung(m.phase)] \subseteq deeds
    BY <2>1, RungEarned DEF Known
  <2>3. Hold!Rises(Rung(m.phase))
    BY <1>5, <2>2 DEF OneHigher, Hold!Rises
  <2>4. Hold!Climb
    BY <2>1, <2>3 DEF Hold!Climb
  <2> QED
    BY <2>4 DEF Hold!Moves
<1> QED
  BY <1>2, <1>3, <1>4, <1>5

(* An interlock that gets stuck is beside the ladder.                      *)
LEMMA BlockedSticks ==
  ASSUME NEW k \in LockType
  PROVE  Rung(Entered(k, "blocked").phase) = "stuck"
<1>1. Entered(k, "blocked").phase = "blocked"
  BY DEF Entered, LockType
<1>2. "blocked" \in Phases /\ "blocked" \in Stuck
  BY DEF Phases, Active, Stuck
<1> QED
  BY <1>1, <1>2, RungOf

LEMMA RefreshMoves ==
  ASSUME Inv, NEW read \in Readings, NEW b, b = Built(gate, read),
         lock' = b.lock, deeds' = deeds
  PROVE  Hold!Moves
<1>1. gate \in GateType
  BY DEF Inv, Sound
<1>2. /\ b.lock \in LockType /\ Move(lock, b.lock)
      /\ Known(gate, b.lock, b.ledger, press.pc, pump.pct, deeds)
  BY <1>1, BuiltLook
<1> QED
  BY <1>2, LookMoves

LEMMA LooksMove ==
  ASSUME Inv, Refresh \/ OverrideReady \/ MarkStarted
  PROVE  Hold!Moves
<1>1. \A read \in Readings :
        LET b == Built(gate, read)
        IN  b = [gate |-> b.gate, lock |-> b.lock, ledger |-> b.ledger]
  BY DEF Built
<1>2. PICK read \in Readings :
        /\ deeds' = deeds
        /\ LET b == Built(gate, read) IN
           \/ Keep(b)
           \/ Keep([b EXCEPT !.gate = Latched(b.lock)])
           \/ Keep([b EXCEPT !.gate.state = "started", !.gate.once = FALSE,
                             !.gate.to = MashTarget(b.lock)])
  BY DEF Refresh, RefreshAt, OverrideReady, MarkStarted
<1> DEFINE b == Built(gate, read)
<1>3. b = [gate |-> b.gate, lock |-> b.lock, ledger |-> b.ledger]
  BY <1>1
<1>4. \/ Keep(b) \/ Keep([b EXCEPT !.gate = Latched(b.lock)])
      \/ Keep([b EXCEPT !.gate.state = "started", !.gate.once = FALSE,
                        !.gate.to = MashTarget(b.lock)])
  BY <1>2
<1> HIDE DEF b
<1>5. lock' = b.lock
  BY <1>3, <1>4 DEF Keep
<1> QED
  BY <1>2, <1>5, RefreshMoves DEF b

LEMMA SettleMoves ==
  ASSUME NEW b, NEW requested, NEW fresh, Settle(b, requested, fresh), b.lock \in LockType
  PROVE  Hold!Moves
<1>1. lock'.phase = "settling" \/ lock' = Entered(b.lock, "blocked")
  BY DEF Settle, NoLock
<1>2. Rung("settling") = "settling"
  BY RungOf DEF Phases, Active, Waiting
<1>3. Rung(lock.phase)' \in {"settling", "stuck"}
  BY <1>1, <1>2, BlockedSticks
<1>4. deeds' \in SUBSET {"held"}
  BY DEF Settle
<1> QED
  BY <1>3, <1>4 DEF Hold!Begin, Hold!Moves

LEMMA ConfirmMoves ==
  ASSUME Inv, ConfirmComplete
  PROVE  Hold!Moves
<1>1. PICK read \in Readings :
        LET b == Built(Completed(gate), read)
        IN  Settle(b, Clamped(b.lock, Requested(b.lock)), read.fresh)
  BY DEF ConfirmComplete
<1>2. Completed(gate) \in GateType
  BY CompletedType DEF Inv, Sound
<1>3. Built(Completed(gate), read).lock \in LockType
  BY <1>2, BuiltLook
<1> QED
  BY <1>1, <1>3, SettleMoves

LEMMA TickMoves ==
  ASSUME Inv, CoordinatorTick
  PROVE  Hold!Moves
<1>1. PICK read \in Readings :
        LET b == Built(gate, read)
        IN  \/ Settle([b EXCEPT !.gate = Completed(@)], b.gate.to, read.fresh)
            \/ Keep(b) /\ deeds' = deeds
  BY DEF CoordinatorTick
<1> DEFINE b == Built(gate, read)
<1>2. gate \in GateType
  BY DEF Inv, Sound
<1>3. b = [gate |-> b.gate, lock |-> b.lock, ledger |-> b.ledger] /\ b.lock \in LockType
  BY <1>2, BuiltLook
<1>4. \/ Settle([b EXCEPT !.gate = Completed(@)], b.gate.to, read.fresh)
      \/ Keep(b) /\ deeds' = deeds
  BY <1>1
<1>5. ASSUME Keep(b), deeds' = deeds
      PROVE  Hold!Moves
  BY <1>5, RefreshMoves DEF Keep
<1> HIDE DEF b
<1>6. [b EXCEPT !.gate = Completed(@)].lock \in LockType
  BY <1>3
<1> QED
  BY <1>4, <1>5, <1>6, SettleMoves

LEMMA CompleteWritesMove ==
  ASSUME Inv, CompleteWrites
  PROVE  Hold!Moves
<1>1. lock \in LockType
  BY DEF Inv, Sound
<1>2. deeds' = deeds /\ (lock' = lock \/ lock' = Entered(lock, "blocked"))
  BY DEF CompleteWrites, memory
<1>3. CASE lock' = lock
  BY <1>2, <1>3 DEF Hold!Moves
<1>4. CASE lock' = Entered(lock, "blocked")
  <2>1. Rung(lock.phase)' = "stuck"
    BY <1>1, <1>4, BlockedSticks
  <2> QED
    BY <1>2, <2>1 DEF Hold!Moves, Hold!Stick
<1> QED
  BY <1>2, <1>3, <1>4

LEMMA PressMoves ==
  ASSUME Inv, StartCirculation
  PROVE  Hold!Moves
<1>1. PICK read \in Readings :
        LET b == Built(gate, read) IN
        \/ Keep([b EXCEPT !.lock = Entered(@, "blocked")]) /\ deeds' = deeds
        \/ /\ b.lock.phase \in {"recirculation_ready", "normal_ready"}
           /\ Keep(b) /\ deeds' = deeds \cup {b.lock.phase}
  BY DEF StartCirculation
<1> DEFINE b == Built(gate, read)
<1>2. \/ Keep([b EXCEPT !.lock = Entered(@, "blocked")]) /\ deeds' = deeds
      \/ /\ b.lock.phase \in {"recirculation_ready", "normal_ready"}
         /\ Keep(b) /\ deeds' = deeds \cup {b.lock.phase}
  BY <1>1
<1>3. gate \in GateType /\ lock \in LockType
  BY DEF Inv, Sound
<1>4. /\ b = [gate |-> b.gate, lock |-> b.lock, ledger |-> b.ledger]
      /\ b.lock \in LockType /\ Move(lock, b.lock)
      /\ Known(gate, b.lock, b.ledger, press.pc, pump.pct, deeds)
  BY <1>3, BuiltLook
<1> HIDE DEF b
<1>5. CASE Keep([b EXCEPT !.lock = Entered(@, "blocked")]) /\ deeds' = deeds
  <2>1. lock' = Entered(b.lock, "blocked")
    BY <1>4, <1>5 DEF Keep
  <2>2. Rung(lock.phase)' = "stuck"
    BY <1>4, <2>1, BlockedSticks
  <2> QED
    BY <1>5, <2>2 DEF Hold!Moves, Hold!Stick
<1>6. CASE /\ b.lock.phase \in {"recirculation_ready", "normal_ready"}
           /\ Keep(b) /\ deeds' = deeds \cup {b.lock.phase}
  <2> DEFINE r == Rung(b.lock.phase)
  <2>1. lock' = b.lock /\ b.lock.phase \in Phases
    BY <1>4, <1>6 DEF Keep, LockType, Phases
  <2>2. r \in {"settled", "ramped"} /\ Hold!Press[r] = b.lock.phase
    <3>1. CASE b.lock.phase = "recirculation_ready"
      <4>1. r = "settled"
        BY <2>1, <3>1, RungOf
      <4> QED
        BY <3>1, <4>1 DEF Hold!Press
    <3>2. CASE b.lock.phase = "normal_ready"
      <4>1. r = "ramped"
        BY <2>1, <3>2, RungOf
      <4> QED
        BY <3>2, <4>1 DEF Hold!Press
    <3> QED
      BY <1>6, <3>1, <3>2
  <2>3. Rung(lock.phase) = r \/ OneHigher(Rung(lock.phase), r)
    <3>1. r # "stuck"
      BY <2>2
    <3> QED
      BY <1>3, <1>4, <3>1, MoveRung
  <2>4. Hold!Needs[r] \subseteq deeds
    <3>1. r \in DOMAIN Hold!Needs
      BY <2>2 DEF Hold!Needs
    <3> QED
      BY <1>4, <3>1, RungEarned DEF Known
  <2>5. r \in DOMAIN Hold!Press /\ Rung(lock.phase)' = r
    BY <2>1, <2>2 DEF Hold!Press
  <2>6. deeds' = deeds \cup {Hold!Press[r]}
    BY <1>6, <2>2
  <2> HIDE DEF r
  <2>7. Rung(lock.phase) = r \/ Hold!Rises(r)
    BY <2>3, <2>4 DEF OneHigher, Hold!Rises
  <2>8. Hold!OperatorPresses
    BY <2>5, <2>6, <2>7 DEF Hold!OperatorPresses
  <2> QED
    BY <2>8 DEF Hold!Moves
<1> QED
  BY <1>2, <1>5, <1>6

LEMMA SentMoves ==
  ASSUME Inv, CirculationWrites
  PROVE  Hold!Moves
<1>1. /\ lock \in LockType /\ Order(lock, press.pc, deeds)
      /\ PressInv(gate, lock, press.pc)
  BY DEF Inv, Sound
<1>2. deeds' = deeds
  BY DEF CirculationWrites
<1>3. lock.phase \in Phases
  BY <1>1 DEF LockType, Phases
<1>4. CASE UNCHANGED lock
  BY <1>2, <1>4 DEF Hold!Moves
<1>5. CASE Sent("blocked")
  <2>1. lock'.phase = "blocked"
    BY <1>1, <1>5 DEF Sent, LockType
  <2>2. "blocked" \in Phases /\ "blocked" \in Stuck
    BY DEF Phases, Active, Stuck
  <2>3. Rung(lock.phase)' = "stuck"
    BY <2>1, <2>2, RungOf
  <2> QED
    BY <1>2, <2>3 DEF Hold!Moves, Hold!Stick
<1>6. CASE press.pc = "switch" /\ Sent("low_flow_pending")
  <2>1. lock'.phase = "low_flow_pending"
    BY <1>1, <1>6 DEF Sent, LockType
  <2>2. "low_flow_pending" \in Phases
    BY DEF Phases, Active, Flowing
  <2>3. Rung(lock.phase)' = "low"
    BY <2>1, <2>2, RungOf
  <2>4. Rung(lock.phase) \in {"settled", "stuck"}
    BY <1>1, <1>3, <1>6, RungOf DEF PressInv, Stuck
  <2>5. Hold!Needs["low"] \subseteq deeds
    <3>1. "settling" \in deeds /\ "recirculation_ready" \in deeds
      BY <1>1, <1>6 DEF Order, Begun, Circling
    <3> QED
      BY <3>1 DEF Hold!Needs
  <2>6. Hold!Climb \/ Hold!Resume
    BY <1>2, <2>3, <2>4, <2>5 DEF Hold!Climb, Hold!Resume, Hold!Rises, Hold!Above, Hold!Rungs
  <2> QED
    BY <2>6 DEF Hold!Moves
<1>7. CASE press.pc = "normal_ready" /\ Sent("normal_pending")
  <2>1. lock'.phase = "normal_pending"
    BY <1>1, <1>7 DEF Sent, LockType
  <2>2. "normal_pending" \in Phases
    BY DEF Phases, Active, Flowing
  <2>3. Rung(lock.phase)' = "normal"
    BY <2>1, <2>2, RungOf
  <2>4. Rung(lock.phase) \in {"ramped", "stuck"}
    BY <1>1, <1>3, <1>7, RungOf DEF PressInv, Stuck
  <2>5. Hold!Needs["normal"] \subseteq deeds
    <3>1. "settling" \in deeds /\ "recirculation_ready" \in deeds /\ "low_flow" \in deeds
          /\ "normal_ready" \in deeds
      BY <1>1, <1>7 DEF Order, Begun, Circling
    <3> QED
      BY <3>1 DEF Hold!Needs
  <2>6. Hold!Climb \/ Hold!Resume
    BY <1>2, <2>3, <2>4, <2>5 DEF Hold!Climb, Hold!Resume, Hold!Rises, Hold!Above, Hold!Rungs
  <2> QED
    BY <2>6 DEF Hold!Moves
<1> QED
  BY <1>4, <1>5, <1>6, <1>7 DEF CirculationWrites

LEMMA TimeMoves ==
  ASSUME Inv, PhaseElapses
  PROVE  Hold!Moves
<1>1. lock \in LockType
  BY DEF Inv, Sound
<1>2. /\ lock'.phase = lock.phase
      /\ lock.phase \in {"settling", "low_flow"} \cup Pending
      /\ deeds' = IF lock.phase \in Pending THEN deeds ELSE deeds \cup {lock.phase}
  BY <1>1 DEF PhaseElapses, LockType
<1>3. CASE lock.phase \in Pending
  BY <1>2, <1>3 DEF Hold!Moves
<1>4. CASE lock.phase = "settling"
  <2>1. Rung(lock.phase) = "settling"
    BY <1>4, RungOf DEF Phases, Active, Waiting
  <2>2. Hold!TimePasses
    BY <1>2, <1>4, <2>1 DEF Hold!TimePasses, Hold!Timer, Pending
  <2> QED
    BY <2>2 DEF Hold!Moves
<1>5. CASE lock.phase = "low_flow"
  <2>1. Rung(lock.phase) = "low"
    <3>1. lock.phase \in Phases
      BY <1>1 DEF LockType, Phases
    <3> QED
      BY <1>5, <3>1, RungOf
  <2>2. Hold!TimePasses
    BY <1>2, <1>5, <2>1 DEF Hold!TimePasses, Hold!Timer, Pending
  <2> QED
    BY <2>2 DEF Hold!Moves
<1> QED
  BY <1>2, <1>3, <1>4, <1>5

LEMMA OthersMove ==
  ASSUME \/ StartedWrites \/ PlanWrites \/ Abort \/ Rearm \/ Brewday
         \/ Restart \/ HoldElapses
  PROVE  Hold!Moves
<1>1. CASE StartedWrites \/ PlanWrites \/ Abort \/ Rearm \/ Brewday
  <2>1. lock' = lock /\ deeds' = deeds
    BY <1>1 DEF StartedWrites, PlanWrites, Abort, Rearm, Brewday, Moves, memory
  <2> QED
    BY <2>1 DEF Hold!Moves
<1>2. CASE Restart
  <2>1. lock'.phase = None /\ deeds' = {}
    BY <1>2 DEF Restart, NoLock
  <2>2. Rung(None) = "none"
    BY RungOf DEF Phases
  <2> QED
    BY <2>1, <2>2 DEF Hold!Forget, Hold!Moves
<1>3. CASE HoldElapses
  <2>1. lock' = lock /\ deeds' \in {deeds, deeds \cup {"held"}}
    BY <1>3 DEF HoldElapses
  <2> QED
    BY <2>1 DEF Hold!HoldIsOver, Hold!Moves
<1> QED
  BY <1>1, <1>2, <1>3

(* The pump follows: what it may do is what the writes keep to, and a      *)
(* press in progress tells the rung that it was for.                       *)
LEMMA PumpFollows ==
  ASSUME Inv, Inv', KeepsToHold
  PROVE  Hold!Flows
<1>1. /\ lock \in LockType /\ Order(lock, press.pc, deeds)
      /\ HoldInv(lock, ledger, press.pc, deeds) /\ PressInv(gate, lock, press.pc)
      /\ pump \in [on : BOOLEAN, pct : Pcts]
  BY DEF Inv, Sound, DeviceTypes
<1>2. /\ lock' \in LockType /\ pump' \in [on : BOOLEAN, pct : Pcts]
      /\ HoldInv(lock', ledger', press'.pc, deeds')
      /\ PumpInv(lock', press'.pc, pump'.pct)
  BY DEF Inv, Sound, DeviceTypes
<1>3. lock.phase \in Phases /\ lock'.phase \in Phases
  BY <1>1, <1>2 DEF LockType, Phases
<1>4. /\ pump.pct \in Nat /\ pump'.pct \in Nat /\ pump.on \in BOOLEAN /\ pump'.on \in BOOLEAN
      /\ Flow(pump) = (IF pump.on THEN pump.pct ELSE 0)
      /\ Flow(pump)' = (IF pump'.on THEN pump'.pct ELSE 0)
  BY <1>1, <1>2 DEF Pcts, Flow
<1>5. Rung(lock.phase)' \in Hold!Slow => Flow(pump)' <= 1
  <2>1. Rung(lock.phase)' \in Hold!Slow => pump'.pct <= 1
    BY <1>2, <1>3, RungOf DEF Hold!Slow, PumpInv
  <2> QED
    BY <1>4, <2>1
<1>6. ASSUME Rung(lock.phase) \in Hold!OnLadder, Rung(lock.phase)' \in Hold!OnLadder,
             Flow(pump)' > Flow(pump)
      PROVE  /\ Rung(lock.phase) \in DOMAIN Hold!Press
             /\ Hold!Press[Rung(lock.phase)] \in deeds
  <2>1. \A p \in Phases : Rung(p) \in Hold!OnLadder => p \in Waiting \cup Flowing
    BY RungOf DEF Hold!OnLadder, Hold!Above, Waiting, Flowing
  <2>2. Holds(lock) /\ Holds(lock')
    BY <1>1, <1>2, <1>3, <1>6, <2>1 DEF HoldInv, Begun, Holds
  <2>3. (~pump.on /\ pump'.on) \/ pump'.pct > pump.pct
    BY <1>4, <1>6
  <2>4. Pressed
    BY <2>2, <2>3 DEF KeepsToHold
  <2>5. lock.phase # "blocked"
    BY <2>2 DEF Holds, Waiting, Flowing
  <2>6. CASE press.pc \in {"recirculation_ready", "switch"}
    <3>1. Rung(lock.phase) = "settled"
      BY <1>1, <1>3, <2>5, <2>6, RungOf DEF PressInv
    <3>2. "recirculation_ready" \in deeds
      BY <1>1, <2>6 DEF Order, Circling
    <3> QED
      BY <3>1, <3>2 DEF Hold!Press
  <2>7. CASE press.pc = "normal_ready"
    <3>1. Rung(lock.phase) = "ramped"
      BY <1>1, <1>3, <2>5, <2>7, RungOf DEF PressInv
    <3>2. "normal_ready" \in deeds
      BY <1>1, <2>7 DEF Order
    <3> QED
      BY <3>1, <3>2 DEF Hold!Press
  <2> QED
    BY <2>4, <2>6, <2>7 DEF Pressed
<1> QED
  BY <1>5, <1>6 DEF Hold!Flows

(* The interlock implements the ladder: every refresh, press, late write,  *)
(* fault and tick of the clock is one of its steps or leaves it alone.     *)
THEOREM HoldImplemented == Spec => ImplementsMashHold
<1>1. Init => Hold!Init
  <2>1. Rung(None) = "none"
    BY RungOf DEF Phases
  <2> QED
    BY <2>1 DEF Init, Hold!Init, NoLock, Flow
<1>2. Inv /\ Inv' /\ [Next]_vars => [Hold!Next]_(Hold!holdVars)
  <2> SUFFICES ASSUME Inv, Inv', [Next]_vars
               PROVE  [Hold!Next]_(Hold!holdVars)
    OBVIOUS
  <2>1. CASE UNCHANGED vars
    <3>1. UNCHANGED <<lock, deeds, pump>>
      BY <2>1 DEF vars, memory, device
    <3> QED
      BY <3>1 DEF Hold!holdVars
  <2>2. CASE Next /\ ~UNCHANGED vars
    <3>1. Hold!Moves
      BY <2>2, LooksMove, ConfirmMoves, TickMoves, CompleteWritesMove, PressMoves,
         SentMoves, TimeMoves, OthersMove
         DEF Next, Writes
    <3>2. KeepsToHold
      BY <2>2, StepInv
    <3> QED
      BY <3>1, <3>2, PumpFollows DEF Hold!Next
  <2> QED
    BY <2>1, <2>2
<1> QED
  BY <1>1, <1>2, Invariance, PTL DEF Spec, ImplementsMashHold, Hold!Spec

(* What the ladder itself promises, however it is implemented: whoever is  *)
(* on a rung has earned it and all of those below it since the Complete.   *)
THEOREM RungsAreEarned == Hold!Spec => []Hold!EarnedSoFar
<1>1. Hold!Init => Hold!EarnedSoFar
  BY DEF Hold!Init, Hold!EarnedSoFar, Hold!Needs
<1>2. Hold!EarnedSoFar /\ [Hold!Next]_(Hold!holdVars) => Hold!EarnedSoFar'
  <2> DEFINE r == Rung(lock.phase)
             s == Rung(lock.phase)'
  <2> SUFFICES ASSUME Hold!EarnedSoFar, [Hold!Next]_(Hold!holdVars)
               PROVE  s \in DOMAIN Hold!Needs => Hold!Needs[s] \subseteq deeds'
    BY DEF Hold!EarnedSoFar
  <2>1. r \in DOMAIN Hold!Needs => Hold!Needs[r] \subseteq deeds
    BY DEF Hold!EarnedSoFar
  <2> HIDE DEF r, s
  <2>2. s \in {"settling", "stuck", "none"} => s \notin DOMAIN Hold!Needs
    BY DEF Hold!Needs
  <2>3. CASE Hold!Begin \/ Hold!Stick \/ Hold!Forget
    BY <2>2, <2>3 DEF Hold!Begin, Hold!Stick, Hold!Forget, s
  <2>4. CASE Hold!Climb \/ Hold!Resume
    BY <2>4 DEF Hold!Climb, Hold!Resume, Hold!Rises, s
  <2>5. CASE Hold!OperatorPresses
    <3>1. s \in DOMAIN Hold!Needs /\ (r = s \/ Hold!Needs[s] \subseteq deeds)
      BY <2>5 DEF Hold!OperatorPresses, Hold!Rises, Hold!Press, Hold!Needs, r, s
    <3>2. deeds \subseteq deeds'
      BY <2>5 DEF Hold!OperatorPresses
    <3> QED
      BY <2>1, <3>1, <3>2
  <2>6. CASE \/ Hold!TimePasses \/ Hold!HoldIsOver
             \/ UNCHANGED <<Rung(lock.phase), deeds>> \/ UNCHANGED Hold!holdVars
    <3>1. s = r /\ deeds \subseteq deeds'
      BY <2>6 DEF Hold!TimePasses, Hold!HoldIsOver, Hold!holdVars, r, s
    <3> QED
      BY <2>1, <3>1
  <2> QED
    BY <2>3, <2>4, <2>5, <2>6 DEF Hold!Next, Hold!Moves
<1> QED
  BY <1>1, <1>2, PTL DEF Hold!Spec
=============================================================================
