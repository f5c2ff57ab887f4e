# BrewAssistant: TLA+ models and proofs

BrewAssistant (`custom_components/brewassistant`, BA below) is a Home Assistant
integration that watches a brew day and, when the operator lets it, regulates a
BrewZilla boiler (target temperature, heater, pump, utilisation), a fermentation
chamber, a Grainfather GF30 fermenter and a kegerator. It does not own the
recipe: that comes from a RAPT profile which runs on the BrewZilla ("RCL
Brewing"), from the Brewfather brew tracker, or from a plan that the operator
enters ("Manual Brewday"). What can go wrong is therefore mostly about
*authority*: who owns the recipe now, may BA write to the device now, and is
what it is about to write still what the operator agreed to.

Everything runs on Home Assistant's single event loop. There are no threads to
interleave, but every `await` is a point where any other handler may run, an
audit record or a service call may take seconds or fail, and Home Assistant may
stop. The models split a handler into one action per stretch between two awaits
and let every other handler run in between.

Contents: [inventory](#inventory), [modules](#modules-and-the-code),
[runs](#runs-bounds-and-what-they-show), [fairness](#fairness),
[proofs](#proofs), [disagreements](#where-code-and-documents-disagree),
[observations](#observations-without-a-run-of-their-own),
[limits](#not-modelled-and-why), [plan](#plan).

## How to run

    tlc -workers 2 -config StartGate.cfg MCStartGate.tla      # any run below
    tlapm StartGate_proofs.tla                                # any *_proofs module

## Inventory

Paths are relative to `src/custom_components/brewassistant/`. PROJECT.json lists
every part with its files and whether it is modelled.

**READ-ONLY switch, START, ABORT latch, REARM** (`brewday/brewday_start_preflight.py`,
`brewzilla/brewzilla_observe_only.py`, `brewday/brewday_operator_abort.py`,
`button.py`). *State*: the observe-only store, the visible switch, the START
transaction, the abort latch in memory and in storage, the lockout until a time.
*Hard*: START awaits twice in the middle of itself and the operator, ABORT and the
source move meanwhile; a storage write may be lost by a crash. *Correct when*: BA
sends no positive command between an ABORT, a switch to READ-ONLY or a restart and
the next START that validated it; the switch tells the truth.

**Source authority and ABORT's device commands**
(`brewzilla/brewzilla_source_authority_runtime.py`, `_contract.py`,
`brewzilla_emergency_abort.py`, `brewzilla_abort_lockout_final_guard.py`).
*Operations*: the last check of every write; nine OFF commands in a fixed order,
each of which may fail, the profile's end, reassertion. *Correct when*: what an OFF
reached stays off, nothing in flight turns it on again, and the latch comes.

**Brewday source arbitration** (`brewday/brewday_execution_mode.py`,
`brewday_runtime.py`, `rapt_profile_runtime.py`,
`brewzilla/brewzilla_rapt_link_loss_guard.py`). *State*: retained snapshots, the
fallback with its origin, the reconnection lock, their delayed copy on disk, the
RAPT store and its stop guard. *Hard*: OFF can mean stopped, lost, restored or old;
a session may be replaced between two polls. *Correct when*: one session is accepted
at a time, another one takes over only after a verified STOP or an acknowledgement,
and a restart never forgets which recipe BA followed.

**Supervised apply** (`supervised_apply.py`, `brewzilla/brewzilla_supervised_*.py`,
`brewzilla_phase_authority.py`). *State*: one pending plan, one retained rejection,
one grant, one readback grace, shared by four sources of plans. *Hard*: CONFIRM works
on a copy across three awaits; every source may overwrite the slot. *Correct when*:
what is executed is still live, a grant is never left over, an unselected provider
asks for nothing, and a plan that stays wanted is asked for in the end.

**The mash** (`brewzilla_mash_in_*.py`, `brewzilla_physical_mash_interlock.py`,
`brewday/brewday_physical_timing.py`; `brewzilla_heat_strike_*.py`,
`brewzilla_orchestration.py` and some twenty guards wrapped around it). *State*:
gate, presses, settling, the interlock's hold, the ledger of ramps and holds; the
strike latch, the local-control lease, the trusted target. *Hard*: two buttons
pressed while a tick's writes are on their way; guards each of which takes back
what another asked for. *Correct when*: the hold is let go only when everything
that must lie before it has happened; a quiet state starts nothing; the strike's
target stands until the brewer has come.

**Thermometers, advice, equipment** (`brewzilla_temperature.py`,
`brewzilla_learning.py`, `brewzilla_equipment_learning.py`). *Correct when*: the
probe that was taken for the mash stays it while it is usable and is replaced by no
other; APPLY writes only
what is advised at that moment; stored evidence survives saves, loads and restarts.

**RAPT steps: sparge, boil, cooling** (`brewzilla_rapt_sparge_controller.py`,
`brewzilla_boil_pump_guard.py`, `brewzilla_cooling_mode_gate.py`). *Correct when*: heat
in a sparge needs this session's attested lift and a CONFIRM; the pump starts in a
boil only with the chiller armed in that boil.

**BrewTracker and Manual Brewday** (`brewday/brewday_runtime_core.py`,
`brewfather_ownership.py`, `brewday_refresh*.py`, `manual_brewday_*.py`). *Correct
when*: between two snapshots BA is where the tracker is; only a played batch owns
the hot side; a late snapshot is still asked for; a timer's rest is its length less
the time in progress.

**Brewday log** (`brewday/brewday_audit*.py`). *Correct when*: a brewday has one log:
a live log is not rotated away and an armed session gets its own. That a log
has one brewday does not hold (`brewday_next`, below).

**Kegerator** (`kegerator/guard.py`, `fan_control.py`, `climate_supervisor.py`,
`temperature_preset.py`, `control_policy.py`). *Correct when*: the compressor keeps its
minimum times and the fan its afterrun over restarts and lost readings; the last
stale call is not what stays.

**HLT simulation, fermentation tracking, GF30** (`hlt/`, `fermentation_tracking/`,
`fermentation_chamber/`, `grainfather_fermenter/`). *Correct when*: the dashboard shows
the simulator that lives; the beer is ready only by readings that say so; the GF30's
evidence rests on different reports of the Pill.

**Interactions.** The coordinator tick builds the brew-day snapshot (source
arbitration), the orchestration snapshot (guards) and applies it; every write passes
source authority, then the ABORT guard, then Home Assistant. Buttons and services
are other tasks on the same loop. Shared state is `hass.data`; nothing else protects
it than the absence of an `await`.

## Modules and the code

| module | models |
|---|---|
| `SourceArbiter` | abstract: what BA promises about the external owner of a brew |
| `WriteAuthority` | abstract: what BA promises about its hands on the BrewZilla |
| `MashHold` | abstract: what BA promises about the mash bed, as a ladder from settling to the release |
| `StartGate` | READ-ONLY, START, ABORT's latch and lockout, REARM, ticks, restart; extends `SourceArbiter`, implements `WriteAuthority` |
| `RaptSource` | RAPT profile and store, context, manual plan, disk; implements `SourceArbiter` |
| `EmergencyAbort` | ABORT's single commands, a handler of BA's between two of its writes, write scopes, enforcement |
| `SupervisedApply` | the confirmation slot, CONFIRM, CANCEL, tick, providers |
| `MashFlow` | mash-in gate, readiness, presses, interlock, ledger, safe-down bridge; implements `MashHold` |
| `HeatPlan` | one mash tick from the plan through every guard to its writes; strike, lease, trust |
| `RaptSteps` | sparge controller, boil pump guard, cooling gate |
| `BrewTracker`, `ManualBrewday` | inference, ownership and refresh; the Manual engine |
| `BrewdayLog` | which file a row goes to: boundary guard, autostart, write lock |
| `MashProbe`, `LearningAdvice`, `EquipmentLearning` | thermometers; advice with APPLY/DENY; the equipment's record |
| `FermentationTracking`, `FermenterPreflight` | the fermentation's record; the GF30's pairs with the Pill |
| `KegeratorGuard`, `KegeratorClimate`, `KegeratorFan`, `PolicyRouter` | relay, thermostat, fan, and the policy that routes their commands |
| `HltSimulation` | simulator, row, figures, dashboard of the sparge water's heater |
| `ControllerBounds`, `BrewdayBounds`, `RecordBounds` | the constants that composed modules share, with their assumptions |
| `MC*` | instances for TLC; `MCStartGate`, `MCControllers` and `MCBrewday` compose several modules |
| `*_proofs` | theorems |

`RaptSource => SourceArbiter => (composed in) StartGate => WriteAuthority`: the
machinery that decides the source is checked once against four lines of promise, and
START is checked on top of that promise. So START's run stays small, and a change
to the arbitration has to break one of the two.

**Composition.** `MCControllers` and `MCStartGate` put parts that share no memory
into one run: a variable `part` says which one moves, each in an environment that
does whatever the others could. `MCBrewday` composes `BrewTracker`, `ManualBrewday`
and `RaptSteps` in the same way. The proofs start with the lemma that a step of the
whole is a step or a stutter of each part (`OnePart`, `OneAtATime`).

How state and actions correspond to the code, where it is not one to one:

- *StartGate*: a START is five program counters (`off`: it has called
  `switch.turn_off`; `verify`; `rollback`; `reassert`; `idle`). `offAudit` is a
  turn_off that armed the store and awaits its audit record. `mustStart` is a history
  variable. `BaWrite` checks and issues in one step, because `_write_allowed` and
  the service dispatch have no await between them.
- *RaptSource*: the profile is one of six classes of evidence with a session and a
  step. `Observe` is one whole build of the brew-day snapshot, in the code's order.
  `SaveContext` follows `pending` two seconds later.
- *EmergencyAbort*: a handler is the set of writes it has yet to do and the one it
  awaits. `Proceed` is what happens between two awaits, through the final guard, the
  source authority and the enforcement, in that order; a write takes effect at any
  moment while it is awaited, or never. A utilisation above zero counts as on.
- *SupervisedApply*: a BrewZilla plan is an intent and the positive actions; the
  identity of the others leaves the value out (`SameId`). CONFIRM is `record`,
  `running`, `closing`; a tick is one step up to its first await.
- *MashFlow*: a press is a task with one counter per awaited write; a plan is built
  and written at different moments. The ledger keeps an unfinished ramp as the code
  does.
- *HeatPlan*: a plan is a record, a guard an operator from plan to plan, composed in
  the order of installation; `Tick` is the composition, the claim and the write.
  Files of the repository that no installer reaches (`*_freshness_guard`,
  `*_stale_safe_guard`, `heat_strike_near_target_safety_guard`,
  `heat_strike_pump_mix_guard`, `heat_strike_target_clamp_guard`,
  `strike_ready_hold_guard`, `batch_context_guard`, `mash_in_target_patch`, the first
  `local_control_lease`, `mash_in_started_guard`, `mash_in_state_guard`) are not in it.
- *MashProbe* has both resolvers: the first, with the latch, is what modules
  imported before the patch see (`brewzilla_learning.py:19`,
  `brewzilla_hot_side_contract.py:32`), the second what the others see. Inside the
  first one the latch's fallback is replaced by the fail-passive guard's answer, no
  temperature (`brewzilla_fail_passive_guard.py:205-226`, `InGap`).
- *KegeratorClimate*: every task is the list of calls that it still has to make.

## Runs, bounds and what they show

| run | instance | states | shows |
|---|---|---|---|
| `start_gate` | two sessions; 5 places of the probe; 4 scenes, 2 devices; 3 views; 3 pairs | 715 787 | START and READ-ONLY; the records beside them |
| `rapt_source` | two sessions of two steps | 515 327 | arbitration implements `SourceArbiter`; the followed recipe survives |
| `supervised_apply` | two plans of one intent, a second intent, one CONFIRM, two targets | 458 880 | what a CONFIRM executes, asks and leaves |
| `emergency_abort` | three outputs, two plans, one handler | 903 306 | what ABORT turned off stays off |
| `mash_flow` | a ramp of 3 and a hold of 1, one fault | 693 098 | implements `MashHold`; the order of the mash, late writes |
| `controllers` | minimum times 2 and 1, afterrun 2, two presets, four readings, clock 5 | 344 662 | relay, thermostat, fan, mash tick, HLT |
| `brewday` | two batches, two sessions, burst 1, window 1, one fault | 275 540 | tracker, Manual engine, RAPT steps |
| `brewday_log` | three files, two tasks, one fault | 328 761 | a brewday keeps its one log |
| `abort_race`, `mash_hold`, `brewday_next`, `probe_unseen` | as the above | | disagreements, below |

- `start_gate`: **HeldUntilStart** is the reason behind **WriteNeedsStart**: from the
  ABORT, the switch or the restart until the next validated START the READ-ONLY store,
  the latch or a running lockout holds BA. **ShownReadOnlyIsReadOnly**: with no switch
  handler at work, READ-ONLY shown means READ-ONLY. **ImplementsWriteAuthority**.
  **ProbeIsKept**: the probe that was taken for the mash is it while usable, nothing else
  is while it is not, and an alias of BrewZilla's own is never taken. **AdviceIsTrue**: a rate is of one probe, APPLY sets
  out to write only what is advised then and was not put off, the notification shown can
  be withdrawn. **EvidenceIsEarned**: stored observations survive, observational
  evidence rests on different reports, the beer is ready only by readings that say so.
- `rapt_source`: **ImplementsSourceArbiter**, **OnlyTheSameRecipeComesBack**,
  **FollowedRecipeIsKept**.
- `emergency_abort`: **StaysOff**, **NothingNewAfterAbort** (both except what the
  operator does himself: a profile started at the controller, APPLY on an advice),
  **AbortLatches**.
- `supervised_apply`: **GrantOnlyWhileServed**, **OnlyTheSelectedProviderAsks**,
  **ConfirmedPlanIsLive**, **EventuallyAsked**.
- `mash_flow`: **ImplementsMashHold**: from Complete to the release no rung of the
  ladder is passed over or gone down, each is earned by time or by a press on the one
  below, and the pump never runs ahead. **ReleasedInOrder**: the hold is let go only
  after settling, both presses with the ramp between, and the whole hold.
  **WritesKeepToHold**: no late write passes the hold, and only a press starts the pump.
  It excuses Complete's own step down (see the observations), and its target clause is
  for a Brewfather mash: an interlock left over from an earlier brewday does not cap the
  target that Started sets for another source.
- `controllers`: **TimesAreKept**, **SupervisedTargetSettles**, **HeatKeepsItsBounds**:
  strike heat is capped, and over two degrees the heater is off unless the lease leaves
  the BrewZilla alone at its zero; the strike's target is held until the brewer has
  come; a quiet state stays quiet. Also **DashboardIsTrue**.
- `brewday`: **InferenceIsTrue**, **OwnedOnlyAfterPlay**, **StepTimeIsKept**,
  **AwaitedComes**, **HeatIsAttested**, **PumpNeedsItsBoil**, **StepsSettle**.
- `brewday_log`: **OneBrewdayOneLog**.

Each has at least one mutant in PROJECT.json: a plausible slip in one definition (a
dropped guard, a missing reset) under which TLC finds it violated. The mutated
forms stand in the modules, marked "Mutant", and nothing uses them.

**Why the bounds are enough.** Two RAPT sessions give the interesting case, one that
replaces another; two steps tell a change of step from a change of session. One
START, ABORT and REARM may each be in progress, all overlapping. Two plans of one
intent tell "this plan was rejected" from "this source was rejected"; two targets
move the GF30 under a CONFIRM. A switch that the RAPT scope keeps from BA, one that
it does not and a utilisation are one output of each kind the guards tell apart.
Periods and limits are scaled down to the least that keeps their order: history
limits 1000, 200, 120 to 3, 3, 2, a save every fifth time to every third, twenty
refreshes to one, minimum times to 2 and 1 ticks. `MaxFaults` is 1: one loss, failed
call or restart at any moment; the proofs are for any number. Temperatures are the
few that lie on either side of each threshold. What is counted without end in the
code (clock, changes, sessions, files) is capped by a named constant, and reaching
the cap is a step that only waits; so only `brewday` and `brewday_log`, whose
operator really may stop, switch the deadlock check off.

## Fairness

- `supervised_apply`: the coordinator keeps ticking, what a tick or a CONFIRM awaits
  answers or raises, and the readback grace, 240 s of clock, runs out.
- `emergency_abort`: ABORT's own continuation.
- `controllers`: the thermostat's own tasks (boot, reselection, the supervisor's timer
  and each awaited call). The others are safety only.
- `brewday`: time, the refresh timer and the answers of services; a tick of BA and the
  writes of a step. Nothing of the operator.
- `brewday_log`: scheduled tasks run and writes end (weak fairness); the write lock is
  handed to each that waits for it (strong fairness on each kind), which is what
  asyncio's first-in lock does.
- `start_gate`, `rapt_source`, `mash_flow`: none. `mash_hold` runs under `SteadySpec`:
  the refreshes go on and read the held temperature, awaited writes end, the phase and
  the hold elapse.
- `probe_unseen` and `abort_race` violate safety properties and need none.

Where a liveness property is of one part of a composed run (`AwaitedComes`,
`StepsSettle`, `SupervisedTargetSettles`), the fairness is of that part's own actions.

## Proofs

TLAPS proves 45 listed theorems in eight modules, for every value of the constants:
any sets of sessions, plans, readings, outputs and tasks, any bounds. In each module
the order is the same: lemmas on operators, the inductive invariant, one lemma per
action (or per group that leaves the same things alone), one theorem per property.
TLC checked each strengthening on the run's instance before it was proved.

**`StartGate_proofs`** (on `MCStartGate`; `GateBesideRecords` carries the START gate's
theorems over to the run that also has the records). `TypeCorrect`. `StartBeforeWrite`
rests on the inductive `HeldUntilStart` (`HeldThroughout`): "no write without START" is
not inductive, because it says nothing of the moments when nothing is written; what is
preserved is that something holds BA at each of them, also in the hand-over from the
lockout to the latch, the one place where `~AbortMayOutlast` is used.
`DisplayNeverClaimsReadOnly`. `AuthorityImplemented`: initial states map to initial
states, every action to the abstract step beside it or a stutter. `ProbeKept`: the probe
that was taken is exactly what the resolver's lock remembers. `AdviceTrue`: every
pending advice and every stored sample is of the probe it names. `EvidenceEarned`: the
GF30's pairs are of distinct reports, ordered, and cover the time they claim.
`EquipmentRemembered`: what is only in memory is the remainder of a count since the last
multiple of `SaveEvery`, and no save is skipped over a multiple; the segments add up
because a record adds one element to the set of what they count. `ReadyEarned`: the
record is sorted, its SGs are those of the settings in force, and what was accepted is
in it or the record is full of what is no older. The lemmas it rests on say what merging
by time and choosing a subsequence do; the code's `sorted` is modelled by where a record
goes, because the laws of a recursive sort need induction. `AllEvidenceEarned` puts the
three together, `AllTypes` the types of the gate and the records. `RecordTypes`: an
advice's heat is within 0..100 through every band, bias and rounding, and a rate is over
a positive time because a thermometer's reports are never earlier than what was heard of
it.

**`SupervisedApply_proofs`**, any number of overlapping CONFIRMs. `TypeCorrect` says that a
CONFIRM in progress holds a plan; without it nothing below goes through.
`NoGrantLeftOver`: an action keeps or drops the grant while every served CONFIRM goes on
being served, or it is the one that issues it. `SelectedProviderAsks`: the slot
changes to a provider's plan only in that provider's own evaluation. `ExecutedPlanIsLive`:
only two actions lead from the record to execution, and both look.

**`EmergencyAbort_proofs`**, any number of handlers. `TypeCorrect`, `TurnedOffStaysOff`,
`NothingNew` by `Hold /\ Quiet`. *Quiet*: nothing positive is on its way to an output that
an OFF reached; `StaysOff` alone does not survive the step in which a write takes
effect. *Hold*: what keeps a handler from issuing one, the lockout, then the latch, then,
after REARM, READ-ONLY. `HandlerMoves` reduces the ways a handler can move to one sentence.

**`RaptSource_proofs`**. `TypeCorrect`, `RecipeSurvives`, `SameRecipe`, and
`ArbiterImplemented`, step by step. The invariant adds to the types: accepted sessions
are known ones; what was let go is not accepted; a live session nobody acknowledged is
behind the lock; a fallback carries the recipe that was last followed; what is
followed is on disk or about to be.

**`Brewday_proofs`** (on `MCBrewday`; `OneAtATime` splits a step between the parts).
`TypeCorrect`. `TimersKept`: pauses, handoffs and returns move time between "in
progress" and "rest" without losing any; the engine's active step is one of the
plan's, for which the least step that is left is found by well-founded minimum
(`NaturalsInduction`), since the code looks for the next one. `OwnedAfterPlay`: the bursts
of the refresh and the latch belong to the batch that was played. `HeatAttested`,
`PumpInItsBoil`: a plan, a grant and a write on its way each name the session and the
lift, or the boil, that they were decided in. `InferenceHolds`: the invariant says more
than the property. Unless the tracker has paused or changed stage since, it is where
the snapshot put it, less the snapshot's age; a batch that was left is never brewed
again; and the tracker's own step is the one whose time has come, which is where
the order of the recipe's steps is needed.

**`MashFlow_proofs`**. `TypeCorrect`, `ReleaseInOrder`, `WritesKept`, `HoldImplemented`.
The invariant has an order of the phases, what a running hold, a completed one, a press
in progress and a pump at work each presuppose, and a cap: a write on its way was
decided under the hold that is still there. The refinement of `MashHold` rests on the
same invariant: one lemma says how a look moves the interlock on the ladder
(`MoveRung`), one that whatever rung it is on is earned (`RungEarned`), one per group of
actions which abstract step it is, and `PumpFollows` that the pump's part follows from
`WritesKept` and the press in progress. `RungsAreEarned` is a theorem of the ladder
alone.

**`Controllers_proofs`** (on `MCControllers`). `LastChangedIsReal`, `TimesKept`: what
`last_changed` tells never exceeds the truth; what is left of the afterrun and the time
since the compressor together cover the whole afterrun. `TypeCorrect`, with three awaited
calls per task at most. `DashboardTrue`: figures belong to the session they name and
the state shown to the simulator that lives. `QuietStaysQuiet`: for every guard of
the mash tick one lemma, that it keeps the target, asks for no write that was
not asked for and unblocks only what it lets be; their composition is what the
tick writes. `StrikeHeld`: as long as the strike is owed the latch is at least the
strike's target. `StrikeHeatCapped` goes along the guards again: only the strike's own
plan is marked clean, what it wants is at most the cap, and each later guard keeps a
clean plan at the cap or marks it (blocked, tapered, local) as not its own, so what is
written of a clean plan is capped whichever apply claims it. `HeatKept` joins the three.
The proof corrected the property: under a lease BA asks for nothing, so
a heater that the operator left on at 0 % stays on at 0 % also over two degrees; the
property now says what is promised there (no heat) apart from what is promised under
BA's own control (the heater off).

**`BrewdayLog_proofs`**. `TypeCorrect`: 2 checks + starts + rows never exceed twice the
tasks allowed, so every counter keeps its bound. `LiveLogKept`: a guard about to rotate has
an armed boundary, and a log with a live owner has none, no start waiting and a
last row that is busy.

**Assumed.** The named ASSUMEs of the modules, which TLC evaluates in the runs: types of
the constants, and that `None` and `NoSession` are none of the values. Beyond them a few
theorems have a hypothesis of their own: `StartBeforeWrite`, `HeldThroughout` and
`AuthorityImplemented` that ABORT's device calls do not outlast the 600 s lockout;
`InferenceHolds` that a recipe's steps begin one after the other, or two together of
which the first waits (`TellsApart`; without it the time left does not determine the
step; the instance's recipe is such a one); and `StrikeHeld` (with `HeatKept`, which
contains it) that no later ramp's target lies below the strike's: a mash-out, a mash
step or a boil after the strike is above it in any ordinary recipe, but the code does
not ask for it, and with a lower one the latch does move down.

**Model-checked only, and why.**
- Liveness (`SupervisedTargetSettles`, `EventuallyAsked`, `AbortLatches`, `AwaitedComes`,
  `StepsSettle`, the "gets a log" part of `OneBrewdayOneLog`): TLAPS does not reason
  about fairness and ENABLED.

## Where code and documents disagree

Four runs show behaviours that a comment or document of the repository excludes;
PROJECT.json quotes the lines.

1. `abort_race`: a tick that ABORT overtook reasserts OFF through source authority, which
   does nothing once ABORT has latched: under Brewfather or Manual the output stays on.
2. `mash_hold`: READY is given within 1.0 °C of the strike and Started lowers the target,
   but the ledger completes the strike ramp only at strike - 0.3 °C and keeps it: the hold
   is never timed and the interlock never lets go.
3. `brewday_next`: a boundary armed for one file stays armed when the autostart rotates;
   the next brewday is then written to the finished one's file.
4. `probe_unseen`: while the owned probe is lost the mash has no temperature, as meant,
   but the fail-passive guard looks at the resolver that has no lock and stays silent;
   after Mash-In the advice falls back on BrewZilla's own thermometer, which then decides
   that the target is reached. Before Mash-In the hot-side contract prevents it.

## Observations without a run of their own

*Authority.* If ABORT's device calls outlast 600 s, ticks may write before the latch.
While the RAPT stop guard stands each build clears a Brewfather fallback. A verified STOP
during an outage leaves the primed fallback plan running. The RAPT session that
START attested may be replaced after a verified STOP and is written to without a new
START. A failed START's rollback reads READ-ONLY once
(`brewday_start_preflight.py:389-391`). The service that would release the stop guard is
refused because of it (`manual_brewday_access.py:40`). Once the latch is up no tick enforces
OFF (`brewzilla_source_authority_runtime.py:351-360`).

*Supervised apply.* A CONFIRM of the chamber's plan that awaits its record still writes
after the GF30 was selected. A plan without an executor is always recorded
as not executed. There is one retained rejection, so another source's plan erases it.

*Mash.* `_safe_down_target` (`brewzilla_mash_in_complete_safe_down_guard.py:203`) compares
before the awaited pump writes, and Complete's step down may then raise the target
past the hold; `WritesKeepToHold` leaves that press out. Under Manual the hold is never
released. A lost mash probe keeps the present utilisation although
`brewzilla_hot_side_contract.py:113-140` says that positive heat is blocked. A Manual pause
with a plan target 2 °C or more below the device's stays "blocked", so safe-down never
runs. A restart, or one build that cannot be read, loses the strike latch. Hold
maintenance writes while the BrewZilla is disconnected.

*Tracker, Manual, log.* Two batches of identity "unknown" share the play latch; a recipe
without a Start marker counts as started. The last step's pause() has no guard: COMPLETED,
PAUSED, RUNNING brings it back; a primed step of unknown length never runs; in a
fallback every mutating service is refused. Brewfather's Planning with an armed
boundary rotates twice (`CHANGELOG.md:640` says it is avoided); RAPT brewdays have no
session kind; a row may follow a stop or clear, because the tick looks before the lock.

*Boil and cooling.* In `awaiting_lift` BA can never switch the heater off, although
`docs/source-scoped-brewing-fermentation-ownership-2026-09-19_sv.md:30` says so.

*Thermometers.* Two resolvers may disagree; a restart, a resync or an unverified
source drops the lock; `verified` is never reset between brewdays.

*Advice and equipment.* APPLY and DENY rebuild first and may act on another advice than
the card showed; after its await APPLY clears whatever is pending; a snooze is lost by a
restart. A look records without the duplicate check that
`docs/brewzilla-equipment-learning.md:101` promises (only the timer has it); on a fresh
model the timer fails until a look has recorded; `_suggestion` reads fields that no
snapshot has; a failed load leaves the setup "started" for ever.

*HLT, GF30, fermentation.* A clock that jumps more than 24 h refuses all later ticks.
A Pill value restored by a restart counts as fresh, and one report may be paired
with many entries. An implausible corrected gravity is accepted, shown and then dropped by
a restart; `start` with invalid settings first clears pending plans; a manual
observation dated in the future wins in Hybrid.

*Kegerator.* A CONFIRMed start ignores the minimum rest; a restoration sets 4.0
whatever preset is selected (`docs/kegerator-temperature-presets.md:20`).

## Not modelled, and why

- Coordinator and entities, cooling and wort cooling, carbonation, configuration,
  translations, dashboards, the temperature filter: no protocol of their own, or
  formulas over floats. Where they decide a branch, the branch is a choice.
- `StartGate` has the RCL-assist authority only; the scopes of all sources are in
  `EmergencyAbort`. ABORT is not in `RaptSource`: nothing is built while it is latched.
  START's telemetry checks are refusals at any moment.
- `EmergencyAbort` leaves out the target temperature, a restart (`StartGate` has it),
  handlers that only send OFF and the loss of Brewfather.
- `brewday_runtime.py:197-202` is not reachable in the states of `RaptSource`.
- `SupervisedApply`: safe-down writes are the tick's await; the grace is for the whole
  plan; "the same action" is equality.
- `MashFlow`: one press at a time, short calls,
  no heater writes, a readback equals the device.
- `HeatPlan`: the operator's Manual target override is off, no owned control, the mode is
  "Real mash"; the gate's own plans are `MashFlow`'s; ticks are the only clock. The
  safe-state that `brewzilla_no_positive_gate.py:108-140` forces is left out: it only
  lowers outputs, which `OnlyDown` does plan by plan.
- `RaptSteps`: RAPT is the only source and only goes onward; calls land at their check;
  REARM and START are one step; READ-ONLY is `StartGate`'s.
- `MashProbe`: the whirlpool and hop stand are not told apart from other late steps, nor
  sparge and pre-boil from the mash; in Heat strike the latch counts as active.
- `HltSimulation`: unit of time 30 s, of power 100 W; heat losses and energy left out.
- `FermenterPreflight`: unit of time 15 min; rates and the dual-sensor status are display.
- `KegeratorGuard`: a relay's call lands at the decision; timers do not overlap
  themselves.
- Order of two `Store` objects that write the same file: Home Assistant's executor
  decides it.

## Plan

1. Refine further: the single writes of `EmergencyAbort` as steps of `WriteAuthority`;
   `HeatPlan` against `MashHold`, extended by what each phase permits the heater.
2. Compose `HeatPlan` with `MashFlow`, where their state spaces allow it.
