--------------------------- MODULE KegeratorGuard ---------------------------
(***************************************************************************)
(* The legacy kegerator guard: it reads the air and switches the           *)
(* compressor's relay, with a minimum time on and off. Two timers run it,  *)
(* the integration's watchdog and its own switch's, without a lock; a run  *)
(* that has to restore the climate awaits that before it reads the air.    *)
(* What it wants goes through the policy router, and may wait in the slot  *)
(* for the operator's CONFIRM. The thermostat and people switch the relay  *)
(* too, and Home Assistant may lose it.                                    *)
(***************************************************************************)
EXTENDS ControllerBounds, PolicyRouter

Air == {"floor", "stop", "band", "start"}   \* <= 1.0, <= 3.4, between, >= 4.8
Commands == {"on", "off"}
Longest == IF MinOn > MinOff THEN MinOn ELSE MinOff

VARIABLES
    enabled,    \* the guard's switch and its runtime flag
    saved,      \* the switch's state that a restart restores
    policy,     \* the section's policy
    unlocked,   \* its direct unlock
    pending,    \* the guard's command in the supervised slot
    confirming, \* the command of a CONFIRM that awaits its record
    relay,      \* the compressor's relay
    heard,      \* Home Assistant has a state of it
    elapsed,    \* time since that state changed (last_changed), capped
    since,      \* time since the relay itself switched, capped
    air,        \* the air temperature; None when it is unavailable
    awaiting    \* the timers whose run awaits the climate's restoration

vars == <<enabled, saved, policy, unlocked, pending, confirming,
          relay, heard, elapsed, since, air, awaiting>>
knobs == <<enabled, saved, policy, unlocked>>
slot == <<pending, confirming>>
device == <<relay, heard, elapsed, since>>

Init ==
    /\ enabled = FALSE /\ saved \in BOOLEAN
    /\ policy = "direct" /\ unlocked = TRUE
    /\ pending = None /\ confirming = None
    /\ relay \in Commands /\ heard = TRUE /\ elapsed = 0 /\ since = 0
    /\ air \in Air
    /\ awaiting = {}

-----------------------------------------------------------------------------
(* Mutant: only the thermostat protects the compressor from short rests.   *)
CommandWithoutRest ==
    IF ~enabled \/ air = None \/ ~heard THEN None
    ELSE CASE relay = "on" /\ air = "floor"                    -> "off"
           [] relay = "on" /\ air = "stop" /\ elapsed >= MinOn -> "off"
           [] relay = "off" /\ air = "start" -> "on"
           [] OTHER                                            -> None

(* What the guard decides, build_kegerator_guard_snapshot.                 *)
Command ==
    IF ~enabled \/ air = None \/ ~heard THEN None
    ELSE CASE relay = "on" /\ air = "floor"                    -> "off"
           [] relay = "on" /\ air = "stop" /\ elapsed >= MinOn -> "off"
           [] relay = "off" /\ air = "start" /\ elapsed >= MinOff -> "on"
           [] OTHER                                            -> None

(* The relay is switched; Home Assistant notes when its state changed. A   *)
(* call for an entity that is unavailable reaches nothing.                 *)
Switch(to) ==
    IF heard /\ to # relay
    THEN relay' = to /\ elapsed' = 0 /\ since' = 0 /\ UNCHANGED heard
    ELSE UNCHANGED device

(* A run reads the air and requests what it decides.                       *)
Decide ==
    LET route == Routed(policy, unlocked)
    IN \/ Command = None /\ UNCHANGED <<device, pending>>
       \/ /\ Command # None
          /\ IF route = "executed" THEN Switch(Command) ELSE UNCHANGED device
          /\ pending' = IF route = "pending" THEN Command ELSE pending

(* A timer fires. With the guard on and the climate off, unavailable or    *)
(* missing, its restoration is awaited first.                              *)
Run(t) ==
    /\ t \notin awaiting
    /\ UNCHANGED <<knobs, confirming, air>>
    /\ \/ Decide /\ UNCHANGED awaiting
       \/ enabled /\ awaiting' = awaiting \cup {t} /\ UNCHANGED <<device, pending>>

Resume(t) ==
    /\ t \in awaiting /\ awaiting' = awaiting \ {t}
    /\ Decide
    /\ UNCHANGED <<knobs, confirming, air>>

(* The operator's switch. Turning it on runs the guard, as a timer does.   *)
SetGuard(to) ==
    /\ enabled # to /\ enabled' = to /\ saved' = to
    /\ UNCHANGED <<policy, unlocked, slot, device, air, awaiting>>

(* The section's policy and unlock. Read only empties the slot.            *)
SetPolicy(p) ==
    /\ policy # p /\ policy' = p
    /\ pending' = IF p = "read_only" THEN None ELSE pending
    /\ UNCHANGED <<enabled, saved, unlocked, confirming, device, air, awaiting>>

SetUnlock ==
    /\ unlocked' = ~unlocked
    /\ UNCHANGED <<enabled, saved, policy, slot, device, air, awaiting>>

(* CONFIRM awaits its audit record, then calls the service it recorded:    *)
(* the router's commands have no executor that looks again.                *)
Confirm ==
    /\ pending # None /\ confirming = None /\ confirming' = pending
    /\ UNCHANGED <<knobs, pending, device, air, awaiting>>

Confirmed ==
    /\ confirming # None /\ confirming' = None /\ pending' = None
    /\ Switch(confirming)
    /\ UNCHANGED <<knobs, air, awaiting>>

(* CANCEL, and the plan of another part of BA, which takes the slot.       *)
Displace ==
    /\ pending # None /\ pending' = None
    /\ UNCHANGED <<knobs, confirming, device, air, awaiting>>

-----------------------------------------------------------------------------
(* The thermostat, people and the compressor's own protection.             *)
Thermostat ==
    /\ relay' \in Commands \ {relay}
    /\ since' = 0 /\ elapsed' = IF heard THEN 0 ELSE elapsed
    /\ UNCHANGED <<knobs, slot, heard, air, awaiting>>

(* The relay's entity becomes unavailable, or comes back.                  *)
Blip ==
    /\ heard' = ~heard /\ elapsed' = 0
    /\ UNCHANGED <<knobs, slot, relay, since, air, awaiting>>

Weather ==
    /\ air' \in (Air \cup {None}) \ {air}
    /\ UNCHANGED <<knobs, slot, device, awaiting>>

Elapse ==
    /\ elapsed' = IF elapsed < Longest THEN elapsed + 1 ELSE elapsed
    /\ since' = IF since < Longest THEN since + 1 ELSE since
    /\ <<elapsed, since>> # <<Longest, Longest>>
    /\ UNCHANGED <<knobs, slot, relay, heard, air, awaiting>>

(* Home Assistant restarts: the guard is off until its switch is restored. *)
Restart ==
    /\ enabled' = FALSE /\ pending' = None /\ confirming' = None
    /\ elapsed' = 0 /\ heard' = TRUE /\ awaiting' = {}
    /\ UNCHANGED <<saved, policy, unlocked, relay, since, air>>

Restored ==
    /\ saved /\ ~enabled /\ enabled' = TRUE
    /\ UNCHANGED <<saved, policy, unlocked, slot, device, air, awaiting>>

Tick(t) == Run(t) \/ Resume(t)

Next ==
    \/ \E t \in Timers : Tick(t)
    \/ \E to \in BOOLEAN : SetGuard(to)
    \/ \E p \in Policies : SetPolicy(p)
    \/ SetUnlock \/ Confirm \/ Confirmed \/ Displace
    \/ Thermostat \/ Blip \/ Weather \/ Elapse \/ Restart \/ Restored

Spec == Init /\ [][Next]_vars

-----------------------------------------------------------------------------
(* Properties                                                              *)

TypeOK ==
    /\ enabled \in BOOLEAN /\ saved \in BOOLEAN
    /\ policy \in Policies /\ unlocked \in BOOLEAN
    /\ pending \in Commands \cup {None} /\ confirming \in Commands \cup {None}
    /\ relay \in Commands /\ heard \in BOOLEAN
    /\ elapsed \in 0 .. Longest /\ since \in 0 .. Longest
    /\ air \in Air \cup {None} /\ awaiting \subseteq Timers

(* What last_changed tells is never more than the compressor really ran or *)
(* rested, whatever the thermostat did while the relay was out of sight.   *)
ElapsedIsReal == heard => elapsed <= since

(* The guard, on whichever timer and after whatever restoration, starts a  *)
(* compressor only when it rested MinOff, and stops one only when it ran   *)
(* MinOn or the air is at the safety floor.                                *)
CyclesAreKept ==
    [][(relay' # relay /\ \E t \in Timers : Tick(t)) =>
          \/ relay' = "on" /\ since >= MinOff
          \/ relay' = "off" /\ (since >= MinOn \/ air = "floor")]_vars
=============================================================================
