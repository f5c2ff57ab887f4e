--------------------------- MODULE LearningAdvice ---------------------------
(***************************************************************************)
(* The brewing advice (brewzilla_learning.py and what is installed around  *)
(* its builder): every look at it observes the temperature's trend and     *)
(* offers, keeps or withdraws one recommendation, which the operator may   *)
(* APPLY or DENY and which a persistent notification announces. Boil or a  *)
(* heat suggestion is all it is made from: each suggestion has at least    *)
(* medium confidence. One press of APPLY at a time.                        *)
(***************************************************************************)
EXTENDS RecordBounds, Integers, FiniteSetsExt

Snooze == 1     \* 15 minutes
Unit == 15      \* minutes
MinDiff == 5

Thermometers == {"probe", "own"}

VARIABLES
    scene,    \* the brewday: its place, who owns it, the batch as far as known
    device,   \* the BrewZilla's settings
    report,   \* of each thermometer: its last report, or None
    quiet,    \* whether the notifications are switched off
    clock,
    last,     \* last_temperature: [temp, at, of], or None
    previous, \* previous_temperature, with the thermometer it is of (ghost)
    rate,     \* temp_rate_c_per_min: [rise, span], or None
    pending,  \* the recommendation on offer, or None
    denied,   \* denied_until
    notified, \* last_notified_recommendation_id
    onScreen,    \* the notification that Home Assistant shows
    call,     \* the write that APPLY awaits
    sound,    \* whether the last APPLY wrote an advice for its moment (ghost)
    changes   \* bound

world == <<scene, device, report, quiet, clock, changes>>
trend == <<last, previous, rate>>
told == <<notified, onScreen>>
adviceVars == <<world, trend, pending, denied, told, call, sound>>

Init ==
    /\ scene \in Scenes /\ device \in Devices
    /\ report = [t \in Thermometers |-> None] /\ quiet = FALSE /\ clock = 0 /\ changes = 0
    /\ last = None /\ previous = None /\ rate = None
    /\ pending = None /\ denied = {} /\ notified = None /\ onScreen = None
    /\ call = None /\ sound = TRUE

-----------------------------------------------------------------------------
(* What the advice is built from.                                          *)

Change ==
    /\ changes < MaxChanges /\ changes' = changes + 1
    /\ \/ scene' \in Scenes /\ UNCHANGED <<device, report, quiet>>
       \/ device' \in Devices /\ UNCHANGED <<scene, report, quiet>>
       \/ /\ \E t \in Thermometers :
               \/ report[t] # None /\ report' = [report EXCEPT ![t] = None]
               \/ /\ report[t] # None => report[t].at # clock
                  /\ \E c \in Temps : report' = [report EXCEPT ![t] = [temp |-> c, at |-> clock]]
          /\ UNCHANGED <<scene, device, quiet>>
       \/ quiet' = ~quiet /\ UNCHANGED <<scene, device, report>>
    /\ UNCHANGED <<clock, trend, pending, denied, told, call, sound>>

Later ==
    /\ clock < MaxClock /\ clock' = clock + 1
    /\ UNCHANGED <<scene, device, report, quiet, changes, trend, pending, denied, told, call, sound>>

(* The operator clears the notification in Home Assistant.                 *)
Cleared ==
    /\ onScreen # None /\ onScreen' = None
    /\ UNCHANGED <<world, trend, pending, denied, notified, call, sound>>

-----------------------------------------------------------------------------
(* The trend, by a stage, the thermometer for it and what that one reads.  *)

(* What the names of stage and step say, in this order; RAPT's profile in  *)
(* the boil before them.                                                   *)
Order == <<"cooling", "boil", "ramp", "hold">>
Stage ==
    LET named == {i \in DOMAIN Order : Order[i] \in scene.words}
    IN  IF scene.profile THEN "boil" ELSE IF named = {} THEN "unknown" ELSE Order[Min(named)]

InMash == {"ramp", "hold"}

(* The mash's thermometer is the probe, or BrewZilla's own without one;    *)
(* after the mash it is BrewZilla's own, and in the boil that one only.    *)
Source(stage) ==
    LET readable == {t \in Thermometers : report[t] # None}
        wanted == IF stage \in InMash THEN "probe" ELSE "own"
    IN  IF wanted \in readable \/ stage = "boil" \/ readable = {} THEN wanted
        ELSE CHOOSE t \in readable : TRUE

(* Mutant: a rate over two thermometers.                                   *)
FollowedAnyway(now) ==
    [last |-> now, previous |-> last,
     rate |-> IF last = None THEN None
              ELSE [rise |-> now.temp - last.temp, span |-> now.at - last.at]]

(* What a report makes of the trend.                                       *)
Followed(now) ==
    IF last = None \/ last.of # now.of
    THEN [last |-> now, previous |-> None, rate |-> None]
    ELSE [last |-> now, previous |-> last,
          rate |-> [rise |-> now.temp - last.temp, span |-> now.at - last.at]]

Trend(source, seen) ==
    IF seen = None \/ (last # None /\ last.of = source /\ last.at = seen.at)
    THEN [last |-> last, previous |-> previous, rate |-> rate]
    ELSE Followed([temp |-> seen.temp, at |-> seen.at, of |-> source])

-----------------------------------------------------------------------------
(* The recommendation.                                                     *)

(* What the operator entered or else the recipe's tracker says. The        *)
(* grain's temperature has a default.                                      *)
Known == scene.entered \cup scene.recipe

(* Near strike and mash-in nothing is advised without the batch.           *)
Lacks(stage) == stage = "ramp" /\ scene.strike /\ ~({"grain", "water"} \subseteq Known)

(* Above so many 0.1 C below the target: the heat when it rises by more    *)
(* than the limit, in 0.1 C a minute, and otherwise.                       *)
Bands ==
    <<[above |-> 50, limit |-> 0, fast |-> 100, slow |-> 100],
      [above |-> 20, limit |-> 12, fast |-> 75, slow |-> 90],
      [above |-> 7, limit |-> 8, fast |-> 55, slow |-> 70],
      [above |-> 1, limit |-> 4, fast |-> 35, slow |-> 50]>>

Rising(of, limit) == of # None /\ of.rise > limit * Unit * of.span

Held(stage) == IF stage = "hold" THEN 40 ELSE 45
Overshot == IF device.heater \/ device.heat = 0 THEN 0 ELSE Min({device.heat, 30})

Approach(stage, below, risen) ==
    LET in == {b \in DOMAIN Bands : below > Bands[b].above}
        band == Bands[Min(in)]
    IN  IF in # {} THEN (IF Rising(risen, band.limit) THEN band.fast ELSE band.slow)
        ELSE IF below >= -3 THEN Held(stage) ELSE Overshot

PumpBias(stage) ==
    IF stage \notin InMash THEN 0
    ELSE IF ~device.pump THEN 25 ELSE IF device.flow < 20 THEN 20 ELSE IF device.flow < 40 THEN 10 ELSE 0

Biased(stage, heat) == Max({0, heat - PumpBias(stage) - (IF scene.water THEN 5 ELSE 0)})

(* A trend counts only while there is a reading.                           *)
Suggested(stage, seen, risen) ==
    IF ~scene.active THEN None
    ELSE IF stage = "cooling" THEN 0
    ELSE IF stage = "boil" THEN Biased(stage, 100)
    ELSE IF seen = None THEN None
    ELSE Biased(stage, Approach(stage, Target - seen.temp, risen))

Round5(n) == 5 * ((n + 2) \div 5)

Candidate(stage, heat) ==
    LET close == Round5(heat) - device.heat \in (1 - MinDiff)..(MinDiff - 1)
    IN  IF Lacks(stage) THEN None
        ELSE IF stage = "boil" /\ device.flow > 0
             THEN [kind |-> "flow", stage |-> stage, from |-> 0, to |-> 0]
        ELSE IF heat = None \/ close THEN None
        ELSE [kind |-> "heat", stage |-> stage, from |-> Round5(device.heat), to |-> Round5(heat)]

Snoozed(advice) == \E d \in denied : d.advice = advice /\ clock < d.until

(* What a look sees and offers. Before Mash-In Complete of a Brewfather    *)
(* brewday the phase authority offers nothing.                             *)
Snapshot ==
    LET stage == Stage
        seen == report[Source(stage)]
        observed == Trend(Source(stage), seen)
        advice == Candidate(stage, Suggested(stage, seen, observed.rate))
        built == IF advice # None /\ Snoozed(advice) THEN None ELSE advice
    IN  [trend |-> observed, built |-> built, offered |-> IF scene.owned THEN None ELSE built]

Observed(snapshot) ==
    /\ last' = snapshot.trend.last /\ previous' = snapshot.trend.previous
    /\ rate' = snapshot.trend.rate

-----------------------------------------------------------------------------
(* A look: by the entities, or by the advice control, whose builder is the *)
(* one below the phase authority.                                          *)
Look ==
    LET s == Snapshot
    IN  /\ Observed(s) /\ pending' \in {s.offered, s.built}
        /\ UNCHANGED <<world, denied, told, call, sound>>

Dismiss == notified' = None /\ onScreen' = None

NotifyQuietly ==
    /\ quiet
    /\ \/ notified # None /\ Dismiss
       \/ notified = None /\ UNCHANGED told
    /\ UNCHANGED <<world, trend, pending, denied, call, sound>>

Notify ==
    LET s == Snapshot
        advice == s.offered
    IN  /\ ~quiet /\ Observed(s) /\ pending' = advice
        /\ \/ advice = None /\ notified # None /\ Dismiss
           \/ advice = notified /\ UNCHANGED told
           \/ advice # None /\ notified # advice /\ notified' = advice /\ onScreen' = advice
        /\ UNCHANGED <<world, denied, call, sound>>

(* An advice for this moment: on the stage and the setting there is, and   *)
(* not one that was denied within the last 15 minutes.                     *)
Fits(advice) ==
    /\ advice.stage = Stage /\ ~Snoozed(advice)
    /\ advice.kind = "heat" => advice.from = Round5(device.heat) /\ ~Lacks(Stage)
    /\ advice.kind = "flow" => device.flow > 0

(* Mutant: APPLY takes what was on offer.                                  *)
ApplyAsOffered ==
    /\ scene.manual /\ call = None /\ pending # None
    /\ call' = pending /\ sound' = Fits(pending)
    /\ UNCHANGED <<world, trend, pending, denied, told>>

(* APPLY, outside an external source's control, looks again and awaits the *)
(* write.                                                                  *)
Apply ==
    LET s == Snapshot
        advice == s.offered
    IN  /\ scene.manual /\ call = None
        /\ Observed(s) /\ pending' = advice
        /\ call' = advice /\ sound' = (advice = None \/ Fits(advice))
        /\ UNCHANGED <<world, denied, told>>

(* Mutant: the notification of what was applied is forgotten.              *)
LandedQuietly ==
    /\ call # None /\ call' = None /\ pending' = None /\ notified' = None
    /\ UNCHANGED <<world, trend, denied, onScreen, sound>>

Landed ==
    /\ call # None /\ call' = None /\ pending' = None /\ Dismiss
    /\ device' = [device EXCEPT ![call.kind] = call.to]
    /\ UNCHANGED <<scene, report, quiet, clock, changes, trend, denied, sound>>

Failed ==
    /\ call # None /\ call' = None
    /\ UNCHANGED <<world, trend, pending, denied, told, sound>>

Snoozes(advice) ==
    {d \in denied : d.advice # advice} \cup {[advice |-> advice, until |-> clock + Snooze]}

Deny ==
    LET s == Snapshot
        advice == s.offered
    IN  /\ Cardinality(denied) < MaxDenied
        /\ Observed(s) /\ pending' = None
        /\ IF advice = None THEN UNCHANGED <<denied, told>> ELSE denied' = Snoozes(advice) /\ Dismiss
        /\ UNCHANGED <<world, call, sound>>

Restart ==
    /\ last' = None /\ previous' = None /\ rate' = None
    /\ pending' = None /\ denied' = {} /\ notified' = None /\ onScreen' = None /\ call' = None
    /\ UNCHANGED <<world, sound>>

Next ==
    \/ Change \/ Later \/ Cleared \/ Look \/ NotifyQuietly \/ Notify
    \/ Apply \/ Landed \/ Failed \/ Deny \/ Restart

-----------------------------------------------------------------------------
Advice ==
    [kind : {"heat", "flow"}, stage : {"ramp", "hold", "boil", "cooling", "unknown"},
     from : 0..100, to : 0..100]
Heard == [temp : Temps, at : 0..MaxClock, of : Thermometers]

TypeOK ==
    /\ device \in [heat : 0..100, heater : BOOLEAN, pump : BOOLEAN, flow : 0..100]
    /\ last \in Heard \cup {None} /\ previous \in Heard \cup {None}
    /\ rate # None => rate.rise \in Int /\ rate.span \in 1..MaxClock
    /\ {pending, notified, onScreen, call} \subseteq Advice \cup {None}
    /\ \A d \in denied : d.advice \in Advice /\ d.until \in Nat

(* A rate of change is of one thermometer: what the probe read and what    *)
(* BrewZilla read is never made into a rise of the temperature.            *)
RateIsOfOneProbe == rate # None => previous # None /\ previous.of = last.of

(* The notification on the screen is the one the advice remembers, and so  *)
(* the one that the next APPLY, DENY or change of the advice withdraws.    *)
ShownIsRemembered == onScreen # None => notified = onScreen

(* APPLY sets out to write only what is advised at that moment and was not *)
(* denied within 15 minutes, however old the card that was pressed.        *)
AppliedIsAdvised == sound

AdviceIsTrue == RateIsOfOneProbe /\ ShownIsRemembered /\ AppliedIsAdvised
=============================================================================
