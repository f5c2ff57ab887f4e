SPECIFICATION Spec
CONSTANTS
    None = None
    Timers = {watchdog, switch}
    MinOn = 2
    MinOff = 1
    Presets = {20, 40}
    Deltas = {None, 21}
    RestartTarget = 40
    MaxFaults = 1
    AfterRun = 2
    Target <- MCTarget
    Readings <- MCReadings
    Observe = 0
    TrustAge = 0
    HltSamples <- MCHltSamples
    MaxClock = 5
INVARIANTS TypeOK HeatKeepsItsBounds DashboardIsTrue
PROPERTIES TimesAreKept SupervisedTargetSettles
