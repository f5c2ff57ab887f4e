CONSTANTS
    s1 = s1
    s2 = s2
    NoSession = NoSession
    Sessions <- TwoSessions
    AbortMayOutlast = FALSE
    None = None
    Spots <- MCSpots
    Configs <- MCConfigs
    Records <- MCRecords
    Corrected <- MCCorrected
    Sensors <- MCSensors
    MaxKept = 3
    MaxHour = 2
    MaxTaken = 4
    Scenes <- MCScenes
    Devices <- MCDevices
    Temps = {400, 655}
    Target = 660
    MaxClock = 1
    MaxChanges = 3
    MaxDenied = 1
    Views <- MCViews
    SaveEvery = 3
    MaxRecent = 2
    MaxTotal = 5
    MaxPairs = 3
    FewPairs = 2
    EnoughPairs = 3
    MaxQuarter = 4
    Parts = {"probe"}
SPECIFICATION AllSpec
PROPERTIES
    OwnNeverDecides
