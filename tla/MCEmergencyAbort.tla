--------------------------- MODULE MCEmergencyAbort ---------------------------
(* Three outputs: a switch that a RAPT profile owns, one that it does not, *)
(* and a number; plans that heat, also while they turn the pump off.       *)
EXTENDS EmergencyAbort

MCOutputs == {"heater", "pump", "heat_utilization"}

On(o)  == [out |-> o, on |-> TRUE]
Off(o) == [out |-> o, on |-> FALSE]

MCPlans == { {On("heat_utilization"), On("heater")},
             {On("heat_utilization"), Off("pump")} }
=============================================================================
