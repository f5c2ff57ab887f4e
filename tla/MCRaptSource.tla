---------------------------- MODULE MCRaptSource ----------------------------
(* RaptSource on two sessions of two steps: a session that replaces        *)
(* another, and a step that changes within one.                            *)
EXTENDS RaptSource

CONSTANTS s1, s2

TwoSessions == {s1, s2}
TwoSteps == {1, 2}
=============================================================================
