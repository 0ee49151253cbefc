------------------------------ MODULE MCBridge ------------------------------
(***************************************************************************)
(* Small instances of Bridge: one port to give away and to give away       *)
(* again, services of one or two kinds, a handful of messages.             *)
(***************************************************************************)
EXTENDS Bridge

OnlyBulk == {"Bulk"}
OnlyMethod == {"Method"}
MethodAndSignals == {"Method", "Signals"}
=============================================================================
