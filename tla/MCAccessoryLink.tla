--------------------------- MODULE MCAccessoryLink ---------------------------
(***************************************************************************)
(* Small instances of AccessoryLink: a receive buffer smaller than most    *)
(* frames, so that headers and payloads are cut anywhere.                  *)
(***************************************************************************)
EXTENDS AccessoryLink

BothTransports == {"USB", "BT"}
FewSizes == {0, 3}
SomePorts == {300, 143}  \* 44 + 256, and a low byte of 128 or more
=============================================================================
