--------------------------- MODULE MCMessageQueue ---------------------------
(***************************************************************************)
(* Small instances of MessageQueue: the send queue, to which main and a    *)
(* service thread add while one sender thread polls, and a queue with two  *)
(* consumers, which the code does not use and the ring allows.             *)
(***************************************************************************)
EXTENDS MessageQueue

CONSTANTS main, service, sender, other, m1, NULL

SendProducers == {main, service}
TwoConsumers  == {sender, other}
MCMessage     == {m1, NULL}
=============================================================================
