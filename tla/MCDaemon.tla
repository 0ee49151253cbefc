------------------------------- MODULE MCDaemon -------------------------------
(* Two phones of one model.  The longest list of uuids is one too long. *)
EXTENDS Daemon

TwoPhones == {"phone1", "phone2"}
SameModel == [d \in TwoPhones |-> "nexus"]
Plugs == [d \in TwoPhones |-> IF d = "phone1" THEN 3 ELSE 2]
Known == {"nexus"}

\* Both errors of the parse: one text is cut short, one has dashes for digits.
Short == [uuid |-> "short", chars |-> 31, dashes |-> 0]
Dashed == [uuid |-> "dashed", chars |-> 36, dashes |-> 6]
UuidLists == {
  <<WellFormed("specific"), Short, Dashed, WellFormed("common")>>,
  [i \in 1 .. 5 |-> WellFormed("common")]}
=============================================================================
