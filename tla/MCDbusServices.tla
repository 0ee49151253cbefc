---------------------------- MODULE MCDbusServices ----------------------------
(***************************************************************************)
(* A service of either D-Bus kind, for signals (SignalRule) or for method  *)
(* calls (MethodCalls).  Two services share no state but the D-Bus         *)
(* connection, so one at a time is enough.                                 *)
(***************************************************************************)
EXTENDS SignalRule, MethodCalls

VARIABLE type

Call(k, arguments) == [names |-> <<k, 2, 3, 4>>, args |-> arguments]
Arg(t, v) == [type |-> Char[t], value |-> v]

\* No argument; one of every width; an empty string between two others; more arguments
\* than a signed byte counts; a name that is no D-Bus name; a call that does not fit; a
\* fraction, and a string that ends early; a negative number.
SomeCalls == {
  Call(1, << >>),
  Call(2, <<Arg("y", <<200>>), Arg("n", <<1, 255>>), Arg("i", <<1, 2, 3, 0>>),
            Arg("x", <<1, 2, 3, 4, 5, 6, 7, 128>>)>>),
  Call(3, <<Arg("s", <<7, 8>>), Arg("s", << >>), Arg("b", <<1>>),
            Arg("d", <<6, 0, 0, 0, 0, 0, 0, 0>>), Arg("s", <<9>>)>>),
  Call(4, [k \in 1 .. 130 |-> Arg("y", <<1>>)]),
  Call(9, << >>),
  Call(5, <<Arg("s", [k \in 1 .. 300 |-> 1])>>),
  Call(6, <<Arg("d", <<6, 7, 0, 0, 0, 0, 0, 0>>), Arg("s", <<7, 0, 8>>), Arg("y", <<1>>)>>),
  Call(7, <<Arg("d", <<6, 0, 0, 0, 0, 0, 0, 191>>)>>)}

MCInit ==
  /\ type \in {"signals", "methods"}
  /\ Init /\ MethodsInit
  /\ type = "methods" => \A k \in 1 .. 4 : fields[k] = << >>

Signals == type = "signals" /\ Next /\ UNCHANGED <<type, methodVars>>
Methods(A) == type = "methods" /\ A /\ UNCHANGED <<type, vars>>
MCNext == Signals \/ Methods(MethodsNext)

\* The service's handler and the receiver of its replies run.
MCSpec ==
  /\ MCInit /\ [][MCNext]_<<type, vars, methodVars>>
  /\ WF_<<type, vars, methodVars>>(Methods(MethodsRun))
=============================================================================
