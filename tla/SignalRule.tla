----------------------------- MODULE SignalRule -----------------------------
(***************************************************************************)
(* How a signal service asks the D-Bus daemon for signals: the arguments   *)
(* of the request are split into four strings (SignalsInit), put together  *)
(* again as a match rule (createRule), and the rule is given to the daemon *)
(* (addSignalWatch).  Every append may find no memory; createRule looks at *)
(* no result.  The strings are as long as FieldLengths allows, empty when  *)
(* the application does not care.                                          *)
(***************************************************************************)
EXTENDS BString

CONSTANT FieldLengths     \* the lengths of busname, path, interface, member

ASSUME FieldsAssumption == FieldLengths \subseteq Nat

VARIABLES
  fields,   \* the four strings of the application
  pc,       \* "init", "append" or "done"
  rule,     \* the bstring; NoString before there is one
  todo,     \* the appends createRule has still to do
  refused,  \* whether there was a moment without memory
  match     \* the rule the daemon holds; NoMatch when it holds none

vars == <<fields, pc, rule, todo, refused, match>>

NoString == [data |-> <<>>, slen |-> 0, mlen |-> 0]
NoMatch == <<>>
Quote == 9
\* Bytes of the four arguments are 1..4, of the five literals 10..14.
Literal == <<Fill(9, 11), Fill(7, 12), Fill(12, 13), Fill(9, 14)>>
TypeIsSignal == Fill(13, 10)

\* The payload DbusSignals sends: four strings, each with its NUL.
Compressed(f) == f[1] \o <<NUL>> \o f[2] \o <<NUL>> \o f[3] \o <<NUL>>
                   \o f[4] \o <<NUL>>

strlen(bytes, at) ==
  CHOOSE n \in 0..Len(bytes) - at :
    bytes[at + n] = NUL /\ \A k \in 0..n-1 : bytes[at + k] # NUL

\* MUTANT of Split: the NUL between two strings is not skipped.
SplitNoSkip(bytes) ==
  LET start[k \in 1..4] ==
        IF k = 1 THEN 1 ELSE start[k-1] + strlen(bytes, start[k-1])
  IN [k \in 1..4 |->
        SubSeq(bytes, start[k], start[k] + strlen(bytes, start[k]) - 1)]

\* The four pointers of SignalsInit, as the strings they point to.
Split(bytes) ==
  LET start[k \in 1..4] ==
        IF k = 1 THEN 1 ELSE start[k-1] + strlen(bytes, start[k-1]) + 1
  IN [k \in 1..4 |->
        SubSeq(bytes, start[k], start[k] + strlen(bytes, start[k]) - 1)]

\* What createRule appends for one argument, and for all of them.
Appends(k, s) ==
  IF s = <<>> THEN <<>>
  ELSE <<[op |-> "cstr", bytes |-> Literal[k]], [op |-> "cstr", bytes |-> s],
         [op |-> "char", bytes |-> <<Quote>>]>>
AllAppends(args) == Appends(1, args[1]) \o Appends(2, args[2])
                      \o Appends(3, args[3]) \o Appends(4, args[4])

Init ==
  /\ fields \in {[k \in 1..4 |-> Fill(len[k], k)] :
                   len \in [1..4 -> FieldLengths]}
  /\ pc = "init" /\ rule = NoString /\ todo = <<>>
  /\ refused = FALSE /\ match = NoMatch

\* SignalsInit up to bfromcstr, which may find no memory: every append to
\* NULL is then an error, and there is no rule to add.
SignalsInit ==
  /\ pc = "init"
  /\ \/ /\ rule' = bfromcstr(TypeIsSignal)
        /\ todo' = AllAppends(Split(Compressed(fields)))
        /\ pc' = "append" /\ UNCHANGED refused
     \/ pc' = "done" /\ refused' = TRUE /\ UNCHANGED <<rule, todo>>
  /\ UNCHANGED <<fields, match>>

\* bcatcstr or bconchar, whichever is next.
Appended(b, part, mem) ==
  IF part.op = "char" THEN bconchar(b, part.bytes[1], mem)
                      ELSE bcatcstr(b, part.bytes, mem)

createRule ==
  /\ pc = "append" /\ todo # <<>>
  /\ \E mem \in Memory :
       /\ rule' = Appended(rule, Head(todo), mem)
       /\ refused' = (refused \/ mem = "none")
  /\ todo' = Tail(todo)
  /\ UNCHANGED <<fields, pc, match>>

\* The daemon takes the rule, or reports an error, which is only printed;
\* the same holds when there is no memory for the C string.
addSignalWatch ==
  /\ pc = "append" /\ todo = <<>>
  /\ \/ LET cstr == bstr2cstr(rule, NUL)
        IN match' = SubSeq(cstr, 1, strlen(cstr, 1))
     \/ UNCHANGED match
  /\ rule' = NoString           \* bdestroy
  /\ pc' = "done"
  /\ UNCHANGED <<fields, todo, refused>>

Next == SignalsInit \/ createRule \/ addSignalWatch

Spec == Init /\ [][Next]_vars

-----------------------------------------------------------------------------
(* Properties.                                                             *)

\* The string lies in its buffer: no store went behind the mlen bytes
\* allocated, and a string that does not fill its buffer is terminated (balloc,
\* bcatcstr, bconchar).
InBuffer ==
  pc = "append" => /\ Len(rule.data) = rule.mlen
                   /\ rule.slen \in 0..rule.mlen
                   /\ rule.slen < rule.mlen => rule.data[rule.slen + 1] = NUL

\* The rule a match on these four strings must be.
Wanted ==
  LET Part(k) == IF fields[k] = <<>> THEN <<>>
                 ELSE Literal[k] \o fields[k] \o <<Quote>>
  IN TypeIsSignal \o Part(1) \o Part(2) \o Part(3) \o Part(4)

\* With memory for every append the daemon gets exactly the rule the
\* application asked for, through the split, the tight and the snapped
\* buffers, and the optimistic copy of bcatcstr; and whether there was memory
\* or not, nothing was stored outside a buffer.
RuleExact == InBuffer /\ (match # NoMatch /\ ~refused => match = Wanted)
=============================================================================
