----------------------------- MODULE MethodCalls -----------------------------
(***************************************************************************)
(* Calls of D-Bus methods: DbusMethods.java puts a call into one message,  *)
(* method.c takes it apart again with a pointer that walks over the bytes, *)
(* makes the call, waits for the reply and sends it back.  Android pairs   *)
(* replies with calls by counting both.                                    *)
(*                                                                         *)
(* A name is one byte.  A value is the bytes it is sent as, with the least *)
(* first; of a double the first byte stands for the whole part between 0   *)
(* and 2^64, the last for a sign or a size beyond that, and the others for *)
(* the fraction.                                                           *)
(***************************************************************************)
EXTENDS Integers, Sequences, SequencesExt

CONSTANTS Calls,      \* the calls an application makes
          Illegal,    \* names libdbus makes no call of
          MaxMessage, \* size of a message, and of the reply that is sent back (4000)
          MaxCalls    \* bound: calls made

\* The characters D-Bus has for the types.
Char == [y |-> 121, b |-> 98, n |-> 110, i |-> 105, x |-> 120, d |-> 100, s |-> 115]
Types == {Char[t] : t \in DOMAIN Char}
Byte == 0 .. 255

\* The bytes of a value that is not a string.
Width(type) ==
  CASE type \in {Char.y, Char.b} -> 1 [] type = Char.n -> 2 [] type = Char.i -> 4 [] OTHER -> 8

ASSUME CallsAssumption ==
  /\ Calls \subseteq [names : [1 .. 4 -> Byte \ {0}], args : Seq([type : Types, value : Seq(Byte)])]
  /\ \A c \in Calls : \A k \in 1 .. Len(c.args) :
       c.args[k].type # Char.s => Len(c.args[k].value) = Width(c.args[k].type)
  /\ Illegal \subseteq Byte
  /\ MaxMessage \in Nat /\ MaxCalls \in Nat

VARIABLES
  calls,              \* the calls made; the id of each is its place
  toService,          \* messages of the port, not yet handed to the service
  step,               \* of MethodOnBytesReceived, or "idle", or "crashed"
  buffer,             \* the message it takes apart
  arg_pointer,        \* its place there
  numberOfArguments,  \* the arguments still to come
  message,            \* the call it puts together
  noReply,            \* history: the places of the calls D-Bus gave no reply to
  toAndroid,          \* replies on their way
  received            \* replies the handler got; the id of each is its place

methodVars == <<calls, toService, step, buffer, arg_pointer, numberOfArguments, message,
                noReply, toAndroid, received>>

\* The calls the service has been handed.
Handed == Len(calls) - Len(toService)

NoCall == [names |-> << >>, args |-> << >>]
NUL0 == <<0>>
-----------------------------------------------------------------------------
(* Android. *)

\* serialise: the type, then the value; a string with a zero behind it.
Serialise(arg) == <<arg.type>> \o arg.value \o (IF arg.type = Char.s THEN NUL0 ELSE << >>)

\* putInt of a count below 2^16.
Count(n) == <<n % 256, n \div 256, 0, 0>>

Compress(c) ==
  FlattenSeq([k \in 1 .. 4 |-> <<c.names[k]>> \o NUL0])
    \o Count(Len(c.args)) \o FlattenSeq([k \in 1 .. Len(c.args) |-> Serialise(c.args[k])])

\* A call that does not fit raises an exception and is not made.
methodCall ==
  /\ Len(calls) < MaxCalls /\ step # "crashed"
  /\ \E c \in Calls :
       /\ Len(Compress(c)) <= MaxMessage
       /\ calls' = Append(calls, c)
       /\ toService' = Append(toService, Compress(c))
  /\ UNCHANGED <<step, buffer, arg_pointer, numberOfArguments, message,
                 noReply, toAndroid, received>>

onDataReady ==
  /\ toAndroid # << >>
  /\ received' = Append(received, Head(toAndroid))
  /\ toAndroid' = Tail(toAndroid)
  /\ UNCHANGED <<calls, toService, step, buffer, arg_pointer,
                 numberOfArguments, message, noReply>>
-----------------------------------------------------------------------------
(* The accessory. *)

\* The place of the zero that ends the string at a place.
StringEnd(bytes, at) ==
  CHOOSE e \in at .. Len(bytes) : bytes[e] = 0 /\ \A k \in at .. e - 1 : bytes[k] # 0

\* le32toh of a char: one signed byte.
SignedChar(b) == IF b < 128 THEN b ELSE b - 256

\* The places of the four names, and of what comes behind them.
Starts(bytes) ==
  LET start[k \in 1 .. 5] == IF k = 1 THEN 1 ELSE StringEnd(bytes, start[k - 1]) + 1 IN start

\* The four names, and the count.  No message, no reply: the handler returns.
MethodStarts ==
  LET bytes == Head(toService)
      start == Starts(bytes)
      names == [k \in 1 .. 4 |-> bytes[start[k]]]
  IN  /\ step = "idle" /\ toService # << >>
      /\ toService' = Tail(toService)
      /\ IF \E k \in 1 .. 4 : names[k] \in Illegal
         THEN UNCHANGED <<step, buffer, arg_pointer, numberOfArguments, message>>
         ELSE /\ step' = "arguments"
              /\ buffer' = bytes
              /\ message' = [names |-> names, args |-> << >>]
              /\ numberOfArguments' = SignedChar(bytes[start[5]])
              /\ arg_pointer' = start[5] + 4
      /\ UNCHANGED <<calls, noReply, toAndroid, received>>

\* Bound: the numbers an undefined conversion may give, the least and the greatest.
AnyWhole == {0, 255}

\* A value, and how many bytes it took.
Taken(value, n) == [value |-> value, size |-> n]

\* MUTANT of bytesToDbus: numbers are read with the most significant byte first.
bytesToDbusBigEndian(type, bytes, at) ==
  {IF type = Char.s THEN Taken(SubSeq(bytes, at, StringEnd(bytes, at) - 1), StringEnd(bytes, at) - at + 1)
   ELSE Taken(Reverse(SubSeq(bytes, at, at + Width(type) - 1)), Width(type))}

\* What a value may be read as.  le64toh of a double takes it for a uint64_t: the fraction
\* is lost, and a double that is negative or too big may become any number.
bytesToDbus(type, bytes, at) ==
  CASE type = Char.s ->
         {Taken(SubSeq(bytes, at, StringEnd(bytes, at) - 1), StringEnd(bytes, at) - at + 1)}
    [] type = Char.d ->
         {Taken([k \in 1 .. 8 |-> IF k = 1 THEN whole ELSE 0], 8) :
            whole \in IF bytes[at + 7] = 0 THEN {bytes[at]} ELSE AnyWhole}
    [] OTHER -> {Taken(SubSeq(bytes, at, at + Width(type) - 1), Width(type))}

\* while(numberOfArguments--): a negative count goes on behind the message, where no
\* type or value can be relied on.
MethodArgument ==
  /\ step = "arguments" /\ numberOfArguments # 0
  /\ IF arg_pointer > Len(buffer) \/ buffer[arg_pointer] \notin Types
     THEN step' = "crashed" /\ UNCHANGED <<arg_pointer, numberOfArguments, message>>
     ELSE \E taken \in bytesToDbus(buffer[arg_pointer], buffer, arg_pointer + 1) :
            /\ message' = [message EXCEPT !.args =
                             Append(@, [type |-> buffer[arg_pointer], value |-> taken.value])]
            /\ arg_pointer' = arg_pointer + 1 + taken.size
            /\ numberOfArguments' = numberOfArguments - 1
            /\ UNCHANGED step
  /\ UNCHANGED <<calls, toService, buffer, noReply, toAndroid, received>>

\* MUTANT of MethodReply: a reply that is too long is dropped.
MethodReplyDrops ==
  /\ step = "arguments" /\ numberOfArguments = 0
  /\ \/ toAndroid' = Append(toAndroid, [to |-> message, kind |-> "reply"])
     \/ UNCHANGED toAndroid
  /\ step' = "idle" /\ buffer' = << >> /\ arg_pointer' = 0 /\ message' = NoCall
  /\ UNCHANGED <<calls, toService, numberOfArguments, noReply, received>>

\* The call is made and its reply waited for.  One that is too long is replaced by an
\* error; libdbus answers itself, with an error, when nobody else does in time.
MethodReply ==
  /\ step = "arguments" /\ numberOfArguments = 0
  /\ \E kind \in {"reply", "messageTooLong"} :
       toAndroid' = Append(toAndroid, [to |-> message, kind |-> kind])
  /\ step' = "idle" /\ buffer' = << >> /\ arg_pointer' = 0 /\ message' = NoCall
  /\ UNCHANGED <<calls, toService, numberOfArguments, noReply, received>>

\* No pending call, or no reply: D-Bus is no longer connected.  Nothing is sent to Android,
\* and libdbus is handed NULL: it complains and goes on, or ends the process.
MethodNoReply ==
  /\ step = "arguments" /\ numberOfArguments = 0
  /\ noReply' = noReply \cup {Handed}
  /\ step' \in {"idle", "crashed"} /\ buffer' = << >> /\ arg_pointer' = 0 /\ message' = NoCall
  /\ UNCHANGED <<calls, toService, numberOfArguments, toAndroid, received>>
-----------------------------------------------------------------------------
MethodsInit ==
  /\ calls = << >> /\ toService = << >> /\ step = "idle" /\ buffer = << >>
  /\ arg_pointer = 0 /\ numberOfArguments = 0 /\ message = NoCall
  /\ noReply = {} /\ toAndroid = << >> /\ received = << >>

MethodsRun == MethodStarts \/ MethodArgument \/ MethodReply \/ MethodNoReply \/ onDataReady
MethodsNext == methodCall \/ MethodsRun

\* The calls that cannot go wrong: names D-Bus takes, a count below 128, no string with
\* a zero in it, and no double with a fraction, a sign or a size from 2^64 on.
Plain(arg) ==
  /\ arg.type = Char.s => \A k \in 1 .. Len(arg.value) : arg.value[k] # 0
  /\ arg.type = Char.d => \A k \in 2 .. Len(arg.value) : arg.value[k] = 0
Sound(c) ==
  /\ \A k \in 1 .. 4 : c.names[k] \notin Illegal
  /\ Len(c.args) < 128 /\ \A k \in 1 .. Len(c.args) : Plain(c.args[k])

\* The first calls are such, and D-Bus had a reply to each that has been made.
SoundUpTo(n) == \A j \in 1 .. n : Sound(calls[j]) /\ j \notin noReply

\* The reply the application gets with the id of a call (DbusMethods.java, methodCall:
\* "This value will be the same as Message.arg1") is the reply to that call, which was
\* made with exactly its names and arguments, if all calls up to it are sound and D-Bus
\* had a reply to each.
ReplyIsOwn ==
  \A i \in 1 .. Len(received) : SoundUpTo(i) => received[i].to = calls[i]

\* Every call gets its reply, whatever its size, if all calls are sound and D-Bus has a
\* reply to each.
CallIsAnswered ==
  \A n \in 1 .. MaxCalls :
    (Len(calls) >= n) ~> (Len(received) >= n \/ ~SoundUpTo(Len(calls)))
=============================================================================
