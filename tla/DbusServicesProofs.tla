-------------------------- MODULE DbusServicesProofs --------------------------
(***************************************************************************)
(* The theorems of the two D-Bus services.  What an application gets as    *)
(* the reply to a call is the reply to that call, with the names and       *)
(* arguments it was made with: for all names, values and numbers of        *)
(* arguments, and any number of calls.  The rule a signal service gives to *)
(* the daemon is the one asked for, whatever the lengths of its strings.   *)
(***************************************************************************)
EXTENDS MethodCalls, SignalRule, SequenceTheorems, WellFoundedInduction, TLAPS

-----------------------------------------------------------------------------
(* The invariants.                                                         *)

\* The replies the service has sent.
Replies == received \o toAndroid
Busy    == IF step = "arguments" THEN 1 ELSE 0

\* The messages of the port are the last calls.
QueueInv ==
  /\ calls \in Seq(Calls) /\ toService \in Seq(Seq(Nat)) /\ Handed \in Nat
  /\ \A j \in 1 .. Len(toService) : toService[j] = Compress(calls[Handed + j])

\* As long as the calls are sound and D-Bus has replies, each one that is handed over is replied to before
\* the next, and the reply is its own.
TurnInv ==
  /\ Len(Replies) + Busy <= Handed
  /\ \A i \in 1 .. Handed : SoundUpTo(i) => i <= Len(Replies) + Busy
ReplyInv == \A i \in 1 .. Len(Replies) : SoundUpTo(i) => Replies[i].to = calls[i]

\* The bytes of the first m arguments of a call.
Arguments(c, m) == FlattenSeq([k \in 1 .. m |-> Serialise(c.args[k])])

\* A sound call is put together again, argument by argument.
AtArgument(c, m) ==
  /\ message = [names |-> c.names, args |-> SubSeq(c.args, 1, m)]
  /\ numberOfArguments = Len(c.args) - m
  /\ arg_pointer = 13 + Len(Arguments(c, m))
ParseInv ==
  step = "arguments" /\ SoundUpTo(Len(Replies) + 1) =>
    /\ Handed = Len(Replies) + 1
    /\ buffer = Compress(calls[Handed])
    /\ \E m \in 0 .. Len(calls[Handed].args) : AtArgument(calls[Handed], m)

CallsInv ==
  /\ \E S : received \in Seq(S) /\ toAndroid \in Seq(S)
  /\ QueueInv /\ TurnInv /\ ReplyInv /\ ParseInv
-----------------------------------------------------------------------------
(* The concatenation of sequences.                                         *)

\* A set of natural numbers that is not empty has a least element.
LEMMA LeastNatural ==
  ASSUME NEW S \in SUBSET Nat, S # {}
  PROVE  \E m \in S : \A n \in S : m <= n
<1>1. PICK m \in S : \A n \in S : <<n, m>> \notin OpToRel(<, Nat)
  BY NatLessThanWellFounded, WFMin
<1>2. ASSUME NEW n \in S, n < m PROVE FALSE
  <2>1. <<n, m>> \in OpToRel(<, Nat)
    BY <1>2 DEF OpToRel
  <2>2. QED
    BY <1>1, <2>1
<1>3. QED
  BY <1>2

\* g[i] is the concatenation of the first i of the sequences s, for i up to n.
Joins(s, n, g) == g = [i \in 1..n |-> IF i = 1 THEN s[i] ELSE g[i-1] \o s[i]]

\* s and t are the same up to place n.
Agree(s, t, n) == \A i \in 1..n : s[i] = t[i]

\* The recursion of FlattenSeq defines a function.
LEMMA JoinsExist ==
  ASSUME NEW s, NEW n \in Nat
  PROVE  \E g : Joins(s, n, g)
<1> DEFINE Bad == {m \in Nat : ~\E g : Joins(s, m, g)}
<1> SUFFICES ASSUME Bad # {} PROVE FALSE
  OBVIOUS
<1>1. PICK m \in Bad : \A k \in Bad : m <= k
  <2>1. Bad \in SUBSET Nat
    OBVIOUS
  <2>2. QED
    BY <2>1, LeastNatural
<1>2. m # 0
  <2>1. Joins(s, 0, [i \in 1..0 |-> s[i]])
    BY DEF Joins
  <2>2. QED
    BY <1>1, <2>1
<1>3. m - 1 \in Nat /\ m - 1 \notin Bad
  BY <1>1, <1>2
<1>4. PICK g : Joins(s, m - 1, g)
  BY <1>3
<1> DEFINE h == [i \in 1..m |-> IF i = 1 THEN s[i] ELSE g[i-1] \o s[i]]
<1>5. \A i \in 1..(m - 1) : g[i] = IF i = 1 THEN s[i] ELSE g[i-1] \o s[i]
  BY <1>4 DEF Joins
<1>6. \A i \in 1..(m - 1) : h[i] = g[i]
  BY <1>3, <1>5
<1>7. \A i \in 1..m : i # 1 => h[i-1] = g[i-1]
  <2>1. \A i \in 1..m : i # 1 => i - 1 \in 1..(m - 1)
    BY <1>3
  <2>2. QED
    BY <1>6, <2>1
<1>8. h = [i \in 1..m |-> IF i = 1 THEN s[i] ELSE h[i-1] \o s[i]]
  BY <1>7
<1>9. Joins(s, m, h)
  BY <1>8 DEF Joins
<1>10. QED
  BY <1>1, <1>9

\* What the function is at each place.
LEMMA JoinsFacts ==
  ASSUME NEW s, NEW n \in Nat, NEW g, Joins(s, n, g)
  PROVE  \A i \in 1..n : g[i] = IF i = 1 THEN s[i] ELSE g[i-1] \o s[i]
BY DEF Joins

\* It depends on the sequences up to that place only.
LEMMA JoinsAgree ==
  ASSUME NEW s, NEW t, NEW n \in Nat, NEW m \in Nat, n <= m, Agree(s, t, n),
         NEW g, Joins(s, n, g), NEW h, Joins(t, m, h)
  PROVE  Agree(g, h, n)
<1> USE DEF Agree
<1> DEFINE Bad == {i \in 1..n : g[i] # h[i]}
<1> SUFFICES ASSUME Bad # {} PROVE FALSE
  OBVIOUS
<1>1. PICK i \in Bad : \A k \in Bad : i <= k
  <2>1. Bad \in SUBSET Nat
    OBVIOUS
  <2>2. QED
    BY <2>1, LeastNatural
<1>2. /\ \A k \in 1..n : g[k] = IF k = 1 THEN s[k] ELSE g[k-1] \o s[k]
      /\ \A k \in 1..m : h[k] = IF k = 1 THEN t[k] ELSE h[k-1] \o t[k]
  BY JoinsFacts
<1>3. i \in 1..n /\ i \in 1..m
  OBVIOUS
<1>4. i # 1 => g[i - 1] = h[i - 1]
  BY <1>1, <1>3
<1>5. g[i] = h[i]
  BY <1>2, <1>3, <1>4
<1>6. QED
  BY <1>5

\* FlattenSeq is its last value.
LEMMA FlattenJoins ==
  ASSUME NEW s, Len(s) \in Nat, Len(s) # 0
  PROVE  \E g : Joins(s, Len(s), g) /\ FlattenSeq(s) = g[Len(s)]
<1> DEFINE J == CHOOSE g : g = [i \in 1..Len(s) |-> IF i = 1 THEN s[i] ELSE g[i-1] \o s[i]]
<1>1. FlattenSeq(s) = J[Len(s)]
  BY DEF FlattenSeq
<1>2. \E g : g = [i \in 1..Len(s) |-> IF i = 1 THEN s[i] ELSE g[i-1] \o s[i]]
  BY JoinsExist DEF Joins
<1>3. J = [i \in 1..Len(s) |-> IF i = 1 THEN s[i] ELSE J[i-1] \o s[i]]
  BY <1>2
<1>4. Joins(s, Len(s), J)
  BY <1>3 DEF Joins
<1>5. QED
  BY <1>1, <1>4

\* A sequence appended to the others comes at the end of their concatenation.
LEMMA FlattenAppend ==
  ASSUME NEW S, NEW s \in Seq(Seq(S)), NEW x \in Seq(S)
  PROVE  FlattenSeq(Append(s, x)) = FlattenSeq(s) \o x
<1> DEFINE t == Append(s, x)
<1>1. /\ Len(s) \in Nat /\ Len(t) = Len(s) + 1 /\ t[Len(s) + 1] = x
      /\ \A i \in 1..Len(s) : t[i] = s[i]
  OBVIOUS
<1> HIDE DEF t
<1>2. PICK h : Joins(t, Len(t), h) /\ FlattenSeq(t) = h[Len(t)]
  BY <1>1, FlattenJoins
<1>3. h[Len(t)] = IF Len(t) = 1 THEN t[Len(t)] ELSE h[Len(t) - 1] \o t[Len(t)]
  BY <1>1, <1>2, JoinsFacts
<1>4. CASE Len(s) = 0
  <2>1. s = << >> /\ FlattenSeq(s) = << >>
    BY <1>4 DEF FlattenSeq
  <2>2. QED
    BY <1>1, <1>2, <1>3, <1>4, <2>1, ConcatEmptySeq DEF t
<1>5. CASE Len(s) # 0
  <2>1. PICK g : Joins(s, Len(s), g) /\ FlattenSeq(s) = g[Len(s)]
    BY <1>1, <1>5, FlattenJoins
  <2>2. g[Len(s)] = h[Len(s)]
    <3>1. Len(s) \in Nat /\ Len(t) \in Nat /\ Len(s) <= Len(t) /\ Agree(s, t, Len(s))
      BY <1>1 DEF Agree
    <3>2. \A i \in 1..Len(s) : g[i] = h[i]
      <4>1. Agree(g, h, Len(s))
        BY <1>2, <2>1, <3>1, JoinsAgree
      <4>2. QED
        BY <4>1 DEF Agree
    <3>3. QED
      BY <1>1, <1>5, <3>2
  <2>3. QED
    <3>1. Len(t) # 1 /\ Len(t) - 1 = Len(s)
      BY <1>1, <1>5
    <3>2. FlattenSeq(t) = h[Len(s)] \o x
      BY <1>1, <1>2, <1>3, <3>1
    <3>3. QED
      BY <2>1, <2>2, <3>2 DEF t
<1>6. QED
  BY <1>4, <1>5

-----------------------------------------------------------------------------
(* Bytes.                                                                  *)

\* The characters of the types are bytes.
LEMMA CharFacts ==
  /\ Types \subseteq Byte /\ 0 \in Byte
  /\ Char.s \in Types /\ Char.d \in Types /\ Char.s # Char.d
<1>1. DOMAIN Char = {"y", "b", "n", "i", "x", "d", "s"}
  BY DEF Char
<1>2. \A t \in DOMAIN Char : Char[t] \in Byte
  BY <1>1 DEF Char, Byte
<1>3. QED
  BY <1>1, <1>2 DEF Types, Char, Byte

\* What joining two sequences gives.
LEMMA Joined ==
  ASSUME NEW S, NEW a \in Seq(S), NEW b \in Seq(S)
  PROVE  /\ a \o b \in Seq(S) /\ Len(a \o b) = Len(a) + Len(b)
         /\ \A i \in 1 .. Len(a) : (a \o b)[i] = a[i]
         /\ \A i \in 1 .. Len(b) : (a \o b)[Len(a) + i] = b[i]
OBVIOUS

\* A call has its names and arguments.
LEMMA CallFacts ==
  ASSUME NEW c \in Calls
  PROVE  /\ c = [names |-> c.names, args |-> c.args]
         /\ c.names \in [1 .. 4 -> Byte \ {0}]
         /\ c.args \in Seq([type : Types, value : Seq(Byte)])
         /\ \A k \in 1 .. Len(c.args) :
              c.args[k].type # Char.s => Len(c.args[k].value) = Width(c.args[k].type)
BY CallsAssumption

\* Its arguments are arguments.
LEMMA ArgumentTypes ==
  ASSUME NEW c \in Calls
  PROVE  /\ Len(c.args) \in Nat
         /\ \A k \in 1 .. Len(c.args) : c.args[k] \in [type : Types, value : Seq(Byte)]
<1>1. PICK A : A = [type : Types, value : Seq(Byte)]
  OBVIOUS
<1>2. PICK s \in Seq(A) : s = c.args
  BY <1>1, CallFacts
<1>3. \A k \in 1 .. Len(s) : s[k] \in A
  BY ElementOfSeq
<1>4. QED
  BY <1>1, <1>2, <1>3

\* The bytes of an argument: its type, its value, and the zero behind a string.
LEMMA ArgumentBytes ==
  ASSUME NEW a \in [type : Types, value : Seq(Byte)]
  PROVE  /\ Serialise(a) \in Seq(Byte)
         /\ Len(Serialise(a)) = 1 + Len(a.value) + (IF a.type = Char.s THEN 1 ELSE 0)
         /\ Serialise(a)[1] = a.type
         /\ \A i \in 1 .. Len(a.value) : Serialise(a)[1 + i] = a.value[i]
         /\ a.type = Char.s => Serialise(a)[Len(a.value) + 2] = 0
<1>1. PICK t \in Byte, v \in Seq(Byte) : t = a.type /\ v = a.value
  BY CharFacts
<1>2. <<t>> \in Seq(Byte) /\ Len(<<t>>) = 1 /\ <<t>>[1] = t
  OBVIOUS
<1>3. NUL0 \in Seq(Byte) /\ Len(NUL0) = 1 /\ NUL0[1] = 0
  BY CharFacts DEF NUL0
<1>4. << >> \in Seq(Byte) /\ Len(<< >>) = 0
  OBVIOUS
<1>5. PICK z \in Seq(Byte) : z = IF a.type = Char.s THEN NUL0 ELSE << >>
  BY <1>3, <1>4
<1>6. Len(z) = (IF a.type = Char.s THEN 1 ELSE 0) /\ (a.type = Char.s => z[1] = 0)
  BY <1>3, <1>4, <1>5
<1>7. PICK u \in Seq(Byte) : u = <<t>> \o v
  BY <1>2, Joined
<1>8. Len(u) = 1 + Len(v) /\ u[1] = t /\ \A i \in 1 .. Len(v) : u[1 + i] = v[i]
  <2>1. 1 \in 1 .. Len(<<t>>)
    BY <1>2
  <2>2. /\ Len(<<t>> \o v) = Len(<<t>>) + Len(v)
        /\ \A i \in 1 .. Len(<<t>>) : (<<t>> \o v)[i] = <<t>>[i]
        /\ \A i \in 1 .. Len(v) : (<<t>> \o v)[Len(<<t>>) + i] = v[i]
    BY <1>2, Joined
  <2>3. QED
    BY <1>2, <1>7, <2>1, <2>2
<1>9. Serialise(a) = u \o z
  BY <1>1, <1>5, <1>7 DEF Serialise
<1>10. /\ u \o z \in Seq(Byte) /\ Len(u \o z) = Len(u) + Len(z)
       /\ \A i \in 1 .. Len(u) : (u \o z)[i] = u[i]
       /\ \A i \in 1 .. Len(z) : (u \o z)[Len(u) + i] = z[i]
  BY Joined
<1>11. /\ 1 \in 1 .. Len(u) /\ \A i \in 1 .. Len(v) : 1 + i \in 1 .. Len(u)
       /\ a.type = Char.s => 1 \in 1 .. Len(z)
  BY <1>6, <1>8
<1>12. \A i \in 1 .. Len(v) : Serialise(a)[1 + i] = v[i]
  BY <1>8, <1>9, <1>10, <1>11
<1>13. a.type = Char.s => Serialise(a)[Len(v) + 2] = 0
  BY <1>6, <1>8, <1>9, <1>10, <1>11
<1>14. QED
  BY <1>1, <1>6, <1>8, <1>9, <1>10, <1>11, <1>12, <1>13

\* The bytes of the arguments, one more.
LEMMA ArgumentsGrow ==
  ASSUME NEW c \in Calls
  PROVE  /\ Arguments(c, 0) = << >>
         /\ \A m \in 0 .. Len(c.args) : Arguments(c, m) \in Seq(Byte)
         /\ \A m \in 0 .. Len(c.args) - 1 :
              Arguments(c, m + 1) = Arguments(c, m) \o Serialise(c.args[m + 1])
<1> DEFINE s(m) == [k \in 1 .. m |-> Serialise(c.args[k])]
<1>1. PICK n \in Nat : n = Len(c.args)
  BY ArgumentTypes
<1>2. \A k \in 1 .. n : Serialise(c.args[k]) \in Seq(Byte)
  <2>1. ASSUME NEW k \in 1 .. n PROVE Serialise(c.args[k]) \in Seq(Byte)
    <3>1. c.args[k] \in [type : Types, value : Seq(Byte)]
      BY <1>1, ArgumentTypes
    <3>2. QED
      BY <3>1, ArgumentBytes
  <2>2. QED
    BY <2>1
<1>3. \A m \in 0 .. n : s(m) \in Seq(Seq(Byte)) /\ Len(s(m)) = m
  BY <1>1, <1>2
<1>4. ASSUME NEW m \in 0 .. n - 1
      PROVE  /\ s(m + 1) = Append(s(m), Serialise(c.args[m + 1]))
             /\ m + 1 \in 1 .. n /\ m \in 0 .. n /\ m + 1 \in 0 .. n
  <2>1. m + 1 \in 1 .. n /\ m \in 0 .. n /\ m + 1 \in 0 .. n
    BY <1>1
  <2>2. PICK p \in Seq(Seq(Byte)), q \in Seq(Seq(Byte)), x \in Seq(Byte) :
          p = s(m) /\ q = s(m + 1) /\ x = Serialise(c.args[m + 1])
    BY <1>2, <1>3, <2>1
  <2>3. Len(p) = m /\ Len(q) = m + 1 /\ (\A k \in 1 .. m : q[k] = p[k]) /\ q[m + 1] = x
    BY <1>3, <2>1, <2>2
  <2>4. q = Append(p, x)
    BY <2>3
  <2>5. QED
    BY <2>1, <2>2, <2>4
<1>5. \A m \in 0 .. n - 1 : FlattenSeq(s(m + 1)) = FlattenSeq(s(m)) \o Serialise(c.args[m + 1])
  BY <1>2, <1>3, <1>4, FlattenAppend
<1>6. Arguments(c, 0) = << >>
  <2>1. s(0) = << >> /\ Len(s(0)) = 0
    BY <1>1, <1>3
  <2>2. QED
    BY <2>1 DEF Arguments, FlattenSeq
<1>7. \A m \in 0 .. n - 1 : Arguments(c, m + 1) = Arguments(c, m) \o Serialise(c.args[m + 1])
  BY <1>5 DEF Arguments
<1>8. \A m \in 0 .. n : Arguments(c, m) \in Seq(Byte)
  <2> DEFINE Bad == {m \in 0 .. n : Arguments(c, m) \notin Seq(Byte)}
  <2> SUFFICES ASSUME Bad # {} PROVE FALSE
    OBVIOUS
  <2>1. PICK m \in Bad : \A k \in Bad : m <= k
    <3>1. Bad \in SUBSET Nat
      BY <1>1
    <3>2. QED
      BY <3>1, LeastNatural
  <2>2. m # 0
    <3>1. << >> \in Seq(Byte)
      OBVIOUS
    <3>2. QED
      BY <1>6, <2>1, <3>1
  <2>3. m - 1 \in 0 .. n - 1 /\ m - 1 \in 0 .. n /\ m \in 1 .. n /\ (m - 1) + 1 = m
    BY <1>1, <2>1, <2>2
  <2>4. Arguments(c, m - 1) \in Seq(Byte)
    BY <2>1, <2>3
  <2>5. Arguments(c, m) = Arguments(c, m - 1) \o Serialise(c.args[m])
    BY <1>7, <2>3
  <2>6. Serialise(c.args[m]) \in Seq(Byte)
    BY <1>2, <2>3
  <2>7. \A x, y \in Seq(Byte) : x \o y \in Seq(Byte)
    BY ConcatProperties, Zenon
  <2>8. Arguments(c, m) \in Seq(Byte)
    BY <2>4, <2>5, <2>6, <2>7
  <2>9. QED
    BY <2>1, <2>8
<1>9. QED
  BY <1>1, <1>6, <1>7, <1>8

\* Those of the first arguments are where the bytes of all begin.
LEMMA ArgumentsBegin ==
  ASSUME NEW c \in Calls, NEW m \in 0 .. Len(c.args), NEW n \in m .. Len(c.args)
  PROVE  /\ Len(Arguments(c, m)) <= Len(Arguments(c, n))
         /\ \A i \in 1 .. Len(Arguments(c, m)) : Arguments(c, n)[i] = Arguments(c, m)[i]
<1>0. Len(c.args) \in Nat
  BY ArgumentTypes
<1> DEFINE Begins(k) == /\ Len(Arguments(c, m)) <= Len(Arguments(c, k))
                        /\ \A i \in 1 .. Len(Arguments(c, m)) : Arguments(c, k)[i] = Arguments(c, m)[i]
           Bad == {k \in m .. Len(c.args) : ~Begins(k)}
<1> SUFFICES ASSUME Bad # {} PROVE FALSE
  OBVIOUS
<1>1. PICK k \in Bad : \A j \in Bad : k <= j
  <2>1. Bad \in SUBSET Nat
    BY <1>0
  <2>2. QED
    BY <2>1, LeastNatural
<1>2. k # m
  <2>1. Arguments(c, m) \in Seq(Byte)
    BY ArgumentsGrow
  <2>2. Begins(m)
    BY <2>1
  <2>3. QED
    BY <1>1, <2>2
<1>3. /\ k \in m .. Len(c.args) /\ k - 1 \in m .. Len(c.args) /\ k - 1 \in 0 .. Len(c.args) - 1
      /\ k - 1 \in 0 .. Len(c.args) /\ k \in 1 .. Len(c.args) /\ (k - 1) + 1 = k
  BY <1>0, <1>1, <1>2
<1>4. Begins(k - 1)
  BY <1>0, <1>1, <1>3
<1>5. PICK a \in Seq(Byte), b \in Seq(Byte), x \in Seq(Byte), g \in Seq(Byte) :
        /\ a = Arguments(c, m) /\ b = Arguments(c, k - 1) /\ x = Serialise(c.args[k])
        /\ g = Arguments(c, k)
  <2>1. Serialise(c.args[k]) \in Seq(Byte)
    <3>1. c.args[k] \in [type : Types, value : Seq(Byte)]
      BY <1>3, ArgumentTypes
    <3>2. QED
      BY <3>1, ArgumentBytes
  <2>2. k \in 0 .. Len(c.args)
    BY <1>3
  <2>3. QED
    BY <1>3, <2>1, <2>2, ArgumentsGrow
<1>6. g = b \o x
  BY <1>3, <1>5, ArgumentsGrow
<1>7. Len(g) = Len(b) + Len(x) /\ \A i \in 1 .. Len(b) : g[i] = b[i]
  BY <1>6, Joined
<1>8. Len(a) <= Len(b) /\ \A i \in 1 .. Len(a) : b[i] = a[i]
  BY <1>4, <1>5
<1>9. Len(a) <= Len(g) /\ \A i \in 1 .. Len(a) : g[i] = a[i]
  <2>1. PICK e \in Nat, h \in Nat, l \in Nat, z \in Nat :
          e = Len(a) /\ h = Len(b) /\ l = Len(g) /\ z = Len(x)
    OBVIOUS
  <2>2. l = h + z /\ e <= h
    BY <1>7, <1>8, <2>1, Zenon
  <2>3. e <= l /\ \A i \in 1 .. e : i \in 1 .. h
    BY <2>2
  <2>4. \A i \in 1 .. e : g[i] = a[i]
    BY <1>7, <1>8, <2>1, <2>3, Zenon
  <2>5. QED
    BY <2>1, <2>3, <2>4, Zenon
<1>10. QED
  BY <1>1, <1>5, <1>9

\* The zero that ends a string is the first one.
LEMMA EndOfString ==
  ASSUME NEW bytes, Len(bytes) \in Nat, NEW at \in Nat, NEW e \in at .. Len(bytes), bytes[e] = 0,
         \A k \in at .. e - 1 : bytes[k] # 0
  PROVE  StringEnd(bytes, at) = e
<1> DEFINE P(x) == x \in at .. Len(bytes) /\ bytes[x] = 0 /\ \A k \in at .. x - 1 : bytes[k] # 0
<1>1. P(e)
  OBVIOUS
<1>2. ASSUME NEW x, P(x) PROVE x = e
  <2>1. x \in Nat /\ e \in Nat
    BY <1>2
  <2>2. ~(x < e)
    <3>1. x < e => x \in at .. e - 1
      BY <1>2, <2>1
    <3>2. QED
      BY <1>2, <3>1
  <2>3. ~(e < x)
    <3>1. e < x => e \in at .. x - 1
      BY <1>2, <2>1
    <3>2. QED
      BY <1>2, <3>1
  <2>4. QED
    BY <2>1, <2>2, <2>3
<1>3. StringEnd(bytes, at) = CHOOSE x \in at .. Len(bytes) : bytes[x] = 0 /\ \A k \in at .. x - 1 : bytes[k] # 0
  BY DEF StringEnd
<1> DEFINE x == StringEnd(bytes, at)
<1>4. P(x)
  BY <1>1, <1>3
<1> HIDE DEF x, P
<1>5. x = e
  BY <1>2, <1>4
<1>6. QED
  BY <1>5 DEF x

\* A byte is a number.
LEMMA BytesAreNumbers ==
  ASSUME NEW s \in Seq(Byte)
  PROVE  s \in Seq(Nat)
<1>1. Byte \subseteq Nat
  BY DEF Byte
<1>2. QED
  BY <1>1, SeqMonotonic

\* A name and the zero behind it.
Name(c, k) == <<c.names[k]>> \o NUL0

\* It takes two bytes.
LEMMA NameBytes ==
  ASSUME NEW c \in Calls, NEW k \in 1 .. 4
  PROVE  /\ Name(c, k) \in Seq(Nat) /\ Len(Name(c, k)) = 2
         /\ Name(c, k)[1] = c.names[k] /\ Name(c, k)[2] = 0
<1>1. PICK n \in Nat : n = c.names[k]
  <2>1. c.names[k] \in Byte \ {0}
    BY CallFacts
  <2>2. QED
    BY <2>1 DEF Byte
<1>2. <<n>> \in Seq(Nat) /\ Len(<<n>>) = 1 /\ <<n>>[1] = n
  OBVIOUS
<1>3. NUL0 \in Seq(Nat) /\ Len(NUL0) = 1 /\ NUL0[1] = 0
  BY DEF NUL0
<1>4. PICK x \in Seq(Nat), z \in Seq(Nat) :
        x = <<n>> /\ z = NUL0 /\ Len(x) = 1 /\ Len(z) = 1 /\ x[1] = n /\ z[1] = 0
  BY <1>2, <1>3
<1>5. 1 \in 1 .. Len(x) /\ 1 \in 1 .. Len(z)
  BY <1>4
<1>6. /\ x \o z \in Seq(Nat) /\ Len(x \o z) = Len(x) + Len(z)
      /\ \A i \in 1 .. Len(x) : (x \o z)[i] = x[i]
      /\ \A i \in 1 .. Len(z) : (x \o z)[Len(x) + i] = z[i]
  BY Joined
<1>7. Len(x \o z) = 2 /\ (x \o z)[1] = n /\ (x \o z)[2] = 0
  BY <1>4, <1>5, <1>6
<1>8. Name(c, k) = x \o z
  BY <1>1, <1>4 DEF Name
<1>9. QED
  BY <1>1, <1>6, <1>7, <1>8

\* The bytes of the first m names.
Names(c, m) == FlattenSeq([k \in 1 .. m |-> <<c.names[k]>> \o NUL0])

\* One more name is one more at the end.
LEMMA NamesGrow ==
  ASSUME NEW c \in Calls
  PROVE  /\ Names(c, 0) = << >>
         /\ \A m \in 0 .. 3 : Names(c, m + 1) = Names(c, m) \o Name(c, m + 1)
<1> DEFINE s(m) == [k \in 1 .. m |-> Name(c, k)]
<1>1. ASSUME NEW m \in 0 .. 4 PROVE s(m) \in Seq(Seq(Nat)) /\ Len(s(m)) = m
  <2>1. \A k \in 1 .. 4 : Name(c, k) \in Seq(Nat)
    BY NameBytes
  <2>2. \A k \in 1 .. m : k \in 1 .. 4
    OBVIOUS
  <2>3. s(m) \in [1 .. m -> Seq(Nat)]
    BY <2>1, <2>2
  <2>4. \A f \in [1 .. m -> Seq(Nat)] : f \in Seq(Seq(Nat)) /\ Len(f) = m
    OBVIOUS
  <2>5. QED
    BY <2>3, <2>4, Zenon
<1>2. ASSUME NEW m \in 0 .. 3 PROVE Names(c, m + 1) = Names(c, m) \o Name(c, m + 1)
  <2>1. m + 1 \in 1 .. 4 /\ m \in 0 .. 4 /\ m + 1 \in 0 .. 4 /\ m \in Nat
    OBVIOUS
  <2>2. PICK p \in Seq(Seq(Nat)), q \in Seq(Seq(Nat)), x \in Seq(Nat) :
          p = s(m) /\ q = s(m + 1) /\ x = Name(c, m + 1)
    BY <1>1, <2>1, NameBytes
  <2>3. Len(p) = m /\ Len(q) = m + 1 /\ (\A k \in 1 .. m : q[k] = p[k]) /\ q[m + 1] = x
    BY <1>1, <2>1, <2>2
  <2>4. q = Append(p, x)
    BY <2>1, <2>3
  <2>5. FlattenSeq(q) = FlattenSeq(p) \o x
    BY <2>4, FlattenAppend
  <2>6. QED
    BY <2>2, <2>5 DEF Names, Name
<1>3. Names(c, 0) = << >>
  <2>1. Len(s(0)) = 0 /\ s(0) = << >>
    BY <1>1
  <2>2. QED
    BY <2>1 DEF Names, Name, FlattenSeq
<1>4. QED
  BY <1>2, <1>3

\* The names take two bytes each.
LEMMA NamesBytes ==
  ASSUME NEW c \in Calls
  PROVE  /\ Names(c, 4) \in Seq(Nat) /\ Len(Names(c, 4)) = 8
         /\ \A k \in 1 .. 4 : Names(c, 4)[2 * k - 1] = c.names[k] /\ Names(c, 4)[2 * k] = 0
<1> DEFINE There(m) ==
             /\ Names(c, m) \in Seq(Nat) /\ Len(Names(c, m)) = 2 * m
             /\ \A k \in 1 .. m : Names(c, m)[2 * k - 1] = c.names[k] /\ Names(c, m)[2 * k] = 0
<1>1. There(0)
  <2>1. << >> \in Seq(Nat) /\ Len(<< >>) = 0
    OBVIOUS
  <2>2. QED
    <3>1. \A k \in 1 .. 0 : FALSE
      OBVIOUS
    <3>2. Names(c, 0) \in Seq(Nat) /\ Len(Names(c, 0)) = 2 * 0
      <4>1. Names(c, 0) = << >>
        BY NamesGrow
      <4>2. 2 * 0 = 0
        OBVIOUS
      <4>3. QED
        BY <2>1, <4>1, <4>2, Zenon
    <3>3. QED
      BY <3>1, <3>2
<1>2. ASSUME NEW m \in 0 .. 3, There(m) PROVE There(m + 1)
  <2>1. PICK a \in Seq(Nat), x \in Seq(Nat) :
          /\ a = Names(c, m) /\ x = Name(c, m + 1)
          /\ Len(x) = 2 /\ x[1] = c.names[m + 1] /\ x[2] = 0
    <3>1. m + 1 \in 1 .. 4
      OBVIOUS
    <3>2. QED
      BY <1>2, <3>1, NameBytes
  <2>2. PICK g \in Seq(Nat) : g = a \o x
    BY Joined
  <2>3. /\ Len(a) = 2 * m
        /\ \A k \in 1 .. m : a[2 * k - 1] = c.names[k] /\ a[2 * k] = 0
    BY <1>2, <2>1
  <2>4. /\ Len(g) = Len(a) + Len(x)
        /\ \A i \in 1 .. Len(a) : g[i] = a[i]
        /\ \A i \in 1 .. Len(x) : g[Len(a) + i] = x[i]
    BY <2>2, Joined
  <2>5. /\ 1 \in 1 .. Len(x) /\ 2 \in 1 .. Len(x) /\ m \in Nat
        /\ \A k \in 1 .. m : 2 * k - 1 \in 1 .. Len(a) /\ 2 * k \in 1 .. Len(a)
        /\ \A k \in 1 .. m + 1 : k \in 1 .. m \/ k = m + 1
    BY <2>1, <2>3
  <2>6. g[2 * (m + 1) - 1] = c.names[m + 1] /\ g[2 * (m + 1)] = 0
    <3>1. g[Len(a) + 1] = x[1] /\ g[Len(a) + 2] = x[2]
      BY <2>4, <2>5
    <3>2. Len(a) + 1 = 2 * (m + 1) - 1 /\ Len(a) + 2 = 2 * (m + 1)
      BY <2>3, <2>5
    <3>3. QED
      BY <2>1, <3>1, <3>2
  <2>7. \A k \in 1 .. m : g[2 * k - 1] = c.names[k] /\ g[2 * k] = 0
    BY <2>3, <2>4, <2>5
  <2>8. Names(c, m + 1) = g /\ Len(g) = 2 * (m + 1)
    <3>1. Names(c, m + 1) = Names(c, m) \o Name(c, m + 1)
      BY NamesGrow
    <3>2. Len(g) = 2 * m + 2
      BY <2>1, <2>3, <2>4
    <3>3. Names(c, m + 1) = g
      BY <2>1, <2>2, <3>1
    <3>4. 2 * m + 2 = 2 * (m + 1)
      BY <2>5
    <3>5. QED
      BY <3>2, <3>3, <3>4
  <2>9. QED
    BY <2>5, <2>6, <2>7, <2>8
<1> HIDE DEF There
<1>3. There(1) /\ There(2) /\ There(3) /\ There(4)
  <2>1. 0 \in 0 .. 3 /\ 1 \in 0 .. 3 /\ 2 \in 0 .. 3 /\ 3 \in 0 .. 3
    OBVIOUS
  <2>2. There(0 + 1) /\ 0 + 1 = 1
    BY <1>1, <1>2, <2>1
  <2>3. There(1 + 1) /\ 1 + 1 = 2
    BY <1>2, <2>1, <2>2
  <2>4. There(2 + 1) /\ 2 + 1 = 3
    BY <1>2, <2>1, <2>3
  <2>5. There(3 + 1) /\ 3 + 1 = 4
    BY <1>2, <2>1, <2>4
  <2>6. QED
    BY <2>2, <2>3, <2>4, <2>5
<1>4. QED
  BY <1>3 DEF There

\* Where in a message what is.
LEMMA MessageBytes ==
  ASSUME NEW c \in Calls, NEW n \in Nat, n = Len(c.args)
  PROVE  /\ Compress(c) \in Seq(Nat) /\ Len(Compress(c)) = 12 + Len(Arguments(c, n))
         /\ \A k \in 1 .. 4 : Compress(c)[2 * k - 1] = c.names[k] /\ Compress(c)[2 * k] = 0
         /\ Compress(c)[9] = n % 256
         /\ \A i \in 1 .. Len(Arguments(c, n)) : Compress(c)[12 + i] = Arguments(c, n)[i]
<1>1. n \in Nat
  BY ArgumentTypes
<1>2. Arguments(c, n) \in Seq(Nat)
  BY <1>1, ArgumentsGrow, BytesAreNumbers
<1>3. PICK x \in Seq(Nat), a \in Seq(Nat) : x = Names(c, 4) /\ a = Arguments(c, n)
  BY <1>2, NamesBytes
<1>4. PICK l \in Nat, h \in Nat : l = n % 256 /\ h = n \div 256
  <2>1. \A k \in Nat : k % 256 \in Nat /\ k \div 256 \in Nat
    OBVIOUS
  <2>2. QED
    BY <1>1, <2>1
<1>5. PICK y \in Seq(Nat) : y = Count(n) /\ Len(y) = 4 /\ y[1] = l
  <2>1. <<l, h, 0, 0>> \in Seq(Nat) /\ Len(<<l, h, 0, 0>>) = 4 /\ <<l, h, 0, 0>>[1] = l
    OBVIOUS
  <2>2. QED
    BY <1>4, <2>1 DEF Count
<1>6. PICK u \in Seq(Nat) : u = x \o y
  BY Joined
<1>7. Len(x) = 8
  BY <1>3, NamesBytes
<1>8. /\ Len(u) = 12 /\ \A i \in 1 .. Len(x) : u[i] = x[i]
      /\ u[9] = l
  <2>1. /\ Len(u) = Len(x) + Len(y) /\ \A i \in 1 .. Len(x) : u[i] = x[i]
        /\ \A i \in 1 .. Len(y) : u[Len(x) + i] = y[i]
    BY <1>6, Joined
  <2>2. 1 \in 1 .. Len(y) /\ Len(x) + 1 = 9 /\ Len(x) + Len(y) = 12
    BY <1>5, <1>7
  <2>3. u[Len(x) + 1] = y[1]
    BY <2>1, <2>2
  <2>4. u[9] = l
    BY <1>5, <2>2, <2>3
  <2>5. QED
    BY <2>1, <2>2, <2>4
<1>9. Compress(c) = u \o a
  BY <1>1, <1>3, <1>5, <1>6 DEF Compress, Names, Arguments
<1>10. PICK w \in Seq(Nat) : w = u \o a
  BY Joined
<1>11. /\ Len(w) = Len(u) + Len(a) /\ \A i \in 1 .. Len(u) : w[i] = u[i]
       /\ \A i \in 1 .. Len(a) : w[Len(u) + i] = a[i]
  BY <1>10, Joined
<1>12. \A k \in 1 .. 4 : w[2 * k - 1] = c.names[k] /\ w[2 * k] = 0
  <2>1. \A k \in 1 .. 4 : /\ 2 * k - 1 \in 1 .. Len(x) /\ 2 * k \in 1 .. Len(x)
                          /\ 2 * k - 1 \in 1 .. Len(u) /\ 2 * k \in 1 .. Len(u)
    BY <1>7, <1>8
  <2>2. \A k \in 1 .. 4 : x[2 * k - 1] = c.names[k] /\ x[2 * k] = 0
    BY <1>3, NamesBytes
  <2>3. \A i \in 1 .. Len(x) : w[i] = x[i]
    <3>1. ASSUME NEW i \in 1 .. Len(x)
          PROVE  w[i] = x[i]
      <4>1. i \in 1 .. Len(u) /\ u[i] = x[i]
        BY <1>7, <1>8
      <4>2. QED
        BY <1>11, <4>1
    <3>2. QED
      BY <3>1
  <2>4. ASSUME NEW k \in 1 .. 4
        PROVE  w[2 * k - 1] = c.names[k] /\ w[2 * k] = 0
    <3>1. PICK o, e : o = 2 * k - 1 /\ e = 2 * k
      OBVIOUS
    <3>2. o \in 1 .. Len(x) /\ e \in 1 .. Len(x)
      BY <2>1, <3>1
    <3>3. x[o] = c.names[k] /\ x[e] = 0
      BY <2>2, <3>1
    <3>4. w[o] = c.names[k] /\ w[e] = 0
      BY <2>3, <3>2, <3>3, Zenon
    <3>5. QED
      BY <3>1, <3>4
  <2>5. QED
    BY <2>4
<1>13. w[9] = n % 256
  <2>1. 9 \in 1 .. Len(u)
    BY <1>8
  <2>2. QED
    BY <1>4, <1>8, <1>11, <2>1
<1>14. Len(w) = 12 + Len(a) /\ \A i \in 1 .. Len(a) : w[12 + i] = a[i]
  BY <1>8, <1>11
<1>15. Compress(c) = w /\ a = Arguments(c, n)
  BY <1>3, <1>9, <1>10
<1>16. QED
  BY <1>12, <1>13, <1>14, <1>15

\* The same with the number of arguments the call has.
LEMMA CompressBytes ==
  \A c \in Calls :
    /\ Len(c.args) \in Nat
    /\ Compress(c) \in Seq(Nat) /\ Len(Compress(c)) = 12 + Len(Arguments(c, Len(c.args)))
    /\ \A k \in 1 .. 4 : Compress(c)[2 * k - 1] = c.names[k] /\ Compress(c)[2 * k] = 0
    /\ Compress(c)[9] = Len(c.args) % 256
<1> SUFFICES ASSUME NEW c \in Calls
             PROVE  /\ Len(c.args) \in Nat
                    /\ Compress(c) \in Seq(Nat)
                    /\ Len(Compress(c)) = 12 + Len(Arguments(c, Len(c.args)))
                    /\ \A k \in 1 .. 4 : Compress(c)[2 * k - 1] = c.names[k] /\ Compress(c)[2 * k] = 0
                    /\ Compress(c)[9] = Len(c.args) % 256
  BY Zenon
<1>1. PICK n \in Nat : n = Len(c.args)
  BY ArgumentTypes
<1>2. /\ Compress(c) \in Seq(Nat) /\ Len(Compress(c)) = 12 + Len(Arguments(c, n))
      /\ \A k \in 1 .. 4 : Compress(c)[2 * k - 1] = c.names[k] /\ Compress(c)[2 * k] = 0
      /\ Compress(c)[9] = n % 256
  <2>1. /\ Compress(c) \in Seq(Nat) /\ Len(Compress(c)) = 12 + Len(Arguments(c, n))
        /\ \A k \in 1 .. 4 : Compress(c)[2 * k - 1] = c.names[k] /\ Compress(c)[2 * k] = 0
        /\ Compress(c)[9] = n % 256
        /\ \A i \in 1 .. Len(Arguments(c, n)) : Compress(c)[12 + i] = Arguments(c, n)[i]
    BY <1>1, MessageBytes, Zenon
  <2>2. QED
    BY <2>1, Zenon
<1>3. QED
  BY <1>1, <1>2, Zenon

\* The service finds the names, and the count behind them.
LEMMA StartsFound ==
  ASSUME NEW c \in Calls
  PROVE  \A k \in 1 .. 5 : Starts(Compress(c))[k] = 2 * k - 1
<1>1. PICK b \in Seq(Nat) :
        /\ b = Compress(c) /\ Len(b) >= 12
        /\ \A k \in 1 .. 4 : b[2 * k - 1] # 0 /\ b[2 * k] = 0
  <2>1. Arguments(c, Len(c.args)) \in Seq(Byte)
    BY ArgumentTypes, ArgumentsGrow
  <2>2. Len(Arguments(c, Len(c.args))) \in Nat
    BY <2>1
  <2>3. \A k \in 1 .. 4 : c.names[k] # 0
    BY CallFacts
  <2>4. QED
    <3>1. PICK b \in Seq(Nat) : b = Compress(c)
      BY CompressBytes
    <3>2. Len(b) = 12 + Len(Arguments(c, Len(c.args)))
      BY <3>1, CompressBytes
    <3>3. \A k \in 1 .. 4 : b[2 * k - 1] = c.names[k] /\ b[2 * k] = 0
      BY <3>1, CompressBytes
    <3>4. \A k \in 1 .. 4 : b[2 * k - 1] # 0 /\ b[2 * k] = 0
      BY <2>3, <3>3
    <3>5. Len(b) >= 12
      BY <2>2, <3>2
    <3>6. QED
      BY <3>1, <3>4, <3>5
<1>2. ASSUME NEW k \in 1 .. 4 PROVE StringEnd(b, 2 * k - 1) = 2 * k
  <2>1. /\ 2 * k - 1 \in Nat /\ 2 * k \in 2 * k - 1 .. Len(b)
        /\ \A j \in 2 * k - 1 .. 2 * k - 1 : j = 2 * k - 1
    <3>1. PICK l \in Nat : l = Len(b) /\ l >= 12
      BY <1>1
    <3>2. 2 * k - 1 \in Nat /\ 2 * k \in 2 * k - 1 .. l
      BY <3>1
    <3>3. \A j \in 2 * k - 1 .. 2 * k - 1 : j = 2 * k - 1
      OBVIOUS
    <3>4. QED
      BY <3>1, <3>2, <3>3
  <2>2. \A j \in 2 * k - 1 .. 2 * k - 1 : b[j] # 0
    BY <1>1, <2>1
  <2>3. b[2 * k] = 0 /\ Len(b) \in Nat
    <3>1. Len(b) \in Nat
      BY <1>1
    <3>2. b[2 * k] = 0
      BY <1>1
    <3>3. QED
      BY <3>1, <3>2
  <2>4. QED
    BY <2>1, <2>2, <2>3, EndOfString
<1> DEFINE IsStart(f) == f = [k \in 1 .. 5 |-> IF k = 1 THEN 1 ELSE StringEnd(b, f[k - 1]) + 1]
           f == CHOOSE x : IsStart(x)
           h == [k \in 1 .. 5 |-> 2 * k - 1]
<1>3. IsStart(h)
  <2>1. ASSUME NEW k \in 1 .. 5
        PROVE  2 * k - 1 = IF k = 1 THEN 1 ELSE StringEnd(b, h[k - 1]) + 1
    <3>1. CASE k = 1
      BY <3>1
    <3>2. CASE k # 1
      <4>1. k - 1 \in 1 .. 4 /\ k - 1 \in 1 .. 5
        BY <3>2
      <4>2. h[k - 1] = 2 * (k - 1) - 1
        BY <4>1
      <4>3. StringEnd(b, h[k - 1]) = 2 * (k - 1)
        BY <1>2, <4>1, <4>2
      <4>4. QED
        BY <3>2, <4>3
    <3>3. QED
      BY <3>1, <3>2
  <2>2. QED
    BY <2>1
<1>4. IsStart(f)
  BY <1>3
<1>5. Starts(b) = f
  BY DEF Starts
<1> HIDE DEF f
<1>6. f[1] = 1 /\ \A k \in 1 .. 5 : k # 1 => f[k] = StringEnd(b, f[k - 1]) + 1
  BY <1>4
<1>7. f[2] = 3 /\ f[3] = 5 /\ f[4] = 7 /\ f[5] = 9
  <2>1. StringEnd(b, 1) = 2 /\ StringEnd(b, 3) = 4 /\ StringEnd(b, 5) = 6 /\ StringEnd(b, 7) = 8
    BY <1>2
  <2>2. f[2] = StringEnd(b, f[1]) + 1 /\ f[3] = StringEnd(b, f[2]) + 1
    BY <1>6
  <2>3. f[4] = StringEnd(b, f[3]) + 1 /\ f[5] = StringEnd(b, f[4]) + 1
    BY <1>6
  <2>4. QED
    BY <1>6, <2>1, <2>2, <2>3
<1>8. QED
  BY <1>1, <1>5, <1>6, <1>7

\* A sequence that is found in another one.
LEMMA Found ==
  ASSUME NEW b \in Seq(Nat), NEW v \in Seq(Nat), NEW p \in Nat, p + Len(v) <= Len(b),
         \A j \in 1 .. Len(v) : b[p + j] = v[j]
  PROVE  SubSeq(b, p + 1, p + Len(v)) = v
<1>1. PICK l \in Nat : l = Len(v)
  OBVIOUS
<1>2. \A i \in p + 1 .. p + l : i \in 1 .. Len(b)
  BY <1>1
<1>3. /\ SubSeq(b, p + 1, p + l) \in Seq(Nat)
      /\ Len(SubSeq(b, p + 1, p + l)) = IF p + 1 <= p + l THEN (p + l) - (p + 1) + 1 ELSE 0
      /\ \A j \in 1 .. (p + l) - (p + 1) + 1 : SubSeq(b, p + 1, p + l)[j] = b[(p + 1) + j - 1]
  <2>1. \A i \in p + 1 .. p + l : b[i] \in Nat
    BY <1>2
  <2>2. p + 1 \in Int /\ p + l \in Int
    OBVIOUS
  <2>3. QED
    BY <2>1, <2>2, SubSeqProperties
<1>4. PICK s \in Seq(Nat) :
        s = SubSeq(b, p + 1, p + l) /\ Len(s) = l /\ \A j \in 1 .. l : s[j] = b[p + j]
  <2>1. /\ (IF p + 1 <= p + l THEN (p + l) - (p + 1) + 1 ELSE 0) = l
        /\ (p + l) - (p + 1) + 1 = l
        /\ \A j \in 1 .. l : (p + 1) + j - 1 = p + j
    OBVIOUS
  <2>2. Len(SubSeq(b, p + 1, p + l)) = l
    BY <1>3, <2>1
  <2>3. \A j \in 1 .. l : SubSeq(b, p + 1, p + l)[j] = b[p + j]
    BY <1>3, <2>1
  <2>4. QED
    BY <1>3, <2>2, <2>3
<1>5. \A j \in 1 .. l : s[j] = v[j]
  BY <1>1, <1>4
<1>6. s = v
  BY <1>1, <1>4, <1>5, SeqEqual
<1>7. QED
  BY <1>1, <1>4, <1>6

\* The numbers of the places, with ld bytes before an argument, le with it and la in all.
LEMMA Places ==
  ASSUME NEW ld \in Nat, NEW le \in Nat, NEW la \in Nat, NEW lx \in Nat, NEW lb \in Nat, NEW p \in Nat,
         le = ld + lx, le <= la, lb = 12 + la, p = 13 + ld
  PROVE  /\ p + lx <= lb + 1 /\ 13 + le = p + lx
         /\ \A i \in 1 .. lx :
              ld + i \in 1 .. le /\ ld + i \in 1 .. la /\ 12 + (ld + i) = p + i - 1
OBVIOUS

\* Argument a of a call, behind m others, and its place p in the message.
IsNext(c, m, a, p) == a = c.args[m + 1] /\ p = 13 + Len(Arguments(c, m))

\* Where its bytes are.
LEMMA ArgumentPlace ==
  ASSUME NEW c \in Calls, NEW m \in 0 .. Len(c.args) - 1, NEW a, NEW p \in Nat, IsNext(c, m, a, p)
  PROVE  /\ Compress(c) \in Seq(Nat) /\ a \in [type : Types, value : Seq(Byte)]
         /\ p + Len(Serialise(a)) <= Len(Compress(c)) + 1
         /\ Compress(c)[p] = a.type
         /\ \A j \in 1 .. Len(a.value) : Compress(c)[p + j] = a.value[j]
         /\ a.type = Char.s => Compress(c)[p + Len(a.value) + 1] = 0
         /\ 13 + Len(Arguments(c, m + 1)) = p + Len(Serialise(a))
<1>1. PICK n \in Nat : n = Len(c.args)
  BY ArgumentTypes
<1>2. /\ m \in 0 .. n /\ m + 1 \in 0 .. n /\ m + 1 \in 1 .. n /\ n \in 0 .. n
      /\ m \in 0 .. n - 1 /\ n \in m + 1 .. n
  BY <1>1
<1>3. a \in [type : Types, value : Seq(Byte)]
  BY <1>1, <1>2, ArgumentTypes DEF IsNext
<1>4. PICK x \in Seq(Byte), v \in Seq(Byte) : x = Serialise(a) /\ v = a.value
  BY <1>3, ArgumentBytes
<1>5. PICK d \in Seq(Byte), e \in Seq(Byte), all \in Seq(Byte) :
        d = Arguments(c, m) /\ e = Arguments(c, m + 1) /\ all = Arguments(c, n)
  BY <1>1, <1>2, ArgumentsGrow
<1>6. e = d \o x
  BY <1>1, <1>2, <1>4, <1>5, ArgumentsGrow DEF IsNext
<1>7. Len(e) = Len(d) + Len(x) /\ \A i \in 1 .. Len(x) : e[Len(d) + i] = x[i]
  BY <1>6, Joined
<1>8. Len(e) <= Len(all) /\ \A i \in 1 .. Len(e) : all[i] = e[i]
  BY <1>1, <1>2, <1>5, ArgumentsBegin
<1>9. PICK b \in Seq(Nat) :
        /\ b = Compress(c) /\ Len(b) = 12 + Len(all)
        /\ \A i \in 1 .. Len(all) : b[12 + i] = all[i]
  <2>1. /\ Compress(c) \in Seq(Nat) /\ Len(Compress(c)) = 12 + Len(Arguments(c, n))
        /\ \A i \in 1 .. Len(Arguments(c, n)) : Compress(c)[12 + i] = Arguments(c, n)[i]
    <3>1. Compress(c) \in Seq(Nat) /\ Len(Compress(c)) = 12 + Len(Arguments(c, n))
      BY <1>1, MessageBytes
    <3>2. \A i \in 1 .. Len(Arguments(c, n)) : Compress(c)[12 + i] = Arguments(c, n)[i]
      BY <1>1, MessageBytes
    <3>3. QED
      BY <3>1, <3>2
  <2>2. QED
    BY <1>5, <2>1
<1>10. p = 13 + Len(d) /\ p + Len(x) <= Len(b) + 1 /\ 13 + Len(e) = p + Len(x)
  <2>1. p = 13 + Len(d)
    BY <1>5 DEF IsNext
  <2>2. PICK ld \in Nat, le \in Nat, la \in Nat, lx \in Nat, lb \in Nat :
          ld = Len(d) /\ le = Len(e) /\ la = Len(all) /\ lx = Len(x) /\ lb = Len(b)
    OBVIOUS
  <2>3. le = ld + lx /\ le <= la /\ lb = 12 + la /\ p = 13 + ld
    BY <1>7, <1>8, <1>9, <2>1, <2>2
  <2>4. p + lx <= lb + 1 /\ 13 + le = p + lx
    BY <2>2, <2>3, Places
  <2>5. QED
    BY <2>1, <2>2, <2>4
<1>11. ASSUME NEW i \in 1 .. Len(x) PROVE b[p + i - 1] = x[i]
  <2>1. Len(d) + i \in 1 .. Len(e) /\ Len(d) + i \in 1 .. Len(all) /\ 12 + (Len(d) + i) = p + i - 1
    <3>1. PICK ld \in Nat, le \in Nat, la \in Nat, lx \in Nat :
            ld = Len(d) /\ le = Len(e) /\ la = Len(all) /\ lx = Len(x)
      OBVIOUS
    <3>2. le = ld + lx /\ le <= la /\ p = 13 + ld /\ i \in 1 .. lx /\ 12 + la \in Nat
      BY <1>7, <1>8, <1>10, <3>1
    <3>3. ld + i \in 1 .. le /\ ld + i \in 1 .. la /\ 12 + (ld + i) = p + i - 1
      BY <3>1, <3>2, Places
    <3>4. QED
      BY <3>1, <3>3
  <2>2. e[Len(d) + i] = x[i]
    BY <1>7
  <2>3. all[Len(d) + i] = e[Len(d) + i]
    BY <1>8, <2>1
  <2>4. b[12 + (Len(d) + i)] = all[Len(d) + i]
    BY <1>9, <2>1
  <2>5. QED
    BY <2>1, <2>2, <2>3, <2>4
<1>12. /\ Len(x) = 1 + Len(v) + (IF a.type = Char.s THEN 1 ELSE 0)
       /\ x[1] = a.type /\ \A j \in 1 .. Len(v) : x[1 + j] = v[j]
       /\ a.type = Char.s => x[Len(v) + 2] = 0
  BY <1>3, <1>4, ArgumentBytes
<1>13. b[p] = a.type
  <2>1. 1 \in 1 .. Len(x) /\ p + 1 - 1 = p
    BY <1>10, <1>12
  <2>2. QED
    BY <1>11, <1>12, <2>1
<1>14. ASSUME NEW j \in 1 .. Len(v) PROVE b[p + j] = v[j]
  <2>1. 1 + j \in 1 .. Len(x) /\ p + (1 + j) - 1 = p + j
    <3>1. PICK lv \in Nat, lx \in Nat : lv = Len(v) /\ lx = Len(x)
      OBVIOUS
    <3>2. lx = 1 + lv + (IF a.type = Char.s THEN 1 ELSE 0) /\ j \in 1 .. lv
      BY <1>12, <3>1
    <3>3. 1 + j \in 1 .. lx
      BY <3>2
    <3>4. p \in Nat
      BY <1>10
    <3>5. p + (1 + j) - 1 = p + j
      BY <3>4
    <3>6. QED
      BY <3>1, <3>3, <3>5
  <2>2. QED
    BY <1>11, <1>12, <2>1
<1>15. a.type = Char.s => b[p + Len(v) + 1] = 0
  <2>1. CASE a.type = Char.s
    <3>1. Len(v) + 2 \in 1 .. Len(x) /\ p + (Len(v) + 2) - 1 = p + Len(v) + 1
      BY <1>10, <1>12, <2>1
    <3>2. QED
      BY <1>11, <1>12, <2>1, <3>1
  <2>2. QED
    BY <2>1
<1>16. QED
  BY <1>3, <1>4, <1>5, <1>9, <1>10, <1>13, <1>14, <1>15

\* The argument at a place is read as it is, and the pointer goes on to another place.
ReadAs(b, p, a, to) ==
  \E x : bytesToDbus(a.type, b, p + 1) = {x} /\ x.value = a.value /\ p + 1 + x.size = to

\* A plain argument is read as it was written.
LEMMA ArgumentRead ==
  ASSUME NEW c \in Calls, NEW m \in 0 .. Len(c.args) - 1, NEW a, NEW p \in Nat, IsNext(c, m, a, p),
         Plain(a), NEW b \in {Compress(c)}
  PROVE  /\ ~(p > Len(b)) /\ b[p] = a.type /\ a.type \in Types
         /\ ReadAs(b, p, a, 13 + Len(Arguments(c, m + 1)))
<1>1. /\ b \in Seq(Nat) /\ p \in Nat /\ a \in [type : Types, value : Seq(Byte)]
      /\ p + Len(Serialise(a)) <= Len(b) + 1 /\ b[p] = a.type
      /\ \A j \in 1 .. Len(a.value) : b[p + j] = a.value[j]
      /\ a.type = Char.s => b[p + Len(a.value) + 1] = 0
      /\ 13 + Len(Arguments(c, m + 1)) = p + Len(Serialise(a))
  <2>1. /\ Compress(c) \in Seq(Nat) /\ a \in [type : Types, value : Seq(Byte)]
        /\ p + Len(Serialise(a)) <= Len(Compress(c)) + 1
        /\ Compress(c)[p] = a.type
        /\ \A j \in 1 .. Len(a.value) : Compress(c)[p + j] = a.value[j]
        /\ a.type = Char.s => Compress(c)[p + Len(a.value) + 1] = 0
        /\ 13 + Len(Arguments(c, m + 1)) = p + Len(Serialise(a))
    BY ArgumentPlace
  <2>2. QED
    BY <2>1
<1>2. PICK t \in Types, v \in Seq(Byte), l \in Nat : t = a.type /\ v = a.value /\ l = Len(v)
  BY <1>1
<1>3. PICK z \in {0, 1} : z = IF t = Char.s THEN 1 ELSE 0
  OBVIOUS
<1>4. PICK lb \in Nat, to \in Nat :
        /\ lb = Len(b) /\ to = 13 + Len(Arguments(c, m + 1))
        /\ to = p + 1 + l + z /\ p + l + z <= lb
  <2>1. Len(Serialise(a)) = 1 + l + z
    BY <1>1, <1>2, <1>3, ArgumentBytes
  <2>2. PICK lb \in Nat : lb = Len(b)
    BY <1>1
  <2>3. p + (1 + l + z) <= lb + 1
    BY <1>1, <2>1, <2>2
  <2>4. p + 1 + l + z \in Nat /\ p + (1 + l + z) = p + 1 + l + z /\ p + l + z <= lb
    BY <1>1, <2>3
  <2>5. QED
    BY <1>1, <2>1, <2>2, <2>4
<1>5. /\ p + l <= lb /\ ~(p > lb)
      /\ \A j \in 1 .. l : b[p + j] = v[j]
  <2>1. p + l <= lb /\ ~(p > lb)
    BY <1>1, <1>4
  <2>2. QED
    BY <1>1, <1>2, <2>1
<1>6. SubSeq(b, p + 1, p + l) = v
  <2>1. v \in Seq(Nat)
    BY BytesAreNumbers
  <2>2. p + Len(v) <= Len(b) /\ \A j \in 1 .. Len(v) : b[p + j] = v[j]
    BY <1>2, <1>4, <1>5
  <2>3. SubSeq(b, p + 1, p + Len(v)) = v
    BY <1>1, <2>1, <2>2, Found
  <2>4. QED
    BY <1>2, <2>3
<1>7. ASSUME bytesToDbus(t, b, p + 1) = {[value |-> v, size |-> l + z]}
      PROVE  /\ ~(p > Len(b)) /\ b[p] = a.type /\ a.type \in Types
             /\ ReadAs(b, p, a, 13 + Len(Arguments(c, m + 1)))
  <2> DEFINE x == [value |-> v, size |-> l + z]
  <2>1. bytesToDbus(t, b, p + 1) = {x} /\ x.value = v /\ x.size = l + z
    BY <1>7
  <2>2. p + 1 + (l + z) = to
    BY <1>1, <1>4
  <2>3. p + 1 + x.size = 13 + Len(Arguments(c, m + 1))
    BY <1>4, <2>1, <2>2
  <2>4. ~(p > Len(b)) /\ b[p] = a.type /\ a.type \in Types
    BY <1>1, <1>2, <1>4, <1>5
  <2>5. bytesToDbus(a.type, b, p + 1) = {x} /\ x.value = a.value
    BY <1>2, <2>1
  <2> HIDE DEF x
  <2>6. QED
    BY <2>3, <2>4, <2>5 DEF ReadAs
<1>8. CASE t = Char.s
  <2>1. z = 1 /\ a.type = Char.s
    BY <1>2, <1>3, <1>8
  <2>2. StringEnd(b, p + 1) = p + l + 1
    <3>1. p + 1 \in Nat /\ p + l + 1 \in p + 1 .. lb
      BY <1>1, <1>4, <2>1
    <3>2. b[p + l + 1] = 0
      BY <1>1, <1>2, <2>1
    <3>3. ASSUME NEW k \in p + 1 .. (p + l + 1) - 1 PROVE b[k] # 0
      <4>1. k - p \in 1 .. l /\ p + (k - p) = k
        BY <1>1
      <4>2. b[k] = v[k - p]
        BY <1>5, <4>1
      <4>3. v[k - p] # 0
        BY <1>2, <2>1, <4>1 DEF Plain
      <4>4. QED
        BY <4>2, <4>3
    <3>4. Len(b) = lb /\ lb \in Nat
      BY <1>4
    <3>5. QED
      BY <3>1, <3>2, <3>3, <3>4, EndOfString
  <2>3. p + l + 1 - 1 = p + l /\ p + l + 1 - (p + 1) + 1 = l + z
    BY <1>1, <2>1
  <2>4. bytesToDbus(t, b, p + 1) =
          {Taken(SubSeq(b, p + 1, StringEnd(b, p + 1) - 1), StringEnd(b, p + 1) - (p + 1) + 1)}
    BY <1>8, CharFacts DEF bytesToDbus
  <2>5. bytesToDbus(t, b, p + 1) = {Taken(SubSeq(b, p + 1, p + l + 1 - 1), p + l + 1 - (p + 1) + 1)}
    BY <2>2, <2>4
  <2>6. bytesToDbus(t, b, p + 1) = {Taken(v, l + z)}
    BY <1>6, <2>3, <2>5
  <2>7. QED
    BY <1>7, <2>6 DEF Taken
<1>9. t # Char.s => l = Width(t) /\ z = 0
  <2>1. m + 1 \in 1 .. Len(c.args)
    BY ArgumentTypes
  <2>2. QED
    BY <1>2, <1>3, <2>1, CallFacts DEF IsNext
<1>10. CASE t = Char.d
  <2>1. t # Char.s /\ l = 8 /\ z = 0
    BY <1>9, <1>10 DEF Width, Char
  <2>2. v = [k \in 1 .. 8 |-> IF k = 1 THEN b[p + 1] ELSE 0]
    <3>1. v[1] = b[p + 1]
      BY <1>5, <2>1
    <3>2. \A k \in 2 .. 8 : v[k] = 0
      BY <1>2, <1>10, <2>1 DEF Plain
    <3>3. v \in [1 .. 8 -> Byte]
      BY <1>2, <2>1, LenProperties
    <3>4. \A k \in 1 .. 8 : v[k] = IF k = 1 THEN b[p + 1] ELSE 0
      <4>1. \A k \in 1 .. 8 : k = 1 \/ k \in 2 .. 8
        OBVIOUS
      <4>2. QED
        BY <3>1, <3>2, <4>1
    <3>5. QED
      BY <3>3, <3>4
  <2>3. bytesToDbus(t, b, p + 1) = {Taken([k \in 1 .. 8 |-> IF k = 1 THEN b[p + 1] ELSE 0], 8)}
    <3>1. b[p + 8] = v[8] /\ v[8] = 0
      BY <1>2, <1>5, <1>10, <2>1 DEF Plain
    <3>2. b[p + 1 + 7] = 0
      BY <1>1, <3>1
    <3>3. (IF b[p + 1 + 7] = 0 THEN {b[p + 1]} ELSE AnyWhole) = {b[p + 1]}
      BY <3>2
    <3>4. bytesToDbus(t, b, p + 1) =
            {Taken([k \in 1 .. 8 |-> IF k = 1 THEN whole ELSE 0], 8) :
               whole \in IF b[p + 1 + 7] = 0 THEN {b[p + 1]} ELSE AnyWhole}
      BY <1>10, <2>1 DEF bytesToDbus
    <3>5. QED
      BY <3>3, <3>4
  <2>4. l + z = 8
    BY <2>1
  <2>5. QED
    BY <1>7, <2>2, <2>3, <2>4 DEF Taken
<1>11. CASE t # Char.s /\ t # Char.d
  <2>1. p + 1 + l - 1 = p + l /\ l + z = l
    BY <1>1, <1>9, <1>11
  <2>2. bytesToDbus(t, b, p + 1) = {Taken(SubSeq(b, p + 1, p + 1 + l - 1), l)}
    BY <1>9, <1>11 DEF bytesToDbus
  <2>3. QED
    BY <1>6, <1>7, <2>1, <2>2 DEF Taken
<1>12. QED
  BY <1>8, <1>10, <1>11
-----------------------------------------------------------------------------
(* The steps.                                                              *)

\* A new call is behind those that were handed over.
LEMMA CallKeeps ==
  ASSUME QueueInv, methodCall
  PROVE  /\ QueueInv' /\ Handed' = Handed
         /\ UNCHANGED <<step, buffer, arg_pointer, numberOfArguments, message, noReply, toAndroid, received>>
         /\ \A i \in 1 .. Handed : calls'[i] = calls[i] /\ (SoundUpTo(i)' <=> SoundUpTo(i))
<1>1. PICK c \in Calls :
        calls' = Append(calls, c) /\ toService' = Append(toService, Compress(c))
  BY DEF methodCall
<1>2. PICK q \in Seq(Calls), s \in Seq(Seq(Nat)), x \in Seq(Nat), n \in Nat, l \in Nat :
        /\ q = calls /\ s = toService /\ x = Compress(c)
        /\ n = Len(q) /\ l = Len(s)
  <2>1. PICK k \in Nat : k = Len(c.args)
    BY ArgumentTypes
  <2>2. Compress(c) \in Seq(Nat)
    BY <2>1, MessageBytes
  <2>3. QED
    BY <2>2 DEF QueueInv
<1>3. /\ Append(q, c) \in Seq(Calls) /\ Len(Append(q, c)) = n + 1 /\ Append(q, c)[n + 1] = c
      /\ \A i \in 1 .. n : Append(q, c)[i] = q[i]
  BY <1>2
<1>4. /\ Append(s, x) \in Seq(Seq(Nat)) /\ Len(Append(s, x)) = l + 1 /\ Append(s, x)[l + 1] = x
      /\ \A i \in 1 .. l : Append(s, x)[i] = s[i]
  BY <1>2
<1>5. PICK h \in Nat : h = Handed /\ h = n - l
  BY <1>2 DEF QueueInv, Handed
<1>6. Handed' = h
  <2>1. n + 1 - (l + 1) = n - l
    BY <1>2
  <2>2. QED
    BY <1>1, <1>2, <1>3, <1>4, <1>5, <2>1 DEF Handed
<1>7. ASSUME NEW j \in 1 .. l + 1 PROVE Append(s, x)[j] = Compress(Append(q, c)[h + j])
  <2>1. CASE j = l + 1
    <3>1. h + j = n + 1
      BY <1>2, <1>5, <2>1
    <3>2. QED
      BY <1>2, <1>3, <1>4, <2>1, <3>1
  <2>2. CASE j \in 1 .. l
    <3>1. h + j \in 1 .. n
      BY <1>2, <1>5, <2>2
    <3>2. s[j] = Compress(q[h + j])
      BY <1>2, <1>5, <2>2 DEF QueueInv
    <3>3. QED
      BY <1>3, <1>4, <2>2, <3>1, <3>2
  <2>3. j = l + 1 \/ j \in 1 .. l
    <3>1. l \in Nat
      BY <1>2
    <3>2. QED
      BY <1>7, <3>1
  <2>4. QED
    BY <2>1, <2>2, <2>3
<1>8. QueueInv'
  BY <1>1, <1>2, <1>3, <1>4, <1>5, <1>6, <1>7 DEF QueueInv
<1>9. \A i \in 1 .. h : calls'[i] = calls[i]
  <2>1. \A i \in 1 .. h : i \in 1 .. n
    BY <1>2, <1>5
  <2>2. QED
    BY <1>1, <1>2, <1>3, <2>1
<1>10. \A i \in 1 .. h : SoundUpTo(i)' <=> SoundUpTo(i)
  <2>1. \A i \in 1 .. h : \A j \in 1 .. i : j \in 1 .. h
    BY <1>5
  <2>2. ASSUME NEW i \in 1 .. h PROVE SoundUpTo(i)' <=> SoundUpTo(i)
    <3>1. \A j \in 1 .. i : Sound(calls'[j]) <=> Sound(calls[j])
      BY <1>9, <2>1
    <3>2. SoundUpTo(i) <=> \A j \in 1 .. i : Sound(calls[j]) /\ j \notin noReply
      BY DEF SoundUpTo
    <3>3. SoundUpTo(i)' <=> \A j \in 1 .. i : Sound(calls'[j]) /\ j \notin noReply
      BY DEF SoundUpTo, methodCall
    <3>4. QED
      BY <3>1, <3>2, <3>3
  <2>3. QED
    BY <2>2
<1>11. QED
  BY <1>5, <1>6, <1>8, <1>9, <1>10 DEF methodCall

\* The first message of the port is the next call; its names are found, and its count if
\* there are not too many arguments.
LEMMA NextCall ==
  ASSUME QueueInv, MethodStarts
  PROVE  /\ QueueInv' /\ Handed' = Handed + 1 /\ step = "idle"
         /\ UNCHANGED <<calls, noReply, toAndroid, received>>
         /\ \E c \in Calls :
              /\ c = calls[Handed + 1]
              /\ \/ ~Sound(c) /\ UNCHANGED step
                 \/ step' = "arguments" /\ buffer' = Compress(c) /\ (Sound(c) => AtArgument(c, 0)')
<1>1. PICK q \in Seq(Calls), s \in Seq(Seq(Nat)), n \in Nat, l \in Nat, h \in Nat :
        /\ q = calls /\ s = toService
        /\ n = Len(q) /\ l = Len(s) /\ h = Handed /\ h = n - l /\ s # << >>
  BY DEF QueueInv, Handed, MethodStarts
<1>2. /\ l >= 1 /\ Tail(s) \in Seq(Seq(Nat)) /\ Len(Tail(s)) = l - 1 /\ Head(s) = s[1]
      /\ \A j \in 1 .. l - 1 : Tail(s)[j] = s[j + 1]
  BY <1>1
<1>3. h + 1 \in 1 .. n /\ 1 \in 1 .. l
  BY <1>1, <1>2
<1>4. PICK c \in Calls : c = calls[Handed + 1] /\ c = q[h + 1]
  BY <1>1, <1>3
<1>5. Head(toService) = Compress(c)
  <2>1. s[1] = Compress(q[h + 1])
    BY <1>1, <1>3 DEF QueueInv
  <2>2. QED
    BY <1>1, <1>2, <1>4, <2>1
<1>6. Handed' = h + 1
  <2>1. n - (l - 1) = h + 1
    BY <1>1
  <2>2. QED
    BY <1>1, <1>2, <2>1 DEF Handed, MethodStarts
<1>7. ASSUME NEW j \in 1 .. l - 1 PROVE Tail(s)[j] = Compress(q[h + 1 + j])
  <2>1. j + 1 \in 1 .. l /\ h + (j + 1) = h + 1 + j
    BY <1>1, <1>2
  <2>2. s[j + 1] = Compress(q[h + (j + 1)])
    BY <1>1, <2>1 DEF QueueInv
  <2>3. QED
    BY <1>2, <2>1, <2>2
<1>8. QueueInv'
  <2>1. calls' = q /\ toService' = Tail(s) /\ h + 1 \in Nat
    BY <1>1 DEF MethodStarts
  <2>2. QED
    BY <1>1, <1>2, <1>6, <1>7, <2>1 DEF QueueInv
<1>9. PICK b \in Seq(Nat), k \in Nat : b = Compress(c) /\ k = Len(c.args)
  BY CompressBytes
<1> DEFINE st == Starts(b)
           names == [i \in 1 .. 4 |-> b[st[i]]]
<1>10. \A i \in 1 .. 5 : st[i] = 2 * i - 1
  BY <1>9, StartsFound
<1>11. names = c.names
  <2>1. c.names \in [1 .. 4 -> Byte \ {0}]
    BY CallFacts
  <2>2. \A i \in 1 .. 4 : b[2 * i - 1] = c.names[i]
    <3>1. \A i \in 1 .. 4 : Compress(c)[2 * i - 1] = c.names[i]
      BY CompressBytes
    <3>2. QED
      BY <1>9, <3>1
  <2>3. ASSUME NEW i \in 1 .. 4 PROVE b[st[i]] = c.names[i]
    <3>1. i \in 1 .. 5
      OBVIOUS
    <3>2. st[i] = 2 * i - 1
      BY <1>10, <3>1
    <3>3. QED
      BY <2>2, <3>2
  <2>4. QED
    BY <1>9, <2>1, <2>3
<1>12. b[st[5]] = k % 256 /\ st[5] = 9
  <2>1. b[9] = k % 256
    BY <1>9, CompressBytes
  <2>2. QED
    BY <1>10, <2>1
<1>13. CASE \E i \in 1 .. 4 : names[i] \in Illegal
  <2>1. ~Sound(c)
    BY <1>11, <1>13 DEF Sound
  <2>2. UNCHANGED step
    BY <1>5, <1>9, <1>13 DEF MethodStarts
  <2>3. UNCHANGED <<calls, noReply, toAndroid, received>> /\ step = "idle"
    BY DEF MethodStarts
  <2>4. QED
    BY <1>1, <1>4, <1>6, <1>8, <2>1, <2>2, <2>3
<1>14. CASE ~\E i \in 1 .. 4 : names[i] \in Illegal
  <2>1. /\ step' = "arguments" /\ buffer' = b
        /\ message' = [names |-> names, args |-> << >>]
        /\ numberOfArguments' = SignedChar(b[st[5]])
        /\ arg_pointer' = st[5] + 4
    BY <1>5, <1>9, <1>14 DEF MethodStarts
  <2>2. ASSUME Sound(c) PROVE AtArgument(c, 0)'
    <3>1. k < 128
      BY <1>9, <2>2 DEF Sound
    <3>2. SignedChar(k % 256) = k - 0
      <4>1. k % 256 = k
        BY <3>1
      <4>2. QED
        BY <3>1, <4>1 DEF SignedChar
    <3>3. SubSeq(c.args, 1, 0) = << >>
      BY SubSeqEmpty
    <3>4. Arguments(c, 0) = << >> /\ Len(<< >>) = 0
      BY ArgumentsGrow
    <3>5. message' = [names |-> c.names, args |-> SubSeq(c.args, 1, 0)]
      BY <1>11, <2>1, <3>3
    <3>6. numberOfArguments' = Len(c.args) - 0
      BY <1>9, <1>12, <2>1, <3>2
    <3>7. arg_pointer' = 13 + Len(Arguments(c, 0))
      BY <1>12, <2>1, <3>4
    <3>8. QED
      BY <3>5, <3>6, <3>7 DEF AtArgument, Arguments
  <2>3. UNCHANGED <<calls, noReply, toAndroid, received>> /\ step = "idle"
    BY DEF MethodStarts
  <2>4. step' = "arguments" /\ buffer' = Compress(c) /\ (Sound(c) => AtArgument(c, 0)')
    BY <1>9, <2>1, <2>2
  <2>5. QED
    BY <1>1, <1>4, <1>6, <1>8, <2>3, <2>4
<1>15. QED
  BY <1>13, <1>14

\* A sound call goes on, argument by argument,
LEMMA NextArgument ==
  ASSUME NEW c \in Calls, Sound(c), NEW m \in 0 .. Len(c.args), AtArgument(c, m), buffer = Compress(c),
         MethodArgument
  PROVE  step' = "arguments" /\ m + 1 \in 0 .. Len(c.args) /\ AtArgument(c, m + 1)'
<1>1. PICK n \in Nat, p \in Nat, a \in [type : Types, value : Seq(Byte)] :
        n = Len(c.args) /\ p = arg_pointer /\ m \in 0 .. n - 1 /\ m + 1 \in 1 .. n /\ IsNext(c, m, a, p)
  <2>1. PICK n \in Nat : n = Len(c.args)
    BY ArgumentTypes
  <2>2. n - m # 0
    BY <2>1 DEF AtArgument, MethodArgument
  <2>3. m \in 0 .. n - 1 /\ m + 1 \in 1 .. n /\ m \in 0 .. n
    BY <2>1, <2>2
  <2>4. Len(Arguments(c, m)) \in Nat
    <3>1. Arguments(c, m) \in Seq(Byte)
      BY <2>1, <2>3, ArgumentsGrow
    <3>2. QED
      BY <3>1
  <2>5. c.args[m + 1] \in [type : Types, value : Seq(Byte)]
    BY <2>1, <2>3, ArgumentTypes
  <2>6. arg_pointer = 13 + Len(Arguments(c, m))
    BY DEF AtArgument
  <2>7. PICK p \in Nat : p = 13 + Len(Arguments(c, m))
    BY <2>4
  <2>8. QED
    BY <2>1, <2>3, <2>5, <2>6, <2>7 DEF IsNext
<1>2. PICK b \in {Compress(c)} : b = buffer
  OBVIOUS
<1>3. Plain(a)
  BY <1>1 DEF Sound, IsNext
<1>4. /\ ~(p > Len(b)) /\ b[p] = a.type /\ a.type \in Types
      /\ ReadAs(b, p, a, 13 + Len(Arguments(c, m + 1)))
  <2>1. IsNext(c, m, a, p) /\ m \in 0 .. Len(c.args) - 1
    BY <1>1
  <2>2. QED
    BY <1>3, <2>1, ArgumentRead
<1>5. /\ message' = [message EXCEPT !.args = Append(@, [type |-> a.type, value |-> a.value])]
      /\ arg_pointer' = 13 + Len(Arguments(c, m + 1))
      /\ numberOfArguments' = numberOfArguments - 1 /\ UNCHANGED step
  BY <1>1, <1>2, <1>4 DEF MethodArgument, ReadAs
<1>6. message' = [names |-> c.names, args |-> SubSeq(c.args, 1, m + 1)]
  <2>1. PICK s \in Seq([type : Types, value : Seq(Byte)]) : s = c.args /\ n = Len(s) /\ s[m + 1] = a
    BY <1>1, CallFacts DEF IsNext
  <2>2. Append(SubSeq(s, 1, m), s[m + 1]) = SubSeq(s, 1, m + 1)
    BY <1>1, <2>1
  <2>3. [type |-> a.type, value |-> a.value] = a
    BY <1>1
  <2>4. message = [names |-> c.names, args |-> SubSeq(s, 1, m)]
    BY <2>1 DEF AtArgument
  <2>5. message' = [names |-> c.names, args |-> Append(SubSeq(s, 1, m), a)]
    BY <1>5, <2>3, <2>4
  <2>6. QED
    BY <2>1, <2>2, <2>5
<1>7. numberOfArguments' = Len(c.args) - (m + 1)
  <2>1. numberOfArguments = n - m /\ n - m - 1 = n - (m + 1)
    BY <1>1 DEF AtArgument
  <2>2. QED
    BY <1>1, <1>5, <2>1
<1>8. step' = "arguments"
  BY <1>5 DEF MethodArgument
<1>9. m + 1 \in 0 .. Len(c.args)
  BY <1>1
<1>10. QED
  BY <1>5, <1>6, <1>7, <1>8, <1>9 DEF AtArgument, Arguments

\* and when no argument is left it is the call that was made.
LEMMA LastArgument ==
  ASSUME NEW c \in Calls, NEW m \in 0 .. Len(c.args), AtArgument(c, m), numberOfArguments = 0
  PROVE  message = c
<1>1. PICK n \in Nat : n = Len(c.args)
  BY ArgumentTypes
<1>2. m = n
  BY <1>1 DEF AtArgument
<1>3. SubSeq(c.args, 1, n) = c.args
  <2>1. PICK s \in Seq([type : Types, value : Seq(Byte)]) : s = c.args /\ n = Len(s)
    BY <1>1, CallFacts
  <2>2. SubSeq(s, 1, n) = s
    BY <2>1
  <2>3. QED
    BY <2>1, <2>2
<1>4. QED
  BY <1>2, <1>3, CallFacts DEF AtArgument

\* What the handler takes is behind what it took before: the replies stay the same.
LEMMA TakenFromHead ==
  ASSUME NEW S, NEW a \in Seq(S), NEW b \in Seq(S), b # << >>
  PROVE  Append(a, Head(b)) \o Tail(b) = a \o b
<1>1. PICK x \in S, t \in Seq(S) : x = Head(b) /\ t = Tail(b)
  BY HeadTailProperties
<1>2. Append(a, x) \in Seq(S) /\ Len(Append(a, x)) = Len(a) + 1 /\ Append(a, x)[Len(a) + 1] = x
      /\ \A i \in 1 .. Len(a) : Append(a, x)[i] = a[i]
  OBVIOUS
<1>3. Len(b) = Len(t) + 1 /\ b[1] = x /\ \A i \in 1 .. Len(t) : b[i + 1] = t[i]
  BY <1>1
<1>4. PICK u \in Seq(S) : u = Append(a, x)
  BY <1>2
<1>5. PICK p \in Seq(S), q \in Seq(S) : p = u \o t /\ q = a \o b
  BY Joined
<1>6. /\ Len(p) = Len(u) + Len(t) /\ \A i \in 1 .. Len(u) : p[i] = u[i]
      /\ \A i \in 1 .. Len(t) : p[Len(u) + i] = t[i]
  BY <1>5, Joined
<1>7. /\ Len(q) = Len(a) + Len(b) /\ \A i \in 1 .. Len(a) : q[i] = a[i]
      /\ \A i \in 1 .. Len(b) : q[Len(a) + i] = b[i]
  BY <1>5, Joined
<1>8. PICK l \in Nat, k \in Nat : l = Len(a) /\ k = Len(t) /\ Len(u) = l + 1 /\ Len(b) = k + 1
  BY <1>2, <1>3, <1>4
<1>9. Len(p) = Len(q)
  BY <1>6, <1>7, <1>8
<1>10. ASSUME NEW i \in 1 .. Len(p) PROVE p[i] = q[i]
  <2>1. CASE i \in 1 .. l
    <3>1. i \in 1 .. Len(u)
      BY <1>8, <2>1
    <3>2. QED
      BY <1>2, <1>4, <1>6, <1>7, <1>8, <2>1, <3>1
  <2>2. CASE i = l + 1
    <3>1. l + 1 \in 1 .. Len(u) /\ 1 \in 1 .. Len(b)
      BY <1>8
    <3>2. p[l + 1] = x /\ q[l + 1] = x
      BY <1>2, <1>3, <1>4, <1>6, <1>7, <1>8, <3>1
    <3>3. QED
      BY <2>2, <3>2
  <2>3. CASE i \in l + 2 .. l + 1 + k
    <3>1. PICK j \in 1 .. k : i = l + 1 + j
      <4>1. i - l - 1 \in 1 .. k /\ i = l + 1 + (i - l - 1)
        BY <1>8, <2>3
      <4>2. QED
        BY <4>1
    <3>2. p[l + 1 + j] = t[j]
      BY <1>6, <1>8
    <3>3. j + 1 \in 1 .. Len(b) /\ l + (j + 1) = l + 1 + j
      BY <1>8
    <3>4. q[l + (j + 1)] = t[j]
      BY <1>3, <1>7, <1>8, <3>3
    <3>5. QED
      BY <3>1, <3>2, <3>3, <3>4
  <2>4. i \in 1 .. l + 1 + k
    BY <1>6, <1>8
  <2>5. QED
    BY <1>8, <2>1, <2>2, <2>3, <2>4
<1>11. p = q
  BY <1>9, <1>10, SeqEqual
<1>12. QED
  BY <1>1, <1>4, <1>5, <1>11

\* The replies, in a set that has them all.
LEMMA ReplySent ==
  ASSUME NEW S, received \in Seq(S), toAndroid \in Seq(S), MethodReply
  PROVE  \E T : /\ received' \in Seq(T) /\ toAndroid' \in Seq(T)
                /\ Len(Replies') = Len(Replies) + 1
                /\ Replies'[Len(Replies) + 1].to = message
                /\ \A i \in 1 .. Len(Replies) : Replies'[i] = Replies[i]
<1>1. PICK kind : toAndroid' = Append(toAndroid, [to |-> message, kind |-> kind]) /\ received' = received
  BY DEF MethodReply
<1>2. PICK r : r = [to |-> message, kind |-> kind]
  OBVIOUS
<1>3. PICK T : T = S \cup {r}
  OBVIOUS
<1>4. r \in T /\ S \subseteq T
  BY <1>3
<1>5. PICK a \in Seq(T), b \in Seq(T) : a = received /\ b = toAndroid
  BY <1>4, SeqMonotonic
<1>6. PICK b1 \in Seq(T) : b1 = Append(b, r)
  <2>1. Append(b, r) \in Seq(T)
    BY <1>4, <1>5
  <2>2. QED
    BY <2>1
<1>7. Len(b1) = Len(b) + 1 /\ b1[Len(b) + 1] = r /\ \A i \in 1 .. Len(b) : b1[i] = b[i]
  BY <1>4, <1>6
<1>8. PICK p \in Seq(T), q \in Seq(T) : p = a \o b /\ q = a \o b1
  BY Joined
<1>9. /\ Len(p) = Len(a) + Len(b) /\ \A i \in 1 .. Len(a) : p[i] = a[i]
      /\ \A i \in 1 .. Len(b) : p[Len(a) + i] = b[i]
  BY <1>8, Joined
<1>10. /\ Len(q) = Len(a) + Len(b1) /\ \A i \in 1 .. Len(a) : q[i] = a[i]
       /\ \A i \in 1 .. Len(b1) : q[Len(a) + i] = b1[i]
  BY <1>8, Joined
<1>11. PICK l \in Nat, k \in Nat : l = Len(a) /\ k = Len(b) /\ Len(b1) = k + 1
  BY <1>7
<1>12. Len(q) = Len(p) + 1 /\ Len(p) + 1 = l + (k + 1) /\ k + 1 \in 1 .. Len(b1)
  BY <1>9, <1>10, <1>11
<1>13. q[Len(p) + 1] = r
  BY <1>7, <1>10, <1>11, <1>12
<1>14. ASSUME NEW i \in 1 .. Len(p) PROVE q[i] = p[i]
  <2>1. CASE i \in 1 .. l
    BY <1>9, <1>10, <1>11, <2>1
  <2>2. CASE i \notin 1 .. l
    <3>1. PICK j \in 1 .. k : i = l + j
      <4>1. i - l \in 1 .. k /\ i = l + (i - l)
        BY <1>9, <1>11, <2>2
      <4>2. QED
        BY <4>1
    <3>2. j \in 1 .. Len(b1)
      BY <1>11
    <3>3. q[l + j] = b[j] /\ p[l + j] = b[j]
      BY <1>7, <1>9, <1>10, <1>11, <3>2
    <3>4. QED
      BY <3>1, <3>3
  <2>3. QED
    BY <2>1, <2>2
<1>15. Replies = p /\ Replies' = q /\ received' = a /\ toAndroid' = b1
  BY <1>1, <1>2, <1>5, <1>6, <1>8 DEF Replies
<1>16. r.to = message
  BY <1>2
<1>17. QED
  BY <1>12, <1>13, <1>14, <1>15, <1>16
-----------------------------------------------------------------------------
(* The invariant is inductive.                                             *)

\* The replies are a sequence.
LEMMA RepliesCount ==
  ASSUME NEW S, received \in Seq(S), toAndroid \in Seq(S)
  PROVE  Len(Replies) \in Nat
<1>1. Replies \in Seq(S)
  BY Joined DEF Replies
<1>2. QED
  BY <1>1

\* While the service works on a call, and all calls up to its place are sound, it is the
\* one that is to be replied to.
LEMMA CallAtWork ==
  ASSUME CallsInv, step = "arguments", SoundUpTo(Len(Replies) + 1)
  PROVE  \E c \in Calls : /\ c = calls[Len(Replies) + 1] /\ Sound(c) /\ buffer = Compress(c)
                          /\ Handed = Len(Replies) + 1
                          /\ \E m \in 0 .. Len(c.args) : AtArgument(c, m)
<1>1. PICK r \in Nat : r = Len(Replies)
  BY RepliesCount DEF CallsInv
<1>2. PICK q \in Seq(Calls), l \in Nat, h \in Nat :
        q = calls /\ l = Len(toService) /\ h = Handed /\ h = Len(q) - l
  <2>1. calls \in Seq(Calls) /\ toService \in Seq(Seq(Nat)) /\ Handed \in Nat
    BY DEF CallsInv, QueueInv
  <2>2. PICK l \in Nat : l = Len(toService)
    BY <2>1
  <2>3. QED
    BY <2>1, <2>2 DEF Handed
<1>3. /\ h = r + 1 /\ buffer = Compress(calls[h])
      /\ \E m \in 0 .. Len(calls[h].args) : AtArgument(calls[h], m)
  BY <1>1, <1>2 DEF CallsInv, ParseInv
<1>4. h \in 1 .. Len(q) /\ r + 1 \in 1 .. r + 1
  BY <1>1, <1>2, <1>3
<1>5. PICK c \in Calls : c = q[h]
  BY <1>2, <1>4
<1>6. Sound(c)
  BY <1>1, <1>2, <1>3, <1>4, <1>5 DEF SoundUpTo
<1>7. QED
  BY <1>1, <1>2, <1>3, <1>5, <1>6

\* Nothing has been called, nothing replied.
LEMMA InitCalls ==
  ASSUME MethodsInit
  PROVE  CallsInv
<1>1. calls = << >> /\ toService = << >> /\ received = << >> /\ toAndroid = << >> /\ step = "idle"
  BY DEF MethodsInit
<1>2. << >> \in Seq(Calls) /\ << >> \in Seq(Seq(Nat)) /\ << >> \in Seq({}) /\ Len(<< >>) = 0
      /\ 0 - 0 \in Nat
  OBVIOUS
<1>3. << >> \o << >> = << >>
  BY <1>2, ConcatEmptySeq
<1>4. \A i \in 1 .. 0 : FALSE
  OBVIOUS
<1>5. Replies = << >> /\ Len(Replies) = 0 /\ Handed = 0 /\ Busy = 0
  BY <1>1, <1>2, <1>3 DEF Replies, Handed, Busy
<1>6. QueueInv
  BY <1>1, <1>2, <1>4, <1>5 DEF QueueInv
<1>7. TurnInv /\ ReplyInv
  BY <1>4, <1>5 DEF TurnInv, ReplyInv
<1>8. ParseInv
  BY <1>1 DEF ParseInv
<1>9. QED
  BY <1>1, <1>2, <1>6, <1>7, <1>8 DEF CallsInv

\* Nothing changes but the side on which a reply is.
LEMMA RepliesStay ==
  ASSUME CallsInv, NEW S, received' \in Seq(S), toAndroid' \in Seq(S), Replies' = Replies,
         UNCHANGED <<calls, toService, step, buffer, arg_pointer, numberOfArguments, message, noReply>>
  PROVE  CallsInv'
<1>1. Handed' = Handed /\ Busy' = Busy
  BY DEF Handed, Busy
<1>2. \A n : SoundUpTo(n)' <=> SoundUpTo(n)
  BY DEF SoundUpTo
<1>3. \A c, m : AtArgument(c, m)' <=> AtArgument(c, m)
  BY DEF AtArgument
<1>4. QueueInv'
  BY <1>1 DEF CallsInv, QueueInv
<1>5. TurnInv'
  BY <1>1, <1>2 DEF CallsInv, TurnInv
<1>6. ReplyInv'
  BY <1>2 DEF CallsInv, ReplyInv
<1>7. ParseInv'
  BY <1>1, <1>2, <1>3 DEF CallsInv, ParseInv
<1>8. QED
  BY <1>4, <1>5, <1>6, <1>7 DEF CallsInv

\* A call is made,
LEMMA CallKeepsInv ==
  ASSUME CallsInv, methodCall
  PROVE  CallsInv'
<1>1. /\ QueueInv' /\ Handed' = Handed
      /\ UNCHANGED <<step, buffer, arg_pointer, numberOfArguments, message, noReply, toAndroid, received>>
      /\ \A i \in 1 .. Handed : calls'[i] = calls[i] /\ (SoundUpTo(i)' <=> SoundUpTo(i))
  BY CallKeeps DEF CallsInv
<1>2. Replies' = Replies /\ Busy' = Busy
  BY <1>1 DEF Replies, Busy
<1>3. \A c, m : AtArgument(c, m)' <=> AtArgument(c, m)
  BY <1>1 DEF AtArgument
<1>4. PICK r \in Nat, h \in Nat : r = Len(Replies) /\ h = Handed
  BY RepliesCount DEF CallsInv, QueueInv
<1>5. TurnInv'
  BY <1>1, <1>2 DEF CallsInv, TurnInv
<1>6. r <= h
  BY <1>4 DEF CallsInv, TurnInv, Busy
<1>7. ReplyInv'
  <2>1. \A i \in 1 .. r : i \in 1 .. h
    BY <1>4, <1>6
  <2>2. QED
    BY <1>1, <1>2, <1>4, <2>1 DEF CallsInv, ReplyInv
<1>8. ParseInv'
  <2>1. SUFFICES ASSUME step = "arguments", SoundUpTo(r + 1)'
                 PROVE  /\ h = r + 1 /\ buffer = Compress(calls'[h])
                        /\ \E m \in 0 .. Len(calls'[h].args) : AtArgument(calls'[h], m)
    <3>1. SoundUpTo(Len(Replies) + 1)' = SoundUpTo(r + 1)'
      BY <1>2, <1>4 DEF SoundUpTo
    <3>2. QED
      BY <1>1, <1>2, <1>3, <1>4, <3>1 DEF ParseInv
  <2>2. r + 1 <= h
    BY <1>4, <2>1 DEF CallsInv, TurnInv, Busy
  <2>3. r + 1 \in 1 .. h
    BY <1>4, <2>2
  <2>4. SoundUpTo(r + 1)
    BY <1>1, <1>4, <2>1, <2>3
  <2>5. /\ h = r + 1 /\ buffer = Compress(calls[h])
        /\ \E m \in 0 .. Len(calls[h].args) : AtArgument(calls[h], m)
    BY <1>4, <2>1, <2>4 DEF CallsInv, ParseInv
  <2>6. calls'[h] = calls[h]
    BY <1>1, <1>4, <2>3, <2>5
  <2>7. QED
    BY <2>5, <2>6
<1>9. QED
  BY <1>1, <1>5, <1>7, <1>8 DEF CallsInv

\* a message is taken off the port,
LEMMA StartsKeepsInv ==
  ASSUME CallsInv, MethodStarts
  PROVE  CallsInv'
<1>1. /\ QueueInv' /\ Handed' = Handed + 1 /\ step = "idle"
      /\ UNCHANGED <<calls, noReply, toAndroid, received>>
  BY NextCall DEF CallsInv
<1>2. PICK c \in Calls :
        /\ c = calls[Handed + 1]
        /\ \/ ~Sound(c) /\ UNCHANGED step
           \/ step' = "arguments" /\ buffer' = Compress(c) /\ (Sound(c) => AtArgument(c, 0)')
  BY NextCall DEF CallsInv
<1>3. Replies' = Replies /\ Busy = 0
  BY <1>1 DEF Replies, Busy
<1>4. \A n : SoundUpTo(n)' <=> SoundUpTo(n)
  BY <1>1 DEF SoundUpTo
<1>5. PICK r \in Nat, h \in Nat : r = Len(Replies) /\ h = Handed
  BY RepliesCount DEF CallsInv, QueueInv
<1>6. r <= h /\ \A i \in 1 .. h : SoundUpTo(i) => i <= r
  BY <1>3, <1>5 DEF CallsInv, TurnInv
\* A sound call comes only when the one before it has its reply.
<1>7. \A i \in 1 .. h + 1 : i > r /\ SoundUpTo(i) => i = h + 1 /\ r = h
  <2>1. SUFFICES ASSUME NEW i \in 1 .. h + 1, i > r, SoundUpTo(i) PROVE i = h + 1 /\ r = h
    OBVIOUS
  <2>2. SoundUpTo(r + 1)
    <3>1. \A j \in 1 .. r + 1 : j \in 1 .. i
      BY <2>1
    <3>2. QED
      BY <2>1, <3>1 DEF SoundUpTo
  <2>3. ~(r + 1 \in 1 .. h)
    BY <1>6, <2>2
  <2>4. QED
    BY <1>6, <2>1, <2>3
<1>8. Handed' = h + 1 /\ Len(Replies') = r /\ Busy' \in {0, 1} /\ (step' = "arguments" => Busy' = 1)
  BY <1>1, <1>3, <1>5 DEF Busy
<1>9. SoundUpTo(h + 1) => Sound(c)
  <2>1. h + 1 \in 1 .. h + 1
    OBVIOUS
  <2>2. QED
    BY <1>2, <1>5, <2>1 DEF SoundUpTo
<1>10. TurnInv'
  <2>1. ASSUME NEW i \in 1 .. h + 1, SoundUpTo(i) PROVE i <= r + Busy'
    <3>1. CASE i > r
      <4>1. i = h + 1 /\ r = h
        BY <1>7, <2>1, <3>1
      <4>2. Busy' = 1
        BY <1>2, <1>8, <1>9, <2>1, <4>1
      <4>3. QED
        BY <4>1, <4>2
    <3>2. CASE ~(i > r)
      BY <1>5, <1>8, <2>1, <3>2
    <3>3. QED
      BY <3>1, <3>2
  <2>2. r + Busy' <= h + 1
    BY <1>5, <1>6, <1>8
  <2>3. QED
    BY <1>4, <1>8, <2>1, <2>2 DEF TurnInv
<1>11. ReplyInv'
  BY <1>1, <1>3, <1>4 DEF CallsInv, ReplyInv
<1>12. ParseInv'
  <2>1. SUFFICES ASSUME step' = "arguments", SoundUpTo(r + 1)
                 PROVE  /\ h + 1 = r + 1 /\ buffer' = Compress(calls[h + 1])
                        /\ \E m \in 0 .. Len(calls[h + 1].args) : AtArgument(c, m)'
    <3>1. SoundUpTo(Len(Replies) + 1)' <=> SoundUpTo(r + 1)
      BY <1>1, <1>8 DEF SoundUpTo
    <3>2. calls'[Handed'] = calls[h + 1] /\ c = calls[h + 1]
      BY <1>1, <1>2, <1>5
    <3>3. \A m : AtArgument(calls[Handed], m)' <=> AtArgument(c, m)'
      BY <3>2 DEF AtArgument
    <3>4. QED
      BY <1>8, <3>1, <3>2, <3>3 DEF ParseInv
  <2>2. r = h
    <3>1. r + 1 \in 1 .. h + 1 /\ r + 1 > r
      BY <1>6
    <3>2. QED
      BY <1>7, <2>1, <3>1
  <2>3. Sound(c)
    BY <1>9, <2>1, <2>2
  <2>4. AtArgument(c, 0)' /\ buffer' = Compress(c)
    BY <1>2, <2>3
  <2>5. 0 \in 0 .. Len(c.args)
    BY ArgumentTypes
  <2>6. QED
    BY <1>2, <1>5, <2>2, <2>4, <2>5
<1>13. QED
  BY <1>1, <1>10, <1>11, <1>12 DEF CallsInv

\* an argument is put behind the others,
LEMMA ArgumentKeepsInv ==
  ASSUME CallsInv, MethodArgument
  PROVE  CallsInv'
<1>1. /\ UNCHANGED <<calls, toService, buffer, noReply, toAndroid, received>> /\ step = "arguments"
      /\ step' \in {"arguments", "crashed"}
  BY DEF MethodArgument
<1>2. Replies' = Replies /\ Handed' = Handed /\ Busy = 1 /\ Busy' \in {0, 1}
      /\ (step' = "arguments" => Busy' = 1)
  BY <1>1 DEF Replies, Handed, Busy
<1>3. \A n : SoundUpTo(n)' <=> SoundUpTo(n)
  BY <1>1 DEF SoundUpTo
<1>4. PICK r \in Nat, h \in Nat : r = Len(Replies) /\ h = Handed
  BY RepliesCount DEF CallsInv, QueueInv
<1>5. r + 1 <= h /\ \A i \in 1 .. h : SoundUpTo(i) => i <= r + 1
  BY <1>2, <1>4 DEF CallsInv, TurnInv
<1>6. ASSUME SoundUpTo(r + 1)
      PROVE  /\ step' = "arguments" /\ h = r + 1 /\ buffer' = Compress(calls'[h])
             /\ \E m \in 0 .. Len(calls'[h].args) : AtArgument(calls[Handed], m)'
  <2>1. PICK c \in Calls : /\ c = calls[r + 1] /\ Sound(c) /\ buffer = Compress(c) /\ h = r + 1
                           /\ \E m \in 0 .. Len(c.args) : AtArgument(c, m)
    BY <1>1, <1>4, <1>6, CallAtWork
  <2>2. PICK m \in 0 .. Len(c.args) : AtArgument(c, m)
    BY <2>1
  <2>3. step' = "arguments" /\ m + 1 \in 0 .. Len(c.args) /\ AtArgument(c, m + 1)'
    BY <2>1, <2>2, NextArgument
  <2>4. calls'[h] = c /\ (calls[Handed])' = c
    BY <1>1, <1>2, <1>4, <2>1
  <2>5. AtArgument(calls[Handed], m + 1)' <=> AtArgument(c, m + 1)'
    BY <2>4 DEF AtArgument
  <2>6. QED
    BY <1>1, <2>1, <2>3, <2>4, <2>5
<1>7. QueueInv'
  BY <1>1, <1>2 DEF CallsInv, QueueInv
\* A service that crashed had a call that is not sound.
<1>8. TurnInv'
  <2>1. ASSUME NEW i \in 1 .. h, SoundUpTo(i) PROVE i <= r + Busy'
    <3>1. CASE i = r + 1
      <4>1. step' = "arguments"
        BY <1>6, <2>1, <3>1
      <4>2. QED
        BY <1>2, <3>1, <4>1
    <3>2. CASE i # r + 1
      <4>1. i <= r
        BY <1>5, <2>1, <3>2
      <4>2. QED
        BY <1>2, <1>4, <4>1
    <3>3. QED
      BY <3>1, <3>2
  <2>2. r + Busy' <= h
    BY <1>2, <1>4, <1>5
  <2>3. QED
    BY <1>2, <1>3, <1>4, <2>1, <2>2 DEF TurnInv
<1>9. ReplyInv'
  BY <1>1, <1>2, <1>3 DEF CallsInv, ReplyInv
<1>10. ParseInv'
  <2>1. SoundUpTo(Len(Replies) + 1)' <=> SoundUpTo(r + 1)
    BY <1>1, <1>2, <1>4 DEF SoundUpTo
  <2>2. Handed' = h /\ Len(Replies') = r
    BY <1>2, <1>4
  <2>3. QED
    BY <1>6, <2>1, <2>2 DEF ParseInv
<1>11. QED
  BY <1>1, <1>7, <1>8, <1>9, <1>10 DEF CallsInv

\* and the reply is sent back.
LEMMA ReplyKeepsInv ==
  ASSUME CallsInv, MethodReply
  PROVE  CallsInv'
<1>1. /\ UNCHANGED <<calls, toService, noReply>> /\ step = "arguments" /\ step' = "idle"
      /\ numberOfArguments = 0
  BY DEF MethodReply
<1>2. PICK T : /\ received' \in Seq(T) /\ toAndroid' \in Seq(T)
               /\ Len(Replies') = Len(Replies) + 1
               /\ Replies'[Len(Replies) + 1].to = message
               /\ \A i \in 1 .. Len(Replies) : Replies'[i] = Replies[i]
  BY ReplySent DEF CallsInv
<1>3. Handed' = Handed /\ Busy = 1 /\ Busy' = 0
  BY <1>1 DEF Handed, Busy
<1>4. \A n : SoundUpTo(n)' <=> SoundUpTo(n)
  BY <1>1 DEF SoundUpTo
<1>5. PICK r \in Nat, h \in Nat : r = Len(Replies) /\ h = Handed
  BY RepliesCount DEF CallsInv, QueueInv
<1>6. r + 1 <= h /\ \A i \in 1 .. h : SoundUpTo(i) => i <= r + 1
  BY <1>3, <1>5 DEF CallsInv, TurnInv
<1>7. QueueInv'
  BY <1>1, <1>3 DEF CallsInv, QueueInv
<1>8. TurnInv'
  <2>1. Len(Replies') + Busy' = r + 1 /\ Handed' = h
    BY <1>2, <1>3, <1>5
  <2>2. QED
    BY <1>4, <1>6, <2>1 DEF TurnInv
<1>9. ReplyInv'
  <2>1. SUFFICES ASSUME NEW i \in 1 .. r + 1, SoundUpTo(i) PROVE Replies'[i].to = calls[i]
    BY <1>1, <1>2, <1>4, <1>5 DEF ReplyInv
  <2>2. CASE i = r + 1
    <3>1. PICK c \in Calls : c = calls[r + 1] /\ \E m \in 0 .. Len(c.args) : AtArgument(c, m)
      BY <1>1, <1>5, <2>1, <2>2, CallAtWork
    <3>2. message = c
      BY <1>1, <3>1, LastArgument
    <3>3. QED
      BY <1>2, <1>5, <2>2, <3>1, <3>2
  <2>3. CASE i # r + 1
    <3>1. i \in 1 .. r
      BY <2>1, <2>3
    <3>2. Replies[i].to = calls[i]
      BY <1>5, <2>1, <3>1 DEF CallsInv, ReplyInv
    <3>3. QED
      BY <1>2, <1>5, <3>1, <3>2
  <2>4. QED
    BY <2>2, <2>3
<1>10. ParseInv'
  BY <1>1 DEF ParseInv
<1>11. QED
  BY <1>2, <1>7, <1>8, <1>9, <1>10 DEF CallsInv

\* or there is none: no call from this one on is told of its own reply.
LEMMA NoReplyKeepsInv ==
  ASSUME CallsInv, MethodNoReply
  PROVE  CallsInv'
<1>1. /\ UNCHANGED <<calls, toService, toAndroid, received>> /\ step = "arguments"
      /\ step' # "arguments" /\ noReply' = noReply \cup {Handed}
  BY DEF MethodNoReply
<1>2. Replies' = Replies /\ Handed' = Handed /\ Busy = 1 /\ Busy' = 0
  BY <1>1 DEF Replies, Handed, Busy
<1>3. PICK r \in Nat, h \in Nat : r = Len(Replies) /\ h = Handed
  BY RepliesCount DEF CallsInv, QueueInv
<1>4. \A i \in Nat : SoundUpTo(i)' => SoundUpTo(i) /\ ~(h \in 1 .. i)
  BY <1>1, <1>3 DEF SoundUpTo
<1>5. r + 1 <= h /\ \A i \in 1 .. h : SoundUpTo(i) => i <= r + 1
  BY <1>2, <1>3 DEF CallsInv, TurnInv
<1>6. QueueInv'
  BY <1>1, <1>2 DEF CallsInv, QueueInv
<1>7. TurnInv'
  <2>1. ASSUME NEW i \in 1 .. h, SoundUpTo(i)' PROVE i <= r
    <3>1. SoundUpTo(i) /\ i < h /\ i <= r + 1
      BY <1>3, <1>4, <1>5, <2>1
    <3>2. ASSUME i = r + 1 PROVE FALSE
      BY <1>1, <1>3, <3>1, <3>2 DEF CallsInv, ParseInv
    <3>3. QED
      BY <1>3, <3>1, <3>2
  <2>2. QED
    BY <1>2, <1>3, <1>5, <2>1 DEF TurnInv
<1>8. ReplyInv'
  <2>1. \A i \in 1 .. r : i \in Nat
    OBVIOUS
  <2>2. QED
    BY <1>1, <1>2, <1>3, <1>4, <2>1 DEF CallsInv, ReplyInv
<1>9. ParseInv'
  BY <1>1 DEF ParseInv
<1>10. QED
  BY <1>1, <1>6, <1>7, <1>8, <1>9 DEF CallsInv

\* Every step keeps the invariant.
LEMMA CallsInductive ==
  ASSUME CallsInv, [MethodsNext]_methodVars
  PROVE  CallsInv'
<1>1. PICK S : received \in Seq(S) /\ toAndroid \in Seq(S)
  BY DEF CallsInv
<1>2. CASE methodCall
  BY <1>2, CallKeepsInv
<1>3. CASE MethodStarts
  BY <1>3, StartsKeepsInv
<1>4. CASE MethodArgument
  BY <1>4, ArgumentKeepsInv
<1>5. CASE MethodReply
  BY <1>5, ReplyKeepsInv
<1>6. CASE onDataReady
  <2>1. /\ toAndroid # << >>
        /\ received' = Append(received, Head(toAndroid)) /\ toAndroid' = Tail(toAndroid)
        /\ UNCHANGED <<calls, toService, step, buffer, arg_pointer, numberOfArguments, message, noReply>>
    BY <1>6 DEF onDataReady
  <2>2. Head(toAndroid) \in S /\ Tail(toAndroid) \in Seq(S)
    BY <1>1, <2>1, HeadTailProperties
  <2>3. received' \in Seq(S) /\ toAndroid' \in Seq(S)
    BY <1>1, <2>1, <2>2
  <2>4. Replies' = Replies
    BY <1>1, <2>1, TakenFromHead DEF Replies
  <2>5. QED
    BY <2>1, <2>3, <2>4, RepliesStay
<1>7. CASE UNCHANGED methodVars
  <2>1. /\ UNCHANGED <<received, toAndroid>>
        /\ UNCHANGED <<calls, toService, step, buffer, arg_pointer, numberOfArguments, message, noReply>>
    BY <1>7 DEF methodVars
  <2>2. received' \in Seq(S) /\ toAndroid' \in Seq(S) /\ Replies' = Replies
    BY <1>1, <2>1 DEF Replies
  <2>3. QED
    BY <2>1, <2>2, RepliesStay
<1>8. CASE MethodNoReply
  BY <1>8, NoReplyKeepsInv
<1>9. QED
  BY <1>2, <1>3, <1>4, <1>5, <1>6, <1>7, <1>8 DEF MethodsNext, MethodsRun

\* What the handler got are the first replies.
LEMMA RepliesOwn ==
  ASSUME CallsInv
  PROVE  ReplyIsOwn
<1>1. PICK S : received \in Seq(S) /\ toAndroid \in Seq(S)
  BY DEF CallsInv
<1>2. /\ Len(Replies) = Len(received) + Len(toAndroid)
      /\ \A i \in 1 .. Len(received) : Replies[i] = received[i]
  BY <1>1, Joined DEF Replies
<1>3. PICK l \in Nat, k \in Nat : l = Len(received) /\ k = Len(toAndroid)
  BY <1>1
<1>4. \A i \in 1 .. l : i \in 1 .. Len(Replies)
  BY <1>2, <1>3
<1>5. QED
  BY <1>2, <1>3, <1>4 DEF CallsInv, ReplyInv, ReplyIsOwn

\* The reply an application gets with the id of a call is the reply to that call, which was
\* made with exactly its names and arguments, if all calls up to it are sound and D-Bus had
\* a reply to each: DbusMethods.java counts calls and replies, and method.c answers in the
\* order of the port.
THEOREM ReplyIsOwnHolds == MethodsInit /\ [][MethodsNext]_methodVars => []ReplyIsOwn
<1>1. MethodsInit => CallsInv
  BY InitCalls
<1>2. CallsInv /\ [MethodsNext]_methodVars => CallsInv'
  BY CallsInductive
<1>3. CallsInv => ReplyIsOwn
  BY RepliesOwn
<1>4. QED
  BY <1>1, <1>2, <1>3, PTL

-----------------------------------------------------------------------------
(* The match rule of a signal service.                                     *)

\* Any buffer, and one that holds its string.
Strings == [data : Seq(Int), slen : Nat, mlen : Nat]
Buffer(b) ==
  /\ b \in Strings /\ Len(b.data) = b.mlen /\ b.slen <= b.mlen
  /\ b.slen < b.mlen => b.data[b.slen + 1] = NUL

\* A function on the first n numbers is a sequence.
LEMMA SequenceOf ==
  ASSUME NEW S, NEW n \in Nat, NEW f \in [1 .. n -> S]
  PROVE  f \in Seq(S) /\ Len(f) = n
OBVIOUS

\* A run of equal bytes.
LEMMA FillFacts ==
  ASSUME NEW S, NEW n \in Nat, NEW byte \in S
  PROVE  /\ Fill(n, byte) \in Seq(S) /\ Len(Fill(n, byte)) = n
         /\ \A i \in 1 .. n : Fill(n, byte)[i] = byte
<1>1. Fill(n, byte) \in [1 .. n -> S]
  BY DEF Fill
<1>2. \A i \in 1 .. n : Fill(n, byte)[i] = byte
  BY DEF Fill
<1>3. QED
  BY <1>1, <1>2, SequenceOf

\* The size asked for is never less than what is needed.
LEMMA SnapsFar ==
  ASSUME NEW i \in Nat
  PROVE  snapUpSize(i) \in Nat /\ snapUpSize(i) >= i
<1>1. \A j \in i .. MaxInt : j \in Nat /\ j >= i
  BY DEF MaxInt
<1>2. \/ snapUpSize(i) = 8 /\ i < 8
      \/ snapUpSize(i) \in i .. MaxInt
      \/ snapUpSize(i) = i
  BY DEF snapUpSize
<1>3. QED
  BY <1>1, <1>2

\* The buffer e is that of b with the bytes behind place at, and nothing else is changed.
StoredAs(b, at, bytes, e) ==
  /\ Store(b, at, bytes) = [b EXCEPT !.data = e]
  /\ Len(e) = Len(b.data)
  /\ \A i \in 1 .. Len(b.data) : i <= at \/ i > at + Len(bytes) => e[i] = b.data[i]
  /\ \A i \in 1 .. Len(bytes) : e[at + i] = bytes[i]

\* That is what a store into the buffer does.
LEMMA StoreFacts ==
  \A b \in Strings, at \in Nat, bytes \in Seq(Int) :
    at + Len(bytes) <= Len(b.data) => \E e \in Seq(Int) : StoredAs(b, at, bytes, e)
<1> SUFFICES ASSUME NEW b \in Strings, NEW at \in Nat, NEW bytes \in Seq(Int),
                    at + Len(bytes) <= Len(b.data)
             PROVE  \E e \in Seq(Int) : StoredAs(b, at, bytes, e)
  BY Zenon
<1>1. PICK d \in Seq(Int), l \in Nat, n \in Nat : d = b.data /\ l = Len(d) /\ n = Len(bytes)
  BY DEF Strings
<1>2. PICK e : e = [i \in 1 .. l |-> IF i \in at + 1 .. at + n THEN bytes[i - at] ELSE d[i]]
  OBVIOUS
<1>3. e \in [1 .. l -> Int]
  <2>1. ASSUME NEW i \in 1 .. l, i \in at + 1 .. at + n
        PROVE  bytes[i - at] \in Int
    <3>1. i - at \in 1 .. n
      BY <2>1
    <3>2. QED
      BY <1>1, <3>1
  <2>2. \A i \in 1 .. l : d[i] \in Int
    BY <1>1
  <2>3. QED
    BY <1>2, <2>1, <2>2
<1>4. e \in Seq(Int) /\ Len(e) = l
  BY <1>3, SequenceOf
<1>5. Store(b, at, bytes) = [b EXCEPT !.data = e]
  <2>1. (IF at + Len(bytes) > Len(b.data) THEN at + Len(bytes) ELSE Len(b.data)) = l
    BY <1>1
  <2>2. \A i \in 1 .. l : i <= Len(b.data)
    BY <1>1
  <2>3. [i \in 1 .. l |-> IF i \in at + 1 .. at + Len(bytes) THEN bytes[i - at]
                          ELSE IF i <= Len(b.data) THEN b.data[i] ELSE JUNK] = e
    BY <1>1, <1>2, <2>2
  <2>4. QED
    BY <2>1, <2>3, Zenon DEF Store
<1>6. \A i \in 1 .. l : i <= at \/ i > at + n => e[i] = d[i]
  BY <1>2
<1>7. ASSUME NEW i \in 1 .. n
      PROVE  e[at + i] = bytes[i]
  <2>1. at + i \in 1 .. l /\ at + i \in at + 1 .. at + n /\ (at + i) - at = i
    BY <1>1
  <2>2. QED
    BY <1>2, <2>1
<1>8. StoredAs(b, at, bytes, e)
  BY <1>1, <1>4, <1>5, <1>6, <1>7 DEF StoredAs
<1>9. QED
  BY <1>4, <1>8

\* The string of a buffer.
LEMMA TextFacts ==
  ASSUME NEW b, Buffer(b)
  PROVE  /\ Text(b) \in Seq(Int) /\ Len(Text(b)) = b.slen
         /\ \A i \in 1 .. b.slen : Text(b)[i] = b.data[i]
<1>1. PICK d \in Seq(Int), l \in Nat, n \in Nat : d = b.data /\ l = Len(d) /\ n = b.slen /\ n <= l
  BY DEF Buffer, Strings
<1>2. \A i \in 1 .. n : d[i] \in Int
  BY <1>1
<1>3. /\ SubSeq(d, 1, n) \in Seq(Int)
      /\ Len(SubSeq(d, 1, n)) = IF 1 <= n THEN n - 1 + 1 ELSE 0
      /\ \A i \in 1 .. n - 1 + 1 : SubSeq(d, 1, n)[i] = d[1 + i - 1]
  BY <1>2, SubSeqProperties
<1>4. Text(b) = SubSeq(d, 1, n)
  BY <1>1 DEF Text
<1>5. QED
  BY <1>1, <1>3, <1>4

\* A string of bytes stored behind the text, with its terminator or up to the end of the
\* buffer.
LEMMA Added ==
  ASSUME NEW b, Buffer(b), NEW s \in Seq(Int), NEW t \in Seq(Int),
         Len(t) >= Len(s), b.slen + Len(t) <= b.mlen, \A i \in 1 .. Len(s) : t[i] = s[i],
         \/ Len(t) = Len(s) + 1 /\ t[Len(s) + 1] = NUL
         \/ Len(t) = Len(s) /\ b.slen + Len(s) = b.mlen,
         NEW r, r = [Store(b, b.slen, t) EXCEPT !.slen = b.slen + Len(s)]
  PROVE  Buffer(r) /\ r.mlen = b.mlen /\ r.slen = b.slen + Len(s) /\ Text(r) = Text(b) \o s
<1>1. PICK d \in Seq(Int), l \in Nat, n \in Nat, m \in Nat, k \in Nat :
        /\ d = b.data /\ l = Len(d) /\ n = b.slen /\ m = Len(s) /\ k = Len(t)
        /\ b = [data |-> d, slen |-> n, mlen |-> l]
  <2>1. /\ b.data \in Seq(Int) /\ b.slen \in Nat /\ b.mlen \in Nat /\ Len(b.data) = b.mlen
        /\ b = [data |-> b.data, slen |-> b.slen, mlen |-> b.mlen]
    BY DEF Buffer, Strings
  <2>2. Len(s) \in Nat /\ Len(t) \in Nat
    OBVIOUS
  <2>3. QED
    BY <2>1, <2>2, Zenon
<1>2. /\ n + k <= l /\ m <= k
      /\ \/ k = m + 1 /\ t[m + 1] = NUL
         \/ k = m /\ n + m = l
  <2>1. b.mlen = l
    BY <1>1
  <2>2. QED
    BY <1>1, <2>1
<1>3. PICK e \in Seq(Int) :
        /\ Store(b, n, t) = [b EXCEPT !.data = e]
        /\ Len(e) = l
        /\ \A i \in 1 .. l : i <= n \/ i > n + k => e[i] = d[i]
        /\ \A i \in 1 .. k : e[n + i] = t[i]
  <2>1. b \in Strings
    BY DEF Buffer
  <2>2. n + Len(t) <= Len(b.data)
    BY <1>1, <1>2
  <2>3. QED
    <3>1. PICK e \in Seq(Int) : StoredAs(b, n, t, e)
      BY <2>1, <2>2, StoreFacts, Zenon
    <3>2. Len(b.data) = l /\ Len(t) = k /\ b.data = d
      BY <1>1
    <3>3. QED
      BY <3>1, <3>2, Zenon DEF StoredAs
<1>4. r = [data |-> e, slen |-> n + m, mlen |-> l]
  <2>1. [b EXCEPT !.data = e] = [data |-> e, slen |-> n, mlen |-> l]
    BY <1>1
  <2>2. r = [[b EXCEPT !.data = e] EXCEPT !.slen = n + m]
    BY <1>1, <1>3
  <2>3. QED
    BY <2>1, <2>2
<1>5. r.data = e /\ r.slen = n + m /\ r.mlen = l
  BY <1>4
<1>6. Buffer(r)
  <2>1. n + m \in Nat /\ n + m <= l
    <3>1. n + k <= l /\ m <= k
      BY <1>2
    <3>2. QED
      BY <3>1
  <2>2. r \in Strings
    <3>1. e \in Seq(Int) /\ n + m \in Nat /\ l \in Nat
      BY <2>1
    <3>2. [data |-> e, slen |-> n + m, mlen |-> l] \in [data : Seq(Int), slen : Nat, mlen : Nat]
      BY <3>1
    <3>3. QED
      BY <1>4, <3>2 DEF Strings
  <2>3. n + m < l => e[n + m + 1] = NUL
    <3>1. ASSUME n + m < l
          PROVE  k = m + 1 /\ m + 1 \in 1 .. k /\ n + (m + 1) = n + m + 1 /\ t[m + 1] = NUL
      <4>1. k = m + 1 /\ t[m + 1] = NUL
        BY <1>2, <3>1
      <4>2. m + 1 \in 1 .. m + 1 /\ n + (m + 1) = n + m + 1
        OBVIOUS
      <4>3. QED
        BY <4>1, <4>2
    <3>2. QED
      BY <1>3, <3>1
  <2>4. QED
    BY <1>3, <1>5, <2>1, <2>2, <2>3 DEF Buffer
<1>7. Text(r) = Text(b) \o s
  <2>1. PICK x \in Seq(Int), y \in Seq(Int) : x = Text(r) /\ y = Text(b)
    BY <1>6, TextFacts
  <2>2. Len(x) = n + m /\ \A i \in 1 .. n + m : x[i] = e[i]
    BY <1>5, <1>6, <2>1, TextFacts
  <2>3. Len(y) = n /\ \A i \in 1 .. n : y[i] = d[i]
    BY <1>1, <2>1, TextFacts
  <2>4. PICK z \in Seq(Int) :
          /\ z = y \o s /\ Len(z) = n + m
          /\ \A i \in 1 .. n + m : z[i] = IF i <= n THEN y[i] ELSE s[i - n]
    <3>1. PICK z \in Seq(Int) :
            /\ z = y \o s /\ Len(z) = Len(y) + Len(s)
            /\ \A i \in 1 .. Len(y) + Len(s) : z[i] = IF i <= Len(y) THEN y[i] ELSE s[i - Len(y)]
      <4>1. /\ y \o s \in Seq(Int) /\ Len(y \o s) = Len(y) + Len(s)
            /\ \A i \in 1 .. Len(y) + Len(s) : (y \o s)[i] = IF i <= Len(y) THEN y[i] ELSE s[i - Len(y)]
        BY ConcatProperties
      <4>2. QED
        BY <4>1, Zenon
    <3>2. Len(y) = n /\ Len(s) = m
      BY <1>1, <2>3
    <3>3. QED
      BY <3>1, <3>2, Zenon
  <2>5. ASSUME NEW i \in 1 .. n + m
        PROVE  x[i] = z[i]
    <3>1. CASE i <= n
      <4>1. i \in 1 .. n /\ i \in 1 .. l
        BY <1>2, <3>1
      <4>2. e[i] = d[i]
        BY <1>3, <3>1, <4>1
      <4>3. x[i] = e[i] /\ y[i] = d[i] /\ z[i] = y[i]
        BY <2>2, <2>3, <2>4, <3>1, <4>1
      <4>4. QED
        BY <4>2, <4>3
    <3>2. CASE ~(i <= n)
      <4>1. PICK j \in 1 .. m : j = i - n
        BY <3>2
      <4>2. j \in 1 .. k /\ n + j = i
        <5>1. m <= k
          BY <1>2
        <5>2. QED
          BY <4>1, <5>1
      <4>3. e[i] = s[j]
        BY <1>1, <1>3, <4>2
      <4>4. QED
        BY <2>2, <2>4, <3>2, <4>1, <4>3
    <3>3. QED
      BY <3>1, <3>2
  <2>6. x = z
    BY <2>2, <2>4, <2>5, SeqEqual
  <2>7. QED
    BY <2>1, <2>4, <2>6
<1>8. r.mlen = b.mlen /\ r.slen = b.slen + Len(s)
  <2>1. b.mlen = l /\ b.slen = n /\ Len(s) = m
    BY <1>1
  <2>2. QED
    BY <1>5, <2>1
<1>9. QED
  BY <1>6, <1>7, <1>8

\* A terminator stored behind the first n bytes.
LEMMA NulStored ==
  ASSUME NEW b \in Strings, NEW n \in Nat, n < Len(b.data)
  PROVE  \E e \in Seq(Int) :
           /\ Store(b, n, <<NUL>>) = [b EXCEPT !.data = e] /\ Len(e) = Len(b.data)
           /\ e[n + 1] = NUL /\ \A i \in 1 .. n : e[i] = b.data[i]
<1>1. PICK z \in Seq(Int) : z = <<NUL>> /\ Len(z) = 1 /\ z[1] = NUL
  <2>1. <<NUL>> \in Seq(Int) /\ Len(<<NUL>>) = 1 /\ <<NUL>>[1] = NUL
    BY DEF NUL
  <2>2. QED
    BY <2>1, Zenon
<1>2. PICK l \in Nat : l = Len(b.data)
  BY DEF Strings
<1>3. n + Len(z) <= Len(b.data)
  BY <1>1, <1>2
<1>4. PICK e \in Seq(Int) : StoredAs(b, n, z, e)
  BY <1>3, StoreFacts, Zenon
<1>5. \A i \in 1 .. n : i \in 1 .. l /\ i <= n
  BY <1>2
<1>6. \A i \in 1 .. n : e[i] = b.data[i]
  BY <1>2, <1>4, <1>5 DEF StoredAs
<1>7. e[n + 1] = NUL
  BY <1>1, <1>4 DEF StoredAs
<1>8. Store(b, n, <<NUL>>) = [b EXCEPT !.data = e] /\ Len(e) = Len(b.data)
  BY <1>1, <1>4 DEF StoredAs
<1>9. QED
  BY <1>6, <1>7, <1>8

\* A buffer that is made larger, when it has to be and can be, keeps its string.
LEMMA BallocFacts ==
  ASSUME NEW b, Buffer(b), NEW olen \in Nat, olen > b.slen, NEW mem, ~Refused(b, olen, mem)
  PROVE  \E c : /\ c = balloc(b, olen, mem) /\ Buffer(c) /\ c.slen = b.slen /\ c.mlen >= olen
                /\ Text(c) = Text(b)
<1>1. CASE ~Grows(b, olen)
  <2>1. balloc(b, olen, mem) = b
    BY <1>1 DEF balloc
  <2>2. PICK l \in Nat, z \in Nat : l = b.mlen /\ z = snapUpSize(olen)
    BY SnapsFar DEF Buffer, Strings
  <2>3. z >= olen
    BY <2>2, SnapsFar
  <2>4. ~(olen >= l /\ z > l)
    BY <1>1, <2>2 DEF Grows
  <2>5. l >= olen
    BY <2>3, <2>4
  <2>6. QED
    BY <2>1, <2>2, <2>5
<1>2. CASE Grows(b, olen)
  <2>1. mem # "none"
    BY <1>2 DEF Refused
  <2>2. PICK len \in Nat : len = (IF mem = "plenty" THEN snapUpSize(olen) ELSE olen) /\ len >= olen
    BY SnapsFar
  <2>3. PICK n \in Nat : n = b.slen /\ n < len /\ len - n \in Nat
    <3>1. PICK n \in Nat : n = b.slen
      BY DEF Buffer, Strings
    <3>2. n < len
      BY <2>2, <3>1
    <3>3. QED
      BY <3>1, <3>2
  <2>4. PICK x \in Seq(Int) : x = Text(b) /\ Len(x) = n /\ \A i \in 1 .. n : x[i] = b.data[i]
    BY <2>3, TextFacts
  <2>5. PICK y \in Seq(Int) : y = Fill(len - n, JUNK) /\ Len(y) = len - n
    <3>1. JUNK \in Int
      BY DEF JUNK
    <3>2. QED
      BY <2>3, <3>1, FillFacts
  <2>6. PICK d \in Seq(Int) :
          /\ d = x \o y /\ Len(d) = len
          /\ \A i \in 1 .. len : d[i] = IF i <= n THEN x[i] ELSE y[i - n]
    <3>1. PICK d \in Seq(Int) :
            /\ d = x \o y /\ Len(d) = Len(x) + Len(y)
            /\ \A i \in 1 .. Len(x) + Len(y) : d[i] = IF i <= Len(x) THEN x[i] ELSE y[i - Len(x)]
      <4>1. /\ x \o y \in Seq(Int) /\ Len(x \o y) = Len(x) + Len(y)
            /\ \A i \in 1 .. Len(x) + Len(y) : (x \o y)[i] = IF i <= Len(x) THEN x[i] ELSE y[i - Len(x)]
        BY ConcatProperties
      <4>2. QED
        BY <4>1, Zenon
    <3>2. Len(x) + Len(y) = len /\ Len(x) = n
      BY <2>3, <2>4, <2>5
    <3>3. QED
      BY <3>1, <3>2, Zenon
  <2>7. PICK moved : moved = [data |-> d, slen |-> n, mlen |-> len]
    OBVIOUS
  <2>8. moved \in Strings /\ moved.data = d
    BY <2>7 DEF Strings
  <2>9. PICK e \in Seq(Int) :
          /\ Store(moved, n, <<NUL>>) = [moved EXCEPT !.data = e]
          /\ Len(e) = len
          /\ \A i \in 1 .. n : e[i] = d[i]
          /\ e[n + 1] = NUL
    <3>1. n < Len(d) /\ \A i \in 1 .. n : i \in 1 .. Len(d)
      BY <2>3, <2>6
    <3>2. PICK e \in Seq(Int) :
            /\ Store(moved, n, <<NUL>>) = [moved EXCEPT !.data = e] /\ Len(e) = Len(d)
            /\ e[n + 1] = NUL /\ \A i \in 1 .. n : e[i] = d[i]
      <4>1. moved \in Strings /\ n < Len(moved.data)
        BY <2>8, <3>1
      <4>2. \E e \in Seq(Int) :
              /\ Store(moved, n, <<NUL>>) = [moved EXCEPT !.data = e] /\ Len(e) = Len(moved.data)
              /\ e[n + 1] = NUL /\ \A i \in 1 .. n : e[i] = moved.data[i]
        BY <4>1, NulStored, Zenon
      <4>3. moved.data = d
        BY <2>8
      <4>4. QED
        BY <4>2, <4>3, Zenon
    <3>3. QED
      BY <2>6, <3>2
  <2>10. PICK c : c = [data |-> e, slen |-> n, mlen |-> len]
    OBVIOUS
  <2>11. balloc(b, olen, mem) = c
    <3>1. balloc(b, olen, mem) = Store(moved, n, <<NUL>>)
      BY <1>2, <2>1, <2>2, <2>3, <2>4, <2>5, <2>6, <2>7 DEF balloc
    <3>2. [moved EXCEPT !.data = e] = c
      <4>1. moved = [data |-> d, slen |-> n, mlen |-> len] => [moved EXCEPT !.data = e] = [data |-> e, slen |-> n, mlen |-> len]
        OBVIOUS
      <4>2. QED
        BY <2>7, <2>10, <4>1
    <3>3. QED
      BY <2>9, <3>1, <3>2
  <2>12. c.data = e /\ c.slen = n /\ c.mlen = len
    BY <2>10
  <2>13. Buffer(c)
    <3>1. c \in Strings
      BY <2>10 DEF Strings
    <3>2. QED
      BY <2>3, <2>9, <2>12, <3>1 DEF Buffer
  <2>14. Text(c) = Text(b)
    <3>1. PICK z \in Seq(Int) : z = Text(c) /\ Len(z) = n /\ \A i \in 1 .. n : z[i] = e[i]
      BY <2>12, <2>13, TextFacts
    <3>2. ASSUME NEW i \in 1 .. n
          PROVE  z[i] = x[i]
      <4>1. i \in 1 .. len /\ i <= n
        BY <2>3
      <4>2. d[i] = x[i]
        BY <2>6, <4>1
      <4>3. QED
        BY <2>9, <3>1, <4>2
    <3>3. z = x
      BY <2>4, <3>1, <3>2, SeqEqual
    <3>4. QED
      BY <2>4, <3>1, <3>3
  <2>15. QED
    BY <2>2, <2>3, <2>11, <2>12, <2>13, <2>14
<1>3. QED
  BY <1>1, <1>2

\* A string with its terminator.
LEMMA WithNul ==
  ASSUME NEW s \in Seq(Int), NEW m \in Nat, m = Len(s)
  PROVE  \E t \in Seq(Int) :
           /\ t = s \o <<NUL>> /\ Len(t) = m + 1 /\ t[m + 1] = NUL
           /\ \A i \in 1 .. m : t[i] = s[i]
<1>1. PICK y \in Seq(Int) : y = <<NUL>> /\ Len(y) = 1 /\ y[1] = NUL
  <2>1. <<NUL>> \in Seq(Int) /\ Len(<<NUL>>) = 1 /\ <<NUL>>[1] = NUL
    BY DEF NUL
  <2>2. QED
    BY <2>1, Zenon
<1>2. PICK t \in Seq(Int) :
        /\ t = s \o y /\ Len(t) = Len(s) + Len(y)
        /\ \A i \in 1 .. Len(s) + Len(y) : t[i] = IF i <= Len(s) THEN s[i] ELSE y[i - Len(s)]
  <2>1. /\ s \o y \in Seq(Int) /\ Len(s \o y) = Len(s) + Len(y)
        /\ \A i \in 1 .. Len(s) + Len(y) : (s \o y)[i] = IF i <= Len(s) THEN s[i] ELSE y[i - Len(s)]
    BY ConcatProperties
  <2>2. QED
    BY <2>1, Zenon
<1>3. Len(t) = m + 1 /\ \A i \in 1 .. m + 1 : t[i] = IF i <= m THEN s[i] ELSE y[i - m]
  BY <1>1, <1>2
<1>4. m + 1 \in 1 .. m + 1 /\ ~(m + 1 <= m) /\ (m + 1) - m = 1
  OBVIOUS
<1>5. \A i \in 1 .. m : i \in 1 .. m + 1 /\ i <= m
  OBVIOUS
<1>6. t[m + 1] = y[1]
  BY <1>3, <1>4
<1>7. \A i \in 1 .. m : t[i] = s[i]
  BY <1>3, <1>5
<1>8. QED
  BY <1>1, <1>2, <1>3, <1>6, <1>7

\* A string that is stored with its terminator.
LEMMA Terminated ==
  ASSUME NEW b, Buffer(b), NEW s \in Seq(Int), b.slen + Len(s) < b.mlen
  PROVE  LET r == [Store(b, b.slen, s \o <<NUL>>) EXCEPT !.slen = b.slen + Len(s)]
         IN  Buffer(r) /\ Text(r) = Text(b) \o s
<1>1. PICK n \in Nat, l \in Nat, m \in Nat : n = b.slen /\ l = b.mlen /\ m = Len(s)
  BY DEF Buffer, Strings
<1>2. PICK t \in Seq(Int) :
        t = s \o <<NUL>> /\ Len(t) = m + 1 /\ t[m + 1] = NUL /\ \A i \in 1 .. m : t[i] = s[i]
  BY <1>1, WithNul
<1>3. PICK r : r = [Store(b, b.slen, t) EXCEPT !.slen = b.slen + Len(s)]
  OBVIOUS
<1>4. /\ Len(t) >= Len(s) /\ b.slen + Len(t) <= b.mlen /\ \A i \in 1 .. Len(s) : t[i] = s[i]
      /\ Len(t) = Len(s) + 1 /\ t[Len(s) + 1] = NUL
  <2>1. n + m < l
    BY <1>1
  <2>2. m + 1 >= m /\ n + (m + 1) <= l
    BY <2>1
  <2>3. QED
    BY <1>1, <1>2, <2>2
<1>5. Buffer(r) /\ Text(r) = Text(b) \o s
  BY <1>3, <1>4, Added
<1>6. QED
  BY <1>2, <1>3, <1>5

\* Two bytes are one behind the other.
LEMMA TwoBytes == \A x, y \in Int : <<x>> \o <<y>> = <<x, y>>
<1> SUFFICES ASSUME NEW x \in Int, NEW y \in Int PROVE <<x>> \o <<y>> = <<x, y>>
  OBVIOUS
<1>1. /\ <<x>> \in Seq(Int) /\ <<y>> \in Seq(Int) /\ <<x, y>> \in Seq(Int)
      /\ Len(<<x>>) = 1 /\ Len(<<y>>) = 1 /\ Len(<<x, y>>) = 2
      /\ <<x>>[1] = x /\ <<y>>[1] = y /\ <<x, y>>[1] = x /\ <<x, y>>[2] = y
  OBVIOUS
<1>2. PICK a \in Seq(Int), b \in Seq(Int), c \in Seq(Int) :
        /\ a = <<x>> /\ b = <<y>> /\ c = <<x, y>>
        /\ Len(a) = 1 /\ Len(b) = 1 /\ Len(c) = 2
        /\ a[1] = x /\ b[1] = y /\ c[1] = x /\ c[2] = y
  BY <1>1, Zenon
<1>3. PICK d \in Seq(Int) : d = a \o b /\ Len(d) = 2 /\ d[1] = x /\ d[2] = y
  <2>1. PICK d \in Seq(Int) :
          /\ d = a \o b /\ Len(d) = Len(a) + Len(b)
          /\ \A i \in 1 .. Len(a) + Len(b) : d[i] = IF i <= Len(a) THEN a[i] ELSE b[i - Len(a)]
    <3>1. /\ a \o b \in Seq(Int) /\ Len(a \o b) = Len(a) + Len(b)
          /\ \A i \in 1 .. Len(a) + Len(b) : (a \o b)[i] = IF i <= Len(a) THEN a[i] ELSE b[i - Len(a)]
      BY ConcatProperties
    <3>2. QED
      BY <3>1, Zenon
  <2>2. Len(d) = 2 /\ d[1] = a[1] /\ d[2] = b[1]
    BY <1>2, <2>1
  <2>3. QED
    BY <1>2, <2>1, <2>2
<1>4. ASSUME NEW i \in 1 .. Len(d)
      PROVE  d[i] = c[i]
  <2>1. i = 1 \/ i = 2
    BY <1>3
  <2>2. QED
    BY <1>2, <1>3, <2>1
<1>5. d = c
  <2>1. Len(d) = Len(c)
    BY <1>2, <1>3, Zenon
  <2>2. QED
    BY <1>4, <2>1, SeqEqual
<1>6. QED
  BY <1>2, <1>3, <1>5

\* One byte more, if there is memory for it.
LEMMA bconcharFacts ==
  ASSUME NEW b, Buffer(b), NEW x \in Int, NEW mem
  PROVE  /\ Buffer(bconchar(b, x, mem))
         /\ mem # "none" => Text(bconchar(b, x, mem)) = Text(b) \o <<x>>
<1>1. PICK n \in Nat : n = b.slen
  BY DEF Buffer, Strings
<1>2. CASE Refused(b, n + 2, mem)
  BY <1>1, <1>2 DEF bconchar, Refused
<1>3. CASE ~Refused(b, n + 2, mem)
  <2>1. PICK c : /\ c = balloc(b, n + 2, mem) /\ Buffer(c) /\ c.slen = b.slen /\ c.mlen >= n + 2
                 /\ Text(c) = Text(b)
    <3>1. n + 2 \in Nat /\ n + 2 > n
      OBVIOUS
    <3>2. QED
      BY <1>1, <1>3, <3>1, BallocFacts
  <2>2. PICK s \in Seq(Int) : s = <<x>> /\ Len(s) = 1 /\ s \o <<NUL>> = <<x, NUL>>
    <3>1. <<x>> \in Seq(Int) /\ Len(<<x>>) = 1
      OBVIOUS
    <3>2. NUL \in Int
      BY DEF NUL
    <3>3. <<x>> \o <<NUL>> = <<x, NUL>>
      BY <3>2, TwoBytes
    <3>4. QED
      BY <3>1, <3>3, Zenon
  <2>3. c.slen + Len(s) < c.mlen
    <3>1. PICK l \in Nat : l = c.mlen
      BY <2>1 DEF Buffer, Strings
    <3>2. n + 1 < l
      BY <2>1, <3>1
    <3>3. QED
      BY <1>1, <2>1, <2>2, <3>1, <3>2
  <2>4. PICK r : r = [Store(c, c.slen, s \o <<NUL>>) EXCEPT !.slen = c.slen + Len(s)]
    OBVIOUS
  <2>5. Buffer(r) /\ Text(r) = Text(c) \o s
    BY <2>1, <2>3, <2>4, Terminated
  <2>6. bconchar(b, x, mem) = r
    <3>1. c.slen = b.slen /\ c.slen + Len(s) = b.slen + 1
      BY <2>1, <2>2
    <3>2. bconchar(b, x, mem) = [Store(c, b.slen, <<x, NUL>>) EXCEPT !.slen = b.slen + 1]
      BY <1>1, <1>3, <2>1 DEF bconchar
    <3>3. QED
      BY <2>2, <2>4, <3>1, <3>2
  <2>7. QED
    BY <2>1, <2>2, <2>5, <2>6
<1>4. QED
  BY <1>2, <1>3

\* The same for a string, behind a buffer that has to grow.
LEMMA bcatblkFacts ==
  ASSUME NEW b, Buffer(b), NEW s \in Seq(Int), NEW mem
  PROVE  /\ Buffer(bcatblk(b, s, mem))
         /\ mem # "none" => Text(bcatblk(b, s, mem)) = Text(b) \o s
<1>1. PICK n \in Nat, l \in Nat, m \in Nat : n = b.slen /\ l = b.mlen /\ m = Len(s)
  BY DEF Buffer, Strings
<1>2. CASE l <= n + m /\ Refused(b, n + m + 1, mem)
  <2>1. bcatblk(b, s, mem) = b
    BY <1>1, <1>2 DEF bcatblk
  <2>2. mem = "none"
    BY <1>2 DEF Refused
  <2>3. QED
    BY <2>1, <2>2
<1>3. CASE ~(l <= n + m /\ Refused(b, n + m + 1, mem))
  <2>1. PICK c : /\ c = IF l <= n + m THEN balloc(b, n + m + 1, mem) ELSE b
                 /\ Buffer(c) /\ c.slen = n /\ n + m < c.mlen /\ Text(c) = Text(b)
    <3>1. CASE l <= n + m
      <4>1. PICK o \in Nat : o = n + m + 1 /\ o > n
        OBVIOUS
      <4>2. PICK c : /\ c = balloc(b, o, mem) /\ Buffer(c) /\ c.slen = b.slen /\ c.mlen >= o
                     /\ Text(c) = Text(b)
        BY <1>1, <1>3, <3>1, <4>1, BallocFacts
      <4>3. PICK k \in Nat : k = c.mlen
        BY <4>2 DEF Buffer, Strings
      <4>4. n + m < k
        BY <4>1, <4>2, <4>3
      <4>5. QED
        BY <1>1, <3>1, <4>1, <4>2, <4>3, <4>4
    <3>2. CASE ~(l <= n + m)
      BY <1>1, <3>2
    <3>3. QED
      BY <3>1, <3>2
  <2>2. PICK r : r = [Store(c, c.slen, s \o <<NUL>>) EXCEPT !.slen = c.slen + Len(s)]
    OBVIOUS
  <2>3. Buffer(r) /\ Text(r) = Text(c) \o s
    <3>1. c.slen + Len(s) < c.mlen
      BY <1>1, <2>1
    <3>2. QED
      BY <2>1, <2>2, <3>1, Terminated
  <2>4. bcatblk(b, s, mem) = r
    <3>1. c.slen = n /\ c.slen + Len(s) = n + m
      BY <1>1, <2>1
    <3>2. bcatblk(b, s, mem) = [Store(c, n, s \o <<NUL>>) EXCEPT !.slen = n + m]
      BY <1>1, <1>3, <2>1 DEF bcatblk
    <3>3. QED
      BY <2>2, <3>1, <3>2
  <2>5. QED
    BY <2>1, <2>3, <2>4
<1>4. QED
  BY <1>2, <1>3

\* Sequences of bytes can be grouped in any way.
Grouped(a, b, c) == (a \o b) \o c = a \o (b \o c)

\* They are, whatever the sequences.
LEMMA ConcatInts == \A a, b, c \in Seq(Int) : Grouped(a, b, c)
<1> SUFFICES ASSUME NEW a \in Seq(Int), NEW b \in Seq(Int), NEW c \in Seq(Int)
             PROVE  Grouped(a, b, c)
  BY Zenon
<1>1. (a \o b) \o c = a \o (b \o c)
  BY ConcatAssociative
<1>2. QED
  BY <1>1 DEF Grouped

\* A string cut in two, put together again.
LEMMA IntsCut ==
  \A s \in Seq(Int) : \A n \in 0 .. Len(s) :
    /\ SubSeq(s, 1, n) \in Seq(Int) /\ SubSeq(s, n + 1, Len(s)) \in Seq(Int)
    /\ Len(SubSeq(s, 1, n)) = n /\ SubSeq(s, 1, n) \o SubSeq(s, n + 1, Len(s)) = s
<1> SUFFICES ASSUME NEW s \in Seq(Int), NEW n \in 0 .. Len(s)
             PROVE  /\ SubSeq(s, 1, n) \in Seq(Int) /\ SubSeq(s, n + 1, Len(s)) \in Seq(Int)
                    /\ Len(SubSeq(s, 1, n)) = n
                    /\ SubSeq(s, 1, n) \o SubSeq(s, n + 1, Len(s)) = s
  BY Zenon
<1>1. \A k \in 1 .. n : s[k] \in Int
  OBVIOUS
<1>2. /\ SubSeq(s, 1, n) \in Seq(Int)
      /\ Len(SubSeq(s, 1, n)) = IF 1 <= n THEN n - 1 + 1 ELSE 0
  BY <1>1, SubSeqProperties
<1>3. \A k \in n + 1 .. Len(s) : s[k] \in Int
  OBVIOUS
<1>4. SubSeq(s, n + 1, Len(s)) \in Seq(Int)
  BY <1>3, SubSeqProperties
<1>5. SubSeq(s, 1, n) \o SubSeq(s, n + 1, Len(s)) = SubSeq(s, 1, Len(s))
  <2>1. 1 \in 1 .. Len(s) + 1 /\ n \in 1 - 1 .. Len(s) /\ Len(s) \in n .. Len(s)
    OBVIOUS
  <2>2. QED
    BY <2>1, ConcatAdjacentSubSeq
<1>6. SubSeq(s, 1, Len(s)) = s
  BY SubSeqFull
<1>7. Len(SubSeq(s, 1, n)) = n
  BY <1>2
<1>8. QED
  BY <1>2, <1>4, <1>5, <1>6, <1>7

\* A string stored straight into the buffer, and what did not fit behind it.
LEMMA bcatcstrFacts ==
  ASSUME NEW b, Buffer(b), NEW s \in Seq(Int), NEW mem
  PROVE  /\ Buffer(bcatcstr(b, s, mem))
         /\ mem # "none" => Text(bcatcstr(b, s, mem)) = Text(b) \o s
<1>1. PICK n \in Nat, k \in Nat, m \in Nat, l \in Nat :
        n = b.slen /\ k = b.mlen /\ m = Len(s) /\ l = k - n
  <2>1. PICK n \in Nat, k \in Nat, m \in Nat : n = b.slen /\ k = b.mlen /\ m = Len(s) /\ n <= k
    BY DEF Buffer, Strings
  <2>2. k - n \in Nat
    BY <2>1
  <2>3. QED
    BY <2>1, <2>2
<1>2. CASE m < l
  <2>1. PICK r : r = [Store(b, b.slen, s \o <<NUL>>) EXCEPT !.slen = b.slen + Len(s)]
    OBVIOUS
  <2>2. Buffer(r) /\ Text(r) = Text(b) \o s
    <3>1. n + m < k
      BY <1>1, <1>2
    <3>2. b.slen + Len(s) < b.mlen
      BY <1>1, <3>1
    <3>3. QED
      BY <2>1, <3>2, Terminated
  <2>3. bcatcstr(b, s, mem) = r
    BY <1>1, <1>2, <2>1 DEF bcatcstr
  <2>4. QED
    BY <2>2, <2>3
<1>3. CASE ~(m < l)
  <2>1. l \in 0 .. m
    BY <1>3
  <2>2. PICK t \in Seq(Int), u \in Seq(Int) :
          t = SubSeq(s, 1, l) /\ u = SubSeq(s, l + 1, m) /\ Len(t) = l /\ t \o u = s
    <3>1. l \in 0 .. Len(s)
      BY <1>1, <2>1
    <3>2. /\ SubSeq(s, 1, l) \in Seq(Int) /\ SubSeq(s, l + 1, Len(s)) \in Seq(Int)
          /\ Len(SubSeq(s, 1, l)) = l /\ SubSeq(s, 1, l) \o SubSeq(s, l + 1, Len(s)) = s
      BY <3>1, IntsCut, Zenon
    <3>3. m = Len(s)
      BY <1>1
    <3>4. QED
      BY <3>2, <3>3, Zenon
  <2>3. PICK full : full = [Store(b, b.slen, t) EXCEPT !.slen = b.slen + Len(t)]
    OBVIOUS
  <2>4. Buffer(full) /\ Text(full) = Text(b) \o t
    <3>1. Len(t) >= Len(t) /\ \A i \in 1 .. Len(t) : t[i] = t[i]
      BY <2>2
    <3>2. b.slen + Len(t) = b.mlen /\ b.slen + Len(t) <= b.mlen
      <4>1. n + l = k /\ n + l <= k
        BY <1>1
      <4>2. b.slen = n /\ b.mlen = k /\ Len(t) = l
        BY <1>1, <2>2
      <4>3. QED
        BY <4>1, <4>2
    <3>3. QED
      BY <2>3, <3>1, <3>2, Added
  <2>5. bcatcstr(b, s, mem) = bcatblk(full, u, mem)
    <3>1. b.slen + Len(t) = b.mlen
      <4>1. n + l = k
        BY <1>1
      <4>2. b.slen = n /\ b.mlen = k /\ Len(t) = l
        BY <1>1, <2>2
      <4>3. QED
        BY <4>1, <4>2
    <3>2. full = [Store(b, b.slen, SubSeq(s, 1, l)) EXCEPT !.slen = b.mlen]
      BY <2>2, <2>3, <3>1
    <3>3. b.mlen - b.slen = l /\ ~(Len(s) < l)
      BY <1>1, <1>3
    <3>4. bcatcstr(b, s, mem) = bcatblk(full, SubSeq(s, l + 1, Len(s)), mem)
      BY <3>2, <3>3 DEF bcatcstr
    <3>5. QED
      BY <1>1, <2>2, <3>4
  <2>6. /\ Buffer(bcatblk(full, u, mem))
        /\ mem # "none" => Text(bcatblk(full, u, mem)) = Text(full) \o u
    BY <2>4, bcatblkFacts
  <2>7. PICK x \in Seq(Int) : x = Text(b)
    BY TextFacts
  <2>8. (x \o t) \o u = x \o (t \o u)
    BY ConcatInts, Zenon DEF Grouped
  <2>9. QED
    BY <2>2, <2>4, <2>5, <2>6, <2>7, <2>8
<1>4. QED
  BY <1>2, <1>3

\* A new string is in a buffer of its own.
LEMMA bfromcstrFacts ==
  ASSUME NEW s \in Seq(Int)
  PROVE  Buffer(bfromcstr(s)) /\ Text(bfromcstr(s)) = s
<1>1. PICK m \in Nat : m = Len(s)
  OBVIOUS
<1>2. PICK size \in Nat : size = snapUpSize(m + (IF m = 0 THEN 2 ELSE 1)) /\ m < size
  <2>1. PICK i \in Nat : i = m + (IF m = 0 THEN 2 ELSE 1) /\ m < i
    OBVIOUS
  <2>2. snapUpSize(i) \in Nat /\ snapUpSize(i) >= i
    BY SnapsFar
  <2>3. QED
    BY <2>1, <2>2
<1>3. PICK d \in Seq(Int) : d = Fill(size, JUNK) /\ Len(d) = size
  <2>1. JUNK \in Int
    BY DEF JUNK
  <2>2. QED
    BY <2>1, FillFacts
<1>4. PICK b : b = [data |-> d, slen |-> m, mlen |-> size]
  OBVIOUS
<1>5. b \in Strings /\ b.data = d
  BY <1>4 DEF Strings
<1>6. PICK t \in Seq(Int) :
        t = s \o <<NUL>> /\ Len(t) = m + 1 /\ t[m + 1] = NUL /\ \A i \in 1 .. m : t[i] = s[i]
  BY <1>1, WithNul
<1>7. PICK e \in Seq(Int) :
        /\ Store(b, 0, t) = [b EXCEPT !.data = e]
        /\ Len(e) = size
        /\ \A i \in 1 .. m + 1 : e[i] = t[i]
  <2>1. PICK z \in Nat : z = 0
    OBVIOUS
  <2>2. z + Len(t) <= Len(b.data)
    BY <1>2, <1>3, <1>5, <1>6, <2>1
  <2>3. \E e \in Seq(Int) : StoredAs(b, z, t, e)
    <3>1. b \in Strings
      BY <1>5
    <3>2. QED
      BY <2>2, <3>1, StoreFacts, Zenon
  <2>4. Len(b.data) = size /\ Len(t) = m + 1 /\ \A i \in 1 .. m + 1 : z + i = i
    BY <1>3, <1>5, <1>6, <2>1
  <2>5. QED
    <3>1. PICK e \in Seq(Int) :
            /\ Store(b, z, t) = [b EXCEPT !.data = e]
            /\ Len(e) = size
            /\ \A i \in 1 .. m + 1 : e[z + i] = t[i]
      BY <2>3, <2>4, Zenon DEF StoredAs
    <3>2. \A i \in 1 .. m + 1 : e[i] = t[i]
      BY <2>4, <3>1
    <3>3. QED
      BY <2>1, <3>1, <3>2
<1>8. PICK r : r = [data |-> e, slen |-> m, mlen |-> size]
  OBVIOUS
<1>9. bfromcstr(s) = r
  <2>1. b = [data |-> d, slen |-> m, mlen |-> size]
        => [b EXCEPT !.data = e] = [data |-> e, slen |-> m, mlen |-> size]
    OBVIOUS
  <2>2. bfromcstr(s) = Store(b, 0, t)
    BY <1>1, <1>2, <1>3, <1>4, <1>6 DEF bfromcstr
  <2>3. QED
    BY <1>4, <1>7, <1>8, <2>1, <2>2
<1>10. r.data = e /\ r.slen = m /\ r.mlen = size
  BY <1>8
<1>11. m + 1 \in 1 .. m + 1 /\ \A i \in 1 .. m : i \in 1 .. m + 1
  OBVIOUS
<1>12. Buffer(r)
  <2>1. r \in Strings
    BY <1>8 DEF Strings
  <2>2. e[m + 1] = NUL
    BY <1>6, <1>7, <1>11
  <2>3. m <= size
    BY <1>2
  <2>4. QED
    BY <1>7, <1>10, <2>1, <2>2, <2>3 DEF Buffer
<1>13. Text(r) = s
  <2>1. PICK x \in Seq(Int) : x = Text(r) /\ Len(x) = m /\ \A i \in 1 .. m : x[i] = e[i]
    BY <1>10, <1>12, TextFacts
  <2>2. \A i \in 1 .. m : e[i] = s[i]
    BY <1>6, <1>7, <1>11
  <2>3. \A i \in 1 .. Len(x) : x[i] = s[i]
    BY <2>1, <2>2
  <2>4. x = s
    BY <1>1, <2>1, <2>3, SeqEqual
  <2>5. QED
    BY <2>1, <2>4
<1>14. QED
  BY <1>9, <1>12, <1>13
-----------------------------------------------------------------------------
(* The strings of the request.                                             *)

\* A string lies in the bytes, with its terminator behind it.
Lies(s, bytes, at) ==
  /\ at \in Nat \ {0} /\ at + Len(s) <= Len(bytes)
  /\ \A i \in 0 .. Len(s) - 1 : bytes[at + i] = s[i + 1]
  /\ bytes[at + Len(s)] = NUL

\* strlen finds its length,
LEMMA StrlenFound ==
  ASSUME NEW bytes, Len(bytes) \in Nat, NEW at \in Nat \ {0}, NEW n \in Nat, at + n <= Len(bytes),
         bytes[at + n] = NUL, \A k \in 0 .. n - 1 : bytes[at + k] # NUL
  PROVE  strlen(bytes, at) = n
<1> DEFINE P(x) == /\ x \in 0 .. Len(bytes) - at /\ bytes[at + x] = NUL
                   /\ \A k \in 0 .. x - 1 : bytes[at + k] # NUL
<1>1. P(n)
  <2>1. n \in 0 .. Len(bytes) - at
    OBVIOUS
  <2>2. QED
    BY <2>1
<1>2. ASSUME NEW x, P(x) PROVE x = n
  <2>1. x \in Nat
    BY <1>2
  <2>2. CASE x < n
    <3>1. x \in 0 .. n - 1
      BY <2>1, <2>2
    <3>2. QED
      BY <1>2, <3>1
  <2>3. CASE n < x
    <3>1. n \in 0 .. x - 1
      BY <2>1, <2>3
    <3>2. QED
      BY <1>2, <3>1
  <2>4. QED
    BY <2>1, <2>2, <2>3
<1>3. strlen(bytes, at) = CHOOSE x : P(x)
  BY DEF strlen
<1> HIDE DEF P
<1>4. P(CHOOSE x : P(x))
  BY <1>1
<1>5. QED
  BY <1>2, <1>3, <1>4

\* and it can be cut out.
LEMMA LyingFound ==
  ASSUME NEW bytes \in Seq(Int), NEW s \in Seq(Nat \ {0}), NEW at, Lies(s, bytes, at)
  PROVE  /\ strlen(bytes, at) = Len(s)
         /\ SubSeq(bytes, at, at + Len(s) - 1) = s
<1>1. PICK n \in Nat, l \in Nat : n = Len(s) /\ l = Len(bytes)
  OBVIOUS
<1>2. /\ at \in Nat \ {0} /\ at + n <= l /\ bytes[at + n] = NUL
      /\ \A i \in 0 .. n - 1 : bytes[at + i] = s[i + 1]
  BY <1>1 DEF Lies
<1>3. ASSUME NEW k \in 0 .. n - 1
      PROVE  bytes[at + k] # NUL
  <2>1. k + 1 \in 1 .. n
    OBVIOUS
  <2>2. s[k + 1] # 0
    BY <1>1, <2>1
  <2>3. QED
    BY <1>2, <2>2 DEF NUL
<1>4. strlen(bytes, at) = n
  BY <1>1, <1>2, <1>3, StrlenFound
<1>5. PICK e \in Int : e = at + n - 1 /\ e <= l
  BY <1>2
<1>6. ASSUME NEW i \in at .. e
      PROVE  bytes[i] \in Int
  <2>1. i \in 1 .. l
    BY <1>2, <1>5
  <2>2. QED
    BY <1>1, <2>1
<1>7. PICK z \in Seq(Int) :
        /\ z = SubSeq(bytes, at, e) /\ Len(z) = IF at <= e THEN e - at + 1 ELSE 0
        /\ \A i \in 1 .. e - at + 1 : z[i] = bytes[at + i - 1]
  <2>1. at \in Int /\ e \in Int
    BY <1>2
  <2>2. \A i \in at .. e : bytes[i] \in Int
    BY <1>6
  <2>3. /\ SubSeq(bytes, at, e) \in Seq(Int)
        /\ Len(SubSeq(bytes, at, e)) = IF at <= e THEN e - at + 1 ELSE 0
        /\ \A i \in 1 .. e - at + 1 : SubSeq(bytes, at, e)[i] = bytes[at + i - 1]
    BY <2>1, <2>2, SubSeqProperties
  <2>4. QED
    BY <2>3, Zenon
<1>8. e - at + 1 = n /\ (IF at <= e THEN e - at + 1 ELSE 0) = n
  BY <1>2, <1>5
<1>9. ASSUME NEW i \in 1 .. n
      PROVE  z[i] = s[i]
  <2>1. PICK j \in 0 .. n - 1 : j = i - 1 /\ i = j + 1 /\ at + i - 1 = at + j
    BY <1>2
  <2>2. bytes[at + j] = s[j + 1]
    BY <1>2
  <2>3. z[i] = bytes[at + i - 1]
    BY <1>7, <1>8
  <2>4. QED
    BY <2>1, <2>2, <2>3
<1>10. z = s
  <2>1. Len(z) = Len(s) /\ \A i \in 1 .. Len(z) : z[i] = s[i]
    BY <1>1, <1>7, <1>8, <1>9
  <2>2. s \in Seq(Int)
    OBVIOUS
  <2>3. QED
    BY <2>1, <2>2, SeqEqual
<1>11. QED
  BY <1>1, <1>4, <1>5, <1>7, <1>10

\* What joining two sequences of bytes gives.
LEMMA JoinedInts ==
  ASSUME NEW a \in Seq(Int), NEW b \in Seq(Int)
  PROVE  \E c \in Seq(Int) :
           /\ c = a \o b /\ Len(c) = Len(a) + Len(b)
           /\ \A i \in 1 .. Len(a) : c[i] = a[i]
           /\ \A i \in 1 .. Len(b) : c[Len(a) + i] = b[i]
<1>1. PICK c \in Seq(Int) :
        /\ c = a \o b /\ Len(c) = Len(a) + Len(b)
        /\ \A i \in 1 .. Len(a) + Len(b) : c[i] = IF i <= Len(a) THEN a[i] ELSE b[i - Len(a)]
  <2>1. /\ a \o b \in Seq(Int) /\ Len(a \o b) = Len(a) + Len(b)
        /\ \A i \in 1 .. Len(a) + Len(b) : (a \o b)[i] = IF i <= Len(a) THEN a[i] ELSE b[i - Len(a)]
    BY ConcatProperties
  <2>2. QED
    BY <2>1, Zenon
<1>2. PICK l \in Nat, m \in Nat : l = Len(a) /\ m = Len(b)
  OBVIOUS
<1>3. \A i \in 1 .. l : i \in 1 .. l + m /\ i <= l
  OBVIOUS
<1>4. \A i \in 1 .. m : l + i \in 1 .. l + m /\ ~(l + i <= l) /\ (l + i) - l = i
  OBVIOUS
<1>5. \A i \in 1 .. l : c[i] = a[i]
  BY <1>1, <1>2, <1>3
<1>6. \A i \in 1 .. m : c[l + i] = b[i]
  BY <1>1, <1>2, <1>4
<1>7. QED
  BY <1>1, <1>2, <1>5, <1>6

\* One string more behind the bytes there are: all lie where they did, and it behind them.
LEMMA LiesBehind ==
  ASSUME NEW x \in Seq(Int), NEW s \in Seq(Nat \ {0})
  PROVE  \E y \in Seq(Int) :
           /\ y = (x \o s) \o <<NUL>> /\ Len(y) = Len(x) + Len(s) + 1
           /\ Lies(s, y, Len(x) + 1)
           /\ \A t : Len(t) \in Nat => \A at : Lies(t, x, at) => Lies(t, y, at)
<1>1. PICK l \in Nat, n \in Nat : l = Len(x) /\ n = Len(s)
  OBVIOUS
<1>2. PICK r \in Seq(Int) : r = s
  OBVIOUS
<1>3. PICK u \in Seq(Int) :
        /\ u = x \o r /\ Len(u) = l + n
        /\ \A i \in 1 .. l : u[i] = x[i]
        /\ \A i \in 1 .. n : u[l + i] = s[i]
  <2>1. PICK u \in Seq(Int) :
          /\ u = x \o r /\ Len(u) = Len(x) + Len(r)
          /\ \A i \in 1 .. Len(x) : u[i] = x[i]
          /\ \A i \in 1 .. Len(r) : u[Len(x) + i] = r[i]
    BY JoinedInts, Zenon
  <2>2. Len(x) = l /\ Len(r) = n
    BY <1>1, <1>2
  <2>3. QED
    BY <1>2, <2>1, <2>2, Zenon
<1>4. PICK y \in Seq(Int) :
        /\ y = u \o <<NUL>> /\ Len(y) = l + n + 1 /\ y[l + n + 1] = NUL
        /\ \A i \in 1 .. l + n : y[i] = u[i]
  <2>1. PICK m \in Nat : m = l + n
    OBVIOUS
  <2>2. PICK y \in Seq(Int) :
          y = u \o <<NUL>> /\ Len(y) = m + 1 /\ y[m + 1] = NUL /\ \A i \in 1 .. m : y[i] = u[i]
    BY <1>3, <2>1, WithNul
  <2>3. QED
    BY <2>1, <2>2
<1>5. Lies(s, y, l + 1)
  <2>1. l + 1 \in Nat \ {0} /\ (l + 1) + n = l + n + 1
    OBVIOUS
  <2>2. ASSUME NEW i \in 0 .. n - 1
        PROVE  y[(l + 1) + i] = s[i + 1]
    <3>1. PICK j \in 1 .. n : j = i + 1
      OBVIOUS
    <3>2. (l + 1) + i = l + j /\ l + j \in 1 .. l + n
      BY <3>1
    <3>3. y[l + j] = u[l + j] /\ u[l + j] = s[j]
      BY <1>3, <1>4, <3>1, <3>2
    <3>4. QED
      BY <3>1, <3>2, <3>3
  <2>3. QED
    <3>1. (l + 1) + n <= Len(y) /\ y[(l + 1) + n] = NUL
      BY <1>4, <2>1
    <3>2. Len(s) = n
      BY <1>1
    <3>3. QED
      BY <2>1, <2>2, <3>1, <3>2, Zenon DEF Lies
<1>6. ASSUME NEW t, Len(t) \in Nat, NEW at, Lies(t, x, at)
      PROVE  Lies(t, y, at)
  <2>1. PICK k \in Nat : k = Len(t)
    BY <1>6
  <2>2. /\ at \in Nat \ {0} /\ at + k <= l /\ x[at + k] = NUL
        /\ \A i \in 0 .. k - 1 : x[at + i] = t[i + 1]
    BY <1>1, <1>6, <2>1 DEF Lies
  <2>3. ASSUME NEW i \in 0 .. k
        PROVE  at + i \in 1 .. l /\ at + i \in 1 .. l + n
    <3>1. at \in Nat \ {0} /\ at + k <= l
      BY <2>2
    <3>2. at + i \in 1 .. l
      BY <3>1
    <3>3. QED
      BY <3>1, <3>2
  <2>4. \A i \in 0 .. k : y[at + i] = x[at + i]
    BY <1>3, <1>4, <2>3
  <2>5. y[at + k] = NUL
    <3>1. k \in 0 .. k
      OBVIOUS
    <3>2. y[at + k] = x[at + k]
      BY <2>4, <3>1
    <3>3. QED
      BY <2>2, <3>2
  <2>6. \A i \in 0 .. k - 1 : i \in 0 .. k
    OBVIOUS
  <2>7. \A i \in 0 .. k - 1 : y[at + i] = t[i + 1]
    BY <2>2, <2>4, <2>6
  <2>8. at + k <= Len(y)
    BY <1>4, <2>2
  <2>9. QED
    BY <2>1, <2>2, <2>5, <2>7, <2>8 DEF Lies
<1>7. y = (x \o s) \o <<NUL>>
  BY <1>2, <1>3, <1>4
<1>8. Len(y) = Len(x) + Len(s) + 1 /\ Lies(s, y, Len(x) + 1)
  BY <1>1, <1>4, <1>5
<1>9. QED
  BY <1>6, <1>7, <1>8

\* Four strings lie one behind the other.
FourLie(f, v, at) ==
  /\ at = [k \in 1 .. 4 |-> at[k]] /\ at[1] = 1
  /\ \A k \in 2 .. 4 : at[k] = at[k - 1] + Len(f[k - 1]) + 1
  /\ \A k \in 1 .. 4 : f[k] \in Seq(Nat \ {0}) /\ Lies(f[k], v, at[k])

\* They are the four that are found.
LEMMA SplitFound ==
  ASSUME NEW v \in Seq(Int), NEW f, NEW at, FourLie(f, v, at)
  PROVE  \A k \in 1 .. 4 : Split(v)[k] = f[k]
<1>0. /\ at = [k \in 1 .. 4 |-> at[k]] /\ at[1] = 1
      /\ \A k \in 2 .. 4 : at[k] = at[k - 1] + Len(f[k - 1]) + 1
      /\ \A k \in 1 .. 4 : f[k] \in Seq(Nat \ {0}) /\ Lies(f[k], v, at[k])
  BY DEF FourLie
<1>1. ASSUME NEW k \in 1 .. 4
      PROVE  strlen(v, at[k]) = Len(f[k]) /\ SubSeq(v, at[k], at[k] + Len(f[k]) - 1) = f[k]
  <2>1. PICK s \in Seq(Nat \ {0}) : s = f[k]
    BY <1>0
  <2>2. Lies(s, v, at[k])
    BY <1>0, <2>1
  <2>3. strlen(v, at[k]) = Len(s) /\ SubSeq(v, at[k], at[k] + Len(s) - 1) = s
    BY <2>2, LyingFound
  <2>4. QED
    BY <2>1, <2>3
<1> DEFINE IsStart(g) == g = [k \in 1 .. 4 |-> IF k = 1 THEN 1 ELSE g[k - 1] + strlen(v, g[k - 1]) + 1]
           start == CHOOSE g : IsStart(g)
<1>2. IsStart(at)
  <2>1. ASSUME NEW k \in 1 .. 4
        PROVE  at[k] = IF k = 1 THEN 1 ELSE at[k - 1] + strlen(v, at[k - 1]) + 1
    <3>1. CASE k = 1
      BY <1>0, <3>1
    <3>2. CASE k # 1
      <4>1. k \in 2 .. 4 /\ k - 1 \in 1 .. 4
        BY <3>2
      <4>2. strlen(v, at[k - 1]) = Len(f[k - 1])
        BY <1>1, <4>1
      <4>3. at[k] = at[k - 1] + Len(f[k - 1]) + 1
        BY <1>0, <4>1
      <4>4. QED
        BY <3>2, <4>2, <4>3
    <3>3. QED
      BY <3>1, <3>2
  <2>2. [k \in 1 .. 4 |-> at[k]]
          = [k \in 1 .. 4 |-> IF k = 1 THEN 1 ELSE at[k - 1] + strlen(v, at[k - 1]) + 1]
    BY <2>1
  <2>3. QED
    BY <1>0, <2>2
<1>3. IsStart(start)
  BY <1>2
<1>4. Split(v) = [k \in 1 .. 4 |-> SubSeq(v, start[k], start[k] + strlen(v, start[k]) - 1)]
  BY DEF Split
<1> HIDE DEF start
<1>5. start[1] = 1 /\ \A k \in 2 .. 4 : start[k] = start[k - 1] + strlen(v, start[k - 1]) + 1
  BY <1>3
<1>6. /\ at[2] = at[1] + strlen(v, at[1]) + 1 /\ at[3] = at[2] + strlen(v, at[2]) + 1
      /\ at[4] = at[3] + strlen(v, at[3]) + 1
  <2>1. \A k \in 2 .. 4 : k - 1 \in 1 .. 4
    OBVIOUS
  <2>2. \A k \in 2 .. 4 : at[k] = at[k - 1] + strlen(v, at[k - 1]) + 1
    BY <1>0, <1>1, <2>1
  <2>3. QED
    BY <2>2
<1>7. /\ start[2] = start[1] + strlen(v, start[1]) + 1 /\ start[3] = start[2] + strlen(v, start[2]) + 1
      /\ start[4] = start[3] + strlen(v, start[3]) + 1
  BY <1>5
<1>8. start[1] = at[1] /\ start[2] = at[2] /\ start[3] = at[3] /\ start[4] = at[4]
  <2>1. start[1] = at[1]
    BY <1>0, <1>5
  <2>2. start[2] = at[2]
    BY <1>6, <1>7, <2>1
  <2>3. start[3] = at[3]
    BY <1>6, <1>7, <2>2
  <2>4. start[4] = at[4]
    BY <1>6, <1>7, <2>3
  <2>5. QED
    BY <2>1, <2>2, <2>3, <2>4
<1>9. ASSUME NEW k \in 1 .. 4
      PROVE  Split(v)[k] = f[k]
  <2>1. start[k] = at[k]
    <3>1. k = 1 \/ k = 2 \/ k = 3 \/ k = 4
      OBVIOUS
    <3>2. QED
      BY <1>8, <3>1
  <2>2. Split(v)[k] = SubSeq(v, start[k], start[k] + strlen(v, start[k]) - 1)
    BY <1>4
  <2>3. QED
    BY <1>1, <2>1, <2>2
<1>10. QED
  BY <1>9

\* SignalsInit finds the four strings that DbusSignals put together.
LEMMA SplitCompressed ==
  ASSUME NEW f, \A k \in 1 .. 4 : f[k] \in Seq(Nat \ {0})
  PROVE  \A k \in 1 .. 4 : Split(Compressed(f))[k] = f[k]
<1>1. PICK a \in Seq(Nat \ {0}), b \in Seq(Nat \ {0}), c \in Seq(Nat \ {0}), d \in Seq(Nat \ {0}) :
        a = f[1] /\ b = f[2] /\ c = f[3] /\ d = f[4]
  OBVIOUS
<1>2. PICK p \in Nat, q \in Nat, r \in Nat, m \in Nat :
        p = Len(a) /\ q = Len(b) /\ r = Len(c) /\ m = Len(d)
  OBVIOUS
<1>3. PICK z \in Seq(Int) : z = << >> /\ Len(z) = 0
  <2>1. << >> \in Seq(Int) /\ Len(<< >>) = 0
    OBVIOUS
  <2>2. QED
    BY <2>1, Zenon
<1>4. PICK w \in Seq(Int) : w = a \o <<NUL>> /\ Len(w) = p + 1 /\ Lies(a, w, 1)
  <2>1. PICK w \in Seq(Int) :
          w = (z \o a) \o <<NUL>> /\ Len(w) = Len(z) + Len(a) + 1 /\ Lies(a, w, Len(z) + 1)
    BY LiesBehind
  <2>2. z \o a = a
    BY <1>3
  <2>3. Len(z) + Len(a) + 1 = p + 1 /\ Len(z) + 1 = 1
    BY <1>2, <1>3
  <2>4. QED
    BY <2>1, <2>2, <2>3
<1>5. PICK x \in Seq(Int) :
        /\ x = (w \o b) \o <<NUL>> /\ Len(x) = p + q + 2 /\ Lies(b, x, p + 2)
        /\ \A t : Len(t) \in Nat => \A at : Lies(t, w, at) => Lies(t, x, at)
  <2>1. Len(w) + Len(b) + 1 = p + q + 2 /\ Len(w) + 1 = p + 2
    BY <1>2, <1>4
  <2>2. QED
    BY <2>1, LiesBehind
<1>6. PICK y \in Seq(Int) :
        /\ y = (x \o c) \o <<NUL>> /\ Len(y) = p + q + r + 3 /\ Lies(c, y, p + q + 3)
        /\ \A t : Len(t) \in Nat => \A at : Lies(t, x, at) => Lies(t, y, at)
  <2>1. Len(x) + Len(c) + 1 = p + q + r + 3 /\ Len(x) + 1 = p + q + 3
    <3>1. Len(x) = p + q + 2 /\ Len(c) = r
      BY <1>2, <1>5
    <3>2. (p + q + 2) + r + 1 = p + q + r + 3 /\ (p + q + 2) + 1 = p + q + 3
      OBVIOUS
    <3>3. QED
      BY <3>1, <3>2
  <2>2. QED
    BY <2>1, LiesBehind
<1>7. PICK v \in Seq(Int) :
        /\ v = (y \o d) \o <<NUL>> /\ Lies(d, v, p + q + r + 4)
        /\ \A t : Len(t) \in Nat => \A at : Lies(t, y, at) => Lies(t, v, at)
  <2>1. Len(y) + 1 = p + q + r + 4
    <3>1. Len(y) = p + q + r + 3
      BY <1>6
    <3>2. (p + q + r + 3) + 1 = p + q + r + 4
      OBVIOUS
    <3>3. QED
      BY <3>1, <3>2
  <2>2. QED
    BY <2>1, LiesBehind
<1>8. Compressed(f) = v
  BY <1>1, <1>4, <1>5, <1>6, <1>7 DEF Compressed
<1>9. Lies(a, v, 1) /\ Lies(b, v, p + 2) /\ Lies(c, v, p + q + 3) /\ Lies(d, v, p + q + r + 4)
  BY <1>2, <1>4, <1>5, <1>6, <1>7
<1>10. PICK at : /\ at = [k \in 1 .. 4 |-> at[k]]
                 /\ at[1] = 1 /\ at[2] = p + 2 /\ at[3] = p + q + 3 /\ at[4] = p + q + r + 4
  <2>1. PICK h : h = [k \in 1 .. 4 |-> IF k = 1 THEN 1 ELSE IF k = 2 THEN p + 2
                                       ELSE IF k = 3 THEN p + q + 3 ELSE p + q + r + 4]
    OBVIOUS
  <2>2. h[1] = 1 /\ h[2] = p + 2 /\ h[3] = p + q + 3 /\ h[4] = p + q + r + 4
    BY <2>1
  <2>3. h = [k \in 1 .. 4 |-> h[k]]
    BY <2>1
  <2>4. QED
    BY <2>2, <2>3
<1>11. ASSUME NEW k \in 1 .. 4
       PROVE  f[k] \in Seq(Nat \ {0}) /\ Lies(f[k], v, at[k])
  <2>1. k = 1 \/ k = 2 \/ k = 3 \/ k = 4
    OBVIOUS
  <2>2. QED
    BY <1>1, <1>9, <1>10, <2>1
<1>12. at[2] = at[1] + p + 1 /\ at[3] = at[2] + q + 1 /\ at[4] = at[3] + r + 1
  <2>1. p + 2 = 1 + p + 1 /\ p + q + 3 = (p + 2) + q + 1 /\ p + q + r + 4 = (p + q + 3) + r + 1
    OBVIOUS
  <2>2. QED
    BY <1>10, <2>1
<1>13. ASSUME NEW k \in 2 .. 4
       PROVE  at[k] = at[k - 1] + Len(f[k - 1]) + 1
  <2>1. CASE k = 2
    BY <1>1, <1>2, <1>12, <2>1
  <2>2. CASE k = 3
    BY <1>1, <1>2, <1>12, <2>2
  <2>3. CASE k = 4
    BY <1>1, <1>2, <1>12, <2>3
  <2>4. QED
    BY <2>1, <2>2, <2>3
<1>14. QED
  <2>1. \A k \in 1 .. 4 : f[k] \in Seq(Nat \ {0}) /\ Lies(f[k], v, at[k])
    BY <1>11
  <2>2. \A k \in 2 .. 4 : at[k] = at[k - 1] + Len(f[k - 1]) + 1
    BY <1>13
  <2>3. at = [k \in 1 .. 4 |-> at[k]]
    BY <1>10
  <2>4. at[1] = 1
    BY <1>10
  <2>5. FourLie(f, v, at)
    BY <2>1, <2>2, <2>3, <2>4, Zenon DEF FourLie
  <2>6. \A k \in 1 .. 4 : Split(v)[k] = f[k]
    BY <2>5, SplitFound
  <2>7. QED
    BY <1>8, <2>6
-----------------------------------------------------------------------------
(* What there is to append.                                                *)

Parts == {p \in [op : {"cstr", "char"}, bytes : Seq(Int)] :
            p.op = "char" => \E x \in Int : p.bytes = <<x>>}

\* The bytes of the parts t, one behind the other, are w: rest[i] is what is left of them
\* after the first i.
Leaves(t, w, rest) ==
  /\ rest[0] = w /\ rest[Len(t)] = << >>
  /\ \A i \in 0 .. Len(t) : rest[i] \in Seq(Int)
  /\ \A i \in 1 .. Len(t) : rest[i - 1] = t[i].bytes \o rest[i]
Spells(t, w) == \E rest : Leaves(t, w, rest)

\* Without a part there is nothing,
LEMMA NothingSpelled == ASSUME NEW w, Spells(<< >>, w) PROVE w = << >>
<1>1. PICK rest : Leaves(<< >>, w, rest)
  BY DEF Spells
<1>2. Len(<< >>) = 0
  OBVIOUS
<1>3. QED
  BY <1>1, <1>2 DEF Leaves

\* No append spells the empty sequence.
LEMMA SpellsNothing == Spells(<< >>, << >>)
<1>1. PICK rest : rest = [i \in 0 .. 0 |-> << >>]
  OBVIOUS
<1>2. rest[0] = << >> /\ << >> \in Seq(Int) /\ Len(<< >>) = 0
  BY <1>1
<1>3. (\A i \in 0 .. 0 : i = 0) /\ \A i \in 1 .. 0 : FALSE
  OBVIOUS
<1>4. Leaves(<< >>, << >>, rest)
  BY <1>2, <1>3 DEF Leaves
<1>5. QED
  BY <1>4 DEF Spells

\* and the first part is the first to be appended.
LEMMA SpellsHead ==
  ASSUME NEW t \in Seq(Parts), t # << >>, NEW w, Spells(t, w)
  PROVE  /\ Head(t) \in Parts /\ Tail(t) \in Seq(Parts)
         /\ \E v \in Seq(Int) : w = Head(t).bytes \o v /\ Spells(Tail(t), v)
<1>1. PICK n \in Nat : n = Len(t) /\ n # 0
  BY EmptySeq
<1>2. /\ Head(t) = t[1] /\ Head(t) \in Parts
      /\ Tail(t) \in Seq(Parts) /\ Len(Tail(t)) = n - 1
      /\ \A i \in 1 .. n - 1 : Tail(t)[i] = t[i + 1]
  BY <1>1, HeadTailProperties
<1>3. PICK rest : Leaves(t, w, rest)
  BY DEF Spells
<1>4. /\ rest[0] = w /\ rest[n] = << >>
      /\ \A i \in 0 .. n : rest[i] \in Seq(Int)
      /\ \A i \in 1 .. n : rest[i - 1] = t[i].bytes \o rest[i]
  BY <1>1, <1>3 DEF Leaves
<1>5. PICK left : left = [i \in 0 .. n - 1 |-> rest[i + 1]]
  OBVIOUS
<1>6. ASSUME NEW i \in 0 .. n - 1
      PROVE  left[i] = rest[i + 1] /\ rest[i + 1] \in Seq(Int)
  <2>1. i + 1 \in 0 .. n
    OBVIOUS
  <2>2. QED
    BY <1>4, <1>5, <2>1
<1>7. ASSUME NEW i \in 1 .. n - 1
      PROVE  left[i - 1] = Tail(t)[i].bytes \o left[i]
  <2>1. PICK j \in 1 .. n : j = i + 1 /\ j - 1 = i
    OBVIOUS
  <2>2. left[i] = rest[j]
    BY <1>6, <2>1
  <2>3. i - 1 \in 0 .. n - 1 /\ (i - 1) + 1 = i
    OBVIOUS
  <2>4. left[i - 1] = rest[i]
    BY <1>6, <2>3
  <2>5. rest[j - 1] = t[j].bytes \o rest[j]
    BY <1>4
  <2>6. Tail(t)[i] = t[j]
    BY <1>2, <2>1
  <2>7. QED
    BY <2>1, <2>2, <2>4, <2>5, <2>6
<1>8. n - 1 \in 0 .. n - 1 /\ 0 \in 0 .. n - 1 /\ (n - 1) + 1 = n /\ 1 \in 1 .. n
  BY <1>1
<1>9. left[n - 1] = << >> /\ left[0] = rest[1] /\ left[0] \in Seq(Int)
  BY <1>4, <1>6, <1>8
<1>10. Leaves(Tail(t), left[0], left)
  BY <1>2, <1>6, <1>7, <1>9 DEF Leaves
<1>11. w = Head(t).bytes \o left[0]
  <2>1. rest[0] = t[1].bytes \o rest[1]
    <3>1. rest[1 - 1] = t[1].bytes \o rest[1]
      BY <1>4, <1>8
    <3>2. 1 - 1 = 0
      OBVIOUS
    <3>3. QED
      BY <3>1, <3>2
  <2>2. QED
    BY <1>2, <1>4, <1>9, <2>1
<1>12. Spells(Tail(t), left[0])
  BY <1>10 DEF Spells
<1>13. QED
  BY <1>2, <1>9, <1>11, <1>12

\* More parts spell more.
LEMMA SpellsBoth ==
  ASSUME NEW s \in Seq(Parts), NEW t \in Seq(Parts), NEW u, NEW v, Spells(s, u), Spells(t, v)
  PROVE  s \o t \in Seq(Parts) /\ Spells(s \o t, u \o v)
<1>1. PICK m \in Nat, n \in Nat : m = Len(s) /\ n = Len(t)
  OBVIOUS
<1>2. PICK p : p = s \o t
  OBVIOUS
<1>3. /\ p \in Seq(Parts) /\ Len(p) = m + n
      /\ \A i \in 1 .. m + n : p[i] = IF i <= m THEN s[i] ELSE t[i - m]
  <2>1. /\ s \o t \in Seq(Parts) /\ Len(s \o t) = Len(s) + Len(t)
        /\ \A i \in 1 .. Len(s) + Len(t) : (s \o t)[i] = IF i <= Len(s) THEN s[i] ELSE t[i - Len(s)]
    BY ConcatProperties
  <2>2. QED
    BY <1>1, <1>2, <2>1, Zenon
<1>4. PICK a, b : Leaves(s, u, a) /\ Leaves(t, v, b)
  BY DEF Spells
<1>5. /\ a[0] = u /\ a[m] = << >>
      /\ \A i \in 0 .. m : a[i] \in Seq(Int)
      /\ \A i \in 1 .. m : a[i - 1] = s[i].bytes \o a[i]
  BY <1>1, <1>4 DEF Leaves
<1>6. /\ b[0] = v /\ b[n] = << >>
      /\ \A i \in 0 .. n : b[i] \in Seq(Int)
      /\ \A i \in 1 .. n : b[i - 1] = t[i].bytes \o b[i]
  BY <1>1, <1>4 DEF Leaves
<1>7. PICK c : c = [i \in 0 .. m + n |-> IF i <= m THEN a[i] \o v ELSE b[i - m]]
  OBVIOUS
<1>8. v \in Seq(Int)
  <2>1. 0 \in 0 .. n
    OBVIOUS
  <2>2. QED
    BY <1>6, <2>1
<1>9. ASSUME NEW i \in 0 .. m
      PROVE  c[i] = a[i] \o v /\ c[i] \in Seq(Int)
  <2>1. i \in 0 .. m + n /\ i <= m
    OBVIOUS
  <2>2. c[i] = a[i] \o v
    BY <1>7, <2>1
  <2>3. a[i] \in Seq(Int)
    BY <1>5
  <2>4. a[i] \o v \in Seq(Int)
    BY <1>8, <2>3, ConcatProperties
  <2>5. QED
    BY <2>2, <2>4
<1>10. ASSUME NEW j \in 0 .. n
       PROVE  c[m + j] = b[j] /\ b[j] \in Seq(Int)
  <2>1. b[j] \in Seq(Int)
    BY <1>6
  <2>2. CASE j = 0
    <3>1. m \in 0 .. m /\ m + j = m
      BY <2>2
    <3>2. c[m] = << >> \o v
      BY <1>5, <1>9, <3>1
    <3>3. << >> \o v = v
      BY <1>8, ConcatEmptySeq
    <3>4. QED
      BY <1>6, <2>1, <2>2, <3>1, <3>2, <3>3
  <2>3. CASE j # 0
    <3>1. m + j \in 0 .. m + n /\ ~(m + j <= m) /\ (m + j) - m = j
      BY <2>3
    <3>2. QED
      BY <1>7, <2>1, <3>1
  <2>4. QED
    BY <2>2, <2>3
<1>11. ASSUME NEW i \in 0 .. m + n
       PROVE  c[i] \in Seq(Int)
  <2>1. CASE i <= m
    <3>1. i \in 0 .. m
      BY <2>1
    <3>2. QED
      BY <1>9, <3>1
  <2>2. CASE ~(i <= m)
    <3>1. PICK j \in 0 .. n : j = i - m /\ m + j = i
      BY <2>2
    <3>2. QED
      BY <1>10, <3>1
  <2>3. QED
    BY <2>1, <2>2
<1>12. ASSUME NEW i \in 1 .. m + n
       PROVE  c[i - 1] = p[i].bytes \o c[i]
  <2>1. CASE i <= m
    <3>1. i \in 1 .. m /\ i \in 0 .. m /\ i - 1 \in 0 .. m
      BY <2>1
    <3>2. c[i - 1] = a[i - 1] \o v /\ c[i] = a[i] \o v /\ p[i] = s[i]
      BY <1>3, <1>9, <2>1, <3>1
    <3>3. a[i - 1] = s[i].bytes \o a[i]
      BY <1>5, <3>1
    <3>4. PICK x \in Seq(Int), y \in Seq(Int) : x = s[i].bytes /\ y = a[i]
      <4>1. s[i] \in Parts
        BY <1>1, <3>1
      <4>2. QED
        BY <1>5, <3>1, <4>1 DEF Parts
    <3>5. (x \o y) \o v = x \o (y \o v)
      BY <1>8, ConcatInts, Zenon DEF Grouped
    <3>6. QED
      BY <3>2, <3>3, <3>4, <3>5
  <2>2. CASE ~(i <= m)
    <3>1. PICK j \in 1 .. n : j = i - m /\ m + j = i /\ m + (j - 1) = i - 1
      BY <2>2
    <3>2. j \in 0 .. n /\ j - 1 \in 0 .. n
      OBVIOUS
    <3>3. c[i] = b[j] /\ c[i - 1] = b[j - 1]
      BY <1>10, <3>1, <3>2
    <3>4. p[i] = t[j]
      BY <1>3, <2>2, <3>1
    <3>5. b[j - 1] = t[j].bytes \o b[j]
      BY <1>6
    <3>6. QED
      BY <3>3, <3>4, <3>5
  <2>3. QED
    BY <2>1, <2>2
<1>13. c[0] = u \o v /\ c[m + n] = << >>
  <2>1. 0 \in 0 .. m /\ n \in 0 .. n
    OBVIOUS
  <2>2. QED
    BY <1>5, <1>6, <1>9, <1>10, <2>1
<1>14. Leaves(p, u \o v, c)
  BY <1>3, <1>11, <1>12, <1>13 DEF Leaves
<1>15. QED
  BY <1>2, <1>3, <1>14 DEF Spells

\* The bytes that stand in a rule for argument k when it is s.
PartOf(k, s) == IF s = << >> THEN << >> ELSE Literal[k] \o s \o <<Quote>>

\* Every byte of a literal is one.
LEMMA LiteralBytes ==
  /\ TypeIsSignal \in Seq(Nat \ {0}) /\ Quote \in Nat \ {0}
  /\ \A k \in 1 .. 4 : Literal[k] \in Seq(Nat \ {0})
<1>1. ASSUME NEW n \in Nat, NEW x \in Nat \ {0}
      PROVE  Fill(n, x) \in Seq(Nat \ {0})
  <2>1. PICK S : S = Nat \ {0}
    OBVIOUS
  <2>2. Fill(n, x) \in Seq(S)
    BY <2>1, FillFacts
  <2>3. QED
    BY <2>1, <2>2
<1>2. /\ Fill(9, 11) \in Seq(Nat \ {0}) /\ Fill(7, 12) \in Seq(Nat \ {0})
      /\ Fill(12, 13) \in Seq(Nat \ {0}) /\ Fill(9, 14) \in Seq(Nat \ {0})
      /\ Fill(13, 10) \in Seq(Nat \ {0})
  <2>1. /\ 9 \in Nat /\ 7 \in Nat /\ 12 \in Nat /\ 13 \in Nat
        /\ 10 \in Nat \ {0} /\ 11 \in Nat \ {0} /\ 12 \in Nat \ {0} /\ 13 \in Nat \ {0}
        /\ 14 \in Nat \ {0}
    OBVIOUS
  <2>2. QED
    BY <1>1, <2>1, Zenon
<1>3. /\ Literal[1] = Fill(9, 11) /\ Literal[2] = Fill(7, 12) /\ Literal[3] = Fill(12, 13)
      /\ Literal[4] = Fill(9, 14)
  BY DEF Literal
<1>4. ASSUME NEW k \in 1 .. 4
      PROVE  Literal[k] \in Seq(Nat \ {0})
  <2>1. k = 1 \/ k = 2 \/ k = 3 \/ k = 4
    OBVIOUS
  <2>2. QED
    BY <1>2, <1>3, <2>1
<1>5. QED
  BY <1>2, <1>4 DEF TypeIsSignal, Quote

\* So is every byte that stands for an argument.
LEMMA PartBytes ==
  ASSUME NEW k \in 1 .. 4, NEW s \in Seq(Nat \ {0})
  PROVE  PartOf(k, s) \in Seq(Nat \ {0})
<1>1. PICK S : S = Nat \ {0}
  OBVIOUS
<1>2. Literal[k] \in Seq(S) /\ s \in Seq(S) /\ <<Quote>> \in Seq(S)
  <2>1. Quote \in S /\ Literal[k] \in Seq(S)
    BY <1>1, LiteralBytes
  <2>2. QED
    BY <1>1, <2>1
<1>3. (Literal[k] \o s) \o <<Quote>> \in Seq(S)
  <2>1. Literal[k] \o s \in Seq(S)
    BY <1>2, ConcatProperties
  <2>2. QED
    BY <1>2, <2>1, ConcatProperties
<1>4. << >> \in Seq(S)
  OBVIOUS
<1>5. QED
  BY <1>1, <1>3, <1>4 DEF PartOf

\* A sequence of bytes that are not NUL is one of bytes.
LEMMA CharsAreInts == \A s \in Seq(Nat \ {0}) : s \in Seq(Int)
OBVIOUS

\* Which of the first three numbers comes after which.
After(i, j) == (i = 1 /\ j = 0) \/ (i = 2 /\ j = 1) \/ (i = 3 /\ j = 2)

\* What is appended for an argument spells its part of the rule.
LEMMA AppendsSpell ==
  ASSUME NEW k \in 1 .. 4, NEW s \in Seq(Nat \ {0})
  PROVE  Appends(k, s) \in Seq(Parts) /\ Spells(Appends(k, s), PartOf(k, s))
<1>0. ASSUME NEW i \in 1 .. 3
      PROVE  After(i, i - 1)
  <2>1. PICK j : j = i - 1
    OBVIOUS
  <2>2. i = 1 \/ i = 2 \/ i = 3
    OBVIOUS
  <2>3. (i = 1 => j = 0) /\ (i = 2 => j = 1) /\ (i = 3 => j = 2)
    BY <2>1
  <2>4. (i = 1 /\ j = 0) \/ (i = 2 /\ j = 1) \/ (i = 3 /\ j = 2)
    BY <2>2, <2>3, Zenon
  <2>5. QED
    BY <2>1, <2>4, Zenon DEF After
<1>1. CASE s = << >>
  <2>1. Appends(k, s) = << >> /\ PartOf(k, s) = << >> /\ << >> \in Seq(Parts)
    BY <1>1 DEF Appends, PartOf
  <2>2. QED
    BY <2>1, SpellsNothing
<1>2. CASE s # << >>
  <2>1. PICK l \in Seq(Int), r \in Seq(Int), q \in Seq(Int) :
          l = Literal[k] /\ r = s /\ q = <<Quote>> /\ \E x \in Int : q = <<x>>
    <3>1. Literal[k] \in Seq(Int) /\ s \in Seq(Int) /\ Quote \in Int
      BY LiteralBytes, CharsAreInts
    <3>2. <<Quote>> \in Seq(Int)
      BY <3>1
    <3>3. QED
      BY <3>1, <3>2
  <2>2. PICK a, b, c : /\ a = [op |-> "cstr", bytes |-> l] /\ b = [op |-> "cstr", bytes |-> r]
                       /\ c = [op |-> "char", bytes |-> q]
    OBVIOUS
  <2>3. a \in Parts /\ b \in Parts /\ c \in Parts
    BY <2>1, <2>2 DEF Parts
  <2>4. a.bytes = l /\ b.bytes = r /\ c.bytes = q
    BY <2>2
  <2>5. PICK t \in Seq(Parts) : /\ t = <<a, b, c>> /\ Len(t) = 3
                                /\ t[1] = a /\ t[2] = b /\ t[3] = c
    <3>1. <<a, b, c>> \in Seq(Parts) /\ Len(<<a, b, c>>) = 3
      BY <2>3
    <3>2. <<a, b, c>>[1] = a /\ <<a, b, c>>[2] = b /\ <<a, b, c>>[3] = c
      OBVIOUS
    <3>3. QED
      BY <3>1, <3>2, Zenon
  <2>6. PICK n \in Seq(Int), u \in Seq(Int), v \in Seq(Int), w \in Seq(Int) :
          /\ n = << >> /\ u = q \o n /\ v = r \o u /\ w = l \o v /\ u = q /\ w = (l \o r) \o q
    <3>1. << >> \in Seq(Int)
      OBVIOUS
    <3>2. q \o << >> = q
      BY ConcatEmptySeq
    <3>3. r \o q \in Seq(Int)
      BY ConcatProperties
    <3>4. PICK v \in Seq(Int) : v = r \o q
      BY <3>3
    <3>5. l \o v \in Seq(Int)
      BY ConcatProperties
    <3>6. (l \o r) \o q = l \o (r \o q)
      BY ConcatInts, Zenon DEF Grouped
    <3>7. QED
      BY <3>1, <3>2, <3>4, <3>5, <3>6
  <2>7. PICK rest : rest = [i \in 0 .. 3 |-> IF i = 0 THEN w ELSE IF i = 1 THEN v
                                             ELSE IF i = 2 THEN u ELSE n]
    OBVIOUS
  <2>8. rest[0] = w /\ rest[1] = v /\ rest[2] = u /\ rest[3] = n
    BY <2>7
  <2>9. ASSUME NEW i \in 0 .. 3
        PROVE  rest[i] \in Seq(Int)
    <3>1. i = 0 \/ i = 1 \/ i = 2 \/ i = 3
      OBVIOUS
    <3>2. QED
      BY <2>8, <3>1
  <2>10. ASSUME NEW i \in 1 .. 3
         PROVE  rest[i - 1] = t[i].bytes \o rest[i]
    <3>1. /\ rest[0] = t[1].bytes \o rest[1] /\ rest[1] = t[2].bytes \o rest[2]
          /\ rest[2] = t[3].bytes \o rest[3]
      BY <2>4, <2>5, <2>6, <2>8, Zenon
    <3>2. PICK j : j = i - 1 /\ After(i, j)
      BY <1>0, Zenon
    <3>3. rest[j] = t[i].bytes \o rest[i]
      BY <3>1, <3>2, Zenon DEF After
    <3>4. QED
      BY <3>2, <3>3, Zenon
  <2>11. Leaves(t, w, rest)
    BY <2>5, <2>6, <2>8, <2>9, <2>10 DEF Leaves
  <2>12. Appends(k, s) = t
    BY <1>2, <2>1, <2>2, <2>5 DEF Appends
  <2>13. PartOf(k, s) = w
    BY <1>2, <2>1, <2>6 DEF PartOf
  <2>14. QED
    BY <2>5, <2>11, <2>12, <2>13 DEF Spells
<1>3. QED
  BY <1>1, <1>2

\* Four sequences behind another one.
GroupedFive(t, p, q, r, s) == t \o (((p \o q) \o r) \o s) = (((t \o p) \o q) \o r) \o s

\* Four sequences are put behind another one together or one by one.
LEMMA ConcatFive ==
  \A t, p, q, r, s \in Seq(Int) : GroupedFive(t, p, q, r, s)
<1> SUFFICES ASSUME NEW t \in Seq(Int), NEW p \in Seq(Int), NEW q \in Seq(Int),
                    NEW r \in Seq(Int), NEW s \in Seq(Int)
             PROVE  GroupedFive(t, p, q, r, s)
  OBVIOUS
<1>1. PICK u \in Seq(Int) : u = p \o q
  BY ConcatProperties
<1>2. PICK v \in Seq(Int) : v = u \o r
  BY ConcatProperties
<1>3. Grouped(t, v, s) /\ Grouped(t, u, r) /\ Grouped(t, p, q)
  BY ConcatInts, Zenon
<1>4. QED
  BY <1>1, <1>2, <1>3, Zenon DEF Grouped, GroupedFive

\* All that is appended spells the rest of the rule.
LEMMA AllSpell ==
  ASSUME NEW f, NEW g, \A k \in 1 .. 4 : f[k] \in Seq(Nat \ {0}) /\ g[k] = f[k]
  PROVE  /\ AllAppends(g) \in Seq(Parts)
         /\ \E w \in Seq(Int) :
              /\ Spells(AllAppends(g), w)
              /\ TypeIsSignal \o w = TypeIsSignal \o PartOf(1, f[1]) \o PartOf(2, f[2])
                                       \o PartOf(3, f[3]) \o PartOf(4, f[4])
<1> DEFINE A(k) == Appends(k, g[k])
           P(k) == PartOf(k, f[k])
<1>1. ASSUME NEW k \in 1 .. 4
      PROVE  A(k) \in Seq(Parts) /\ Spells(A(k), P(k)) /\ P(k) \in Seq(Int)
  <2>1. PICK s \in Seq(Nat \ {0}) : s = f[k] /\ s = g[k]
    OBVIOUS
  <2>2. Appends(k, s) \in Seq(Parts) /\ Spells(Appends(k, s), PartOf(k, s))
    BY AppendsSpell
  <2>3. PartOf(k, s) \in Seq(Int)
    BY PartBytes, CharsAreInts
  <2>4. QED
    BY <2>1, <2>2, <2>3
<1>2. PICK a \in Seq(Parts), b \in Seq(Parts), c \in Seq(Parts), d \in Seq(Parts) :
        a = A(1) /\ b = A(2) /\ c = A(3) /\ d = A(4)
  BY <1>1
<1>3. PICK p \in Seq(Int), q \in Seq(Int), r \in Seq(Int), s \in Seq(Int) :
        p = P(1) /\ q = P(2) /\ r = P(3) /\ s = P(4)
  BY <1>1
<1>4. Spells(a, p) /\ Spells(b, q) /\ Spells(c, r) /\ Spells(d, s)
  BY <1>1, <1>2, <1>3
<1> HIDE DEF A, P
<1>5. PICK x \in Seq(Parts), u \in Seq(Int) : x = a \o b /\ u = p \o q /\ Spells(x, u)
  <2>1. p \o q \in Seq(Int)
    BY ConcatProperties
  <2>2. QED
    BY <1>4, <2>1, SpellsBoth
<1>6. PICK y \in Seq(Parts), v \in Seq(Int) : y = x \o c /\ v = u \o r /\ Spells(y, v)
  <2>1. u \o r \in Seq(Int)
    BY ConcatProperties
  <2>2. QED
    BY <1>4, <1>5, <2>1, SpellsBoth
<1>7. PICK z \in Seq(Parts), w \in Seq(Int) : z = y \o d /\ w = v \o s /\ Spells(z, w)
  <2>1. v \o s \in Seq(Int)
    BY ConcatProperties
  <2>2. QED
    BY <1>4, <1>6, <2>1, SpellsBoth
<1>8. AllAppends(g) = z
  BY <1>2, <1>5, <1>6, <1>7 DEF AllAppends, A
<1>9. PICK t \in Seq(Int) : t = TypeIsSignal
  BY LiteralBytes, CharsAreInts
<1>10. t \o w = (((t \o p) \o q) \o r) \o s
  <2>1. GroupedFive(t, p, q, r, s)
    BY ConcatFive, Zenon
  <2>2. QED
    BY <1>5, <1>6, <1>7, <2>1, Zenon DEF GroupedFive
<1>11. TypeIsSignal \o w = TypeIsSignal \o PartOf(1, f[1]) \o PartOf(2, f[2])
                            \o PartOf(3, f[3]) \o PartOf(4, f[4])
  BY <1>3, <1>9, <1>10 DEF P
<1>12. QED
  BY <1>7, <1>8, <1>11

-----------------------------------------------------------------------------
(* The rule that is built.                                                 *)

\* Without a refused append, the text so far and what the remaining appends spell are
\* the rule the application asked for; the buffer is always in order.
RuleInv ==
  /\ \A k \in 1 .. 4 : fields[k] \in Seq(Nat \ {0})
  /\ match # NoMatch /\ ~refused => match = Wanted
  /\ pc = "append" =>
       /\ Buffer(rule) /\ todo \in Seq(Parts)
       /\ ~refused => \E w \in Seq(Int) : Spells(todo, w) /\ Text(rule) \o w = Wanted

\* The rule that is wanted is made of the four parts.
LEMMA WantedIs ==
  Wanted = TypeIsSignal \o PartOf(1, fields[1]) \o PartOf(2, fields[2])
             \o PartOf(3, fields[3]) \o PartOf(4, fields[4])
BY DEF Wanted, PartOf

\* No byte of it is NUL.
LEMMA WantedBytes ==
  ASSUME \A k \in 1 .. 4 : fields[k] \in Seq(Nat \ {0})
  PROVE  Wanted \in Seq(Nat \ {0})
<1>1. PICK S : S = Nat \ {0}
  OBVIOUS
<1>2. \A k \in 1 .. 4 : PartOf(k, fields[k]) \in Seq(S)
  BY <1>1, PartBytes
<1>3. PICK p \in Seq(S), q \in Seq(S), r \in Seq(S), s \in Seq(S) :
        /\ p = PartOf(1, fields[1]) /\ q = PartOf(2, fields[2])
        /\ r = PartOf(3, fields[3]) /\ s = PartOf(4, fields[4])
  BY <1>2
<1>4. PICK t \in Seq(S) : t = TypeIsSignal
  BY <1>1, LiteralBytes
<1>5. PICK a \in Seq(S) : a = t \o p
  BY ConcatProperties
<1>6. PICK b \in Seq(S) : b = a \o q
  BY ConcatProperties
<1>7. PICK c \in Seq(S) : c = b \o r
  BY ConcatProperties
<1>8. c \o s \in Seq(S)
  BY ConcatProperties
<1>9. Wanted = c \o s
  BY <1>3, <1>4, <1>5, <1>6, <1>7, WantedIs
<1>10. QED
  BY <1>1, <1>8, <1>9

\* The C string of a buffer is the string in it, with a NUL behind.
LEMMA CStringLies ==
  ASSUME NEW b, Buffer(b), NEW s \in Seq(Nat \ {0}), Text(b) = s
  PROVE  bstr2cstr(b, NUL) \in Seq(Int) /\ Lies(s, bstr2cstr(b, NUL), 1)
<1>1. PICK d \in Seq(Int), n \in Nat :
        d = b.data /\ n = b.slen /\ n = Len(s) /\ \A i \in 1 .. n : d[i] = s[i] /\ d[i] \in Int
  <2>1. PICK d \in Seq(Int), n \in Nat : d = b.data /\ n = b.slen /\ n <= Len(d)
    BY DEF Buffer, Strings
  <2>2. Len(s) = n /\ \A i \in 1 .. n : s[i] = d[i]
    BY <2>1, TextFacts
  <2>3. \A i \in 1 .. n : d[i] \in Int
    BY <2>1
  <2>4. QED
    BY <2>1, <2>2, <2>3
<1>2. PICK c : c = [i \in 1 .. n + 1 |-> IF i > n THEN NUL ELSE IF d[i] = NUL THEN NUL ELSE d[i]]
  OBVIOUS
<1>3. ASSUME NEW i \in 1 .. n + 1
      PROVE  c[i] \in Int /\ (i <= n => c[i] = s[i]) /\ (i = n + 1 => c[i] = NUL)
  <2>1. i > n \/ i \in 1 .. n
    OBVIOUS
  <2>2. QED
    BY <1>1, <1>2, <2>1 DEF NUL
<1>4. c \in [1 .. n + 1 -> Int]
  BY <1>2, <1>3
<1>5. c \in Seq(Int) /\ Len(c) = n + 1
  BY <1>4, SequenceOf
<1>6. ASSUME NEW i \in 0 .. n - 1
      PROVE  c[1 + i] = s[i + 1]
  BY <1>3
<1>7. c[1 + n] = NUL
  BY <1>3
<1>8. Lies(s, c, 1)
  BY <1>1, <1>5, <1>6, <1>7 DEF Lies
<1>9. bstr2cstr(b, NUL) = c
  BY <1>1, <1>2 DEF bstr2cstr
<1>10. QED
  BY <1>5, <1>8, <1>9

\* What the daemon is given is the text of the buffer.
LEMMA GivenIs ==
  ASSUME NEW b, Buffer(b), NEW s \in Seq(Nat \ {0}), Text(b) = s
  PROVE  SubSeq(bstr2cstr(b, NUL), 1, strlen(bstr2cstr(b, NUL), 1)) = s
<1>1. PICK c \in Seq(Int) : c = bstr2cstr(b, NUL) /\ Lies(s, c, 1)
  BY CStringLies
<1>2. strlen(c, 1) = Len(s) /\ SubSeq(c, 1, 1 + Len(s) - 1) = s
  BY <1>1, LyingFound
<1>3. PICK n \in Nat : n = Len(s)
  OBVIOUS
<1>4. 1 + n - 1 = n
  OBVIOUS
<1>5. QED
  BY <1>1, <1>2, <1>3, <1>4

\* One append, whatever it is.
LEMMA AppendedFacts ==
  ASSUME NEW b, Buffer(b), NEW part \in Parts, NEW mem
  PROVE  /\ Buffer(Appended(b, part, mem))
         /\ mem # "none" => Text(Appended(b, part, mem)) = Text(b) \o part.bytes
<1>1. CASE part.op = "char"
  <2>1. PICK x \in Int : part.bytes = <<x>>
    BY <1>1 DEF Parts
  <2>2. part.bytes[1] = x
    BY <2>1
  <2>3. Appended(b, part, mem) = bconchar(b, x, mem)
    BY <1>1, <2>2 DEF Appended
  <2>4. QED
    BY <2>1, <2>3, bconcharFacts
<1>2. CASE part.op # "char"
  <2>1. PICK s \in Seq(Int) : s = part.bytes
    BY DEF Parts
  <2>2. Appended(b, part, mem) = bcatcstr(b, s, mem)
    BY <1>2, <2>1 DEF Appended
  <2>3. QED
    BY <2>1, <2>2, bcatcstrFacts
<1>3. QED
  BY <1>1, <1>2

\* Init establishes it: a field is a run of one byte.
LEMMA RuleInit == Init => RuleInv
<1> SUFFICES ASSUME Init PROVE RuleInv
  OBVIOUS
<1>1. PICK len \in [1 .. 4 -> FieldLengths] : fields = [k \in 1 .. 4 |-> Fill(len[k], k)]
  BY DEF Init
<1>2. ASSUME NEW k \in 1 .. 4
      PROVE  fields[k] \in Seq(Nat \ {0})
  <2>1. PICK S : S = Nat \ {0}
    OBVIOUS
  <2>2. len[k] \in Nat /\ k \in S
    <3>1. len[k] \in FieldLengths
      BY Zenon
    <3>2. len[k] \in Nat
      BY <3>1, FieldsAssumption, Zenon
    <3>3. k \in S
      BY <2>1
    <3>4. QED
      BY <3>2, <3>3
  <2>3. Fill(len[k], k) \in Seq(S)
    BY <2>2, FillFacts
  <2>4. QED
    BY <1>1, <2>1, <2>3
<1>3. pc = "init" /\ match = NoMatch
  BY DEF Init
<1>4. QED
  BY <1>2, <1>3 DEF RuleInv

\* SignalsInit stores the type, and all the rest is to be appended.
LEMMA RuleBegun == RuleInv /\ SignalsInit => RuleInv'
<1> SUFFICES ASSUME RuleInv, SignalsInit PROVE RuleInv'
  OBVIOUS
<1>1. fields' = fields /\ match' = match /\ Wanted' = Wanted
  BY DEF SignalsInit, Wanted
<1>2. \A k \in 1 .. 4 : fields[k] \in Seq(Nat \ {0})
  BY DEF RuleInv
<1>3. CASE pc' = "done" /\ refused' = TRUE
  BY <1>1, <1>2, <1>3 DEF RuleInv
<1>4. CASE /\ rule' = bfromcstr(TypeIsSignal)
           /\ todo' = AllAppends(Split(Compressed(fields)))
           /\ pc' = "append" /\ refused' = refused
  <2>1. PICK f : f = fields
    OBVIOUS
  <2>2. PICK g : g = Split(Compressed(f))
    OBVIOUS
  <2>3. \A k \in 1 .. 4 : f[k] \in Seq(Nat \ {0}) /\ g[k] = f[k]
    BY <1>2, <2>1, <2>2, SplitCompressed
  <2>4. todo' \in Seq(Parts)
    BY <1>4, <2>1, <2>2, <2>3, AllSpell
  <2>5. PICK w \in Seq(Int) : Spells(todo', w) /\ TypeIsSignal \o w = Wanted
    BY <1>4, <2>1, <2>2, <2>3, AllSpell, WantedIs
  <2>6. Buffer(rule') /\ Text(rule') = TypeIsSignal
    BY <1>4, LiteralBytes, CharsAreInts, bfromcstrFacts
  <2>7. Text(rule') \o w = Wanted'
    BY <1>1, <2>5, <2>6
  <2>8. match' # NoMatch /\ ~refused' => match' = Wanted'
    BY <1>1, <1>4 DEF RuleInv
  <2>9. QED
    BY <1>1, <1>2, <2>4, <2>5, <2>6, <2>7, <2>8 DEF RuleInv
<1>5. QED
  BY <1>3, <1>4 DEF SignalsInit

\* createRule moves the first of the appends into the text, or refuses it.
LEMMA RuleAppended == RuleInv /\ createRule => RuleInv'
<1> SUFFICES ASSUME RuleInv, createRule PROVE RuleInv'
  OBVIOUS
<1>1. PICK mem : /\ rule' = Appended(rule, Head(todo), mem)
                 /\ refused' = (refused \/ mem = "none")
  BY DEF createRule
<1>2. /\ fields' = fields /\ match' = match /\ Wanted' = Wanted /\ pc' = "append"
      /\ todo # << >> /\ todo' = Tail(todo)
  BY DEF createRule, Wanted
<1>3. Buffer(rule) /\ todo \in Seq(Parts)
  BY DEF RuleInv, createRule
<1>4. Head(todo) \in Parts /\ Tail(todo) \in Seq(Parts)
  BY <1>2, <1>3, HeadTailProperties
<1>5. /\ Buffer(rule')
      /\ mem # "none" => Text(rule') = Text(rule) \o Head(todo).bytes
  BY <1>1, <1>3, <1>4, AppendedFacts
<1>6. ASSUME ~refused'
      PROVE  \E v \in Seq(Int) : Spells(todo', v) /\ Text(rule') \o v = Wanted
  <2>1. ~refused /\ mem # "none"
    BY <1>1, <1>6
  <2>2. PICK w \in Seq(Int) : Spells(todo, w) /\ Text(rule) \o w = Wanted
    BY <2>1 DEF RuleInv, createRule
  <2>3. PICK v \in Seq(Int) : w = Head(todo).bytes \o v /\ Spells(Tail(todo), v)
    BY <1>2, <1>3, <2>2, SpellsHead
  <2>4. PICK h \in Seq(Int), t \in Seq(Int) : h = Head(todo).bytes /\ t = Text(rule)
    BY <1>3, <1>4, TextFacts DEF Parts
  <2>5. Grouped(t, h, v)
    BY ConcatInts, Zenon
  <2>6. QED
    BY <1>2, <1>5, <2>1, <2>2, <2>3, <2>4, <2>5, Zenon DEF Grouped
<1>7. match' # NoMatch /\ ~refused' => match' = Wanted'
  BY <1>1, <1>2 DEF RuleInv
<1>8. \A k \in 1 .. 4 : fields'[k] \in Seq(Nat \ {0})
  BY <1>2 DEF RuleInv
<1>9. todo' \in Seq(Parts)
  BY <1>2, <1>4
<1>10. QED
  BY <1>2, <1>5, <1>6, <1>7, <1>8, <1>9 DEF RuleInv

\* addSignalWatch gives the daemon the text when nothing is left to append.
LEMMA RuleGiven == RuleInv /\ addSignalWatch => RuleInv'
<1> SUFFICES ASSUME RuleInv, addSignalWatch PROVE RuleInv'
  OBVIOUS
<1>1. /\ fields' = fields /\ refused' = refused /\ Wanted' = Wanted /\ pc' = "done"
      /\ pc = "append" /\ todo = << >>
      /\ match' = SubSeq(bstr2cstr(rule, NUL), 1, strlen(bstr2cstr(rule, NUL), 1))
         \/ match' = match
  BY DEF addSignalWatch, Wanted
<1>2. Buffer(rule) /\ \A k \in 1 .. 4 : fields[k] \in Seq(Nat \ {0})
  BY <1>1 DEF RuleInv
<1>3. ASSUME ~refused, match' # match
      PROVE  match' = Wanted
  <2>1. PICK w \in Seq(Int) : Spells(todo, w) /\ Text(rule) \o w = Wanted
    BY <1>1, <1>3 DEF RuleInv
  <2>2. w = << >>
    BY <1>1, <2>1, NothingSpelled
  <2>3. Text(rule) = Wanted
    BY <1>2, <2>1, <2>2, TextFacts, ConcatEmptySeq
  <2>4. Wanted \in Seq(Nat \ {0})
    BY <1>2, WantedBytes
  <2>5. SubSeq(bstr2cstr(rule, NUL), 1, strlen(bstr2cstr(rule, NUL), 1)) = Wanted
    BY <1>2, <2>3, <2>4, GivenIs
  <2>6. QED
    BY <1>1, <1>3, <2>5
<1>4. match' # NoMatch /\ ~refused' => match' = Wanted'
  BY <1>1, <1>3 DEF RuleInv
<1>5. QED
  BY <1>1, <1>2, <1>4 DEF RuleInv

\* With memory for every append the daemon gets exactly the rule the application asked
\* for, and no append stores outside its buffer (SignalsInit, createRule, addSignalWatch),
\* whatever the lengths of the four strings.
THEOREM RuleExactHolds == Spec => []RuleExact
<1>1. RuleInv /\ [Next]_vars => RuleInv'
  <2> SUFFICES ASSUME RuleInv, [Next]_vars PROVE RuleInv'
    OBVIOUS
  <2>1. CASE SignalsInit
    BY <2>1, RuleBegun
  <2>2. CASE createRule
    BY <2>2, RuleAppended
  <2>3. CASE addSignalWatch
    BY <2>3, RuleGiven
  <2>4. CASE UNCHANGED vars
    BY <2>4 DEF RuleInv, Wanted, vars
  <2>5. QED
    BY <2>1, <2>2, <2>3, <2>4 DEF Next
<1>2. RuleInv => RuleExact
  <2> SUFFICES ASSUME RuleInv PROVE RuleExact
    OBVIOUS
  <2>1. InBuffer
    <3> SUFFICES ASSUME pc = "append"
                 PROVE  /\ Len(rule.data) = rule.mlen /\ rule.slen \in 0 .. rule.mlen
                        /\ rule.slen < rule.mlen => rule.data[rule.slen + 1] = NUL
      BY DEF InBuffer
    <3>1. Buffer(rule)
      BY DEF RuleInv
    <3>2. QED
      BY <3>1 DEF Buffer, Strings
  <2>2. QED
    BY <2>1 DEF RuleInv, RuleExact
<1>3. QED
  BY RuleInit, <1>1, <1>2, PTL DEF Spec
=============================================================================
