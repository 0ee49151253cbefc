------------------------- MODULE AccessoryLinkProofs -------------------------
(***************************************************************************)
(* The bytes between Android and the accessory arrive as they were sent,   *)
(* for any number of frames, any ports and sizes the protocol has, any     *)
(* receive buffer, and however the stream is cut into reads and writes.    *)
(***************************************************************************)
EXTENDS AccessoryLink, SequenceTheorems, WellFoundedInduction, TLAPS

-----------------------------------------------------------------------------
(* The concatenation of sequences.                                         *)

\* A set of natural numbers that is not empty has a least element.
LEMMA LeastNatural ==
  ASSUME NEW S \in SUBSET Nat, S # {}
  PROVE  \E m \in S : \A n \in S : m <= n
<1>1. PICK m \in S : \A n \in S : <<n, m>> \notin OpToRel(<, Nat)
  BY NatLessThanWellFounded, WFMin
<1>2. ASSUME NEW n \in S, n < m PROVE FALSE
  <2>1. <<n, m>> \in OpToRel(<, Nat)
    BY <1>2 DEF OpToRel
  <2>2. QED
    BY <1>1, <2>1
<1>3. QED
  BY <1>2

\* g[i] is the concatenation of the first i of the sequences s, for i up to n.
Joins(s, n, g) == g = [i \in 1..n |-> IF i = 1 THEN s[i] ELSE g[i-1] \o s[i]]

\* s and t are the same up to place n.
Agree(s, t, n) == \A i \in 1..n : s[i] = t[i]

\* The recursion of FlattenSeq defines a function.
LEMMA JoinsExist ==
  ASSUME NEW s, NEW n \in Nat
  PROVE  \E g : Joins(s, n, g)
<1> DEFINE Bad == {m \in Nat : ~\E g : Joins(s, m, g)}
<1> SUFFICES ASSUME Bad # {} PROVE FALSE
  OBVIOUS
<1>1. PICK m \in Bad : \A k \in Bad : m <= k
  <2>1. Bad \in SUBSET Nat
    OBVIOUS
  <2>2. QED
    BY <2>1, LeastNatural
<1>2. m # 0
  <2>1. Joins(s, 0, [i \in 1..0 |-> s[i]])
    BY DEF Joins
  <2>2. QED
    BY <1>1, <2>1
<1>3. m - 1 \in Nat /\ m - 1 \notin Bad
  BY <1>1, <1>2
<1>4. PICK g : Joins(s, m - 1, g)
  BY <1>3
<1> DEFINE h == [i \in 1..m |-> IF i = 1 THEN s[i] ELSE g[i-1] \o s[i]]
<1>5. \A i \in 1..(m - 1) : g[i] = IF i = 1 THEN s[i] ELSE g[i-1] \o s[i]
  BY <1>4 DEF Joins
<1>6. \A i \in 1..(m - 1) : h[i] = g[i]
  BY <1>3, <1>5
<1>7. \A i \in 1..m : i # 1 => h[i-1] = g[i-1]
  <2>1. \A i \in 1..m : i # 1 => i - 1 \in 1..(m - 1)
    BY <1>3
  <2>2. QED
    BY <1>6, <2>1
<1>8. h = [i \in 1..m |-> IF i = 1 THEN s[i] ELSE h[i-1] \o s[i]]
  BY <1>7
<1>9. Joins(s, m, h)
  BY <1>8 DEF Joins
<1>10. QED
  BY <1>1, <1>9

\* What the function is at each place.
LEMMA JoinsFacts ==
  ASSUME NEW s, NEW n \in Nat, NEW g, Joins(s, n, g)
  PROVE  \A i \in 1..n : g[i] = IF i = 1 THEN s[i] ELSE g[i-1] \o s[i]
BY DEF Joins

\* It depends on the sequences up to that place only.
LEMMA JoinsAgree ==
  ASSUME NEW s, NEW t, NEW n \in Nat, NEW m \in Nat, n <= m, Agree(s, t, n),
         NEW g, Joins(s, n, g), NEW h, Joins(t, m, h)
  PROVE  Agree(g, h, n)
<1> USE DEF Agree
<1> DEFINE Bad == {i \in 1..n : g[i] # h[i]}
<1> SUFFICES ASSUME Bad # {} PROVE FALSE
  OBVIOUS
<1>1. PICK i \in Bad : \A k \in Bad : i <= k
  <2>1. Bad \in SUBSET Nat
    OBVIOUS
  <2>2. QED
    BY <2>1, LeastNatural
<1>2. /\ \A k \in 1..n : g[k] = IF k = 1 THEN s[k] ELSE g[k-1] \o s[k]
      /\ \A k \in 1..m : h[k] = IF k = 1 THEN t[k] ELSE h[k-1] \o t[k]
  BY JoinsFacts
<1>3. i \in 1..n /\ i \in 1..m
  OBVIOUS
<1>4. i # 1 => g[i - 1] = h[i - 1]
  BY <1>1, <1>3
<1>5. g[i] = h[i]
  BY <1>2, <1>3, <1>4
<1>6. QED
  BY <1>5

\* FlattenSeq is its last value.
LEMMA FlattenJoins ==
  ASSUME NEW s, Len(s) \in Nat, Len(s) # 0
  PROVE  \E g : Joins(s, Len(s), g) /\ FlattenSeq(s) = g[Len(s)]
<1> DEFINE J == CHOOSE g : g = [i \in 1..Len(s) |-> IF i = 1 THEN s[i] ELSE g[i-1] \o s[i]]
<1>1. FlattenSeq(s) = J[Len(s)]
  BY DEF FlattenSeq
<1>2. \E g : g = [i \in 1..Len(s) |-> IF i = 1 THEN s[i] ELSE g[i-1] \o s[i]]
  BY JoinsExist DEF Joins
<1>3. J = [i \in 1..Len(s) |-> IF i = 1 THEN s[i] ELSE J[i-1] \o s[i]]
  BY <1>2
<1>4. Joins(s, Len(s), J)
  BY <1>3 DEF Joins
<1>5. QED
  BY <1>1, <1>4

\* A sequence appended to the others comes at the end of their concatenation.
LEMMA FlattenAppend ==
  ASSUME NEW S, NEW s \in Seq(Seq(S)), NEW x \in Seq(S)
  PROVE  FlattenSeq(Append(s, x)) = FlattenSeq(s) \o x
<1> DEFINE t == Append(s, x)
<1>1. /\ Len(s) \in Nat /\ Len(t) = Len(s) + 1 /\ t[Len(s) + 1] = x
      /\ \A i \in 1..Len(s) : t[i] = s[i]
  OBVIOUS
<1> HIDE DEF t
<1>2. PICK h : Joins(t, Len(t), h) /\ FlattenSeq(t) = h[Len(t)]
  BY <1>1, FlattenJoins
<1>3. h[Len(t)] = IF Len(t) = 1 THEN t[Len(t)] ELSE h[Len(t) - 1] \o t[Len(t)]
  BY <1>1, <1>2, JoinsFacts
<1>4. CASE Len(s) = 0
  <2>1. s = << >> /\ FlattenSeq(s) = << >>
    BY <1>4 DEF FlattenSeq
  <2>2. QED
    BY <1>1, <1>2, <1>3, <1>4, <2>1, ConcatEmptySeq DEF t
<1>5. CASE Len(s) # 0
  <2>1. PICK g : Joins(s, Len(s), g) /\ FlattenSeq(s) = g[Len(s)]
    BY <1>1, <1>5, FlattenJoins
  <2>2. g[Len(s)] = h[Len(s)]
    <3>1. Len(s) \in Nat /\ Len(t) \in Nat /\ Len(s) <= Len(t) /\ Agree(s, t, Len(s))
      BY <1>1 DEF Agree
    <3>2. \A i \in 1..Len(s) : g[i] = h[i]
      <4>1. Agree(g, h, Len(s))
        BY <1>2, <2>1, <3>1, JoinsAgree
      <4>2. QED
        BY <4>1 DEF Agree
    <3>3. QED
      BY <1>1, <1>5, <3>2
  <2>3. QED
    <3>1. Len(t) # 1 /\ Len(t) - 1 = Len(s)
      BY <1>1, <1>5
    <3>2. FlattenSeq(t) = h[Len(s)] \o x
      BY <1>1, <1>2, <1>3, <3>1
    <3>3. QED
      BY <2>1, <2>2, <3>2 DEF t
<1>6. QED
  BY <1>4, <1>5

-----------------------------------------------------------------------------
(* Frames and their bytes.                                                 *)

Bytes(f) == Header(f) \o Payload(f)

\* The bytes of frames, one after the other.
Stream(fs) == FlattenSeq([i \in 1 .. Len(fs) |-> Header(fs[i]) \o Payload(fs[i])])

\* How long a frame is, and that its header says so.
LEMMA FrameBytes ==
  ASSUME NEW f \in Frames
  PROVE  /\ f.port \in Nat /\ f.size \in Nat /\ f.about \in Nat
         /\ f.port < 400 /\ f.size <= 4000 /\ f.about < 400
         /\ f.port = 0 => Payload(f) = <<Low(f.about), High(f.about), 3, 0>>
         /\ Header(f) \in Seq(Nat) /\ Len(Header(f)) = 4
         /\ Payload(f) \in Seq(Nat) /\ Len(Payload(f)) = f.size
         /\ Bytes(f) \in Seq(Nat) /\ Len(Bytes(f)) = 4 + f.size
         /\ \A k \in 1 .. Len(Header(f)) : Bytes(f)[k] = Header(f)[k]
         /\ \A k \in 1 .. f.size : Bytes(f)[4 + k] = Payload(f)[k]
         /\ UnsignedShort(Header(f)[1], Header(f)[2]) = f.port
         /\ UnsignedShort(Header(f)[3], Header(f)[4]) = f.size
<1>1. ASSUME NEW g \in [port : {0}, about : Ports, size : {4}]
      PROVE  g.port = 0 /\ g.size = 4 /\ g.about \in Ports
  OBVIOUS
<1>2. ASSUME NEW g \in [port : Ports, about : {0}, size : Sizes]
      PROVE  g.port \in Ports /\ g.size \in Sizes /\ g.about = 0
  OBVIOUS
<1>3. /\ \A p \in Ports : p \in Nat /\ 0 < p /\ p < 400
      /\ \A n \in Sizes : n \in Nat /\ n <= 4000
  BY LinkAssumption
<1>4. /\ f.port \in Nat /\ f.size \in Nat /\ f.about \in Nat
      /\ f.port < 400 /\ f.size <= 4000 /\ f.about < 400
      /\ f.port = 0 => f.size = 4
  <2>1. CASE f \in [port : {0}, about : Ports, size : {4}]
    BY <1>1, <1>3, <2>1
  <2>2. CASE f \in [port : Ports, about : {0}, size : Sizes]
    BY <1>2, <1>3, <2>2
  <2>3. QED
    BY <2>1, <2>2 DEF Frames
<1>5. \A n \in Nat : n <= 4000 => /\ Low(n) \in Nat /\ High(n) \in Nat
                                   /\ UnsignedShort(Low(n), High(n)) = n
  BY DEF Low, High, UnsignedShort, Signed16
<1>6. \A a, b, c, d \in Nat : /\ <<a, b, c, d>> \in Seq(Nat) /\ Len(<<a, b, c, d>>) = 4
                              /\ <<a, b, c, d>>[1] = a /\ <<a, b, c, d>>[2] = b
                              /\ <<a, b, c, d>>[3] = c /\ <<a, b, c, d>>[4] = d
  OBVIOUS
<1>7. f.port <= 4000 /\ f.size <= 4000 /\ f.about <= 4000
  BY <1>4
<1>8. /\ Header(f) \in Seq(Nat) /\ Len(Header(f)) = 4
      /\ Header(f)[1] = Low(f.port) /\ Header(f)[2] = High(f.port)
      /\ Header(f)[3] = Low(f.size) /\ Header(f)[4] = High(f.size)
  BY <1>4, <1>5, <1>6, <1>7 DEF Header
<1>9. Payload(f) \in Seq(Nat) /\ Len(Payload(f)) = f.size
  <2>1. CASE f.port = 0
    BY <1>4, <1>5, <1>6, <1>7, <2>1 DEF Payload
  <2>2. CASE f.port # 0
    <3>1. \A n \in Nat : [i \in 1 .. n |-> i] \in Seq(Nat) /\ Len([i \in 1 .. n |-> i]) = n
      OBVIOUS
    <3>2. f.size \in Nat
      BY <1>4
    <3>3. QED
      BY <2>2, <3>1, <3>2 DEF Payload
  <2>3. QED
    BY <2>1, <2>2
<1>10. /\ Bytes(f) \in Seq(Nat) /\ Len(Bytes(f)) = 4 + f.size
       /\ \A k \in 1 .. 4 + f.size : Bytes(f)[k] = IF k <= 4 THEN Header(f)[k] ELSE Payload(f)[k - 4]
  <2>1. PICK h \in Seq(Nat), q \in Seq(Nat) : h = Header(f) /\ q = Payload(f)
    BY <1>8, <1>9
  <2>2. /\ h \o q \in Seq(Nat) /\ Len(h \o q) = Len(h) + Len(q)
        /\ \A k \in 1 .. Len(h) + Len(q) : (h \o q)[k] = IF k <= Len(h) THEN h[k] ELSE q[k - Len(h)]
    BY ConcatProperties
  <2>3. Len(h) = 4 /\ Len(q) = f.size /\ Bytes(f) = h \o q
    BY <1>8, <1>9, <2>1 DEF Bytes
  <2>4. QED
    BY <2>1, <2>2, <2>3
<1>11. \A k \in 1 .. Len(Header(f)) : Bytes(f)[k] = Header(f)[k]
  <2>1. \A k \in 1 .. Len(Header(f)) : k \in 1 .. 4 + f.size /\ k <= 4
    BY <1>4, <1>8
  <2>2. QED
    BY <1>10, <2>1
<1>12. ASSUME NEW k \in 1 .. f.size PROVE Bytes(f)[4 + k] = Payload(f)[k]
  <2>1. 4 + k \in 1 .. 4 + f.size /\ ~(4 + k <= 4) /\ (4 + k) - 4 = k
    BY <1>4
  <2>2. QED
    BY <1>10, <2>1
<1>13. /\ UnsignedShort(Header(f)[1], Header(f)[2]) = f.port
       /\ UnsignedShort(Header(f)[3], Header(f)[4]) = f.size
  <2>1. UnsignedShort(Low(f.port), High(f.port)) = f.port
    BY <1>4, <1>5, <1>7
  <2>2. UnsignedShort(Low(f.size), High(f.size)) = f.size
    BY <1>4, <1>5, <1>7
  <2>3. QED
    BY <1>8, <2>1, <2>2
<1>14. f.port = 0 => Payload(f) = <<Low(f.about), High(f.about), 3, 0>>
  BY DEF Payload
<1>15. QED
  BY <1>4, <1>8, <1>9, <1>10, <1>11, <1>12, <1>13, <1>14

\* A frame written comes at the end of the stream.
LEMMA StreamAppend ==
  ASSUME NEW fs \in Seq(Frames), NEW f \in Frames
  PROVE  Stream(Append(fs, f)) = Stream(fs) \o Bytes(f)
<1> DEFINE parts == [i \in 1 .. Len(fs) |-> Header(fs[i]) \o Payload(fs[i])]
           all == [i \in 1 .. Len(Append(fs, f)) |-> Header(Append(fs, f)[i]) \o Payload(Append(fs, f)[i])]
<1>1. \A g \in Frames : Header(g) \o Payload(g) \in Seq(Nat)
  BY FrameBytes DEF Bytes
<1>2. /\ Len(fs) \in Nat /\ \A i \in 1 .. Len(fs) : fs[i] \in Frames /\ Append(fs, f)[i] = fs[i]
      /\ Append(fs, f)[Len(fs) + 1] = f /\ Len(Append(fs, f)) = Len(fs) + 1
  OBVIOUS
<1>3. parts \in Seq(Seq(Nat)) /\ Len(parts) = Len(fs)
  BY <1>1, <1>2
<1>4. Header(f) \o Payload(f) \in Seq(Nat)
  BY <1>1
<1>5. all \in Seq(Seq(Nat)) /\ Len(all) = Len(fs) + 1
  BY <1>1, <1>2
<1>6. Append(parts, Header(f) \o Payload(f)) = all
  <2>1. /\ Append(parts, Header(f) \o Payload(f)) \in Seq(Seq(Nat))
        /\ Len(Append(parts, Header(f) \o Payload(f))) = Len(fs) + 1
        /\ \A i \in 1 .. Len(fs) + 1 : Append(parts, Header(f) \o Payload(f))[i] =
             IF i = Len(fs) + 1 THEN Header(f) \o Payload(f) ELSE parts[i]
    BY <1>3, <1>4, AppendProperties
  <2>2. \A i \in 1 .. Len(fs) + 1 :
          all[i] = IF i = Len(fs) + 1 THEN Header(f) \o Payload(f) ELSE parts[i]
    <3>1. \A i \in 1 .. Len(fs) : all[i] = parts[i]
      BY <1>2
    <3>2. all[Len(fs) + 1] = Header(f) \o Payload(f)
      <4>1. Len(fs) + 1 \in 1 .. Len(Append(fs, f))
        BY <1>2
      <4>2. QED
        BY <1>2, <4>1
    <3> HIDE DEF parts, all
    <3>3. \A i \in 1 .. Len(fs) + 1 : i # Len(fs) + 1 => i \in 1 .. Len(fs)
      BY <1>2
    <3>4. QED
      BY <3>1, <3>2, <3>3
  <2> HIDE DEF parts, all
  <2>3. QED
    BY <1>5, <2>1, <2>2, SeqEqual
<1>7. FlattenSeq(Append(parts, Header(f) \o Payload(f))) = FlattenSeq(parts) \o (Header(f) \o Payload(f))
  BY <1>3, <1>4, FlattenAppend
<1>8. QED
  BY <1>6, <1>7 DEF Stream, Bytes

\* The empty stream.
LEMMA StreamEmpty == Stream(<< >>) = << >>
<1>1. [i \in 1 .. Len(<< >>) |-> Header(<< >>[i]) \o Payload(<< >>[i])] = << >>
  OBVIOUS
<1>2. QED
  BY <1>1 DEF Stream, FlattenSeq

\* The stream of the first n frames.
Upto(fs, n) == Stream(SubSeq(fs, 1, n))

\* One frame more, none and all of them; and a frame appended makes no difference.
LEMMA UptoFacts ==
  ASSUME NEW fs \in Seq(Frames)
  PROVE  /\ Upto(fs, 0) = << >> /\ Upto(fs, Len(fs)) = Stream(fs)
         /\ \A n \in Nat : n < Len(fs) => Upto(fs, n + 1) = Upto(fs, n) \o Bytes(fs[n + 1])
         /\ \A f \in Frames, n \in Nat : n <= Len(fs) => Upto(Append(fs, f), n) = Upto(fs, n)
<1>1. Upto(fs, 0) = << >>
  <2>1. SubSeq(fs, 1, 0) = << >>
    BY SubSeqEmpty
  <2>2. QED
    BY <2>1, StreamEmpty DEF Upto
<1>2. Upto(fs, Len(fs)) = Stream(fs)
  BY SubSeqFull DEF Upto
<1>3. ASSUME NEW n \in Nat, n < Len(fs) PROVE Upto(fs, n + 1) = Upto(fs, n) \o Bytes(fs[n + 1])
  <2>1. 1 \in 1 .. Len(fs) /\ n + 1 \in 1 .. Len(fs) /\ (n + 1) - 1 = n /\ fs[n + 1] \in Frames
    BY <1>3
  <2>2. SubSeq(fs, 1, n + 1) = SubSeq(fs, 1, n) \o <<fs[n + 1]>>
    BY <2>1, SubSeqRecursiveSecond
  <2>3. SubSeq(fs, 1, n) \in Seq(Frames)
    <3>1. \A i \in 1 .. n : fs[i] \in Frames
      BY <1>3
    <3>2. QED
      BY <3>1, SubSeqProperties
  <2>4. SubSeq(fs, 1, n + 1) = Append(SubSeq(fs, 1, n), fs[n + 1])
    BY <2>1, <2>2, <2>3, AppendIsConcat
  <2>5. QED
    BY <2>1, <2>3, <2>4, StreamAppend DEF Upto
<1>4. ASSUME NEW f \in Frames, NEW n \in Nat, n <= Len(fs)
      PROVE  Upto(Append(fs, f), n) = Upto(fs, n)
  <2>1. \A i \in 1 .. n : fs[i] \in Frames /\ Append(fs, f)[i] = fs[i]
    BY <1>4
  <2>2. SubSeq(Append(fs, f), 1, n) = SubSeq(fs, 1, n)
    <3>1. /\ SubSeq(fs, 1, n) \in Seq(Frames) /\ SubSeq(Append(fs, f), 1, n) \in Seq(Frames)
          /\ Len(SubSeq(fs, 1, n)) = n /\ Len(SubSeq(Append(fs, f), 1, n)) = n
          /\ \A i \in 1 .. n : /\ SubSeq(fs, 1, n)[i] = fs[i]
                               /\ SubSeq(Append(fs, f), 1, n)[i] = Append(fs, f)[i]
      <4>1. /\ \A i \in 1 .. n : fs[i] \in Frames
            /\ \A i \in 1 .. n : Append(fs, f)[i] \in Frames
        BY <2>1
      <4>2. PICK t : t = Append(fs, f)
        OBVIOUS
      <4>3. /\ SubSeq(fs, 1, n) \in Seq(Frames) /\ Len(SubSeq(fs, 1, n)) = n
            /\ \A i \in 1 .. n : SubSeq(fs, 1, n)[i] = fs[i]
        BY <4>1, SubSeqProperties
      <4>4. /\ SubSeq(t, 1, n) \in Seq(Frames) /\ Len(SubSeq(t, 1, n)) = n
            /\ \A i \in 1 .. n : SubSeq(t, 1, n)[i] = t[i]
        <5>1. \A i \in 1 .. n : t[i] \in Frames
          BY <4>1, <4>2
        <5>2. /\ SubSeq(t, 1, n) \in Seq(Frames)
              /\ Len(SubSeq(t, 1, n)) = IF 1 <= n THEN n - 1 + 1 ELSE 0
              /\ \A i \in 1 .. n - 1 + 1 : SubSeq(t, 1, n)[i] = t[1 + i - 1]
          BY <5>1, SubSeqProperties
        <5>3. QED
          BY <5>2
      <4>5. QED
        BY <4>2, <4>3, <4>4
    <3>2. QED
      BY <2>1, <3>1, SeqEqual
  <2>3. QED
    BY <2>2 DEF Upto
<1>5. QED
  BY <1>1, <1>2, <1>3, <1>4

\* A stream consists of numbers.
LEMMA UptoType ==
  ASSUME NEW fs \in Seq(Frames), NEW n \in Nat, n <= Len(fs)
  PROVE  Upto(fs, n) \in Seq(Nat) /\ Len(Upto(fs, n)) \in Nat
<1> DEFINE Bad == {m \in Nat : m <= Len(fs) /\ Upto(fs, m) \notin Seq(Nat)}
<1>1. ASSUME Bad # {} PROVE FALSE
  <2>1. Bad \in SUBSET Nat
    OBVIOUS
  <2>2. PICK m \in Bad : \A k \in Bad : m <= k
    BY <1>1, <2>1, LeastNatural
  <2>3. m # 0
    <3>1. Upto(fs, 0) = << >> /\ << >> \in Seq(Nat)
      BY UptoFacts
    <3>2. Upto(fs, m) \notin Seq(Nat)
      BY <2>2
    <3>3. QED
      BY <3>1, <3>2
  <2>4. m - 1 \in Nat /\ m - 1 < Len(fs) /\ (m - 1) + 1 = m /\ m \in 1 .. Len(fs)
    BY <2>2, <2>3
  <2>5. Upto(fs, m - 1) \in Seq(Nat)
    BY <2>2, <2>4
  <2>6. fs[m] \in Frames /\ Upto(fs, m) = Upto(fs, m - 1) \o Bytes(fs[m])
    BY <2>4, UptoFacts
  <2>7. Upto(fs, m) \in Seq(Nat)
    BY <2>5, <2>6, FrameBytes, ConcatProperties
  <2>8. QED
    BY <2>7
<1>2. QED
  BY <1>1

\* Each frame follows those before it.
LEMMA UptoStep ==
  ASSUME NEW fs \in Seq(Frames), NEW n \in Nat, n < Len(fs)
  PROVE  /\ fs[n + 1] \in Frames
         /\ Len(Upto(fs, n + 1)) = Len(Upto(fs, n)) + Len(Bytes(fs[n + 1]))
         /\ Agree(Upto(fs, n), Upto(fs, n + 1), Len(Upto(fs, n)))
         /\ \A k \in 1 .. Len(Bytes(fs[n + 1])) :
              Upto(fs, n + 1)[Len(Upto(fs, n)) + k] = Bytes(fs[n + 1])[k]
<1>1. fs[n + 1] \in Frames
  BY ElementOfSeq
<1>2. PICK a \in Seq(Nat), b \in Seq(Nat) : a = Upto(fs, n) /\ b = Bytes(fs[n + 1])
  <2>1. n <= Len(fs)
    OBVIOUS
  <2>2. Upto(fs, n) \in Seq(Nat)
    BY <2>1, UptoType
  <2>3. Bytes(fs[n + 1]) \in Seq(Nat)
    <3>1. \A f \in Frames : Bytes(f) \in Seq(Nat)
      BY FrameBytes
    <3>2. QED
      BY <1>1, <3>1
  <2>4. QED
    BY <2>2, <2>3
<1>3. Upto(fs, n + 1) = a \o b
  BY <1>2, UptoFacts
<1>4. /\ Len(a) \in Nat /\ Len(b) \in Nat /\ Len(a \o b) = Len(a) + Len(b)
      /\ \A i \in 1 .. Len(a) : (a \o b)[i] = a[i]
      /\ \A k \in 1 .. Len(b) : (a \o b)[Len(a) + k] = b[k]
  OBVIOUS
<1>5. QED
  BY <1>1, <1>2, <1>3, <1>4 DEF Agree

\* The stream of the first frames is the beginning of the stream.
LEMMA UptoGrows ==
  ASSUME NEW fs \in Seq(Frames), NEW n \in Nat, NEW m \in Nat, n <= m, m <= Len(fs)
  PROVE  /\ Len(Upto(fs, n)) <= Len(Upto(fs, m))
         /\ Agree(Upto(fs, n), Upto(fs, m), Len(Upto(fs, n)))
<1> DEFINE Good(k) == /\ Len(Upto(fs, n)) <= Len(Upto(fs, k))
                      /\ Agree(Upto(fs, n), Upto(fs, k), Len(Upto(fs, n)))
           Bad == {k \in Nat : n <= k /\ k <= Len(fs) /\ ~Good(k)}
<1>1. ASSUME Bad # {} PROVE FALSE
  <2>1. Bad \in SUBSET Nat
    OBVIOUS
  <2>2. PICK k \in Bad : \A i \in Bad : k <= i
    BY <1>1, <2>1, LeastNatural
  <2>3. k # n
    <3>1. Good(n)
      BY UptoType DEF Agree
    <3>2. QED
      BY <3>1
  <2>4. k - 1 \in Nat /\ n <= k - 1 /\ k - 1 < Len(fs) /\ (k - 1) + 1 = k /\ k - 1 <= Len(fs)
    BY <2>2, <2>3
  <2>5. Good(k - 1)
    BY <2>2, <2>4
  <2>6. /\ Len(Upto(fs, n)) \in Nat /\ Len(Upto(fs, k - 1)) \in Nat
        /\ fs[k] \in Frames /\ Len(Bytes(fs[k])) \in Nat
        /\ Len(Upto(fs, k)) = Len(Upto(fs, k - 1)) + Len(Bytes(fs[k]))
        /\ Agree(Upto(fs, k - 1), Upto(fs, k), Len(Upto(fs, k - 1)))
    <3>1. fs[k] \in Frames /\ Len(Upto(fs, k)) = Len(Upto(fs, k - 1)) + Len(Bytes(fs[k]))
          /\ Agree(Upto(fs, k - 1), Upto(fs, k), Len(Upto(fs, k - 1)))
      BY <2>4, UptoStep
    <3>2. Len(Bytes(fs[k])) \in Nat
      BY <3>1, FrameBytes
    <3>3. n <= Len(fs)
      OBVIOUS
    <3>4. QED
      BY <2>4, <3>1, <3>2, <3>3, UptoType
  <2>7. Good(k)
    <3>1. Len(Upto(fs, n)) <= Len(Upto(fs, k))
      BY <2>5, <2>6
    <3>2. Agree(Upto(fs, n), Upto(fs, k), Len(Upto(fs, n)))
      BY <2>5, <2>6 DEF Agree
    <3>3. QED
      BY <3>1, <3>2
  <2>8. QED
    BY <2>7
<1>2. QED
  BY <1>1

\* The place of a frame in the stream.
LEMMA Placed ==
  ASSUME NEW fs \in Seq(Frames), NEW n \in Nat, n < Len(fs)
  PROVE  /\ Len(Upto(fs, n)) \in Nat
         /\ Len(Upto(fs, n + 1)) = Len(Upto(fs, n)) + Len(Bytes(fs[n + 1]))
         /\ Len(Upto(fs, n + 1)) <= Len(Stream(fs))
         /\ \A k \in 1 .. Len(Bytes(fs[n + 1])) :
              Stream(fs)[Len(Upto(fs, n)) + k] = Bytes(fs[n + 1])[k]
<1>1. /\ n + 1 \in Nat /\ n + 1 <= Len(fs) /\ Len(fs) \in Nat /\ Len(fs) <= Len(fs) /\ n <= Len(fs)
  OBVIOUS
<1>2. /\ Len(Upto(fs, n + 1)) <= Len(Stream(fs))
      /\ Agree(Upto(fs, n + 1), Stream(fs), Len(Upto(fs, n + 1)))
  BY <1>1, UptoGrows, UptoFacts
<1>3. /\ Len(Upto(fs, n)) \in Nat /\ fs[n + 1] \in Frames
      /\ Len(Upto(fs, n + 1)) = Len(Upto(fs, n)) + Len(Bytes(fs[n + 1]))
      /\ \A k \in 1 .. Len(Bytes(fs[n + 1])) :
           Upto(fs, n + 1)[Len(Upto(fs, n)) + k] = Bytes(fs[n + 1])[k]
  BY <1>1, UptoType, UptoStep
<1>4. Len(Bytes(fs[n + 1])) \in Nat
  BY <1>3, FrameBytes
<1>5. \A k \in 1 .. Len(Bytes(fs[n + 1])) : Len(Upto(fs, n)) + k \in 1 .. Len(Upto(fs, n + 1))
  BY <1>3, <1>4
<1>6. QED
  BY <1>2, <1>3, <1>5 DEF Agree

-----------------------------------------------------------------------------
(* The inductive invariant.                                                *)

\* The bytes p are what comes in s after place from; all says that they go on to its end.
Rests(p, s, from, all) ==
  /\ from + Len(p) <= Len(s)
  /\ all => from + Len(p) = Len(s)
  /\ \A k \in 1 .. Len(p) : p[k] = s[from + k]

LinkType ==
  /\ sent \in Seq(Frames) /\ polled \in Seq(Frames)
  /\ wire \in Seq(Nat) /\ usb \in Seq(Nat) /\ buffer \in Seq(Nat)
  /\ rest \in Seq(Nat) /\ written \in Seq(Nat)
  /\ size \in Nat
  /\ queued \in Seq([port : Nat, payload : Seq(Nat)])
  /\ handled \in Nat /\ handled <= Len(queued)
  /\ part \in {"header", "payload", "ended"}
  /\ writes \in {"header", "payload", "idle", "ended"}
  /\ transport = "BT" => usb = << >>

\* The first half of FramesIntact.
Received ==
  /\ Len(queued) <= Len(sent)
  /\ \A i \in 1 .. Len(queued) :
       queued[i] = [port |-> sent[i].port, payload |-> Payload(sent[i])]

\* What the receiver has read and has still to read make the part it is at.
PartInv ==
  /\ part = "header" => size + Len(buffer) = 4
  /\ part = "payload" =>
       /\ Len(queued) < Len(sent)
       /\ port = sent[Len(queued) + 1].port
       /\ size + Len(buffer) = sent[Len(queued) + 1].size

\* The place in the stream at which the receiver's part begins.
From == Len(Upto(sent, Len(queued))) + (IF part = "payload" THEN 4 ELSE 0)

\* Read, transferred and on the wire are the bytes that come next in the stream.
StreamInv == part # "ended" => Rests((buffer \o usb) \o wire, Stream(sent), From, ~lost)

\* What is written and what is left to write make the stream of the polled frames.
SendInv ==
  /\ writes = "header" =>
       /\ polled # << >>
       /\ written \o rest = Upto(polled, Len(polled) - 1) \o Header(polled[Len(polled)])
  /\ writes = "payload" => polled # << >> /\ written \o rest = Stream(polled)
  /\ writes = "idle" => written = Stream(polled)
  /\ writes = "ended" => IsPrefix(written, Stream(polled))

LinkInv == LinkType /\ Received /\ PartInv /\ StreamInv /\ SendInv /\ StatusReachesPort

-----------------------------------------------------------------------------
(* Cutting the bytes on their way.                                         *)

\* Sequences of bytes can be grouped in any way.
LEMMA ConcatBytes == \A a, b, c \in Seq(Nat) : (a \o b) \o c = a \o (b \o c)
BY ConcatAssociative

\* Put together they are bytes.
LEMMA BytesJoined == \A a, b \in Seq(Nat) : a \o b \in Seq(Nat)
BY ConcatProperties, Zenon

\* The bytes cut from a sequence are put before the rest of it.
LEMMA CutFacts ==
  ASSUME NEW s \in Seq(Nat), NEW n \in Nat, n <= Len(s)
  PROVE  /\ SubSeq(s, 1, n) \in Seq(Nat) /\ Len(SubSeq(s, 1, n)) = n
         /\ \A k \in 1 .. n : SubSeq(s, 1, n)[k] = s[k]
         /\ Skip(s, n) \in Seq(Nat)
         /\ SubSeq(s, 1, n) \o Skip(s, n) = s
<1>1. \A k \in 1 .. n : s[k] \in Nat
  OBVIOUS
<1>2. /\ SubSeq(s, 1, n) \in Seq(Nat)
      /\ Len(SubSeq(s, 1, n)) = IF 1 <= n THEN n - 1 + 1 ELSE 0
      /\ \A k \in 1 .. n - 1 + 1 : SubSeq(s, 1, n)[k] = s[1 + k - 1]
  BY <1>1, SubSeqProperties
<1>3. \A k \in n + 1 .. Len(s) : s[k] \in Nat
  OBVIOUS
<1>4. Skip(s, n) \in Seq(Nat)
  BY <1>3, SubSeqProperties DEF Skip
<1>5. SubSeq(s, 1, n) \o SubSeq(s, n + 1, Len(s)) = SubSeq(s, 1, Len(s))
  <2>1. 1 \in 1 .. Len(s) + 1 /\ n \in 1 - 1 .. Len(s) /\ Len(s) \in n .. Len(s)
    OBVIOUS
  <2>2. QED
    BY <2>1, ConcatAdjacentSubSeq
<1>6. SubSeq(s, 1, Len(s)) = s
  BY SubSeqFull
<1>7. /\ Len(SubSeq(s, 1, n)) = n
      /\ \A k \in 1 .. n : SubSeq(s, 1, n)[k] = s[k]
  BY <1>2
<1>8. SubSeq(s, 1, n) \o Skip(s, n) = s
  BY <1>5, <1>6 DEF Skip
<1>9. QED
  BY <1>2, <1>4, <1>7, <1>8

\* What is written more goes on the wire and in the stream.
LEMMA RestsAppend ==
  ASSUME NEW p \in Seq(Nat), NEW s \in Seq(Nat), NEW b \in Seq(Nat), NEW from \in Nat,
         Rests(p, s, from, TRUE)
  PROVE  Rests(p \o b, s \o b, from, TRUE)
<1>1. /\ from + Len(p) = Len(s) /\ \A k \in 1 .. Len(p) : p[k] = s[from + k]
  BY DEF Rests
<1>2. /\ Len(p \o b) = Len(p) + Len(b) /\ Len(s \o b) = Len(s) + Len(b)
      /\ \A k \in 1 .. Len(p) + Len(b) :
           (p \o b)[k] = IF k <= Len(p) THEN p[k] ELSE b[k - Len(p)]
      /\ \A k \in 1 .. Len(s) + Len(b) :
           (s \o b)[k] = IF k <= Len(s) THEN s[k] ELSE b[k - Len(s)]
  BY ConcatProperties
<1>3. ASSUME NEW k \in 1 .. Len(p) + Len(b) PROVE (p \o b)[k] = (s \o b)[from + k]
  <2>1. /\ from + k \in 1 .. Len(s) + Len(b) /\ (from + k <= Len(s) <=> k <= Len(p))
        /\ (from + k) - Len(s) = k - Len(p)
    <3>1. PICK i \in Nat, j \in Nat, m \in Nat : i = Len(p) /\ j = Len(b) /\ m = Len(s)
      OBVIOUS
    <3>2. from + i = m /\ k \in 1 .. i + j
      BY <1>1, <3>1
    <3>3. from + k \in 1 .. m + j /\ (from + k <= m <=> k <= i) /\ (from + k) - m = k - i
      BY <3>2
    <3>4. QED
      BY <3>1, <3>3
  <2>2. k <= Len(p) => k \in 1 .. Len(p)
    OBVIOUS
  <2>3. QED
    BY <1>1, <1>2, <2>1, <2>2
<1>4. from + (Len(p) + Len(b)) = Len(s) + Len(b)
  <2>1. PICK i \in Nat, j \in Nat, m \in Nat : i = Len(p) /\ j = Len(b) /\ m = Len(s)
    OBVIOUS
  <2>2. from + i = m
    BY <1>1, <2>1
  <2>3. from + (i + j) = m + j
    BY <2>2
  <2>4. QED
    BY <2>1, <2>3
<1>5. /\ from + Len(p \o b) = Len(s \o b) /\ from + Len(p \o b) <= Len(s \o b)
      /\ \A k \in 1 .. Len(p \o b) : (p \o b)[k] = (s \o b)[from + k]
  <2>1. Len(s) + Len(b) <= Len(s) + Len(b)
    OBVIOUS
  <2>2. QED
    BY <1>2, <1>3, <1>4, <2>1
<1>6. QED
  BY <1>5 DEF Rests

\* When the connection is lost, a beginning of the bytes remains.
LEMMA RestsCut ==
  ASSUME NEW c \in Seq(Nat), NEW w \in Seq(Nat), NEW s \in Seq(Nat), NEW from \in Nat,
         NEW all, Rests(c \o w, s, from, all), NEW n \in Nat, n <= Len(w)
  PROVE  Rests(c \o SubSeq(w, 1, n), s, from, FALSE)
<1>1. PICK v \in Seq(Nat) : /\ v = SubSeq(w, 1, n) /\ Len(v) = n
                            /\ \A k \in 1 .. n : v[k] = w[k]
  BY CutFacts
<1>2. /\ Len(c \o w) = Len(c) + Len(w) /\ Len(c \o v) = Len(c) + Len(v)
      /\ \A k \in 1 .. Len(c) + Len(w) : (c \o w)[k] = IF k <= Len(c) THEN c[k] ELSE w[k - Len(c)]
      /\ \A k \in 1 .. Len(c) + Len(v) : (c \o v)[k] = IF k <= Len(c) THEN c[k] ELSE v[k - Len(c)]
  BY <1>1, ConcatProperties
<1>3. /\ from + Len(c \o w) <= Len(s)
      /\ \A k \in 1 .. Len(c \o w) : (c \o w)[k] = s[from + k]
  BY DEF Rests
<1>4. ASSUME NEW k \in 1 .. Len(c) + n PROVE (c \o v)[k] = s[from + k]
  <2>1. k \in 1 .. Len(c) + Len(w) /\ k \in 1 .. Len(c) + Len(v)
    BY <1>1
  <2>2. ~(k <= Len(c)) => k - Len(c) \in 1 .. n
    OBVIOUS
  <2>3. (c \o v)[k] = (c \o w)[k]
    BY <1>1, <1>2, <2>1, <2>2
  <2>4. QED
    BY <1>2, <1>3, <2>1, <2>3
<1>5. from + (Len(c) + n) <= Len(s)
  <2>1. Len(c) \in Nat /\ Len(w) \in Nat /\ Len(s) \in Nat
    OBVIOUS
  <2>2. from + (Len(c) + Len(w)) <= Len(s)
    BY <1>2, <1>3
  <2>3. QED
    BY <2>1, <2>2
<1>6. from + Len(c \o v) <= Len(s) /\ \A k \in 1 .. Len(c \o v) : (c \o v)[k] = s[from + k]
  BY <1>1, <1>2, <1>4, <1>5
<1>7. QED
  BY <1>1, <1>6 DEF Rests

\* When a part has been read, what follows it comes next in the stream.
LEMMA RestsRead ==
  ASSUME NEW c \in Seq(Nat), NEW w \in Seq(Nat), NEW s \in Seq(Nat), NEW from \in Nat,
         NEW all, Rests(c \o w, s, from, all)
  PROVE  /\ Rests(w, s, from + Len(c), all)
         /\ from + Len(c) <= Len(s)
         /\ \A k \in 1 .. Len(c) : c[k] = s[from + k]
<1>1. /\ Len(c \o w) = Len(c) + Len(w)
      /\ \A k \in 1 .. Len(c) + Len(w) : (c \o w)[k] = IF k <= Len(c) THEN c[k] ELSE w[k - Len(c)]
  BY ConcatProperties
<1>2. /\ from + Len(c \o w) <= Len(s) /\ all => from + Len(c \o w) = Len(s)
      /\ \A k \in 1 .. Len(c \o w) : (c \o w)[k] = s[from + k]
  BY DEF Rests
<1>3. ASSUME NEW k \in 1 .. Len(c) PROVE c[k] = s[from + k]
  <2>1. k \in 1 .. Len(c) + Len(w) /\ k <= Len(c)
    OBVIOUS
  <2>2. QED
    BY <1>1, <1>2, <2>1
<1>4. ASSUME NEW k \in 1 .. Len(w) PROVE w[k] = s[(from + Len(c)) + k]
  <2>1. /\ Len(c) + k \in 1 .. Len(c) + Len(w) /\ ~(Len(c) + k <= Len(c))
        /\ (Len(c) + k) - Len(c) = k /\ from + (Len(c) + k) = (from + Len(c)) + k
    OBVIOUS
  <2>2. QED
    BY <1>1, <1>2, <2>1
<1>5. QED
  BY <1>1, <1>2, <1>3, <1>4 DEF Rests

\* Bytes that others follow are a prefix of the whole.
LEMMA PrefixOfConcat ==
  ASSUME NEW a \in Seq(Nat), NEW b \in Seq(Nat)
  PROVE  IsPrefix(a, a \o b)
<1>1. PICK t \in Seq(Nat) : /\ t = a \o b /\ Len(t) = Len(a) + Len(b)
                            /\ \A k \in 1 .. Len(a) : t[k] = a[k]
  <2>1. /\ a \o b \in Seq(Nat) /\ Len(a \o b) = Len(a) + Len(b)
        /\ \A k \in 1 .. Len(a) + Len(b) :
             (a \o b)[k] = IF k <= Len(a) THEN a[k] ELSE b[k - Len(a)]
    BY ConcatProperties
  <2>2. \A k \in 1 .. Len(a) : k \in 1 .. Len(a) + Len(b) /\ k <= Len(a)
    OBVIOUS
  <2>3. \A k \in 1 .. Len(a) : (a \o b)[k] = a[k]
    BY <2>1, <2>2
  <2>4. QED
    BY <2>1, <2>3
<1>2. Len(a) \in Nat /\ Len(a) <= Len(t)
  BY <1>1
<1>3. SubSeq(t, 1, Len(a)) = SubSeq(a, 1, Len(a))
  <2>1. /\ SubSeq(t, 1, Len(a)) \in Seq(Nat) /\ Len(SubSeq(t, 1, Len(a))) = Len(a)
        /\ \A k \in 1 .. Len(a) : SubSeq(t, 1, Len(a))[k] = t[k]
    BY <1>2, CutFacts
  <2>2. SubSeq(t, 1, Len(a)) = a
    BY <1>1, <2>1, SeqEqual
  <2>3. QED
    BY <2>2, SubSeqFull
<1>4. QED
  BY <1>1, <1>2, <1>3 DEF IsPrefix

-----------------------------------------------------------------------------
(* Each action keeps the invariant.                                        *)

\* The types of what the invariant speaks of.
LEMMA StreamTypes ==
  ASSUME LinkType, Received
  PROVE  /\ Len(sent) \in Nat /\ Len(queued) \in Nat
         /\ Stream(sent) \in Seq(Nat) /\ Len(Stream(sent)) \in Nat
         /\ Upto(sent, Len(queued)) \in Seq(Nat) /\ From \in Nat
         /\ buffer \o usb \in Seq(Nat) /\ (buffer \o usb) \o wire \in Seq(Nat)
         /\ (buffer \o usb) \o wire = buffer \o (usb \o wire)
<1>1. /\ sent \in Seq(Frames) /\ Len(sent) \in Nat /\ Len(queued) \in Nat
      /\ Len(queued) <= Len(sent) /\ Len(sent) <= Len(sent)
  BY DEF LinkType, Received
<1>2. Upto(sent, Len(queued)) \in Seq(Nat) /\ Len(Upto(sent, Len(queued))) \in Nat
  BY <1>1, UptoType
<1>3. Stream(sent) \in Seq(Nat) /\ Len(Stream(sent)) \in Nat
  BY <1>1, UptoType, UptoFacts
<1>4. From \in Nat
  BY <1>2 DEF From
<1>5. PICK b \in Seq(Nat), u \in Seq(Nat), w \in Seq(Nat) : b = buffer /\ u = usb /\ w = wire
  BY DEF LinkType
<1>6. b \o u \in Seq(Nat) /\ (b \o u) \o w \in Seq(Nat) /\ (b \o u) \o w = b \o (u \o w)
  <2>1. b \o u \in Seq(Nat) /\ (b \o u) \o w \in Seq(Nat)
    BY BytesJoined, Zenon
  <2>2. (b \o u) \o w = b \o (u \o w)
    BY ConcatBytes, Zenon
  <2>3. QED
    BY <2>1, <2>2
<1>7. QED
  BY <1>1, <1>2, <1>3, <1>4, <1>5, <1>6

\* A frame written.
LEMMA AndroidWriteStep == LinkInv /\ AndroidWrite => LinkInv'
<1> SUFFICES ASSUME LinkInv, AndroidWrite PROVE LinkInv'
  OBVIOUS
<1>1. LinkType /\ Received /\ PartInv /\ StreamInv /\ SendInv /\ StatusReachesPort
  BY DEF LinkInv
<1>2. PICK f \in Frames : sent' = Append(sent, f) /\ wire' = wire \o Header(f) \o Payload(f)
  BY DEF AndroidWrite
<1>3. /\ ~lost
      /\ UNCHANGED <<transport, lost, usb, part, buffer, size, port, queued, handled, target>>
      /\ UNCHANGED <<polled, writes, rest, written>>
  BY DEF AndroidWrite, reading, handling, sending
<1>4. /\ sent \in Seq(Frames) /\ wire \in Seq(Nat) /\ Len(queued) \in Nat /\ Len(sent) \in Nat
      /\ Len(queued) <= Len(sent) /\ handled \in Nat /\ handled <= Len(queued)
  BY <1>1 DEF LinkType, Received
<1>5. /\ sent' \in Seq(Frames) /\ Len(sent') = Len(sent) + 1
      /\ \A i \in 1 .. Len(sent) : sent'[i] = sent[i]
  BY <1>2, <1>4
<1>6. wire' \in Seq(Nat) /\ wire' = wire \o Bytes(f)
  <2>1. PICK h \in Seq(Nat), q \in Seq(Nat), w \in Seq(Nat) :
          h = Header(f) /\ q = Payload(f) /\ w = wire
    <3>1. Header(f) \in Seq(Nat) /\ Payload(f) \in Seq(Nat)
      BY FrameBytes
    <3>2. QED
      BY <1>4, <3>1
  <2>2. (w \o h) \o q = w \o (h \o q)
    BY ConcatBytes, Zenon
  <2>3. h \o q \in Seq(Nat) /\ w \o (h \o q) \in Seq(Nat)
    BY BytesJoined, Zenon
  <2>4. QED
    BY <1>2, <2>1, <2>2, <2>3 DEF Bytes
<1>7. LinkType'
  BY <1>1, <1>3, <1>5, <1>6 DEF LinkType
<1>8. Received'
  <2>1. Len(queued) <= Len(sent')
    BY <1>4, <1>5
  <2>2. \A i \in 1 .. Len(queued) : i \in 1 .. Len(sent)
    BY <1>4
  <2>3. QED
    BY <1>1, <1>3, <1>5, <2>1, <2>2 DEF Received
<1>9. PartInv'
  <2>1. Len(queued) < Len(sent) => /\ Len(queued) < Len(sent')
                                   /\ sent'[Len(queued) + 1] = sent[Len(queued) + 1]
    BY <1>4, <1>5
  <2>2. QED
    BY <1>1, <1>3, <2>1 DEF PartInv
<1>10. StreamInv'
  <2> SUFFICES ASSUME part # "ended"
               PROVE  Rests((buffer \o usb) \o wire', Stream(sent'), From', TRUE)
    BY <1>3 DEF StreamInv
  <2>1. Rests((buffer \o usb) \o wire, Stream(sent), From, TRUE)
    BY <1>1, <1>3 DEF StreamInv
  <2>2. From' = From
    <3>1. Upto(sent', Len(queued)) = Upto(sent, Len(queued))
      BY <1>2, <1>4, UptoFacts
    <3>2. QED
      BY <1>3, <3>1 DEF From
  <2>3. PICK c \in Seq(Nat), w \in Seq(Nat), b \in Seq(Nat) :
          c = buffer \o usb /\ w = wire /\ b = Bytes(f)
    <3>1. buffer \o usb \in Seq(Nat)
      BY <1>1, StreamTypes
    <3>2. Bytes(f) \in Seq(Nat)
      BY FrameBytes
    <3>3. QED
      BY <1>4, <3>1, <3>2
  <2>4. (c \o w) \o b = c \o (w \o b) /\ c \o w \in Seq(Nat)
    <3>1. (c \o w) \o b = c \o (w \o b)
      BY ConcatBytes, Zenon
    <3>2. c \o w \in Seq(Nat)
      BY BytesJoined, Zenon
    <3>3. QED
      BY <3>1, <3>2
  <2>5. Stream(sent') = Stream(sent) \o b
    BY <1>2, <1>4, <2>3, StreamAppend
  <2>6. Rests((c \o w) \o b, Stream(sent) \o b, From, TRUE)
    <3>1. Stream(sent) \in Seq(Nat) /\ From \in Nat
      BY <1>1, StreamTypes
    <3>2. QED
      BY <2>1, <2>3, <2>4, <3>1, RestsAppend
  <2>7. QED
    BY <1>6, <2>2, <2>3, <2>4, <2>5, <2>6
<1>11. SendInv'
  BY <1>1, <1>3 DEF SendInv
<1>12. StatusReachesPort'
  <2>1. handled > 0 => handled \in 1 .. Len(sent)
    BY <1>4
  <2>2. QED
    BY <1>1, <1>3, <1>5, <2>1 DEF StatusReachesPort
<1>13. QED
  BY <1>7, <1>8, <1>9, <1>10, <1>11, <1>12 DEF LinkInv

\* A step of the connection or the reading that moves no byte over another.
LEMMA SameStream ==
  ASSUME LinkInv, LinkType', UNCHANGED <<sent, part, port, queued, handled, target>>,
         UNCHANGED <<polled, writes, rest, written>>,
         size' + Len(buffer') = size + Len(buffer),
         part # "ended" => Rests((buffer' \o usb') \o wire', Stream(sent), From, ~lost')
  PROVE  LinkInv'
<1>1. LinkType /\ Received /\ PartInv /\ StreamInv /\ SendInv /\ StatusReachesPort
  BY DEF LinkInv
<1>2. Received'
  BY <1>1 DEF Received
<1>3. PartInv'
  BY <1>1 DEF PartInv
<1>4. StreamInv'
  BY <1>1 DEF StreamInv, From
<1>5. SendInv'
  BY <1>1 DEF SendInv
<1>6. StatusReachesPort'
  BY <1>1 DEF StatusReachesPort
<1>7. QED
  BY <1>2, <1>3, <1>4, <1>5, <1>6 DEF LinkInv

\* The connection is lost.
LEMMA LostStep == LinkInv /\ Lost => LinkInv'
<1> SUFFICES ASSUME LinkInv, Lost PROVE LinkInv'
  OBVIOUS
<1>1. LinkType /\ Received /\ StreamInv
  BY DEF LinkInv
<1>2. /\ lost' = TRUE
      /\ UNCHANGED <<transport, sent, usb, part, buffer, size, port, queued, handled, target>>
      /\ UNCHANGED <<polled, writes, rest, written>>
  BY DEF Lost, reading, handling, sending
<1>3. PICK n \in 0 .. Len(wire) : wire' = SubSeq(wire, 1, n)
  BY DEF Lost
<1>4. wire \in Seq(Nat) /\ n \in Nat /\ n <= Len(wire)
  BY <1>1, <1>3 DEF LinkType
<1>5. LinkType'
  <2>1. wire' \in Seq(Nat)
    BY <1>3, <1>4, CutFacts
  <2>2. QED
    BY <1>1, <1>2, <2>1 DEF LinkType
<1>6. part # "ended" => Rests((buffer' \o usb') \o wire', Stream(sent), From, ~lost')
  <2> SUFFICES ASSUME part # "ended"
               PROVE  Rests((buffer \o usb) \o SubSeq(wire, 1, n), Stream(sent), From, FALSE)
    BY <1>2, <1>3
  <2>1. PICK all : all = ~lost
    OBVIOUS
  <2>2. Rests((buffer \o usb) \o wire, Stream(sent), From, all)
    BY <1>1, <2>1 DEF StreamInv
  <2>3. buffer \o usb \in Seq(Nat) /\ Stream(sent) \in Seq(Nat) /\ From \in Nat
    BY <1>1, StreamTypes
  <2>4. QED
    BY <1>4, <2>2, <2>3, RestsCut
<1>7. QED
  BY <1>2, <1>5, <1>6, SameStream

\* A transfer fills the empty receive buffer.
LEMMA UsbTransferStep == LinkInv /\ UsbTransfer => LinkInv'
<1> SUFFICES ASSUME LinkInv, UsbTransfer PROVE LinkInv'
  OBVIOUS
<1>1. LinkType /\ StreamInv
  BY DEF LinkInv
<1>2. /\ transport = "USB" /\ usb = << >>
      /\ UNCHANGED <<transport, lost, sent, part, buffer, size, port, queued, handled, target>>
      /\ UNCHANGED <<polled, writes, rest, written>>
  BY DEF UsbTransfer, android, reading, handling, sending
<1>3. PICK n \in 1 .. Smaller(length, Len(wire)) : usb' = SubSeq(wire, 1, n) /\ wire' = Skip(wire, n)
  BY DEF UsbTransfer
<1>4. wire \in Seq(Nat) /\ n \in Nat /\ n <= Len(wire)
  BY <1>1, <1>3, LinkAssumption DEF LinkType, Smaller
<1>5. usb' \in Seq(Nat) /\ wire' \in Seq(Nat) /\ usb' \o wire' = wire
  BY <1>3, <1>4, CutFacts
<1>6. LinkType'
  BY <1>1, <1>2, <1>5 DEF LinkType
<1>7. (buffer' \o usb') \o wire' = (buffer \o usb) \o wire
  <2>1. PICK b \in Seq(Nat), u \in Seq(Nat), w \in Seq(Nat) : b = buffer /\ u = usb' /\ w = wire'
    BY <1>1, <1>5 DEF LinkType
  <2>2. (b \o u) \o w = b \o (u \o w) /\ b \o << >> = b
    <3>1. (b \o u) \o w = b \o (u \o w)
      BY ConcatBytes, Zenon
    <3>2. b \o << >> = b
      BY ConcatEmptySeq
    <3>3. QED
      BY <3>1, <3>2
  <2>3. QED
    BY <1>2, <1>5, <2>1, <2>2
<1>8. part # "ended" => Rests((buffer' \o usb') \o wire', Stream(sent), From, ~lost')
  BY <1>1, <1>2, <1>7 DEF StreamInv
<1>9. size' + Len(buffer') = size + Len(buffer)
  BY <1>2
<1>10. QED
  BY <1>2, <1>6, <1>8, <1>9, SameStream

\* What is taken from the bytes on their way is put after those that were read.
LEMMA TakeFacts ==
  ASSUME LinkType, NEW s \in Seq(Nat), NEW n \in Nat, n <= Len(s), n <= size, Take(s, n)
  PROVE  /\ buffer' \in Seq(Nat) /\ size' \in Nat
         /\ size' + Len(buffer') = size + Len(buffer)
         /\ Skip(s, n) \in Seq(Nat)
         /\ buffer' \o Skip(s, n) = buffer \o s
<1>1. PICK b \in Seq(Nat), t \in Seq(Nat), r \in Seq(Nat) :
        b = buffer /\ t = SubSeq(s, 1, n) /\ r = Skip(s, n) /\ Len(t) = n /\ t \o r = s
  <2>1. buffer \in Seq(Nat)
    BY DEF LinkType
  <2>2. /\ SubSeq(s, 1, n) \in Seq(Nat) /\ Len(SubSeq(s, 1, n)) = n
        /\ Skip(s, n) \in Seq(Nat) /\ SubSeq(s, 1, n) \o Skip(s, n) = s
    BY CutFacts, Zenon
  <2>3. QED
    BY <2>1, <2>2, Zenon
<1>2. buffer' = b \o t /\ size' = size - n
  BY <1>1 DEF Take
<1>3. /\ b \o t \in Seq(Nat) /\ Len(b \o t) = Len(b) + Len(t)
      /\ (b \o t) \o r = b \o (t \o r)
  <2>1. b \o t \in Seq(Nat)
    BY BytesJoined, Zenon
  <2>2. (b \o t) \o r = b \o (t \o r)
    BY ConcatBytes, Zenon
  <2>3. Len(b \o t) = Len(b) + Len(t)
    BY ConcatProperties, Zenon
  <2>4. QED
    BY <2>1, <2>2, <2>3
<1>4. size \in Nat /\ Len(b) \in Nat
  BY DEF LinkType
<1>5. (size - n) + (Len(b) + n) = size + Len(b) /\ size - n \in Nat
  BY <1>4
<1>6. QED
  BY <1>1, <1>2, <1>3, <1>5

\* A turn of readAllAccessory over USB.
LEMMA UsbReadStep == LinkInv /\ UsbRead => LinkInv'
<1> SUFFICES ASSUME LinkInv, UsbRead PROVE LinkInv'
  OBVIOUS
<1>1. LinkType /\ StreamInv
  BY DEF LinkInv
<1>2. /\ usb # << >> /\ UNCHANGED <<transport, lost, sent, wire, queued, handled, target>>
      /\ UNCHANGED <<polled, writes, rest, written>>
  BY DEF UsbRead, android, handling, sending
<1>3. PICK n : n = Smaller(size, Len(usb)) /\ Take(usb, n) /\ usb' = Skip(usb, n)
  BY DEF UsbRead
<1>4. usb \in Seq(Nat) /\ n \in Nat /\ n <= Len(usb) /\ n <= size
  BY <1>1, <1>3 DEF LinkType, Smaller
<1>5. UNCHANGED <<part, port>>
  BY <1>3 DEF Take
<1>6. /\ buffer' \in Seq(Nat) /\ size' \in Nat /\ usb' \in Seq(Nat)
      /\ size' + Len(buffer') = size + Len(buffer)
      /\ buffer' \o usb' = buffer \o usb
  BY <1>1, <1>3, <1>4, TakeFacts
<1>7. LinkType'
  BY <1>1, <1>2, <1>5, <1>6 DEF LinkType
<1>8. part # "ended" => Rests((buffer' \o usb') \o wire', Stream(sent), From, ~lost')
  BY <1>1, <1>2, <1>6 DEF StreamInv
<1>9. QED
  BY <1>2, <1>5, <1>6, <1>7, <1>8, SameStream

\* A turn of readAllAccessory over Bluetooth.
LEMMA BtReadStep == LinkInv /\ BtRead => LinkInv'
<1> SUFFICES ASSUME LinkInv, BtRead PROVE LinkInv'
  OBVIOUS
<1>1. LinkType /\ StreamInv
  BY DEF LinkInv
<1>2. /\ transport = "BT" /\ UNCHANGED <<transport, lost, sent, usb, queued, handled, target>>
      /\ UNCHANGED <<polled, writes, rest, written>>
  BY DEF BtRead, android, handling, sending
<1>3. PICK n \in 1 .. Smaller(size, Len(wire)) : Take(wire, n) /\ wire' = Skip(wire, n)
  BY DEF BtRead
<1>4. wire \in Seq(Nat) /\ n \in Nat /\ n <= Len(wire) /\ n <= size
  BY <1>1, <1>3 DEF LinkType, Smaller
<1>5. UNCHANGED <<part, port>>
  BY <1>3 DEF Take
<1>6. /\ buffer' \in Seq(Nat) /\ size' \in Nat /\ wire' \in Seq(Nat)
      /\ size' + Len(buffer') = size + Len(buffer)
      /\ buffer' \o wire' = buffer \o wire
  BY <1>1, <1>3, <1>4, TakeFacts
<1>7. LinkType'
  BY <1>1, <1>2, <1>5, <1>6 DEF LinkType
<1>8. (buffer' \o usb') \o wire' = (buffer \o usb) \o wire
  <2>1. usb = << >> /\ buffer \in Seq(Nat)
    BY <1>1, <1>2 DEF LinkType
  <2>2. buffer \o << >> = buffer /\ buffer' \o << >> = buffer'
    BY <1>6, <2>1, ConcatEmptySeq
  <2>3. QED
    BY <1>2, <1>6, <2>1, <2>2
<1>9. part # "ended" => Rests((buffer' \o usb') \o wire', Stream(sent), From, ~lost')
  BY <1>1, <1>2, <1>8 DEF StreamInv
<1>10. QED
  BY <1>2, <1>5, <1>6, <1>7, <1>9, SameStream

\* A part read to its end: what comes next, and the frame it belongs to.
LEMMA PartRead ==
  ASSUME LinkInv, part # "ended"
  PROVE  /\ Rests((<< >> \o usb) \o wire, Stream(sent), From + Len(buffer), ~lost)
         /\ From + Len(buffer) <= Len(Stream(sent))
         /\ \A k \in 1 .. Len(buffer) : buffer[k] = Stream(sent)[From + k]
<1>1. LinkType /\ Received /\ StreamInv
  BY DEF LinkInv
<1>2. PICK b \in Seq(Nat), u \in Seq(Nat), w \in Seq(Nat) : b = buffer /\ u = usb /\ w = wire
  BY <1>1 DEF LinkType
<1>3. u \o w \in Seq(Nat) /\ << >> \o u = u
  BY ConcatProperties, ConcatEmptySeq
<1>4. Stream(sent) \in Seq(Nat) /\ From \in Nat /\ (buffer \o usb) \o wire = buffer \o (usb \o wire)
  BY <1>1, StreamTypes
<1>5. PICK all : all = ~lost
  OBVIOUS
<1>6. Rests(b \o (u \o w), Stream(sent), From, all)
  BY <1>1, <1>2, <1>4, <1>5 DEF StreamInv
<1>7. /\ Rests(u \o w, Stream(sent), From + Len(b), all)
      /\ From + Len(b) <= Len(Stream(sent))
      /\ \A k \in 1 .. Len(b) : b[k] = Stream(sent)[From + k]
  <2>1. PICK s \in Seq(Nat), g \in Nat, v \in Seq(Nat) :
          s = Stream(sent) /\ g = From /\ v = u \o w
    BY <1>3, <1>4
  <2>2. Rests(b \o v, s, g, all)
    BY <1>6, <2>1
  <2>3. /\ Rests(v, s, g + Len(b), all) /\ g + Len(b) <= Len(s)
        /\ \A k \in 1 .. Len(b) : b[k] = s[g + k]
    BY <2>2, RestsRead
  <2>4. QED
    BY <2>1, <2>3
<1>8. QED
  BY <1>2, <1>3, <1>5, <1>7

\* The header read is that of the next frame.
LEMMA HeaderReadStep == LinkInv /\ HeaderRead => LinkInv'
<1> SUFFICES ASSUME LinkInv, HeaderRead PROVE LinkInv'
  OBVIOUS
<1>1. LinkType /\ Received /\ PartInv /\ StreamInv /\ SendInv /\ StatusReachesPort
  BY DEF LinkInv
<1>2. /\ part = "header" /\ size = 0
      /\ port' = UnsignedShort(buffer[1], buffer[2])
      /\ size' = UnsignedShort(buffer[3], buffer[4])
      /\ part' = "payload" /\ buffer' = << >>
      /\ UNCHANGED <<transport, lost, sent, wire, usb, queued, handled, target>>
      /\ UNCHANGED <<polled, writes, rest, written>>
  BY DEF HeaderRead, android, handling, sending
<1>3. PICK n \in Nat : n = Len(queued)
  BY <1>1, StreamTypes
<1>4. Len(buffer) = 4
  <2>1. buffer \in Seq(Nat) /\ size + Len(buffer) = 4
    BY <1>1, <1>2 DEF LinkType, PartInv
  <2>2. Len(buffer) \in Nat
    BY <2>1
  <2>3. QED
    BY <1>2, <2>1, <2>2
<1>5. From = Len(Upto(sent, n)) /\ From' = From + 4
  <2>1. From = Len(Upto(sent, n)) + 0 /\ From' = Len(Upto(sent, n)) + 4
    BY <1>2, <1>3 DEF From
  <2>2. From \in Nat /\ Len(Upto(sent, n)) \in Nat
    <3>1. Upto(sent, n) \in Seq(Nat)
      BY <1>1, <1>3, StreamTypes
    <3>2. QED
      BY <1>1, <3>1, StreamTypes
  <2>3. QED
    BY <2>1, <2>2
<1>6. /\ Rests((<< >> \o usb) \o wire, Stream(sent), From + 4, ~lost)
      /\ From + 4 <= Len(Stream(sent))
      /\ \A k \in 1 .. 4 : buffer[k] = Stream(sent)[From + k]
  <2>1. part # "ended"
    BY <1>2
  <2>2. QED
    BY <1>4, <2>1, PartRead
<1>7. sent \in Seq(Frames) /\ n < Len(sent)
  <2>1. sent \in Seq(Frames) /\ n <= Len(sent) /\ Len(sent) \in Nat /\ From \in Nat
    BY <1>1, <1>3, StreamTypes DEF LinkType, Received
  <2>2. n # Len(sent)
    <3>1. SUFFICES ASSUME n = Len(sent) PROVE FALSE
      OBVIOUS
    <3>2. Upto(sent, n) = Stream(sent)
      BY <2>1, <3>1, UptoFacts
    <3>3. QED
      BY <1>5, <1>6, <2>1, <3>2
  <2>3. QED
    BY <2>1, <2>2
<1>8. PICK f \in Frames : f = sent[n + 1]
  BY <1>7, ElementOfSeq
<1>9. \A k \in 1 .. 4 : buffer[k] = Header(f)[k]
  <2>1. \A k \in 1 .. Len(Bytes(f)) : Stream(sent)[From + k] = Bytes(f)[k]
    BY <1>5, <1>7, <1>8, Placed
  <2>2. /\ Len(Bytes(f)) = 4 + f.size /\ f.size \in Nat /\ Len(Header(f)) = 4
        /\ \A k \in 1 .. Len(Header(f)) : Bytes(f)[k] = Header(f)[k]
    <3>1. Len(Bytes(f)) = 4 + f.size /\ f.size \in Nat /\ Len(Header(f)) = 4
      BY FrameBytes
    <3>2. \A k \in 1 .. Len(Header(f)) : Bytes(f)[k] = Header(f)[k]
      BY FrameBytes
    <3>3. QED
      BY <3>1, <3>2
  <2>3. ASSUME NEW k \in 1 .. 4 PROVE buffer[k] = Header(f)[k]
    <3>1. k \in 1 .. Len(Header(f)) /\ k \in 1 .. Len(Bytes(f))
      BY <2>2
    <3>2. QED
      BY <1>6, <2>1, <2>2, <3>1
  <2>4. QED
    BY <2>3
<1>10. port' = f.port /\ size' = f.size /\ f.size \in Nat
  <2>1. /\ buffer[1] = Header(f)[1] /\ buffer[2] = Header(f)[2]
        /\ buffer[3] = Header(f)[3] /\ buffer[4] = Header(f)[4]
    BY <1>9
  <2>2. /\ UnsignedShort(Header(f)[1], Header(f)[2]) = f.port
        /\ UnsignedShort(Header(f)[3], Header(f)[4]) = f.size /\ f.size \in Nat
    BY FrameBytes
  <2>3. QED
    BY <1>2, <2>1, <2>2
<1>11. LinkType'
  BY <1>1, <1>2, <1>10 DEF LinkType
<1>12. Received'
  BY <1>1, <1>2 DEF Received
<1>13. PartInv'
  <2>1. size' + Len(buffer') = f.size
    BY <1>2, <1>10
  <2>2. QED
    BY <1>2, <1>3, <1>7, <1>8, <1>10, <2>1 DEF PartInv
<1>14. StreamInv'
  BY <1>2, <1>5, <1>6 DEF StreamInv
<1>15. SendInv' /\ StatusReachesPort'
  BY <1>1, <1>2 DEF SendInv, StatusReachesPort
<1>16. QED
  BY <1>11, <1>12, <1>13, <1>14, <1>15 DEF LinkInv

\* The payload read is that of the frame, and is queued with its port.
LEMMA PayloadReadStep == LinkInv /\ PayloadRead => LinkInv'
<1> SUFFICES ASSUME LinkInv, PayloadRead PROVE LinkInv'
  OBVIOUS
<1>1. LinkType /\ Received /\ PartInv /\ StreamInv /\ SendInv /\ StatusReachesPort
  BY DEF LinkInv
<1>2. /\ part = "payload" /\ size = 0
      /\ queued' = Append(queued, [port |-> port, payload |-> buffer])
      /\ part' = "header" /\ size' = 4 /\ buffer' = << >>
      /\ UNCHANGED <<transport, lost, sent, wire, usb, port, handled, target>>
      /\ UNCHANGED <<polled, writes, rest, written>>
  BY DEF PayloadRead, android, handling, sending
<1>3. PICK n \in Nat : n = Len(queued)
  BY <1>1, StreamTypes
<1>4. n < Len(sent) /\ sent \in Seq(Frames) /\ Len(sent) \in Nat
  BY <1>1, <1>2, <1>3, StreamTypes DEF PartInv, LinkType
<1>5. PICK f \in Frames : f = sent[n + 1]
  BY <1>4, ElementOfSeq
<1>6. f.size \in Nat /\ Len(Bytes(f)) = 4 + f.size /\ Payload(f) \in Seq(Nat)
      /\ Len(Payload(f)) = f.size /\ f.port \in Nat
  BY FrameBytes
<1>7. port = f.port /\ Len(buffer) = f.size /\ buffer \in Seq(Nat)
  <2>1. port = f.port /\ size + Len(buffer) = f.size /\ buffer \in Seq(Nat)
    BY <1>1, <1>2, <1>3, <1>5 DEF PartInv, LinkType
  <2>2. Len(buffer) \in Nat
    BY <2>1
  <2>3. QED
    BY <1>2, <2>1, <2>2
<1>8. From = Len(Upto(sent, n)) + 4 /\ Len(Upto(sent, n)) \in Nat
  BY <1>2, <1>3, <1>4, Placed DEF From
<1>9. /\ Rests((<< >> \o usb) \o wire, Stream(sent), From + Len(buffer), ~lost)
      /\ \A k \in 1 .. Len(buffer) : buffer[k] = Stream(sent)[From + k]
  BY <1>1, <1>2, PartRead
<1>10. buffer = Payload(f)
  <2>1. \A k \in 1 .. Len(Bytes(f)) : Stream(sent)[Len(Upto(sent, n)) + k] = Bytes(f)[k]
    BY <1>4, <1>5, Placed
  <2>2. \A k \in 1 .. f.size : Bytes(f)[4 + k] = Payload(f)[k]
    BY FrameBytes
  <2>3. ASSUME NEW k \in 1 .. f.size PROVE buffer[k] = Payload(f)[k]
    <3>1. 4 + k \in 1 .. Len(Bytes(f)) /\ From + k = Len(Upto(sent, n)) + (4 + k)
      BY <1>6, <1>8
    <3>2. buffer[k] = Stream(sent)[From + k]
      BY <1>7, <1>9
    <3>3. QED
      BY <2>1, <2>2, <3>1, <3>2
  <2>4. QED
    BY <1>6, <1>7, <2>3, SeqEqual
<1>11. PICK m : m = [port |-> f.port, payload |-> Payload(f)]
  OBVIOUS
<1>12. m \in [port : Nat, payload : Seq(Nat)] /\ queued' = Append(queued, m)
  BY <1>2, <1>6, <1>7, <1>10, <1>11
<1>13. queued \in Seq([port : Nat, payload : Seq(Nat)]) /\ handled \in Nat /\ handled <= n
  BY <1>1, <1>3 DEF LinkType
<1>14. /\ queued' \in Seq([port : Nat, payload : Seq(Nat)])
       /\ Len(queued') = n + 1
       /\ \A i \in 1 .. n : queued'[i] = queued[i]
       /\ queued'[n + 1] = m
  BY <1>3, <1>12, <1>13, AppendProperties
<1>15. LinkType'
  <2>1. handled <= n + 1
    BY <1>13
  <2>2. << >> \in Seq(Nat)
    OBVIOUS
  <2>3. QED
    BY <1>1, <1>2, <1>14, <2>1, <2>2 DEF LinkType
<1>16. Received'
  <2>1. n + 1 <= Len(sent)
    BY <1>4
  <2>2. ASSUME NEW i \in 1 .. n + 1
        PROVE  queued'[i] = [port |-> sent[i].port, payload |-> Payload(sent[i])]
    <3>1. CASE i = n + 1
      BY <1>5, <1>11, <1>14, <3>1
    <3>2. CASE i # n + 1
      <4>1. i \in 1 .. n
        BY <3>2
      <4>2. QED
        BY <1>1, <1>3, <1>14, <4>1 DEF Received
    <3>3. QED
      BY <3>1, <3>2
  <2>3. QED
    BY <1>2, <1>14, <2>1, <2>2 DEF Received
<1>17. PartInv'
  BY <1>2 DEF PartInv
<1>18. StreamInv'
  <2>1. Len(Upto(sent, n + 1)) = Len(Upto(sent, n)) + Len(Bytes(f))
    BY <1>4, <1>5, Placed
  <2>2. From' = Len(Upto(sent, n + 1)) + 0
    BY <1>2, <1>14 DEF From
  <2>3. From' = From + Len(buffer)
    <3>1. PICK a \in Nat, b \in Nat : a = Len(Upto(sent, n)) /\ b = f.size
      BY <1>6, <1>8
    <3>2. From = a + 4 /\ From' = (a + (4 + b)) + 0 /\ Len(buffer) = b
      BY <1>6, <1>7, <1>8, <2>1, <2>2, <3>1
    <3>3. (a + (4 + b)) + 0 = (a + 4) + b
      OBVIOUS
    <3>4. QED
      BY <3>2, <3>3
  <2>4. QED
    BY <1>2, <1>9, <2>3 DEF StreamInv
<1>19. SendInv'
  BY <1>1, <1>2 DEF SendInv
<1>20. StatusReachesPort'
  <2>1. handled > 0 => queued'[handled] = queued[handled]
    BY <1>13, <1>14
  <2>2. QED
    BY <1>1, <1>2, <2>1 DEF StatusReachesPort
<1>21. QED
  BY <1>15, <1>16, <1>17, <1>18, <1>19, <1>20 DEF LinkInv

\* A read that fails ends the receiver.
LEMMA ReadErrorStep == LinkInv /\ ReadError => LinkInv'
<1> SUFFICES ASSUME LinkInv, ReadError PROVE LinkInv'
  OBVIOUS
<1>1. LinkType /\ Received /\ SendInv /\ StatusReachesPort
  BY DEF LinkInv
<1>2. /\ part' = "ended"
      /\ UNCHANGED <<transport, lost, sent, wire, usb, buffer, size, port, queued, handled, target>>
      /\ UNCHANGED <<polled, writes, rest, written>>
  BY DEF ReadError, android, handling, sending
<1>3. LinkType' /\ Received'
  BY <1>1, <1>2 DEF LinkType, Received
<1>4. PartInv' /\ StreamInv'
  BY <1>2 DEF PartInv, StreamInv
<1>5. SendInv' /\ StatusReachesPort'
  BY <1>1, <1>2 DEF SendInv, StatusReachesPort
<1>6. QED
  BY <1>3, <1>4, <1>5 DEF LinkInv

\* The signed bytes make the port again, unless the low byte is negative.
LEMMA StatusPortFacts ==
  ASSUME NEW a \in Nat, a < 400, Low(a) < 128
  PROVE  StatusPort(Low(a), High(a)) = a
<1>1. Low(a) = a % 256 /\ High(a) = a \div 256 /\ Low(a) \in Nat /\ High(a) \in Nat /\ High(a) < 2
  BY DEF Low, High
<1>2. Signed8(Low(a)) = Low(a) /\ Signed8(High(a)) = High(a)
  BY <1>1 DEF Signed8
<1>3. Low(a) + 256 * High(a) = a
  BY <1>1
<1>4. ~(Low(a) < 0)
  BY <1>1
<1>5. QED
  BY <1>2, <1>3, <1>4 DEF StatusPort

\* main handles the next message.
LEMMA HandleStep == LinkInv /\ Handle => LinkInv'
<1> SUFFICES ASSUME LinkInv, Handle PROVE LinkInv'
  OBVIOUS
<1>1. LinkType /\ Received /\ PartInv /\ StreamInv /\ SendInv
  BY DEF LinkInv
<1>2. /\ handled < Len(queued) /\ handled' = handled + 1
      /\ target' = IF queued[handled + 1].port = 0
                   THEN StatusPort(queued[handled + 1].payload[1], queued[handled + 1].payload[2])
                   ELSE target
      /\ UNCHANGED <<transport, lost, sent, wire, usb, part, buffer, size, port, queued>>
      /\ UNCHANGED <<polled, writes, rest, written>>
  BY DEF Handle, android, reading, sending
<1>3. handled \in Nat /\ Len(queued) \in Nat /\ sent \in Seq(Frames) /\ Len(queued) <= Len(sent)
  BY <1>1, StreamTypes DEF LinkType, Received
<1>4. LinkType'
  <2>1. handled' \in Nat /\ handled' <= Len(queued)
    BY <1>2, <1>3
  <2>2. QED
    BY <1>1, <1>2, <2>1 DEF LinkType
<1>5. Received' /\ PartInv'
  BY <1>1, <1>2 DEF Received, PartInv
<1>6. StreamInv'
  BY <1>1, <1>2 DEF StreamInv, From
<1>7. SendInv'
  BY <1>1, <1>2 DEF SendInv
<1>8. StatusReachesPort'
  <2> SUFFICES ASSUME queued[handled + 1].port = 0, Low(sent[handled + 1].about) < 128
               PROVE  target' = sent[handled + 1].about
    BY <1>2 DEF StatusReachesPort
  <2>1. handled + 1 \in 1 .. Len(queued) /\ handled + 1 \in 1 .. Len(sent)
    BY <1>2, <1>3
  <2>2. PICK f \in Frames : f = sent[handled + 1]
    BY <1>3, <2>1, ElementOfSeq
  <2>3. queued[handled + 1] = [port |-> f.port, payload |-> Payload(f)]
    BY <1>1, <2>1, <2>2 DEF Received
  <2>4. queued[handled + 1].port = f.port /\ queued[handled + 1].payload = Payload(f)
    BY <2>3
  <2>5. Payload(f) = <<Low(f.about), High(f.about), 3, 0>> /\ f.about \in Nat /\ f.about < 400
    <3>1. /\ f.port = 0 => Payload(f) = <<Low(f.about), High(f.about), 3, 0>>
          /\ f.about \in Nat /\ f.about < 400
      BY FrameBytes
    <3>2. f.port = 0
      BY <2>4
    <3>3. QED
      BY <3>1, <3>2
  <2>6. Payload(f)[1] = Low(f.about) /\ Payload(f)[2] = High(f.about)
    BY <2>5
  <2>7. StatusPort(Low(f.about), High(f.about)) = f.about
    BY <2>2, <2>5, StatusPortFacts
  <2>8. QED
    BY <1>2, <2>2, <2>4, <2>6, <2>7
<1>9. QED
  BY <1>4, <1>5, <1>6, <1>7, <1>8 DEF LinkInv

\* A step of the sender that keeps its part of the invariant keeps all of it.
LEMMA SenderStep ==
  ASSUME LinkInv, SendInv',
         UNCHANGED <<transport, lost, sent, wire, usb, part, buffer, size, port, queued>>,
         UNCHANGED <<handled, target>>,
         polled' \in Seq(Frames), rest' \in Seq(Nat), written' \in Seq(Nat),
         writes' \in {"header", "payload", "idle", "ended"}
  PROVE  LinkInv'
<1>1. LinkType /\ Received /\ PartInv /\ StreamInv /\ StatusReachesPort
  BY DEF LinkInv
<1>2. LinkType'
  BY <1>1 DEF LinkType
<1>3. Received' /\ PartInv' /\ StatusReachesPort'
  BY <1>1 DEF Received, PartInv, StatusReachesPort
<1>4. StreamInv'
  BY <1>1 DEF StreamInv, From
<1>5. QED
  BY <1>2, <1>3, <1>4 DEF LinkInv

\* What the proofs about the sender need of its types.
LEMMA SenderTypes ==
  ASSUME LinkInv
  PROVE  /\ polled \in Seq(Frames) /\ rest \in Seq(Nat) /\ written \in Seq(Nat)
         /\ writes \in {"header", "payload", "idle", "ended"} /\ SendInv
         /\ Stream(polled) \in Seq(Nat)
<1>1. /\ polled \in Seq(Frames) /\ rest \in Seq(Nat) /\ written \in Seq(Nat) /\ SendInv
      /\ writes \in {"header", "payload", "idle", "ended"}
  BY DEF LinkInv, LinkType
<1>2. Len(polled) \in Nat /\ Len(polled) <= Len(polled)
  BY <1>1
<1>3. Stream(polled) \in Seq(Nat)
  BY <1>1, <1>2, UptoType, UptoFacts
<1>4. QED
  BY <1>1, <1>3

\* The last frame of a sequence that is not empty.
LEMMA LastFrame ==
  ASSUME NEW fs \in Seq(Frames), fs # << >>
  PROVE  /\ fs[Len(fs)] \in Frames
         /\ Upto(fs, Len(fs) - 1) \in Seq(Nat)
         /\ Stream(fs) = Upto(fs, Len(fs) - 1) \o (Header(fs[Len(fs)]) \o Payload(fs[Len(fs)]))
<1>1. PICK n \in Nat : Len(fs) = n + 1 /\ n < Len(fs) /\ n <= Len(fs)
  <2>1. PICK m \in Nat : m = Len(fs) /\ m # 0
    BY EmptySeq
  <2>2. m - 1 \in Nat /\ m = (m - 1) + 1 /\ m - 1 < m /\ m - 1 <= m
    BY <2>1
  <2>3. QED
    BY <2>1, <2>2
<1>2. Len(fs) - 1 = n
  BY <1>1
<1>3. fs[n + 1] \in Frames
  BY <1>1, ElementOfSeq
<1>4. Upto(fs, n) \in Seq(Nat)
  BY <1>1, UptoType
<1>5. Upto(fs, n + 1) = Upto(fs, n) \o Bytes(fs[n + 1]) /\ Upto(fs, Len(fs)) = Stream(fs)
  BY <1>1, UptoFacts
<1>6. QED
  BY <1>1, <1>2, <1>3, <1>4, <1>5 DEF Bytes

\* The sender takes a message.
LEMMA PollSendStep == LinkInv /\ PollSend => LinkInv'
<1> SUFFICES ASSUME LinkInv, PollSend PROVE LinkInv'
  OBVIOUS
<1>1. /\ polled \in Seq(Frames) /\ written \in Seq(Nat) /\ SendInv /\ Stream(polled) \in Seq(Nat)
  BY SenderTypes
<1>2. PICK f \in Frames : polled' = Append(polled, f) /\ rest' = Header(f)
  BY DEF PollSend
<1>3. /\ writes = "idle" /\ writes' = "header" /\ written' = written
      /\ UNCHANGED <<transport, lost, sent, wire, usb, part, buffer, size, port, queued>>
      /\ UNCHANGED <<handled, target>>
  BY DEF PollSend, android, reading, handling
<1>4. Header(f) \in Seq(Nat)
  BY FrameBytes
<1>5. /\ polled' \in Seq(Frames) /\ Len(polled) \in Nat /\ Len(polled') = Len(polled) + 1
      /\ polled'[Len(polled')] = f /\ polled' # << >>
  <2>1. Len(polled) \in Nat
    BY <1>1
  <2>2. /\ Append(polled, f) \in Seq(Frames) /\ Len(Append(polled, f)) = Len(polled) + 1
        /\ Append(polled, f)[Len(polled) + 1] = f
    BY <1>1, AppendProperties
  <2>3. Len(<< >>) # Len(polled) + 1
    BY <2>1
  <2>4. QED
    BY <1>2, <2>1, <2>2, <2>3
<1>6. Upto(polled', Len(polled') - 1) = Stream(polled)
  <2>1. Len(polled') - 1 = Len(polled) /\ Len(polled) <= Len(polled)
    BY <1>5
  <2>2. Upto(Append(polled, f), Len(polled)) = Upto(polled, Len(polled))
    BY <1>1, <1>5, <2>1, UptoFacts
  <2>3. Upto(polled, Len(polled)) = Stream(polled)
    BY <1>1, UptoFacts
  <2>4. QED
    BY <1>2, <2>1, <2>2, <2>3
<1>7. SendInv'
  <2>1. written = Stream(polled)
    BY <1>1, <1>3 DEF SendInv
  <2>2. written' \o rest' = Upto(polled', Len(polled') - 1) \o Header(polled'[Len(polled')])
    BY <1>2, <1>3, <1>5, <1>6, <2>1
  <2>3. QED
    BY <1>3, <1>5, <2>2 DEF SendInv
<1>8. QED
  BY <1>2, <1>3, <1>4, <1>5, <1>7, <1>1, SenderStep

\* A turn of writeAllAccessory.
LEMMA writeAllAccessoryStep == LinkInv /\ writeAllAccessory => LinkInv'
<1> SUFFICES ASSUME LinkInv, writeAllAccessory PROVE LinkInv'
  OBVIOUS
<1>1. /\ polled \in Seq(Frames) /\ rest \in Seq(Nat) /\ written \in Seq(Nat) /\ SendInv
  BY SenderTypes
<1>2. /\ writes \in {"header", "payload"} /\ rest # << >>
      /\ UNCHANGED <<transport, lost, sent, wire, usb, part, buffer, size, port, queued>>
      /\ UNCHANGED <<handled, target, polled, writes>>
  BY DEF writeAllAccessory, android, reading, handling
<1>3. PICK n \in Writable(Len(rest)) :
        written' = written \o SubSeq(rest, 1, n) /\ rest' = Skip(rest, n)
  BY DEF writeAllAccessory
<1>4. n \in Nat /\ n <= Len(rest)
  <2>1. Len(rest) \in Nat
    BY <1>1
  <2>2. QED
    BY <1>3, <2>1 DEF Writable, writeAccessoryUSB, writeAccessoryBT
<1>5. written' \in Seq(Nat) /\ rest' \in Seq(Nat) /\ written' \o rest' = written \o rest
  <2>1. PICK w \in Seq(Nat), t \in Seq(Nat), r \in Seq(Nat) :
          w = written /\ t = SubSeq(rest, 1, n) /\ r = Skip(rest, n) /\ t \o r = rest
    <3>1. /\ SubSeq(rest, 1, n) \in Seq(Nat) /\ Skip(rest, n) \in Seq(Nat)
          /\ SubSeq(rest, 1, n) \o Skip(rest, n) = rest
      BY <1>1, <1>4, CutFacts, Zenon
    <3>2. QED
      BY <1>1, <3>1, Zenon
  <2>2. w \o t \in Seq(Nat) /\ (w \o t) \o r = w \o (t \o r)
    <3>1. w \o t \in Seq(Nat)
      BY BytesJoined, Zenon
    <3>2. (w \o t) \o r = w \o (t \o r)
      BY ConcatBytes, Zenon
    <3>3. QED
      BY <3>1, <3>2
  <2>3. QED
    BY <1>3, <2>1, <2>2
<1>6. SendInv'
  BY <1>1, <1>2, <1>5 DEF SendInv
<1>7. QED
  BY <1>1, <1>2, <1>5, <1>6, SenderStep

\* What is written is a beginning of the sender's stream, and all of it when it is idle.
LEMMA SendInvPrefix ==
  ASSUME LinkInv
  PROVE  IsPrefix(written, Stream(polled)) /\ (writes = "idle" => written = Stream(polled))
<1>1. /\ polled \in Seq(Frames) /\ rest \in Seq(Nat) /\ written \in Seq(Nat) /\ SendInv
      /\ writes \in {"header", "payload", "idle", "ended"}
  BY SenderTypes
<1>2. \A a, b \in Seq(Nat) : IsPrefix(a, a \o b)
  BY PrefixOfConcat
<1>3. CASE writes = "ended"
  BY <1>1, <1>3 DEF SendInv
<1>4. CASE writes = "idle"
  <2>1. written = Stream(polled) /\ written \o << >> = written
    BY <1>1, <1>4, ConcatEmptySeq DEF SendInv
  <2>2. << >> \in Seq(Nat)
    OBVIOUS
  <2>3. IsPrefix(written, written \o << >>)
    BY <1>1, <1>2, <2>2
  <2>4. QED
    BY <2>1, <2>3
<1>5. CASE writes = "payload"
  BY <1>1, <1>2, <1>5 DEF SendInv
<1>6. CASE writes = "header"
  <2>1. polled # << >> /\ written \o rest = Upto(polled, Len(polled) - 1) \o Header(polled[Len(polled)])
    BY <1>1, <1>6 DEF SendInv
  <2>2. PICK q \in Seq(Nat) : Stream(polled) = (written \o rest) \o q
    <3>1. /\ polled[Len(polled)] \in Frames /\ Upto(polled, Len(polled) - 1) \in Seq(Nat)
          /\ Stream(polled) = Upto(polled, Len(polled) - 1)
                              \o (Header(polled[Len(polled)]) \o Payload(polled[Len(polled)]))
      BY <1>1, <2>1, LastFrame
    <3>2. \A f \in Frames : Header(f) \in Seq(Nat) /\ Payload(f) \in Seq(Nat)
      BY FrameBytes
    <3>3. PICK u \in Seq(Nat), h \in Seq(Nat), q \in Seq(Nat) :
            u \o h = written \o rest /\ Stream(polled) = u \o (h \o q)
      BY <2>1, <3>1, <3>2
    <3>4. (u \o h) \o q = u \o (h \o q)
      BY ConcatBytes, Zenon
    <3>5. QED
      BY <3>3, <3>4
  <2>3. PICK w \in Seq(Nat), r \in Seq(Nat) : w = written /\ r = rest
    BY <1>1
  <2>4. (w \o r) \o q = w \o (r \o q) /\ r \o q \in Seq(Nat)
    <3>1. (w \o r) \o q = w \o (r \o q)
      BY ConcatBytes, Zenon
    <3>2. r \o q \in Seq(Nat)
      BY BytesJoined, Zenon
    <3>3. QED
      BY <3>1, <3>2
  <2>5. Stream(polled) = w \o (r \o q)
    BY <2>2, <2>3, <2>4
  <2>6. QED
    BY <1>2, <1>6, <2>3, <2>4, <2>5
<1>7. QED
  BY <1>1, <1>3, <1>4, <1>5, <1>6

\* A write that fails ends the sender in the middle of a message.
LEMMA WriteErrorStep == LinkInv /\ WriteError => LinkInv'
<1> SUFFICES ASSUME LinkInv, WriteError PROVE LinkInv'
  OBVIOUS
<1>1. /\ polled \in Seq(Frames) /\ rest \in Seq(Nat) /\ written \in Seq(Nat) /\ SendInv
  BY SenderTypes
<1>2. /\ writes \in {"header", "payload"} /\ writes' = "ended" /\ rest' = << >>
      /\ UNCHANGED <<transport, lost, sent, wire, usb, part, buffer, size, port, queued>>
      /\ UNCHANGED <<handled, target, polled, written>>
  BY DEF WriteError, android, reading, handling
<1>3. IsPrefix(written, Stream(polled))
  BY SendInvPrefix
<1>4. SendInv'
  BY <1>2, <1>3 DEF SendInv
<1>5. << >> \in Seq(Nat)
  OBVIOUS
<1>6. QED
  BY <1>1, <1>2, <1>4, <1>5, SenderStep

\* The payload after the header, and the next message after the payload.
LEMMA PartWrittenStep == LinkInv /\ PartWritten => LinkInv'
<1> SUFFICES ASSUME LinkInv, PartWritten PROVE LinkInv'
  OBVIOUS
<1>1. /\ polled \in Seq(Frames) /\ rest \in Seq(Nat) /\ written \in Seq(Nat) /\ SendInv
  BY SenderTypes
<1>2. /\ writes \in {"header", "payload"} /\ rest = << >>
      /\ UNCHANGED <<transport, lost, sent, wire, usb, part, buffer, size, port, queued>>
      /\ UNCHANGED <<handled, target, polled, written>>
  BY DEF PartWritten, android, reading, handling
<1>3. written \o << >> = written
  BY <1>1, ConcatEmptySeq
<1>4. CASE writes = "header"
  <2>1. writes' = "payload" /\ rest' = Payload(polled[Len(polled)])
    BY <1>4 DEF PartWritten
  <2>2. polled # << >> /\ written = Upto(polled, Len(polled) - 1) \o Header(polled[Len(polled)])
    BY <1>1, <1>2, <1>3, <1>4 DEF SendInv
  <2>3. PICK u \in Seq(Nat), h \in Seq(Nat), q \in Seq(Nat) :
          /\ u = Upto(polled, Len(polled) - 1)
          /\ h = Header(polled[Len(polled)]) /\ q = Payload(polled[Len(polled)])
          /\ Stream(polled) = u \o (h \o q)
    <3>1. /\ polled[Len(polled)] \in Frames /\ Upto(polled, Len(polled) - 1) \in Seq(Nat)
          /\ Stream(polled) = Upto(polled, Len(polled) - 1)
                              \o (Header(polled[Len(polled)]) \o Payload(polled[Len(polled)]))
      BY <1>1, <2>2, LastFrame
    <3>2. \A f \in Frames : Header(f) \in Seq(Nat) /\ Payload(f) \in Seq(Nat)
      BY FrameBytes
    <3>3. QED
      BY <3>1, <3>2
  <2>4. (u \o h) \o q = u \o (h \o q)
    BY ConcatBytes, Zenon
  <2>5. written' \o rest' = Stream(polled')
    BY <1>2, <2>1, <2>2, <2>3, <2>4
  <2>6. SendInv'
    BY <1>2, <2>1, <2>2, <2>5 DEF SendInv
  <2>7. QED
    BY <1>1, <1>2, <2>1, <2>3, <2>6, SenderStep
<1>5. CASE writes = "payload"
  <2>1. writes' = "idle" /\ rest' = rest
    BY <1>5 DEF PartWritten
  <2>2. written = Stream(polled)
    BY <1>1, <1>2, <1>3, <1>5 DEF SendInv
  <2>3. SendInv'
    BY <1>2, <2>1, <2>2 DEF SendInv
  <2>4. QED
    BY <1>1, <1>2, <2>1, <2>3, SenderStep
<1>6. QED
  BY <1>2, <1>4, <1>5

-----------------------------------------------------------------------------
(* The theorems.                                                           *)

\* The invariant holds at first.
LEMMA LinkInit == Init => LinkInv
<1> SUFFICES ASSUME Init PROVE LinkInv
  OBVIOUS
<1>1. /\ transport \in Transports /\ sent = << >> /\ wire = << >> /\ usb = << >>
      /\ part = "header" /\ buffer = << >> /\ size = 4 /\ port = 0 /\ queued = << >>
      /\ handled = 0 /\ polled = << >> /\ writes = "idle" /\ rest = << >> /\ written = << >>
  BY DEF Init
<1>2. << >> \in Seq(Nat) /\ << >> \in Seq(Frames) /\ << >> \in Seq([port : Nat, payload : Seq(Nat)])
      /\ Len(<< >>) = 0
  BY EmptySeq
<1>3. LinkType
  BY <1>1, <1>2 DEF LinkType
<1>4. Received /\ PartInv
  BY <1>1, <1>2 DEF Received, PartInv
<1>5. StreamInv
  <2>1. Stream(sent) = << >> /\ From = 0 + 0
    <3>1. Upto(<< >>, 0) = << >> /\ Stream(<< >>) = << >>
      BY <1>2, UptoFacts, StreamEmpty
    <3>2. QED
      BY <1>1, <1>2, <3>1 DEF From
  <2>2. (buffer \o usb) \o wire = << >>
    <3>1. << >> \o << >> = << >>
      BY <1>2, ConcatEmptySeq
    <3>2. QED
      BY <1>1, <3>1
  <2>3. PICK all : all = ~lost
    OBVIOUS
  <2>4. Rests(<< >>, << >>, 0, all)
    BY <1>2 DEF Rests
  <2>5. QED
    BY <2>1, <2>2, <2>3, <2>4 DEF StreamInv
<1>6. SendInv
  BY <1>1, StreamEmpty DEF SendInv
<1>7. StatusReachesPort
  BY <1>1 DEF StatusReachesPort
<1>8. QED
  BY <1>3, <1>4, <1>5, <1>6, <1>7 DEF LinkInv

\* Every step keeps it.
LEMMA LinkNext == LinkInv /\ [Next]_vars => LinkInv'
<1> SUFFICES ASSUME LinkInv, [Next]_vars PROVE LinkInv'
  OBVIOUS
<1>1. CASE UNCHANGED vars
  <2>1. /\ UNCHANGED <<transport, lost, sent, wire, usb, part, buffer, size, port, queued>>
        /\ UNCHANGED <<handled, target, polled, writes, rest, written>>
    BY <1>1 DEF vars
  <2>2. SendInv'
    BY <2>1, SenderTypes DEF SendInv
  <2>3. QED
    BY <2>1, <2>2, SenderTypes, SenderStep
<1>2. CASE Send
  BY <1>2, PollSendStep, writeAllAccessoryStep, WriteErrorStep, PartWrittenStep DEF Send
<1>3. CASE Receive
  BY <1>3, UsbTransferStep, UsbReadStep, BtReadStep, HeaderReadStep, PayloadReadStep DEF Receive
<1>4. CASE AndroidWrite \/ Lost \/ ReadError \/ Handle
  BY <1>4, AndroidWriteStep, LostStep, ReadErrorStep, HandleStep
<1>5. QED
  BY <1>1, <1>2, <1>3, <1>4 DEF Next

\* The invariant holds always.
THEOREM LinkInvariant == Spec => []LinkInv
BY LinkInit, LinkNext, PTL DEF Spec

\* The receiver queues the frames Android wrote, and the connection carries the sender's
\* messages, whole, in order and byte by byte: bridge.c's framing and readAllAccessory.
THEOREM FramesIntactHolds == Spec => []FramesIntact
<1>1. LinkInv => FramesIntact
  <2> SUFFICES ASSUME LinkInv PROVE FramesIntact
    OBVIOUS
  <2>1. Received /\ Len(queued) \in Nat /\ Len(sent) \in Nat
    BY StreamTypes DEF LinkInv
  <2>2. \A i \in 1 .. Len(queued) :
          /\ i <= Len(sent)
          /\ queued[i] = [port |-> sent[i].port, payload |-> Payload(sent[i])]
    BY <2>1 DEF Received
  <2>3. IsPrefix(written, Stream(polled)) /\ (writes = "idle" => written = Stream(polled))
    BY SendInvPrefix
  <2>4. QED
    BY <2>2, <2>3 DEF FramesIntact, Stream
<1>2. QED
  BY <1>1, LinkInvariant, PTL

\* main applies a status to the port it is about, for the ports whose low byte is below
\* 128: the bytes of PortStatus.java and the signed shift of bridge.c together.
THEOREM StatusReachesPortHolds == Spec => []StatusReachesPort
<1>1. LinkInv => StatusReachesPort
  BY DEF LinkInv
<1>2. QED
  BY <1>1, LinkInvariant, PTL
=============================================================================
