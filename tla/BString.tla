------------------------------- MODULE BString -------------------------------
(***************************************************************************)
(* The managed strings of bStrLib, as far as the bridge uses them.  A      *)
(* bstring is a buffer of mlen bytes of which the first slen are the       *)
(* string.  A byte is a number that tells which literal or which argument  *)
(* it came from; what it spells is left out.  A store is done where the    *)
(* code does it: one behind mlen makes data longer than mlen, which no     *)
(* operator here would forgive.                                            *)
(*                                                                         *)
(* Every request for memory has an outcome `mem' of its own: "plenty" (the *)
(* size asked for), "tight" (only the exact size, the second attempt of    *)
(* balloc) or "none".                                                      *)
(***************************************************************************)
EXTENDS Integers, Sequences

CONSTANT MaxSnap    \* the sizes up to which SnapsUp compares snapUpSize

NUL == 0
JUNK == -1          \* a byte of fresh memory
Memory == {"plenty", "tight", "none"}

Fill(n, byte) == [i \in 1..n |-> byte]

\* The bytes of a bstring that are the string.
Text(b) == SubSeq(b.data, 1, b.slen)

\* memcpy of bytes to &b->data[at].
Store(b, at, bytes) ==
  LET end == at + Len(bytes)
      long == IF end > Len(b.data) THEN end ELSE Len(b.data)
  IN [b EXCEPT !.data = [i \in 1..long |->
        IF i \in at+1..end THEN bytes[i - at]
        ELSE IF i <= Len(b.data) THEN b.data[i] ELSE JUNK]]

\* Whether bit k of x is set, and the bits of either.
Bit(x, k) == (x \div 2^k) % 2 = 1
Or(x, y) ==
  LET low[k \in 0..31] ==      \* of the lowest k bits
        IF k = 0 THEN 0
        ELSE low[k-1] + (IF Bit(x, k-1) \/ Bit(y, k-1) THEN 2^(k-1) ELSE 0)
  IN low[31]

\* From 2^30 on j is 2^31, which is negative as an int.
MaxInt == 2147483647
snapUpSize(i) ==
  LET j1 == Or(i, i \div 2)
      j2 == Or(j1, j1 \div 4)
      j3 == Or(j2, j2 \div 16)
      j4 == Or(j3, j3 \div 256)
      j5 == Or(j4, j4 \div 65536)
      j  == j5 + 1
  IN IF i < 8 THEN 8 ELSE IF j \in i..MaxInt THEN j ELSE i

\* What snapUpSize is for: the least power of two above i, and 8 at least.
ASSUME SnapsUp ==
  \A i \in 0..MaxSnap :
    snapUpSize(i) = CHOOSE p \in {2^k : k \in 3..30} :
                      /\ i < p
                      /\ \A q \in {2^k : k \in 3..30} : i < q => p <= q

\* Whether balloc(b, olen) has to ask for memory.
Grows(b, olen) == olen >= b.mlen /\ snapUpSize(olen) > b.mlen

balloc(b, olen, mem) ==
  LET len == IF mem = "plenty" THEN snapUpSize(olen) ELSE olen
      moved == [data |-> Text(b) \o Fill(len - b.slen, JUNK),
                slen |-> b.slen, mlen |-> len]
  IN IF Grows(b, olen) /\ mem # "none"
     THEN Store(moved, b.slen, <<NUL>>)
     ELSE b

Refused(b, olen, mem) == Grows(b, olen) /\ mem = "none"

bfromcstr(str) ==
  LET len == Len(str)
      size == snapUpSize(len + (IF len = 0 THEN 2 ELSE 1))
  IN Store([data |-> Fill(size, JUNK), slen |-> len, mlen |-> size],
           0, str \o <<NUL>>)

\* MUTANT of bconchar: no room asked for the terminator.
bconcharTight(b, c, mem) ==
  IF Refused(b, b.slen + 1, mem) THEN b
  ELSE [Store(balloc(b, b.slen + 1, mem), b.slen, <<c, NUL>>)
          EXCEPT !.slen = b.slen + 1]

bconchar(b, c, mem) ==
  IF Refused(b, b.slen + 2, mem) THEN b
  ELSE [Store(balloc(b, b.slen + 2, mem), b.slen, <<c, NUL>>)
          EXCEPT !.slen = b.slen + 1]

bcatblk(b, s, mem) ==
  LET nl == b.slen + Len(s)
      room == IF b.mlen <= nl THEN balloc(b, nl + 1, mem) ELSE b
  IN IF b.mlen <= nl /\ Refused(b, nl + 1, mem) THEN b
     ELSE [Store(room, b.slen, s \o <<NUL>>) EXCEPT !.slen = nl]

\* MUTANT of bcatcstr: the tail starts over at the beginning.
bcatcstrWhole(b, s, mem) ==
  LET l == b.mlen - b.slen
      full == [Store(b, b.slen, SubSeq(s, 1, l)) EXCEPT !.slen = b.mlen]
  IN IF Len(s) < l
     THEN [Store(b, b.slen, s \o <<NUL>>) EXCEPT !.slen = b.slen + Len(s)]
     ELSE bcatblk(full, s, mem)

\* Copies straight into the buffer and asks for more only when that is full:
\* the string then has no terminator until bcatblk gets the memory, and
\* keeps its first part when it does not.
bcatcstr(b, s, mem) ==
  LET l == b.mlen - b.slen
      full == [Store(b, b.slen, SubSeq(s, 1, l)) EXCEPT !.slen = b.mlen]
  IN IF Len(s) < l
     THEN [Store(b, b.slen, s \o <<NUL>>) EXCEPT !.slen = b.slen + Len(s)]
     ELSE bcatblk(full, SubSeq(s, l + 1, Len(s)), mem)

\* A C string ends at its first NUL; the NULs of the bstring become z.
bstr2cstr(b, z) ==
  [i \in 1..b.slen + 1 |-> IF i > b.slen THEN NUL
                           ELSE IF b.data[i] = NUL THEN z ELSE b.data[i]]

=============================================================================
