------------------------- MODULE AccessoryAudioProofs -------------------------
(***************************************************************************)
(* A phone is heard once, and nothing but phones is, for any number of     *)
(* sources and of lists under way.                                         *)
(***************************************************************************)
EXTENDS AccessoryAudio, FiniteSetTheorems, SequenceTheorems, WellFoundedInduction, TLAPS

-----------------------------------------------------------------------------
(* The inductive invariant.                                                *)

Sources == UNION {[D -> Kinds] : D \in SUBSET Nat}
Asks == [type : {"subscribe", "list", "load"}, source : Nat]
Tells == {Event("new"), Event("remove")} \union {SourceList(f) : f \in Sources}

AudioType ==
  /\ last \in Nat /\ last <= MaxSources
  /\ lastIndexChecked \in Nat /\ lastIndexChecked <= last
  /\ toServer \in Seq(Asks) /\ toClient \in Seq(Tells)
  /\ sources \in Sources
  /\ loops \in [0 .. MaxSources -> Nat]

\* A list under way is one of sources the server has had, and what is still there is
\* what the list says it is.
Known(list) ==
  /\ 0 \in DOMAIN list /\ DOMAIN list \subseteq 0 .. last
  /\ \A i \in DOMAIN list \intersect DOMAIN sources : list[i] = sources[i]

ListsInv ==
  /\ Known(sources)
  /\ \A k \in 1 .. Len(toClient) : toClient[k].type = "list" => Known(toClient[k].list)

\* The requests of a queue to load a loopback are for different sources, of those that
\* were looked at, which are phones if they are still there and have no loopback yet.
Once(queue, checked, there, loaded) ==
  \A n \in 1 .. Len(queue) : queue[n].type = "load" =>
    LET i == queue[n].source
    IN  /\ i <= checked
        /\ i \in DOMAIN there => there[i] = "accessory"
        /\ loaded[i] = 0
        /\ \A m \in 1 .. Len(queue) : queue[m] = queue[n] => m = n

AskedInv == Once(toServer, lastIndexChecked, sources, loops)

\* A source with a loopback was looked at, is there and is a phone.
LoadedInv ==
  \A i \in 0 .. MaxSources : loops[i] # 0 =>
    loops[i] = 1 /\ i <= lastIndexChecked /\ i \in DOMAIN sources /\ sources[i] = "accessory"

AudioInv == AudioType /\ ListsInv /\ AskedInv /\ LoadedInv

-----------------------------------------------------------------------------
(* Sets of numbers and queues.                                             *)

\* A set of natural numbers that is not empty and has a bound has a greatest element.
LEMMA GreatestNatural ==
  ASSUME NEW b \in Nat, NEW S \in SUBSET (0 .. b), S # {}
  PROVE  Max(S) \in S /\ \A n \in S : n <= Max(S)
<1> DEFINE T == {n \in Nat : \A k \in S : k <= n}
<1>1. \E m \in T : \A n \in T : <<n, m>> \notin OpToRel(<, Nat)
  <2>1. T \subseteq Nat /\ b \in T
    OBVIOUS
  <2>2. QED
    BY <2>1, NatLessThanWellFounded, WFMin
<1>2. PICK m \in T : \A n \in T : <<n, m>> \notin OpToRel(<, Nat)
  BY <1>1
<1>3. m \in S
  <2>1. SUFFICES ASSUME m \notin S PROVE FALSE
    OBVIOUS
  <2>2. PICK k \in S : TRUE
    OBVIOUS
  <2>3. k \in Nat /\ \A i \in S : i \in Nat /\ i <= m /\ i # m
    BY <2>1
  <2>4. m - 1 \in T /\ m - 1 < m
    BY <2>2, <2>3
  <2>5. <<m - 1, m>> \in OpToRel(<, Nat)
    BY <2>4 DEF OpToRel
  <2>6. QED
    BY <1>2, <2>4, <2>5
<1>4. \A n \in S : m >= n
  OBVIOUS
<1>5. \E x \in S : \A y \in S : x >= y
  BY <1>3, <1>4
<1>6. Max(S) \in S /\ \A y \in S : Max(S) >= y
  BY <1>5 DEF Max
<1>7. QED
  BY <1>6

\* What the first message leaves behind.
LEMMA TailFacts ==
  ASSUME NEW S, NEW s \in Seq(S), s # << >>
  PROVE  /\ Head(s) \in S /\ Head(s) = s[1] /\ Tail(s) \in Seq(S)
         /\ Len(s) \in Nat /\ 1 \in 1 .. Len(s) /\ Len(Tail(s)) = Len(s) - 1
         /\ \A k \in 1 .. Len(Tail(s)) : k + 1 \in 1 .. Len(s) /\ Tail(s)[k] = s[k + 1]
BY HeadTailProperties, EmptySeq

\* What the messages are.
LEMMA TellsFacts ==
  ASSUME NEW m \in Tells
  PROVE  /\ m.type \in {"new", "remove", "list"}
         /\ m.type = "list" => m.list \in Sources
<1>1. CASE m \in {Event("new"), Event("remove")}
  <2>1. PICK t \in {"new", "remove"} : m = Event(t)
    BY <1>1
  <2>2. m.type = t
    BY <2>1 DEF Event
  <2>3. t # "list"
    OBVIOUS
  <2>4. QED
    BY <2>2, <2>3
<1>2. CASE m \in {SourceList(f) : f \in Sources}
  <2>1. PICK f \in Sources : m = SourceList(f)
    BY <1>2
  <2>2. QED
    BY <2>1 DEF SourceList
<1>3. QED
  BY <1>1, <1>2 DEF Tells

\* A function that is one of sources.
LEMMA SourcesFacts ==
  ASSUME NEW f
  PROVE  f \in Sources <=> f \in [DOMAIN f -> Kinds] /\ DOMAIN f \subseteq Nat
BY DEF Sources

-----------------------------------------------------------------------------
(* Each action keeps the invariant.                                        *)

\* What it says of a state depends on these variables only.
LEMMA AudioSame ==
  ASSUME AudioInv, UNCHANGED <<lastIndexChecked, sources, last, loops, toServer, toClient>>
  PROVE  AudioInv'
BY DEF AudioInv, AudioType, ListsInv, Known, AskedInv, Once, LoadedInv

\* A message to the client that is not a list.
LEMMA NotifyKeeps ==
  ASSUME AudioType, ListsInv, NEW t \in {"new", "remove"}, Notify(t)
  PROVE  /\ toClient' \in Seq(Tells)
         /\ \A k \in 1 .. Len(toClient') : toClient'[k].type = "list" =>
              k \in 1 .. Len(toClient) /\ toClient'[k] = toClient[k]
<1>1. PICK c \in Seq(Tells), e \in Tells : c = toClient /\ e = Event(t) /\ e.type # "list"
  <2>1. Event(t) \in Tells /\ Event(t).type = t
    BY DEF Tells, Event
  <2>2. t # "list"
    OBVIOUS
  <2>3. QED
    BY <2>1, <2>2 DEF AudioType
<1>2. CASE subscribed
  <2>1. toClient' = Append(c, e)
    BY <1>1, <1>2 DEF Notify
  <2>2. /\ Append(c, e) \in Seq(Tells) /\ Len(Append(c, e)) = Len(c) + 1 /\ Len(c) \in Nat
        /\ \A k \in 1 .. Len(c) : Append(c, e)[k] = c[k]
        /\ Append(c, e)[Len(c) + 1] = e
    BY AppendProperties
  <2>3. ASSUME NEW k \in 1 .. Len(c) + 1, Append(c, e)[k].type = "list"
        PROVE  k \in 1 .. Len(c) /\ Append(c, e)[k] = c[k]
    <3>1. k # Len(c) + 1
      BY <1>1, <2>2, <2>3
    <3>2. k \in 1 .. Len(c)
      <4>1. Len(c) \in Nat
        OBVIOUS
      <4>2. QED
        BY <3>1, <4>1
    <3>3. QED
      BY <2>2, <3>1, <3>2
  <2>4. QED
    BY <1>1, <2>1, <2>2, <2>3
<1>3. CASE ~subscribed
  <2>1. toClient' = toClient
    BY <1>3 DEF Notify
  <2>2. QED
    BY <1>1, <2>1
<1>4. QED
  BY <1>2, <1>3

\* A source appears: it has a number no list has yet.
LEMMA NewSourceStep == AudioInv /\ NewSource => AudioInv'
<1> SUFFICES ASSUME AudioInv, NewSource PROVE AudioInv'
  OBVIOUS
<1>1. AudioType /\ ListsInv /\ AskedInv /\ LoadedInv
  BY DEF AudioInv
<1>2. /\ last < MaxSources /\ last' = last + 1 /\ Notify("new")
      /\ UNCHANGED <<lastIndexChecked, loops, toServer>>
  BY DEF NewSource
<1>num. PICK b \in Nat : b = last /\ last' = b + 1 /\ b + 1 <= MaxSources /\ lastIndexChecked <= b + 1
  <2>1. MaxSources \in Nat /\ last \in Nat /\ lastIndexChecked \in Nat /\ lastIndexChecked <= last
    BY <1>1, AudioAssumption DEF AudioType
  <2>2. last + 1 <= MaxSources /\ lastIndexChecked <= last + 1
    BY <1>2, <2>1
  <2>3. QED
    BY <1>2, <2>1, <2>2
<1>3. PICK kind \in Kinds :
        sources' = [i \in DOMAIN sources \union {last + 1} |->
                      IF i = last + 1 THEN kind ELSE sources[i]]
  BY DEF NewSource
<1>4. /\ last \in Nat /\ last <= MaxSources /\ lastIndexChecked \in Nat /\ lastIndexChecked <= last
      /\ sources \in [DOMAIN sources -> Kinds] /\ 0 \in DOMAIN sources
      /\ DOMAIN sources \subseteq 0 .. last
  BY <1>1, SourcesFacts DEF AudioType, ListsInv, Known
<1>5. /\ DOMAIN sources' = DOMAIN sources \union {last + 1}
      /\ \A i \in DOMAIN sources : sources'[i] = sources[i]
      /\ sources' \in [DOMAIN sources' -> Kinds] /\ DOMAIN sources' \subseteq 0 .. last'
      /\ last + 1 \notin DOMAIN sources
  <2>1. \A i \in 0 .. last : i \in 0 .. last + 1 /\ i # last + 1
    BY <1>4
  <2>2. last + 1 \in 0 .. last + 1
    BY <1>4
  <2>3. last + 1 \notin DOMAIN sources /\ DOMAIN sources \subseteq 0 .. last + 1
    BY <1>4, <2>1
  <2>4. DOMAIN sources' = DOMAIN sources \union {last + 1}
    BY <1>3
  <2>5. \A i \in DOMAIN sources : sources'[i] = sources[i]
    BY <1>3, <2>3
  <2>6. sources' \in [DOMAIN sources' -> Kinds]
    BY <1>3, <1>4
  <2>7. QED
    BY <1>2, <2>2, <2>3, <2>4, <2>5, <2>6
<1>6. sources' \in Sources
  <2>1. DOMAIN sources' \subseteq Nat
    <3>1. \A i \in 0 .. last' : i \in Nat
      BY <1>num
    <3>2. QED
      BY <1>5, <3>1
  <2>2. QED
    BY <1>5, <2>1, SourcesFacts
<1>7. /\ toClient' \in Seq(Tells)
      /\ \A k \in 1 .. Len(toClient') : toClient'[k].type = "list" =>
           k \in 1 .. Len(toClient) /\ toClient'[k] = toClient[k]
  BY <1>1, <1>2, NotifyKeeps
<1>8. AudioType'
  <2>1. last' \in Nat /\ last' <= MaxSources /\ lastIndexChecked <= last'
    BY <1>num
  <2>2. QED
    BY <1>1, <1>2, <1>6, <1>7, <2>1 DEF AudioType
<1>9. ListsInv'
  <2>1. ASSUME NEW f, Known(f) PROVE Known(f)'
    <3>1. /\ 0 \in DOMAIN f /\ DOMAIN f \subseteq 0 .. last
          /\ \A i \in DOMAIN f \intersect DOMAIN sources : f[i] = sources[i]
      BY <2>1 DEF Known
    <3>2. DOMAIN f \subseteq 0 .. last' /\ last + 1 \notin DOMAIN f
      <4>1. \A i \in 0 .. last : i \in 0 .. last' /\ i # last + 1
        BY <1>num
      <4>2. QED
        BY <3>1, <4>1
    <3>3. QED
      BY <1>5, <3>1, <3>2 DEF Known
  <2>2. Known(sources)'
    BY <1>4, <1>5 DEF Known
  <2>3. QED
    BY <1>1, <1>7, <2>1, <2>2 DEF ListsInv
<1>10. AskedInv'
  <2>1. \A i : i \in DOMAIN sources' /\ i <= lastIndexChecked => i \in DOMAIN sources
    BY <1>4, <1>5
  <2>2. QED
    BY <1>1, <1>2, <1>5, <2>1 DEF AskedInv, Once
<1>11. LoadedInv'
  BY <1>1, <1>2, <1>5 DEF LoadedInv
<1>12. QED
  BY <1>8, <1>9, <1>10, <1>11 DEF AudioInv

\* A source goes, and its loopback with it.
LEMMA RemoveSourceStep == AudioInv /\ RemoveSource => AudioInv'
<1> SUFFICES ASSUME AudioInv, RemoveSource PROVE AudioInv'
  OBVIOUS
<1>1. AudioType /\ ListsInv /\ AskedInv /\ LoadedInv
  BY DEF AudioInv
<1>2. /\ Notify("remove") /\ UNCHANGED <<lastIndexChecked, last, toServer>>
  BY DEF RemoveSource
<1>3. PICK i \in DOMAIN sources \ {0} : /\ sources' = [j \in DOMAIN sources \ {i} |-> sources[j]]
                                        /\ loops' = [loops EXCEPT ![i] = 0]
  BY DEF RemoveSource
<1>4. /\ last \in Nat /\ last <= MaxSources /\ loops \in [0 .. MaxSources -> Nat]
      /\ sources \in [DOMAIN sources -> Kinds] /\ 0 \in DOMAIN sources
      /\ DOMAIN sources \subseteq 0 .. last
  BY <1>1, SourcesFacts DEF AudioType, ListsInv, Known
<1>5. /\ DOMAIN sources' = DOMAIN sources \ {i}
      /\ \A j \in DOMAIN sources' : sources'[j] = sources[j]
      /\ sources' \in [DOMAIN sources' -> Kinds] /\ 0 \in DOMAIN sources'
  BY <1>3, <1>4
<1>6. sources' \in Sources
  <2>1. DOMAIN sources' \subseteq Nat
    BY <1>4, <1>5
  <2>2. QED
    BY <1>5, <2>1, SourcesFacts
<1>7. /\ loops' \in [0 .. MaxSources -> Nat]
      /\ \A j \in 0 .. MaxSources : loops'[j] = IF j = i THEN 0 ELSE loops[j]
  BY <1>3, <1>4
<1>8. /\ toClient' \in Seq(Tells)
      /\ \A k \in 1 .. Len(toClient') : toClient'[k].type = "list" =>
           k \in 1 .. Len(toClient) /\ toClient'[k] = toClient[k]
  BY <1>1, <1>2, NotifyKeeps
<1>9. AudioType'
  BY <1>1, <1>2, <1>6, <1>7, <1>8 DEF AudioType
<1>10. ListsInv'
  <2>1. ASSUME NEW f, Known(f) PROVE Known(f)'
    BY <1>2, <1>5, <2>1 DEF Known
  <2>2. Known(sources)'
    BY <1>2, <1>4, <1>5 DEF Known
  <2>3. QED
    BY <1>1, <1>8, <2>1, <2>2 DEF ListsInv
<1>11. AskedInv'
  <2>1. \A j \in Nat : j <= lastIndexChecked => j \in 0 .. MaxSources
    BY <1>1, AudioAssumption DEF AudioType
  <2>2. \A n \in 1 .. Len(toServer) : toServer[n].source \in Nat
    <3>1. \A a \in Asks : a.source \in Nat
      BY DEF Asks
    <3>2. \A n \in 1 .. Len(toServer) : toServer[n] \in Asks
      BY <1>1 DEF AudioType
    <3>3. QED
      BY <3>1, <3>2
  <2>3. QED
    BY <1>1, <1>2, <1>5, <1>7, <2>1, <2>2 DEF AskedInv, Once
<1>12. LoadedInv'
  BY <1>1, <1>2, <1>5, <1>7 DEF LoadedInv
<1>13. QED
  BY <1>9, <1>10, <1>11, <1>12 DEF AudioInv

\* A queue of requests without its first one.
LEMMA AskedTail ==
  ASSUME AudioType, AskedInv, toServer # << >>
  PROVE  /\ Tail(toServer) \in Seq(Asks) /\ Head(toServer) \in Asks
         /\ \A n \in 1 .. Len(Tail(toServer)) : Tail(toServer)[n].type = "load" =>
              LET i == Tail(toServer)[n].source
              IN  /\ i <= lastIndexChecked
                  /\ i \in DOMAIN sources => sources[i] = "accessory"
                  /\ loops[i] = 0
                  /\ Tail(toServer)[n] # Head(toServer)
                  /\ \A m \in 1 .. Len(Tail(toServer)) :
                       Tail(toServer)[m] = Tail(toServer)[n] => m = n
<1>1. PICK s \in Seq(Asks) : s = toServer /\ s # << >>
  BY DEF AudioType
<1>2. /\ Head(s) \in Asks /\ Head(s) = s[1] /\ Tail(s) \in Seq(Asks) /\ 1 \in 1 .. Len(s)
      /\ \A k \in 1 .. Len(Tail(s)) : k + 1 \in 1 .. Len(s) /\ Tail(s)[k] = s[k + 1]
  BY <1>1, TailFacts
<1>3. ASSUME NEW n \in 1 .. Len(Tail(s)), Tail(s)[n].type = "load"
      PROVE  LET i == Tail(s)[n].source
             IN  /\ i <= lastIndexChecked
                 /\ i \in DOMAIN sources => sources[i] = "accessory"
                 /\ loops[i] = 0
                 /\ \A m \in 1 .. Len(s) : s[m] = Tail(s)[n] => m = n + 1
  BY <1>1, <1>2, <1>3 DEF AskedInv, Once
<1>4. ASSUME NEW n \in 1 .. Len(Tail(s)), Tail(s)[n].type = "load"
      PROVE  /\ Tail(s)[n] # Head(s)
             /\ \A m \in 1 .. Len(Tail(s)) : Tail(s)[m] = Tail(s)[n] => m = n
  <2>1. \A m \in 1 .. Len(s) : s[m] = Tail(s)[n] => m = n + 1
    BY <1>3, <1>4
  <2>2. 1 # n + 1 /\ \A m \in 1 .. Len(Tail(s)) : m + 1 = n + 1 => m = n
    OBVIOUS
  <2>3. QED
    BY <1>2, <2>1, <2>2
<1>5. QED
  BY <1>1, <1>2, <1>3, <1>4

\* The server answers a request.
LEMMA AnswerStep == AudioInv /\ Answer => AudioInv'
<1> SUFFICES ASSUME AudioInv, Answer PROVE AudioInv'
  OBVIOUS
<1>1. AudioType /\ ListsInv /\ AskedInv /\ LoadedInv
  BY DEF AudioInv
<1>2. PICK r : r = Head(toServer)
  OBVIOUS
<1>3. /\ toServer # << >> /\ toServer' = Tail(toServer)
      /\ toClient' = IF r.type = "list" THEN Append(toClient, SourceList(sources)) ELSE toClient
      /\ loops' = IF r.type = "load" /\ r.source \in DOMAIN sources
                  THEN [loops EXCEPT ![r.source] = @ + 1] ELSE loops
      /\ UNCHANGED <<lastIndexChecked, sources, last>>
  BY <1>2 DEF Answer
<1>4. toServer' \in Seq(Asks) /\ r \in Asks
  BY <1>1, <1>2, <1>3, AskedTail
<1>5. loops \in [0 .. MaxSources -> Nat] /\ DOMAIN sources \subseteq 0 .. MaxSources
  <2>1. MaxSources \in Nat /\ last \in Nat /\ last <= MaxSources
    BY <1>1, AudioAssumption DEF AudioType
  <2>2. DOMAIN sources \subseteq 0 .. last
    BY <1>1 DEF ListsInv, Known
  <2>3. \A i \in 0 .. last : i \in 0 .. MaxSources
    BY <2>1
  <2>4. QED
    BY <1>1, <2>2, <2>3 DEF AudioType
<1>6. PICK c \in Seq(Tells), m \in Tells :
        c = toClient /\ m = SourceList(sources) /\ m.list = sources
  <2>1. SourceList(sources) \in Tells
    BY <1>1 DEF AudioType, Tells
  <2>2. SourceList(sources).list = sources
    BY DEF SourceList
  <2>3. QED
    BY <1>1, <2>1, <2>2 DEF AudioType
<1>7. /\ toClient' \in Seq(Tells)
      /\ \A k \in 1 .. Len(toClient') : \/ k \in 1 .. Len(toClient) /\ toClient'[k] = toClient[k]
                                        \/ toClient'[k].list = sources
  <2>1. /\ Append(c, m) \in Seq(Tells) /\ Len(Append(c, m)) = Len(c) + 1 /\ Len(c) \in Nat
        /\ \A k \in 1 .. Len(c) : Append(c, m)[k] = c[k]
        /\ Append(c, m)[Len(c) + 1] = m
    BY AppendProperties
  <2>2. \A k \in 1 .. Len(c) + 1 : k \in 1 .. Len(c) \/ k = Len(c) + 1
    BY <2>1
  <2>3. \A k \in 1 .. Len(Append(c, m)) : \/ k \in 1 .. Len(c) /\ Append(c, m)[k] = c[k]
                                          \/ Append(c, m)[k].list = sources
    BY <1>6, <2>1, <2>2
  <2>4. toClient' = c \/ toClient' = Append(c, m)
    BY <1>3, <1>6
  <2>5. QED
    BY <1>6, <2>1, <2>3, <2>4
<1>8. loops' \in [0 .. MaxSources -> Nat]
  BY <1>3, <1>5
<1>9. AudioType'
  BY <1>1, <1>3, <1>4, <1>7, <1>8 DEF AudioType
<1>10. ListsInv'
  <2>1. \A f : Known(f)' <=> Known(f)
    BY <1>3 DEF Known
  <2>2. QED
    BY <1>1, <1>3, <1>7, <2>1 DEF ListsInv
<1>11. \A a, b \in Asks : a.type = b.type /\ a.source = b.source => a = b
  BY DEF Asks
<1>12. \A i \in 0 .. MaxSources :
         loops'[i] = IF r.type = "load" /\ r.source \in DOMAIN sources /\ i = r.source
                     THEN loops[i] + 1 ELSE loops[i]
  BY <1>3, <1>5
<1>13. r.type = "load" => /\ r.source <= lastIndexChecked /\ loops[r.source] = 0
                          /\ r.source \in DOMAIN sources => sources[r.source] = "accessory"
  <2>1. 1 \in 1 .. Len(toServer) /\ toServer[1] = r
    BY <1>1, <1>2, <1>3, TailFacts DEF AudioType
  <2>2. QED
    BY <1>1, <2>1 DEF AskedInv, Once
<1>14. AskedInv'
  <2>1. ASSUME NEW n \in 1 .. Len(toServer'), toServer'[n].type = "load"
        PROVE  loops'[toServer'[n].source] = 0
    <3>1. toServer'[n] # r /\ loops[toServer'[n].source] = 0 /\ toServer'[n].source <= lastIndexChecked
      BY <1>1, <1>2, <1>3, <2>1, AskedTail
    <3>2. toServer'[n] \in Asks
      BY <1>4
    <3>3. r.type = "load" => toServer'[n].source # r.source
      BY <1>4, <1>11, <2>1, <3>1, <3>2
    <3>4. toServer'[n].source \in 0 .. MaxSources
      <4>1. toServer'[n].source \in Nat
        BY <3>2 DEF Asks
      <4>2. lastIndexChecked \in Nat /\ lastIndexChecked <= last /\ last \in Nat /\ last <= MaxSources
        BY <1>1 DEF AudioType
      <4>3. MaxSources \in Nat
        BY AudioAssumption
      <4>4. QED
        BY <3>1, <4>1, <4>2, <4>3
    <3>5. QED
      BY <1>12, <3>1, <3>3, <3>4
  <2>2. QED
    BY <1>1, <1>3, <2>1, AskedTail DEF AskedInv, Once
<1>15. LoadedInv'
  <2>1. ASSUME NEW i \in 0 .. MaxSources, loops'[i] # 0
        PROVE  /\ loops'[i] = 1 /\ i <= lastIndexChecked
               /\ i \in DOMAIN sources /\ sources[i] = "accessory"
    <3>1. CASE r.type = "load" /\ r.source \in DOMAIN sources /\ i = r.source
      BY <1>12, <1>13, <2>1, <3>1
    <3>2. CASE ~(r.type = "load" /\ r.source \in DOMAIN sources /\ i = r.source)
      BY <1>1, <1>12, <2>1, <3>2 DEF LoadedInv
    <3>3. QED
      BY <3>1, <3>2
  <2>2. QED
    BY <1>3, <2>1 DEF LoadedInv
<1>16. QED
  BY <1>9, <1>10, <1>14, <1>15 DEF AudioInv

\* A queue to the server without requests to load.
LEMMA NoLoads ==
  ASSUME AudioInv, UNCHANGED <<lastIndexChecked, sources, last, loops>>,
         toServer' \in Seq(Asks), \A n \in 1 .. Len(toServer') : toServer'[n].type # "load",
         toClient' \in {toClient, << >>}
  PROVE  AudioInv'
<1>1. AudioType /\ ListsInv /\ LoadedInv
  BY DEF AudioInv
<1>2. toClient' \in Seq(Tells) /\ (toClient' = toClient \/ Len(toClient') = 0)
  BY <1>1, EmptySeq DEF AudioType
<1>3. AudioType'
  BY <1>1, <1>2 DEF AudioType
<1>4. ListsInv'
  <2>1. \A f : Known(f)' <=> Known(f)
    BY DEF Known
  <2>2. QED
    BY <1>1, <1>2, <2>1 DEF ListsInv
<1>5. AskedInv'
  BY DEF AskedInv, Once
<1>6. LoadedInv'
  BY <1>1 DEF LoadedInv
<1>7. QED
  BY <1>3, <1>4, <1>5, <1>6 DEF AudioInv

\* The server ends.
LEMMA ServerFailsStep == AudioInv /\ ServerFails => AudioInv'
<1> SUFFICES ASSUME AudioInv, ServerFails PROVE AudioInv'
  OBVIOUS
<1>1. /\ UNCHANGED <<lastIndexChecked, sources, last, loops>>
      /\ toServer' = << >> /\ toClient' = << >>
  BY DEF ServerFails, server
<1>2. << >> \in Seq(Asks) /\ Len(<< >>) = 0
  BY EmptySeq
<1>3. QED
  BY <1>1, <1>2, NoLoads

\* The client becomes ready.
LEMMA on_new_context_stateStep == AudioInv /\ on_new_context_state => AudioInv'
<1> SUFFICES ASSUME AudioInv, on_new_context_state PROVE AudioInv'
  OBVIOUS
<1>1. /\ UNCHANGED <<lastIndexChecked, sources, last, loops, toClient>>
      /\ toServer' \in {accessory_audio_ready, toServer}
  BY DEF on_new_context_state, server
<1>2. CASE toServer' = toServer
  BY <1>1, <1>2, AudioSame
<1>3. CASE toServer' = accessory_audio_ready
  <2>1. PICK a \in Asks, b \in Asks :
          a = Request("subscribe") /\ b = Request("list") /\ a.type # "load" /\ b.type # "load"
    <3>1. Request("subscribe") \in Asks /\ Request("subscribe").type = "subscribe"
      BY DEF Request, Asks
    <3>2. Request("list") \in Asks /\ Request("list").type = "list"
      BY DEF Request, Asks
    <3>3. QED
      BY <3>1, <3>2
  <2>2. toServer' = <<a, b>>
    BY <1>3, <2>1 DEF accessory_audio_ready
  <2>3. toServer' \in Seq(Asks) /\ \A n \in 1 .. Len(toServer') : toServer'[n].type # "load"
    BY <2>1, <2>2
  <2>4. QED
    BY <1>1, <2>3, NoLoads
<1>4. QED
  BY <1>1, <1>2, <1>3

\* What the client has still to hear, without the first message.
LEMMA ListsTail ==
  ASSUME AudioType, ListsInv, toClient # << >>
  PROVE  /\ Tail(toClient) \in Seq(Tells) /\ Head(toClient) \in Tells
         /\ Head(toClient).type = "list" => Known(Head(toClient).list)
         /\ \A k \in 1 .. Len(Tail(toClient)) :
              Tail(toClient)[k].type = "list" => Known(Tail(toClient)[k].list)
<1>1. PICK s \in Seq(Tells) : s = toClient /\ s # << >>
  BY DEF AudioType
<1>2. /\ Head(s) \in Tells /\ Head(s) = s[1] /\ Tail(s) \in Seq(Tells) /\ 1 \in 1 .. Len(s)
      /\ \A k \in 1 .. Len(Tail(s)) : k + 1 \in 1 .. Len(s) /\ Tail(s)[k] = s[k + 1]
  BY <1>1, TailFacts
<1>3. \A k \in 1 .. Len(s) : s[k].type = "list" => Known(s[k].list)
  BY <1>1 DEF ListsInv
<1>4. QED
  BY <1>1, <1>2, <1>3

\* Requests for sources that were not looked at before come behind the others.
LEMMA OnceMore ==
  ASSUME NEW s \in Seq(Asks), NEW t \in Seq(Asks), NEW a \in Nat, NEW b \in Nat, a <= b,
         NEW f, NEW g, Once(s, a, f, g), Once(t, b, f, g),
         \A n \in 1 .. Len(t) : t[n].type = "load" => a < t[n].source
  PROVE  Once(s \o t, b, f, g)
<1>1. PICK u \in Seq(Asks) :
        /\ u = s \o t /\ Len(u) = Len(s) + Len(t)
        /\ \A n \in 1 .. Len(s) + Len(t) : u[n] = IF n <= Len(s) THEN s[n] ELSE t[n - Len(s)]
  <2>1. /\ s \o t \in Seq(Asks) /\ Len(s \o t) = Len(s) + Len(t)
        /\ \A n \in 1 .. Len(s) + Len(t) :
             (s \o t)[n] = IF n <= Len(s) THEN s[n] ELSE t[n - Len(s)]
    BY ConcatProperties
  <2>2. QED
    BY <2>1
<1>2. \A n \in 1 .. Len(u) :
        \/ n \in 1 .. Len(s) /\ u[n] = s[n]
        \/ n - Len(s) \in 1 .. Len(t) /\ u[n] = t[n - Len(s)]
  <2>1. \A n \in 1 .. Len(s) + Len(t) : \/ n \in 1 .. Len(s) /\ n <= Len(s)
                                        \/ n - Len(s) \in 1 .. Len(t) /\ ~(n <= Len(s))
    OBVIOUS
  <2>2. QED
    BY <1>1, <2>1
<1>3. /\ \A n \in 1 .. Len(s) : s[n].source \in Nat
      /\ \A n \in 1 .. Len(t) : t[n].source \in Nat
  <2>1. \A m \in Asks : m.source \in Nat
    BY DEF Asks
  <2>2. QED
    BY <2>1
<1>4. \A n \in 1 .. Len(s) : s[n].type = "load" =>
        /\ s[n].source <= a /\ g[s[n].source] = 0
        /\ s[n].source \in DOMAIN f => f[s[n].source] = "accessory"
        /\ \A m \in 1 .. Len(s) : s[m] = s[n] => m = n
  BY DEF Once
<1>5. \A n \in 1 .. Len(t) : t[n].type = "load" =>
        /\ t[n].source <= b /\ g[t[n].source] = 0
        /\ t[n].source \in DOMAIN f => f[t[n].source] = "accessory"
        /\ \A m \in 1 .. Len(t) : t[m] = t[n] => m = n
  BY DEF Once
<1>6. ASSUME NEW n \in 1 .. Len(s), NEW m \in 1 .. Len(t), s[n] = t[m], s[n].type = "load"
      PROVE  FALSE
  <2>1. s[n].source <= a /\ a < s[n].source /\ s[n].source \in Nat
    BY <1>3, <1>4, <1>6
  <2>2. QED
    BY <2>1
<1>7. ASSUME NEW n \in 1 .. Len(u), u[n].type = "load"
      PROVE  /\ u[n].source <= b /\ g[u[n].source] = 0
             /\ u[n].source \in DOMAIN f => f[u[n].source] = "accessory"
             /\ \A m \in 1 .. Len(u) : u[m] = u[n] => m = n
  <2>1. CASE n \in 1 .. Len(s) /\ u[n] = s[n]
    <3>1. s[n].source <= b
      BY <1>3, <1>4, <1>7, <2>1
    <3>2. \A m \in 1 .. Len(u) : u[m] = s[n] => m = n
      BY <1>2, <1>4, <1>6, <1>7, <2>1
    <3>3. QED
      BY <1>4, <1>7, <2>1, <3>1, <3>2
  <2>2. CASE n - Len(s) \in 1 .. Len(t) /\ u[n] = t[n - Len(s)]
    <3>1. PICK k \in 1 .. Len(t) : k = n - Len(s) /\ u[n] = t[k] /\ t[k].type = "load"
      BY <1>7, <2>2
    <3>2. ASSUME NEW m \in 1 .. Len(u), u[m] = t[k] PROVE m = n
      <4>1. m - Len(s) \in 1 .. Len(t) /\ t[m - Len(s)] = t[k]
        BY <1>2, <1>6, <3>1, <3>2
      <4>2. m - Len(s) = k
        BY <1>5, <3>1, <4>1
      <4>3. Len(s) \in Nat
        OBVIOUS
      <4>4. QED
        BY <3>1, <4>2, <4>3
    <3>3. QED
      BY <1>5, <3>1, <3>2
  <2>3. QED
    BY <1>2, <2>1, <2>2
<1>8. Once(u, b, f, g)
  BY <1>7 DEF Once
<1>9. QED
  BY <1>1, <1>8

\* Requests of the client, to load loopbacks for phones it has not looked at yet.
LEMMA AskedMore ==
  ASSUME AudioInv, UNCHANGED <<sources, last, loops>>,
         toClient # << >>, toClient' = Tail(toClient),
         lastIndexChecked' \in Nat, lastIndexChecked <= lastIndexChecked', lastIndexChecked' <= last,
         NEW t \in Seq(Asks), toServer' = toServer \o t,
         Once(t, lastIndexChecked', sources, loops),
         \A n \in 1 .. Len(t) : t[n].type = "load" => lastIndexChecked < t[n].source
  PROVE  AudioInv'
<1>1. AudioType /\ ListsInv /\ AskedInv /\ LoadedInv
  BY DEF AudioInv
<1>2. PICK s \in Seq(Asks), a \in Nat, b \in Nat :
        s = toServer /\ a = lastIndexChecked /\ b = lastIndexChecked' /\ a <= b
  BY <1>1 DEF AudioType
<1>3. s \o t \in Seq(Asks)
  BY ConcatProperties
<1>4. AudioType'
  BY <1>1, <1>2, <1>3, ListsTail DEF AudioType
<1>5. ListsInv'
  <2>1. \A f : Known(f)' <=> Known(f)
    BY DEF Known
  <2>2. \A k \in 1 .. Len(toClient') : toClient'[k].type = "list" => Known(toClient'[k].list)
    BY <1>1, ListsTail
  <2>3. QED
    BY <1>1, <2>1, <2>2 DEF ListsInv
<1>6. LoadedInv'
  <2>1. \A i \in 0 .. MaxSources : i <= a => i <= b
    BY <1>2, AudioAssumption
  <2>2. QED
    BY <1>1, <1>2, <2>1 DEF LoadedInv
<1>7. Once(s \o t, b, sources, loops)
  <2>1. Once(s, a, sources, loops) /\ Once(t, b, sources, loops)
    BY <1>1, <1>2 DEF AskedInv
  <2>2. \A n \in 1 .. Len(t) : t[n].type = "load" => a < t[n].source
    BY <1>2
  <2>3. QED
    BY <1>2, <2>1, <2>2, OnceMore
<1>8. AskedInv'
  BY <1>2, <1>7 DEF AskedInv
<1>9. QED
  BY <1>4, <1>5, <1>6, <1>8 DEF AudioInv

\* The client hears of a change.
LEMMA my_subscription_callbackStep == AudioInv /\ my_subscription_callback => AudioInv'
<1> SUFFICES ASSUME AudioInv, my_subscription_callback PROVE AudioInv'
  OBVIOUS
<1>1. /\ toClient # << >> /\ toClient' = Tail(toClient)
      /\ UNCHANGED <<lastIndexChecked, sources, last, loops>>
      /\ toServer' = Append(toServer, Request("list")) \/ toServer' = toServer
  BY DEF my_subscription_callback, server
<1>2. toServer \in Seq(Asks) /\ lastIndexChecked \in Nat /\ lastIndexChecked <= last /\ last \in Nat
  BY DEF AudioInv, AudioType
<1>3. PICK a \in Asks : a = Request("list") /\ a.type # "load"
  <2>1. Request("list") \in Asks /\ Request("list").type = "list"
    BY DEF Request, Asks
  <2>2. QED
    BY <2>1
<1>4. <<a>> \in Seq(Asks) /\ << >> \in Seq(Asks) /\ Len(<< >>) = 0 /\ Len(<<a>>) = 1 /\ <<a>>[1] = a
  OBVIOUS
<1>5. Append(toServer, a) = toServer \o <<a>> /\ toServer \o << >> = toServer
  BY <1>2, AppendIsConcat, ConcatEmptySeq
<1>6. PICK t \in Seq(Asks) : toServer' = toServer \o t /\ (t = << >> \/ t = <<a>>)
  BY <1>1, <1>3, <1>4, <1>5
<1>7. \A n \in 1 .. Len(t) : t[n].type # "load"
  <2>1. CASE t = << >>
    BY <1>4, <2>1
  <2>2. CASE t = <<a>>
    BY <1>3, <1>4, <2>2
  <2>3. QED
    BY <1>6, <2>1, <2>2
<1>8. Once(t, lastIndexChecked', sources, loops)
  BY <1>7 DEF Once
<1>9. lastIndexChecked' \in Nat /\ lastIndexChecked <= lastIndexChecked' /\ lastIndexChecked' <= last
  BY <1>1, <1>2
<1>10. QED
  BY <1>1, <1>6, <1>7, <1>8, <1>9, AskedMore

\* The sources of a list that were not looked at: the requests for the phones among them.
LEMMA PhonesFacts ==
  ASSUME NEW b \in Nat, NEW S \in SUBSET (0 .. b), NEW phones \in Ascending(S)
  PROVE  /\ [n \in DOMAIN phones |-> LoadLoopback(phones[n])] \in Seq(Asks)
         /\ \A n \in DOMAIN phones : phones[n] \in S
         /\ \A m, n \in DOMAIN phones : phones[m] = phones[n] => m = n
<1>1. PICK c \in Nat : c = Cardinality(S)
  <2>1. IsFiniteSet(0 .. b)
    BY FS_Interval
  <2>2. IsFiniteSet(S)
    BY <2>1, FS_Subset
  <2>3. Cardinality(S) \in Nat
    BY <2>2, FS_CardinalityType
  <2>4. QED
    BY <2>3
<1>2. phones \in [1 .. c -> S] /\ \A m, n \in 1 .. c : m < n => phones[m] < phones[n]
  BY <1>1 DEF Ascending
<1>3. \A n \in 1 .. c : phones[n] \in S /\ phones[n] \in Nat
  <2>1. \A n \in 1 .. c : phones[n] \in S
    BY <1>2
  <2>2. \A i \in S : i \in Nat
    OBVIOUS
  <2>3. QED
    BY <2>1, <2>2
<1>4. \A n \in 1 .. c : LoadLoopback(phones[n]) \in Asks
  BY <1>3 DEF LoadLoopback, Asks
<1>5. [n \in 1 .. c |-> LoadLoopback(phones[n])] \in Seq(Asks)
  <2>1. [n \in 1 .. c |-> LoadLoopback(phones[n])] \in [1 .. c -> Asks]
    BY <1>4
  <2>2. QED
    BY <1>1, <2>1, SeqDef
<1>6. ASSUME NEW m \in 1 .. c, NEW n \in 1 .. c, phones[m] = phones[n] PROVE m = n
  <2>1. ~(m < n) /\ ~(n < m)
    BY <1>2, <1>3, <1>6
  <2>2. QED
    BY <1>1, <2>1
<1>7. QED
  BY <1>2, <1>3, <1>5, <1>6

\* The client looks at a list of sources.
LEMMA on_new_sourceStep == AudioInv /\ on_new_source => AudioInv'
<1> SUFFICES ASSUME AudioInv, on_new_source PROVE AudioInv'
  OBVIOUS
<1>1. AudioType /\ ListsInv /\ AskedInv /\ LoadedInv
  BY DEF AudioInv
<1>2. PICK list : list = Head(toClient).list
  OBVIOUS
<1>3. PICK S : S = {i \in Unchecked(list) : list[i] = "accessory"}
  OBVIOUS
<1>4. /\ toClient # << >> /\ toClient' = Tail(toClient) /\ Head(toClient).type = "list"
      /\ UNCHANGED <<sources, last, loops>>
      /\ lastIndexChecked' = IF Unchecked(list) = {} THEN lastIndexChecked ELSE Checked(list)
  BY <1>2 DEF on_new_source, server
<1>5. PICK phones \in Ascending(S) :
        toServer' = toServer \o [n \in DOMAIN phones |-> LoadLoopback(phones[n])]
  BY <1>2, <1>3 DEF on_new_source
<1>6. Known(list)
  BY <1>1, <1>2, <1>4, ListsTail
<1>7. PICK b \in Nat, a \in Nat : b = last /\ a = lastIndexChecked /\ a <= b /\ b <= MaxSources
  BY <1>1 DEF AudioType
<1>8. DOMAIN list \in SUBSET (0 .. b) /\ 0 \in DOMAIN list
  BY <1>6, <1>7 DEF Known
<1>9. /\ S \in SUBSET (0 .. b)
      /\ \A i \in S : a < i /\ i \in DOMAIN list /\ list[i] = "accessory" /\ i \in Unchecked(list)
  BY <1>3, <1>7, <1>8 DEF Unchecked
<1>10. PICK c \in Nat : c = lastIndexChecked' /\ a <= c /\ c <= b /\ \A i \in S : i <= c
  <2>1. CASE Unchecked(list) = {}
    BY <1>4, <1>7, <1>9, <2>1
  <2>2. CASE Unchecked(list) # {}
    <3>1. Max(DOMAIN list) \in DOMAIN list /\ \A n \in DOMAIN list : n <= Max(DOMAIN list)
      BY <1>8, GreatestNatural
    <3>2. PICK i \in DOMAIN list : i > a
      BY <1>7, <2>2 DEF Unchecked
    <3>3. PICK c \in 0 .. b : c = Max(DOMAIN list) /\ \A n \in DOMAIN list : n <= c
      BY <1>8, <3>1
    <3>4. a <= c /\ c <= b
      BY <1>8, <3>2, <3>3
    <3>5. c = lastIndexChecked'
      BY <1>4, <2>2, <3>3 DEF Checked
    <3>6. QED
      BY <1>9, <3>3, <3>4, <3>5
  <2>3. QED
    BY <2>1, <2>2
<1>11. PICK t \in Seq(Asks) :
         /\ t = [n \in DOMAIN phones |-> LoadLoopback(phones[n])]
         /\ \A n \in DOMAIN phones : phones[n] \in S
         /\ \A m, n \in DOMAIN phones : phones[m] = phones[n] => m = n
  <2>1. /\ [n \in DOMAIN phones |-> LoadLoopback(phones[n])] \in Seq(Asks)
        /\ \A n \in DOMAIN phones : phones[n] \in S
        /\ \A m, n \in DOMAIN phones : phones[m] = phones[n] => m = n
    BY <1>5, <1>9, PhonesFacts
  <2>2. QED
    BY <2>1
<1>12. \A n \in 1 .. Len(t) : n \in DOMAIN phones /\ t[n].source = phones[n] /\ phones[n] \in S
  <2>1. DOMAIN t = DOMAIN phones /\ DOMAIN t = 1 .. Len(t)
    BY <1>11
  <2>2. \A n \in DOMAIN phones : t[n].source = phones[n]
    BY <1>11 DEF LoadLoopback
  <2>3. QED
    BY <1>11, <2>1, <2>2
<1>13. \A i \in S : loops[i] = 0 /\ (i \in DOMAIN sources => sources[i] = "accessory")
  <2>1. TAKE i \in S
  <2>2. i \in 0 .. MaxSources /\ ~(i <= a)
    BY <1>7, <1>9, AudioAssumption
  <2>3. loops[i] = 0
    BY <1>1, <1>7, <2>2 DEF LoadedInv
  <2>4. i \in DOMAIN sources => sources[i] = "accessory"
    BY <1>6, <1>9 DEF Known
  <2>5. QED
    BY <2>3, <2>4
<1>14. Once(t, c, sources, loops)
  <2>1. ASSUME NEW n \in 1 .. Len(t)
        PROVE  \A m \in 1 .. Len(t) : t[m] = t[n] => m = n
    BY <1>11, <1>12
  <2>2. QED
    BY <1>10, <1>12, <1>13, <2>1 DEF Once
<1>15. \A n \in 1 .. Len(t) : a < t[n].source
  BY <1>9, <1>12
<1>16. QED
  BY <1>4, <1>5, <1>7, <1>10, <1>11, <1>14, <1>15, AskedMore

\* The server is running, without a client.
LEMMA AudioInitHolds == AudioInit => AudioInv
<1> SUFFICES ASSUME AudioInit PROVE AudioInv
  OBVIOUS
<1>1. /\ lastIndexChecked = 0 /\ loops = [i \in 0 .. MaxSources |-> 0]
      /\ last \in 0 .. MaxSources - 1 /\ toServer = << >> /\ toClient = << >>
  BY DEF AudioInit
<1>2. /\ last \in Nat /\ last <= MaxSources /\ 0 <= last
      /\ \A i \in 1 .. last : i \in 0 .. last
      /\ 0 \in 0 .. last /\ \A i \in 0 .. last : i \in Nat
  BY <1>1, AudioAssumption
<1>3. PICK kept \in SUBSET (1 .. last) :
        sources \in {f \in [kept \union {0} -> Kinds] : f[0] = "microphone"}
  BY DEF AudioInit
<1>4. sources \in [kept \union {0} -> Kinds] /\ kept \union {0} \subseteq 0 .. last
  BY <1>2, <1>3
<1>5. /\ DOMAIN sources = kept \union {0} /\ DOMAIN sources \subseteq Nat
      /\ sources \in [DOMAIN sources -> Kinds]
  BY <1>2, <1>4
<1>6. << >> \in Seq(Asks) /\ << >> \in Seq(Tells) /\ Len(<< >>) = 0
  BY EmptySeq
<1>7. loops \in [0 .. MaxSources -> Nat] /\ \A i \in 0 .. MaxSources : loops[i] = 0
  BY <1>1
<1>8. AudioType
  <2>1. sources \in Sources
    BY <1>5, SourcesFacts
  <2>2. QED
    BY <1>1, <1>2, <1>6, <1>7, <2>1 DEF AudioType
<1>9. ListsInv
  <2>1. Known(sources)
    BY <1>4, <1>5 DEF Known
  <2>2. QED
    BY <1>1, <1>6, <2>1 DEF ListsInv
<1>10. AskedInv
  BY <1>1, <1>6 DEF AskedInv, Once
<1>11. LoadedInv
  BY <1>7 DEF LoadedInv
<1>12. QED
  BY <1>8, <1>9, <1>10, <1>11 DEF AudioInv

\* Every step keeps the invariant.
LEMMA AudioNextKeeps == AudioInv /\ [AudioNext]_audioVars => AudioInv'
<1>1. AudioInv /\ UNCHANGED audioVars => AudioInv'
  BY AudioSame DEF audioVars
<1>2. QED
  BY <1>1, NewSourceStep, RemoveSourceStep, AnswerStep, ServerFailsStep,
     on_new_context_stateStep, my_subscription_callbackStep, on_new_sourceStep
     DEF AudioNext, Callback

\* A source has a loopback or a request for one, never both, and only if it is a phone.
LEMMA AudioInvIsEnough == AudioInv => HeardOnce
<1> SUFFICES ASSUME AudioInv, NEW i \in DOMAIN sources, NEW loading,
                    loading = {n \in DOMAIN toServer : toServer[n] = LoadLoopback(i)}
             PROVE  loops[i] + Cardinality(loading) <= IF sources[i] = "accessory" THEN 1 ELSE 0
  BY DEF HeardOnce
<1>1. loading = {n \in DOMAIN toServer : toServer[n] = LoadLoopback(i)}
  OBVIOUS
<1>2. AudioType /\ ListsInv /\ AskedInv /\ LoadedInv
  BY DEF AudioInv
<1>3. PICK s \in Seq(Asks) : s = toServer /\ DOMAIN s = 1 .. Len(s)
  BY <1>2 DEF AudioType
<1>4. i \in 0 .. MaxSources
  <2>1. MaxSources \in Nat /\ last \in Nat /\ last <= MaxSources
    BY <1>2, AudioAssumption DEF AudioType
  <2>2. i \in 0 .. last
    BY <1>2 DEF ListsInv, Known
  <2>3. QED
    BY <2>1, <2>2
<1>5. LoadLoopback(i).type = "load" /\ LoadLoopback(i).source = i
  BY DEF LoadLoopback
<1>6. ASSUME NEW n \in loading
      PROVE  loops[i] = 0 /\ sources[i] = "accessory" /\ loading = {n}
  <2>1. n \in 1 .. Len(toServer) /\ toServer[n] = LoadLoopback(i)
    BY <1>1, <1>3
  <2>2. /\ loops[i] = 0 /\ sources[i] = "accessory"
        /\ \A m \in 1 .. Len(toServer) : toServer[m] = toServer[n] => m = n
    BY <1>2, <1>5, <2>1 DEF AskedInv, Once
  <2>3. QED
    BY <1>1, <1>3, <2>1, <2>2
<1>7. loops[i] # 0 => loops[i] = 1 /\ sources[i] = "accessory"
  BY <1>2, <1>4 DEF LoadedInv
<1> DEFINE c == Cardinality(loading)
<1>8. c = 0 \/ (c = 1 /\ loops[i] = 0 /\ sources[i] = "accessory")
  <2>1. CASE loading = {}
    <3>1. Cardinality({}) = 0
      BY FS_EmptySet
    <3>2. QED
      BY <2>1, <3>1
  <2>2. CASE loading # {}
    <3>1. PICK n \in loading : loading = {n}
      BY <1>6, <2>2
    <3>2. Cardinality({n}) = 1
      BY FS_Singleton
    <3>3. QED
      BY <1>6, <3>1, <3>2
  <2>3. QED
    BY <2>1, <2>2
<1> HIDE DEF c
<1>9. loops[i] + c <= IF sources[i] = "accessory" THEN 1 ELSE 0
  <2>1. CASE loops[i] # 0
    <3>1. c = 0 /\ loops[i] = 1 /\ sources[i] = "accessory"
      BY <1>7, <1>8, <2>1
    <3>2. QED
      BY <3>1
  <2>2. CASE loops[i] = 0
    <3>1. CASE c = 0
      <4>1. loops[i] + c = 0
        BY <2>2, <3>1
      <4>2. QED
        BY <4>1
    <3>2. CASE c = 1
      <4>1. loops[i] + c = 1 /\ sources[i] = "accessory"
        BY <1>8, <2>2, <3>2
      <4>2. QED
        BY <4>1
    <3>3. QED
      BY <1>8, <3>1, <3>2
  <2>3. QED
    BY <2>1, <2>2
<1>10. QED
  BY <1>9 DEF c

\* A phone is heard once, however many sources come and go and whatever lists are under way
\* when accessoryAudio.c looks at one.
THEOREM HeardOnceHolds == AudioSpec => []HeardOnce
<1>1. AudioSpec => []AudioInv
  BY AudioInitHolds, AudioNextKeeps, PTL DEF AudioSpec
<1>2. QED
  BY <1>1, AudioInvIsEnough, PTL
=============================================================================
