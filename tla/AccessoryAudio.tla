---------------------------- MODULE AccessoryAudio ----------------------------
(***************************************************************************)
(* The audio of a phone in accessory mode (accessoryAudio.c): the daemon   *)
(* is a client of PulseAudio, which shows such a phone as a source of      *)
(* sound, and asks it to play what comes from that source.                 *)
(*                                                                         *)
(* Client and server exchange messages over one stream each way.  All      *)
(* callbacks run in the one thread of the library's main loop, each from   *)
(* beginning to end.  The server gives the sources increasing numbers.     *)
(***************************************************************************)
EXTENDS Integers, Sequences, FiniteSets, FiniteSetsExt

CONSTANT MaxSources  \* bound: sources the server ever has, beside its first

ASSUME AudioAssumption == MaxSources \in Nat \ {0}

VARIABLES context,           \* the state of the connection with the server
          lastIndexChecked,  \* the source looked at last
          sources,           \* the server's sources: what is behind each number
          last,              \* the number it gave last
          subscribed,        \* the server tells the client of changes
          loops,             \* loopback modules the server has loaded for each source
          toServer, toClient \* messages under way

audioVars == <<context, lastIndexChecked, sources, last, subscribed, loops, toServer, toClient>>
server == <<sources, last, subscribed, loops>>

States == <<"unconnected", "connecting", "authorizing", "setting_name", "ready">>
Kinds  == {"accessory", "microphone"}

Request(type) == [type |-> type, source |-> 0]
LoadLoopback(i) == [type |-> "load", source |-> i]
Event(type) == [type |-> type, list |-> << >>]
SourceList(list) == [type |-> "list", list |-> list]
-----------------------------------------------------------------------------
(* The server. *)

\* Source 0 is there as long as the server and is not a phone.
Notify(type) ==
  toClient' = IF subscribed THEN Append(toClient, Event(type)) ELSE toClient

NewSource ==
  /\ context # "failed" /\ last < MaxSources
  /\ last' = last + 1
  /\ sources' \in {[i \in DOMAIN sources \union {last + 1} |->
                      IF i = last + 1 THEN kind ELSE sources[i]] : kind \in Kinds}
  /\ Notify("new")
  /\ UNCHANGED <<context, lastIndexChecked, subscribed, loops, toServer>>

\* The loopback module of a source goes with it.
RemoveSource ==
  /\ context # "failed"
  /\ \E i \in DOMAIN sources \ {0} :
       /\ sources' = [j \in DOMAIN sources \ {i} |-> sources[j]]
       /\ loops' = [loops EXCEPT ![i] = 0]
  /\ Notify("remove")
  /\ UNCHANGED <<context, lastIndexChecked, last, subscribed, toServer>>

\* The server answers a request: the list of its sources has them in the order of their
\* numbers; loading a module fails if the source has gone.
Answer ==
  /\ toServer # << >>
  /\ toServer' = Tail(toServer)
  /\ LET r == Head(toServer)
     IN  /\ toClient' = IF r.type = "list" THEN Append(toClient, SourceList(sources)) ELSE toClient
         /\ subscribed' = (subscribed \/ r.type = "subscribe")
         /\ loops' = IF r.type = "load" /\ r.source \in DOMAIN sources
                     THEN [loops EXCEPT ![r.source] = @ + 1] ELSE loops
  /\ UNCHANGED <<context, lastIndexChecked, sources, last>>

\* The server ends, or refuses the client.
ServerFails ==
  /\ context \notin {"unconnected", "failed"}
  /\ context' = "failed"
  /\ toServer' = << >> /\ toClient' = << >>
  /\ UNCHANGED <<lastIndexChecked, server>>
-----------------------------------------------------------------------------
(* The callbacks. *)

\* MUTANT of accessory_audio_ready: the sources are asked for before the subscription.
accessory_audio_readyListFirst == <<Request("list"), Request("subscribe")>>

\* The requests of a client that has become ready.
accessory_audio_ready == <<Request("subscribe"), Request("list")>>

\* on_new_context_state.  After a failure nothing is tried again.
on_new_context_state ==
  \E i \in 1 .. Len(States) - 1 :
    /\ context = States[i] /\ context' = States[i + 1]
    /\ toServer' = IF context' = "ready" THEN accessory_audio_ready ELSE toServer
    /\ UNCHANGED <<lastIndexChecked, server, toClient>>

my_subscription_callback ==
  /\ toClient # << >> /\ Head(toClient).type \in {"new", "remove"}
  /\ toClient' = Tail(toClient)
  /\ toServer' = IF Head(toClient).type = "new" THEN Append(toServer, Request("list"))
                 ELSE toServer
  /\ UNCHANGED <<context, lastIndexChecked, server>>

\* MUTANT of Unchecked: every source of the list is taken for a new one.
UncheckedAll(list) == DOMAIN list \ {0}

\* The sources of a list that have not been looked at.
Unchecked(list) == {i \in DOMAIN list : i > lastIndexChecked}

\* lastIndexChecked after a list with something new.
Checked(list) == Max(DOMAIN list)

\* The numbers of a set in their order.
Ascending(S) ==
  {s \in [1 .. Cardinality(S) -> S] : \A m, n \in DOMAIN s : m < n => s[m] < s[n]}

\* on_new_source, for all sources of a list.
on_new_source ==
  /\ toClient # << >> /\ Head(toClient).type = "list"
  /\ toClient' = Tail(toClient)
  /\ LET list == Head(toClient).list
         new  == Unchecked(list)
     IN  /\ \E phones \in Ascending({i \in new : list[i] = "accessory"}) :
              toServer' = toServer \o [n \in DOMAIN phones |-> LoadLoopback(phones[n])]
         /\ lastIndexChecked' = IF new = {} THEN lastIndexChecked ELSE Checked(list)
  /\ UNCHANGED <<context, server>>
-----------------------------------------------------------------------------
\* The server may have been running for long: some numbers are gone.
AudioInit ==
  /\ context = "unconnected"
  /\ lastIndexChecked = 0
  /\ last \in 0 .. MaxSources - 1
  /\ \E kept \in SUBSET (1 .. last) :
       sources \in {f \in [kept \union {0} -> Kinds] : f[0] = "microphone"}
  /\ subscribed = FALSE
  /\ loops = [i \in 0 .. MaxSources |-> 0]
  /\ toServer = << >> /\ toClient = << >>

Callback == on_new_context_state \/ my_subscription_callback \/ on_new_source
AudioNext == NewSource \/ RemoveSource \/ Answer \/ ServerFails \/ Callback

\* The server answers and the thread of the main loop runs; sources need not change.
AudioSpec == AudioInit /\ [][AudioNext]_audioVars /\ WF_audioVars(Answer) /\ WF_audioVars(Callback)
-----------------------------------------------------------------------------
(* Properties. *)

\* A phone is heard once, and nothing but phones is: although every new source makes the
\* client read the whole list again ("This function will be called multiple times and the
\* argument is not always a new source") and several lists may be under way.
HeardOnce ==
  \A i \in DOMAIN sources :
    LET loading == {n \in DOMAIN toServer : toServer[n] = LoadLoopback(i)}
    IN  loops[i] + Cardinality(loading) <= IF sources[i] = "accessory" THEN 1 ELSE 0

\* A phone that stays is heard in the end, whether it was there before the daemon, came
\* while the daemon was connecting, or later; unless the server fails.
PhoneIsHeard ==
  \A i \in 1 .. MaxSources :
    (i \in DOMAIN sources /\ sources[i] = "accessory")
      ~> (i \notin DOMAIN sources \/ loops[i] = 1 \/ context = "failed")
=============================================================================
