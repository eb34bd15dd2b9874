----------------------------- MODULE ChatRooms -----------------------------
(***************************************************************************)
(* Chat: the gateway saves a message and then emits it to the sockets in   *)
(* its room; a tab that opens a room asks for the newest messages, shows   *)
(* the reply in place of what it had, and appends what arrives later       *)
(* (ChatGateway, ChatService, useChatSocket).  The handlers of messages    *)
(* and of histories await the database, and overlap.                       *)
(*                                                                         *)
(*   saved     the table of messages: the room of each, in the order of    *)
(*             creation; a message is known by its index                   *)
(*   sending   messages that are saved and not emitted yet                 *)
(*   viewing   the room that a tab shows                                   *)
(*   listed    the messages it shows                                       *)
(*   link      its socket: "down"; "join" or "history" while that request  *)
(*             is with the server; "joined" when it may join; "reading"    *)
(*             when its history was read and not yet sent; "settled"       *)
(*   entered   the rooms its socket is in                                  *)
(*   reading   the history that was read for it                            *)
(*   wire      what the server sent it and it has not seen, in order       *)
(*   overtaken history: messages emitted to it between the reading of its  *)
(*             history and the reply, which then replaces them             *)
(*   changes   how often a tab changed rooms, or sockets were cut          *)
(*                                                                         *)
(* A socket that its tab closed delivers nothing more, and what is sent to *)
(* it is lost.  Left out: who may read and write a room, and typing.       *)
(***************************************************************************)
EXTENDS Naturals, Sequences, FiniteSets, Functions

CONSTANTS Tabs, Rooms,
          OpenRooms,      \* the rooms that a socket is in from the start: global, its department
          HistoryLimit,   \* 50 in the code
          MaxSaved,       \* bound: messages
          MaxChanges      \* bound: changes of rooms, lost connections, restarts

ASSUME ChatAssumption ==
  OpenRooms \subseteq Rooms /\ {HistoryLimit, MaxSaved, MaxChanges} \subseteq Nat

VARIABLES saved, sending, viewing, listed, link, entered, reading, wire, overtaken, changes

tabVars  == <<viewing, listed, link, entered, reading, wire, overtaken>>
chatVars == <<saved, sending, tabVars, changes>>

\* getHistory: the newest messages of a room ...
Newest(r) ==
  LET inRoom == {m \in DOMAIN saved : saved[m] = r}
  IN {m \in inRoom : Cardinality({k \in inRoom : k > m}) < HistoryLimit}

\* ... the oldest of them first.
Histories(r) ==
  {items \in [1..Cardinality(Newest(r)) -> Newest(r)] :
     Range(items) = Newest(r) /\ \A i, j \in DOMAIN items : i < j => items[i] < items[j]}

Packet(kind, id, items) == [kind |-> kind, id |-> id, items |-> items]
Deliver(t, packet)      == wire' = [wire EXCEPT ![t] = Append(@, packet)]

\* The sockets of some tabs are gone.
Unplug(gone) ==
  /\ link' = [t \in Tabs |-> IF t \in gone THEN "down" ELSE link[t]]
  /\ entered' = [t \in Tabs |-> IF t \in gone THEN {} ELSE entered[t]]
  /\ reading' = [t \in Tabs |-> IF t \in gone THEN <<>> ELSE reading[t]]
  /\ wire' = [t \in Tabs |-> IF t \in gone THEN <<>> ELSE wire[t]]
  /\ overtaken' = [t \in Tabs |-> IF t \in gone THEN {} ELSE overtaken[t]]

Change == changes < MaxChanges /\ changes' = changes + 1

-----------------------------------------------------------------------------

\* handleMessage: saveMessage ...
SaveMessage(r) ==
  /\ Len(saved) < MaxSaved
  /\ saved' = Append(saved, r)
  /\ sending' = sending \cup {Len(saved) + 1}
  /\ UNCHANGED <<tabVars, changes>>

\* ... and then the emission to whoever is in the room.
EmitMessage(m) ==
  LET inside == {t \in Tabs : saved[m] \in entered[t]}
  IN /\ sending' = sending \ {m}
     /\ wire' = [t \in Tabs |-> IF t \in inside THEN Append(wire[t], Packet("message", m, <<>>))
                                ELSE wire[t]]
     /\ overtaken' = [t \in Tabs |->
          IF t \in inside /\ link[t] = "reading" /\ saved[m] = viewing[t] /\ m \notin Range(reading[t])
          THEN overtaken[t] \cup {m} ELSE overtaken[t]]
     /\ UNCHANGED <<saved, viewing, listed, link, entered, reading, changes>>

\* The effect of useChatSocket runs again for another room or token: it closes the socket and
\* empties the list.
ChangeRoom(t, r) ==
  /\ Change /\ Unplug({t})
  /\ viewing' = [viewing EXCEPT ![t] = r]
  /\ listed' = [listed EXCEPT ![t] = <<>>]
  /\ UNCHANGED <<saved, sending>>

LoseConnection(t) ==
  /\ link[t] # "down" /\ Change /\ Unplug({t})
  /\ UNCHANGED <<saved, sending, viewing, listed>>

\* A restart of the backend ends its handlers and every socket.
RestartChat ==
  /\ Change /\ Unplug(Tabs)
  /\ sending' = {}
  /\ UNCHANGED <<saved, viewing, listed>>

\* connect: the gateway has put the socket into its rooms (handleConnection); the tab asks for
\* the history at once, or first to join a dm: room.  The page offers no others: global, the
\* user's department, and one direct conversation.
ConnectChat(t) ==
  /\ link[t] = "down"
  /\ link' = [link EXCEPT ![t] = IF viewing[t] \in OpenRooms THEN "history" ELSE "join"]
  /\ entered' = [entered EXCEPT ![t] = OpenRooms]
  /\ UNCHANGED <<saved, sending, viewing, listed, reading, wire, overtaken, changes>>

\* handleJoin.
JoinRoom(t) ==
  /\ link[t] = "join"
  /\ link' = [link EXCEPT ![t] = "joined"]
  /\ entered' = [entered EXCEPT ![t] = @ \cup {viewing[t]}]
  /\ Deliver(t, Packet("joined", 0, <<>>))
  /\ UNCHANGED <<saved, sending, viewing, listed, reading, overtaken, changes>>

\* handleHistory reads ...
ReadHistory(t) ==
  /\ link[t] = "history"
  /\ link' = [link EXCEPT ![t] = "reading"]
  /\ \E items \in Histories(viewing[t]) : reading' = [reading EXCEPT ![t] = items]
  /\ UNCHANGED <<saved, sending, viewing, listed, entered, wire, overtaken, changes>>

\* ... and replies.
SendHistory(t) ==
  /\ link[t] = "reading"
  /\ link' = [link EXCEPT ![t] = "settled"]
  /\ Deliver(t, Packet("history", 0, reading[t]))
  /\ UNCHANGED <<saved, sending, viewing, listed, entered, reading, overtaken, changes>>

\* Bug: what arrives is appended without a look at what is there.
SeeEverything(t) ==
  LET packet == Head(wire[t])
      new    == saved[packet.id] = viewing[t]
  IN /\ wire[t] # <<>>
     /\ wire' = [wire EXCEPT ![t] = Tail(@)]
     /\ link' = [link EXCEPT ![t] = IF packet.kind = "joined" THEN "history" ELSE @]
     /\ listed' = [listed EXCEPT ![t] =
          CASE packet.kind = "history" -> packet.items
            [] packet.kind = "message" /\ new -> Append(@, packet.id)
            [] OTHER -> @]
     /\ UNCHANGED <<saved, sending, viewing, entered, reading, overtaken, changes>>

\* chat:joined, chat:history and chat:message in the tab.  A message of another room is not
\* shown, nor is one that is shown already.
SeePacket(t) ==
  LET packet == Head(wire[t])
      new    == saved[packet.id] = viewing[t] /\ packet.id \notin Range(listed[t])
  IN /\ wire[t] # <<>>
     /\ wire' = [wire EXCEPT ![t] = Tail(@)]
     /\ link' = [link EXCEPT ![t] = IF packet.kind = "joined" THEN "history" ELSE @]
     /\ listed' = [listed EXCEPT ![t] =
          CASE packet.kind = "history" -> packet.items
            [] packet.kind = "message" /\ new -> Append(@, packet.id)
            [] OTHER -> @]
     /\ UNCHANGED <<saved, sending, viewing, entered, reading, overtaken, changes>>

-----------------------------------------------------------------------------

ChatInit ==
  /\ saved = <<>> /\ sending = {} /\ changes = 0
  /\ viewing \in [Tabs -> Rooms]
  /\ listed = [t \in Tabs |-> <<>>]
  /\ link = [t \in Tabs |-> "down"]
  /\ entered = [t \in Tabs |-> {}]
  /\ reading = [t \in Tabs |-> <<>>]
  /\ wire = [t \in Tabs |-> <<>>]
  /\ overtaken = [t \in Tabs |-> {}]

ChatNext ==
  \/ \E r \in Rooms : SaveMessage(r)
  \/ \E m \in sending : EmitMessage(m)
  \/ \E t \in Tabs : \/ ConnectChat(t) \/ JoinRoom(t) \/ ReadHistory(t) \/ SendHistory(t)
                     \/ SeePacket(t) \/ LoseConnection(t)
                     \/ \E r \in Rooms : ChangeRoom(t, r)
  \/ RestartChat

ChatSpec == ChatInit /\ [][ChatNext]_chatVars

-----------------------------------------------------------------------------

ChatTypeOK ==
  /\ saved \in Seq(Rooms) /\ sending \subseteq DOMAIN saved
  /\ viewing \in [Tabs -> Rooms]
  /\ link \in [Tabs -> {"down", "join", "joined", "history", "reading", "settled"}]
  /\ entered \in [Tabs -> SUBSET Rooms]
  /\ \A t \in Tabs : /\ Range(listed[t]) \cup Range(reading[t]) \subseteq DOMAIN saved
                     /\ overtaken[t] \subseteq DOMAIN saved
                     /\ \A i \in DOMAIN wire[t] : wire[t][i].kind \in {"joined", "message", "history"}
  /\ changes \in 0..MaxChanges

\* useChatSocket: a tab that has seen everything it was sent shows the newest messages of its
\* room that were emitted, each once and nothing of another room, whatever happened to its
\* connection and to the backend; only what was emitted while its history was on the way may
\* be missing.
TabShowsRoom ==
  \A t \in Tabs :
    link[t] = "settled" /\ wire[t] = <<>> =>
      /\ Newest(viewing[t]) \ (sending \cup overtaken[t]) \subseteq Range(listed[t])
      /\ \A m \in Range(listed[t]) : saved[m] = viewing[t]
      /\ IsInjective(listed[t])
=============================================================================
