------------------------ MODULE CallSignalingProofs ------------------------
(***************************************************************************)
(* Calls, for any users, any tabs, any number of handlers in flight, of    *)
(* calls and of lost connections: nobody's microphone is opened without    *)
(* consent, one tab answers, no tab goes on showing a call that is over,   *)
(* and the status of a call lives the life it should.                      *)
(*                                                                         *)
(* Most of it is about calls on which no two handlers overlapped.  On such *)
(* a call one handler at a time is past its check, so what it checked and  *)
(* what it read are still what the row says when it saves (Calm), and what *)
(* was announced stays true of the row (Consent, Rooms, Screens).          *)
(***************************************************************************)
EXTENDS CallSignaling, FiniteSetTheorems, SequenceTheorems, TLAPS

-----------------------------------------------------------------------------
(***************************************************************************)
(* The inductive invariant, part by part.                                  *)
(***************************************************************************)

\* A handler in flight: one that will make a call, or one on a call, by how far it has come.
Ends     == {"accept", "reject", "hangup"}
Outcomes == {"active", "rejected", "missed", "ended"}
Inviting == [pc : {"new"}, op : {"invite"}, by : Sockets, callee : Users, gone : BOOLEAN]
Arrived  == [pc : {"new"}, op : Ends \cup {"offer"}, by : Sockets, call : CallIds,
             gone : BOOLEAN]
Checked  == [pc : {"checked"}, op : Ends, by : Sockets, call : CallIds, gone : BOOLEAN,
             outcome : Outcomes]
Fetched  == [pc : {"fetched"}, op : Ends, by : Sockets, call : CallIds, gone : BOOLEAN,
             outcome : Outcomes, copy : Row]
Saved    == [pc : {"saved"}, op : Ends, by : Sockets, call : CallIds, gone : BOOLEAN]
Request  == {Idle} \cup Inviting \cup Arrived \cup Checked \cup Fetched \cup Saved

\* The bound on calls counts the invitations in flight.
Shape ==
  /\ call \in Seq(Row)
  /\ IsFiniteSet(ToCome) /\ Len(call) + Cardinality(ToCome) <= MaxCalls
  /\ room \in [CallIds -> SUBSET Sockets]
  /\ handler \in [Handlers -> Request]
  /\ inbox \in [Sockets -> Seq(Events \X CallIds)]
  /\ screen \in [Sockets -> Screen]

\* Whatever speaks of a call belongs to one of its two parties.
Mine(s, c)  == c \in 1 .. Len(call) /\ UserOf[s] \in Parties(c)
OnWay(s)    == {inbox[s][i] : i \in DOMAIN inbox[s]}
Holds(s)    == {screen[s].incoming, screen[s].active} \cup MediaCalls(s)
OnCall(h)   == InFlight(h) /\ handler[h].op # "invite"

Belongs ==
  /\ \A s \in Sockets : \A e \in OnWay(s) : Mine(s, e[2])
  /\ \A s \in Sockets : \A c \in Holds(s) \ {NoCall} : Mine(s, c)
  /\ \A c \in CallIds : \A s \in room[c] : Mine(s, c)
  /\ \A h \in Handlers : OnCall(h) => Mine(handler[h].by, handler[h].call)

\* A call has two parties, and they stay the same.
TwoParties ==
  /\ \A c \in 1 .. Len(call) : call[c].initiator # call[c].receiver
  /\ \A h \in Handlers :
       /\ InFlight(h) /\ handler[h].op = "invite" => handler[h].callee # UserOf[handler[h].by]
       /\ handler[h].pc = "fetched" =>
            /\ handler[h].copy.initiator = call[handler[h].call].initiator
            /\ handler[h].copy.receiver = call[handler[h].call].receiver

Base == Shape /\ Belongs /\ TwoParties

\* On an undisturbed call one handler is at work, and what it knows of the row is so.
Decided(h) == handler[h].pc \in {"checked", "fetched"}

Knows(h) ==
  LET row == call[handler[h].call]
  IN  /\ handler[h].pc = "fetched" => handler[h].copy = row
      /\ Decided(h) =>
           /\ Permits(handler[h].op, row, UserOf[handler[h].by])
           /\ handler[h].outcome = Outcome(handler[h].op, row.status)
      /\ handler[h].pc = "saved" =>
           /\ handler[h].op = "accept" => row.status = "active" /\ row.started
           /\ handler[h].op = "reject" => row.status = "rejected"
           /\ handler[h].op = "hangup" => row.status \in {"missed", "ended"}

Calm ==
  \A h \in Handlers : \A c \in CallIds :
    Busy(h, c) /\ Undisturbed(c) =>
      /\ Knows(h)
      /\ \A g \in Handlers : Busy(g, c) => g = h

\* Whatever opens a microphone says that the call was accepted.
Started(c) == Undisturbed(c) => call[c].started

Consent ==
  /\ \A s \in Sockets : \A c \in MediaCalls(s) \ {NoCall} : Started(c)
  /\ \A s \in Sockets : \A e \in OnWay(s) : e[1] \in {"accepted", "offer"} => Started(e[2])
  /\ \A h \in Handlers : InFlight(h) /\ handler[h].op = "offer" => Started(handler[h].call)

\* The tabs of the receiver that are in the room.
Answered(c) == room[c] \cap UserRoom(call[c].receiver)

Answers(h, c) == Busy(h, c) /\ handler[h].op \in {"accept", "reject"}

RoomFine(c) ==
  Undisturbed(c) =>
    /\ \A s, t \in Answered(c) : s = t
    /\ call[c].status = "pending" \/ (\E h \in Handlers : Answers(h, c)) => Answered(c) = {}

Rooms == \A c \in 1 .. Len(call) : RoomFine(c)

\* Once its inbox is empty the tab shows the call, unless the user closes it.
Opening(c) == {<<"ringing", c>>, <<"accepted", c>>}
Closing(e) == e[1] \in {"rejected", "ended"}

WillShow(s, c) ==
  \/ screen[s].active = c /\ \A i \in DOMAIN inbox[s] : ~Closing(inbox[s][i])
  \/ \E i \in DOMAIN inbox[s] :
       /\ inbox[s][i] \in Opening(c)
       /\ \A j \in DOMAIN inbox[s] : j > i => ~Closing(inbox[s][j])

\* A tab that has or gets a call on screen is in its room, until it loses its connection; and
\* if the call is over, the handler that ended it is about to say so.
IsOver(c)     == call[c].status \notin {"pending", "active"}
TellsEnd(h, c) == handler[h].pc = "saved" /\ handler[h].call = c /\ handler[h].op # "accept"

Joined(s, c) == screen[s].active = c \/ OnWay(s) \cap Opening(c) # {} => s \in room[c]

EndComes(s, c) ==
  Undisturbed(c) /\ IsOver(c) /\ WillShow(s, c) => \E h \in Handlers : TellsEnd(h, c)

Screens ==
  \A s \in Sockets \ dropped :
    /\ \A c \in CallIds : Joined(s, c)
    /\ \A c \in 1 .. Len(call) : EndComes(s, c)

CallsInv == Base /\ Calm /\ Consent /\ Rooms /\ Screens

-----------------------------------------------------------------------------
(***************************************************************************)
(* Facts that most steps need.                                             *)
(***************************************************************************)

\* What a handler is, by how far it has come.
LEMMA HandlerFacts ==
  ASSUME Shape, NEW h \in Handlers
  PROVE  /\ handler[h].pc \in {"idle", "new", "checked", "fetched", "saved"}
         /\ ~InFlight(h) => handler[h] = Idle
         /\ InFlight(h) => handler[h].by \in Sockets /\ handler[h].gone \in BOOLEAN
         /\ InFlight(h) /\ handler[h].op = "invite" => handler[h] \in Inviting
         /\ handler[h].pc = "new" /\ handler[h].op # "invite" => handler[h] \in Arrived
         /\ handler[h].pc = "checked" => handler[h] \in Checked
         /\ handler[h].pc = "fetched" => handler[h] \in Fetched
         /\ handler[h].pc = "saved" => handler[h] \in Saved
         /\ OnCall(h) => handler[h].call \in CallIds
<1> DEFINE r == handler[h]
<1>1. r \in Request
  BY DEF Shape
<1>2. CASE r = Idle
  BY <1>2 DEF Idle, InFlight, OnCall
<1>3. CASE r \in Inviting
  BY <1>3 DEF Inviting, InFlight, OnCall
<1>4. CASE r \in Arrived
  BY <1>4 DEF Arrived, Ends, InFlight, OnCall
<1>5. CASE r \in Checked
  BY <1>5 DEF Checked, Ends, InFlight, OnCall
<1>6. CASE r \in Fetched
  BY <1>6 DEF Fetched, Ends, InFlight, OnCall
<1>7. CASE r \in Saved
  BY <1>7 DEF Saved, Ends, InFlight, OnCall
<1>8. QED
  BY <1>1, <1>2, <1>3, <1>4, <1>5, <1>6, <1>7 DEF Request

\* What is on its way to a tab after one more event was sent to it.
LEMMA AppendOnWay ==
  ASSUME Shape, NEW s \in Sockets, NEW e \in Events \X CallIds,
         inbox'[s] = Append(inbox[s], e)
  PROVE  /\ inbox'[s] \in Seq(Events \X CallIds)
         /\ DOMAIN inbox'[s] = DOMAIN inbox[s] \cup {Len(inbox[s]) + 1}
         /\ \A i \in DOMAIN inbox[s] : inbox'[s][i] = inbox[s][i] /\ i < Len(inbox[s]) + 1
         /\ inbox'[s][Len(inbox[s]) + 1] = e
         /\ OnWay(s)' = OnWay(s) \cup {e}
<1>1. inbox[s] \in Seq(Events \X CallIds)
  BY DEF Shape
<1>2. PICK before \in Seq(Events \X CallIds) : before = inbox[s]
  BY <1>1
<1>3. PICK after : after = inbox'[s]
  OBVIOUS
<1>4. /\ after \in Seq(Events \X CallIds)
      /\ Len(after) = Len(before) + 1
      /\ \A i \in 1 .. Len(before) : after[i] = before[i]
      /\ after[Len(before) + 1] = e
  BY <1>2, <1>3, AppendProperties
<1>5. DOMAIN after = 1 .. Len(before) + 1 /\ DOMAIN before = 1 .. Len(before)
        /\ Len(before) \in Nat
  BY <1>4, LenProperties
<1>6. {after[i] : i \in DOMAIN after} = {before[i] : i \in DOMAIN before} \cup {e}
  <2>1. ASSUME NEW i \in DOMAIN after
        PROVE  after[i] \in {before[j] : j \in DOMAIN before} \cup {e}
    <3>1. CASE i = Len(before) + 1
      BY <1>4, <3>1
    <3>2. CASE i \in DOMAIN before
      BY <1>4, <1>5, <3>2
    <3>3. QED
      BY <1>5, <3>1, <3>2
  <2>2. ASSUME NEW i \in DOMAIN before
        PROVE  before[i] \in {after[j] : j \in DOMAIN after}
    <3>1. i \in DOMAIN after /\ after[i] = before[i]
      BY <1>4, <1>5
    <3>2. QED
      BY <3>1
  <2>3. e \in {after[j] : j \in DOMAIN after}
    <3>1. Len(before) + 1 \in DOMAIN after
      BY <1>5
    <3>2. QED
      BY <3>1, <1>4
  <2>4. QED
    BY <2>1, <2>2, <2>3
<1>7. OnWay(s)' = OnWay(s) \cup {e}
  BY <1>2, <1>3, <1>6 DEF OnWay
<1>8. QED
  BY <1>2, <1>3, <1>4, <1>5, <1>7

\* Sending events keeps the inboxes typed.
LEMMA InboxType ==
  ASSUME Shape, inbox' = [s \in Sockets |-> inbox'[s]],
         \A s \in Sockets : \/ inbox'[s] = inbox[s]
                            \/ \E e \in Events \X CallIds : inbox'[s] = Append(inbox[s], e)
  PROVE  inbox' \in [Sockets -> Seq(Events \X CallIds)]
<1>1. ASSUME NEW s \in Sockets
      PROVE  inbox'[s] \in Seq(Events \X CallIds)
  <2>1. CASE inbox'[s] = inbox[s]
    BY <2>1 DEF Shape
  <2>2. ASSUME NEW e \in Events \X CallIds, inbox'[s] = Append(inbox[s], e)
        PROVE  inbox'[s] \in Seq(Events \X CallIds)
    BY <2>2, AppendOnWay
  <2>3. QED
    BY <2>1, <2>2
<1>2. QED
  BY <1>1

\* What is left after a tab has taken its next event.
LEMMA ReceiveFacts ==
  ASSUME Shape, NEW s \in Sockets, Receive(s)
  PROVE  /\ inbox[s][1] \in Events \X CallIds /\ 1 \in DOMAIN inbox[s]
         /\ screen' = [screen EXCEPT ![s] = After(@, inbox[s][1][1], inbox[s][1][2])]
         /\ inbox[s][1] \in OnWay(s)
         /\ inbox' \in [Sockets -> Seq(Events \X CallIds)]
         /\ \A t \in Sockets : t # s => inbox'[t] = inbox[t] /\ OnWay(t)' = OnWay(t)
         /\ OnWay(s)' \subseteq OnWay(s)
         /\ \A i \in DOMAIN inbox'[s] :
              i \in Nat /\ i + 1 \in DOMAIN inbox[s] /\ inbox'[s][i] = inbox[s][i + 1]
         /\ \A i \in DOMAIN inbox[s] : i = 1 \/ i - 1 \in DOMAIN inbox'[s]
<1>1. inbox[s] \in Seq(Events \X CallIds) /\ inbox[s] # << >>
  BY DEF Shape, Receive
<1>2. PICK before \in Seq(Events \X CallIds) : before = inbox[s]
  BY <1>1
<1>3. inbox' = [inbox EXCEPT ![s] = Tail(before)]
  BY <1>2 DEF Receive
<1>4. PICK after : after = Tail(before)
  OBVIOUS
<1>5. /\ after \in Seq(Events \X CallIds)
      /\ Len(after) = Len(before) - 1 /\ Len(before) \in Nat \ {0} /\ Len(after) \in Nat
      /\ \A i \in 1 .. Len(after) : after[i] = before[i + 1]
      /\ Head(before) = before[1] /\ before[1] \in Events \X CallIds
  BY <1>1, <1>2, <1>4, HeadTailProperties, LenProperties
<1>6. DOMAIN before = 1 .. Len(before) /\ DOMAIN after = 1 .. Len(after)
  BY <1>5, LenProperties
<1>7. inbox'[s] = after /\ inbox' \in [Sockets -> Seq(Events \X CallIds)]
        /\ \A t \in Sockets : t # s => inbox'[t] = inbox[t]
  BY <1>3, <1>4, <1>5 DEF Shape
<1>8. ASSUME NEW i \in DOMAIN after
      PROVE  after[i] \in {before[j] : j \in DOMAIN before}
  <2>1. i + 1 \in DOMAIN before /\ after[i] = before[i + 1]
    BY <1>5, <1>6
  <2>2. QED
    BY <2>1
<1>9. screen' = [screen EXCEPT ![s] = After(@, before[1][1], before[1][2])]
  BY <1>2, <1>5 DEF Receive
<1>10. \A t \in Sockets : t # s => OnWay(t)' = OnWay(t)
  BY <1>7 DEF OnWay
<1>11. before[1] \in OnWay(s) /\ OnWay(s)' \subseteq OnWay(s)
  <2>1. OnWay(s) = {before[i] : i \in DOMAIN before} /\ OnWay(s)' = {after[i] : i \in DOMAIN after}
    BY <1>2, <1>7 DEF OnWay
  <2>2. 1 \in DOMAIN before
    BY <1>5, <1>6
  <2>3. QED
    BY <2>1, <2>2, <1>8
<1>12. \A i \in DOMAIN after : i \in Nat /\ i + 1 \in DOMAIN before /\ after[i] = before[i + 1]
  BY <1>5, <1>6
<1>13. \A i \in DOMAIN before : i = 1 \/ i - 1 \in DOMAIN after
  BY <1>5, <1>6
<1>14. 1 \in DOMAIN before
  BY <1>5, <1>6
<1>15. QED
  BY <1>2, <1>5, <1>7, <1>9, <1>10, <1>11, <1>12, <1>13, <1>14

-----------------------------------------------------------------------------
(***************************************************************************)
(* What the user of a tab does: at most one handler starts, on a call the  *)
(* tab holds, and the tab holds nothing new.                               *)
(***************************************************************************)
Asking(op, s, c) == [pc |-> "new", op |-> op, by |-> s, call |-> c, gone |-> FALSE]
Inviter(s, u)    == [pc |-> "new", op |-> "invite", by |-> s, callee |-> u, gone |-> FALSE]

Asks(h, s) ==
  /\ ~InFlight(h)
  /\ \E op \in Ends \cup {"offer"}, c \in Holds(s) \ {NoCall} :
       /\ handler' = [handler EXCEPT ![h] = Asking(op, s, c)]
       /\ c \in CallIds
       /\ op = "offer" => c \in MediaCalls(s)

Invites(h, s) ==
  /\ ~InFlight(h)
  /\ Len(call) + Cardinality(ToCome) < MaxCalls
  /\ \E u \in Users \ {UserOf[s]} : handler' = [handler EXCEPT ![h] = Inviter(s, u)]

\* A tab after a step of its user.
LessHeld(new, old) ==
  /\ new \in Screen
  /\ new.incoming \in {old.incoming, NoCall} /\ new.active \in {old.active, NoCall}
  /\ {new.peer} \cup {m[1] : m \in new.starting}
       \subseteq {old.peer, NoCall} \cup {m[1] : m \in old.starting}

LEMMA TabScreen ==
  ASSUME Shape, NEW s \in Sockets, NEW new, screen' = [screen EXCEPT ![s] = new],
         LessHeld(new, screen[s])
  PROVE  /\ screen' \in [Sockets -> Screen]
         /\ \A t \in Sockets : /\ Holds(t)' \subseteq Holds(t) \cup {NoCall}
                               /\ MediaCalls(t)' \subseteq MediaCalls(t) \cup {NoCall}
                               /\ screen'[t].active \in {screen[t].active, NoCall}
<1>1. screen' \in [Sockets -> Screen]
  BY DEF Shape, LessHeld
<1>2. screen'[s] = new /\ \A t \in Sockets : t # s => screen'[t] = screen[t]
  BY DEF Shape
<1>3. ASSUME NEW t \in Sockets, t # s
      PROVE  /\ Holds(t)' = Holds(t) /\ MediaCalls(t)' = MediaCalls(t)
             /\ screen'[t].active = screen[t].active
  BY <1>2, <1>3 DEF Holds, MediaCalls
<1>4. /\ Holds(s)' \subseteq Holds(s) \cup {NoCall}
      /\ MediaCalls(s)' \subseteq MediaCalls(s) \cup {NoCall}
      /\ screen'[s].active \in {screen[s].active, NoCall}
  <2>1. MediaCalls(s)' = {new.peer} \cup {m[1] : m \in new.starting}
    BY <1>2 DEF MediaCalls
  <2>2. MediaCalls(s)' \subseteq MediaCalls(s) \cup {NoCall}
    BY <2>1 DEF MediaCalls, LessHeld
  <2>3. screen'[s].active \in {screen[s].active, NoCall}
          /\ screen'[s].incoming \in {screen[s].incoming, NoCall}
    BY <1>2 DEF LessHeld
  <2>4. QED
    BY <2>2, <2>3 DEF Holds
<1>5. QED
  BY <1>1, <1>3, <1>4

\* Letting go of things keeps a tab a tab.
LEMMA TabFields ==
  ASSUME NEW t \in Screen
  PROVE  /\ t.incoming \in {NoCall} \cup CallIds /\ t.active \in {NoCall} \cup CallIds
         /\ t.peer \in {NoCall} \cup CallIds /\ t.caller \in BOOLEAN
         /\ t.starting \in SUBSET (CallIds \X Roles)
         /\ t = [incoming |-> t.incoming, active |-> t.active, caller |-> t.caller,
                 starting |-> t.starting, peer |-> t.peer]
BY DEF Screen

LEMMA SendAsks ==
  ASSUME NEW h \in Handlers, NEW s \in Sockets, NEW op \in Ends, NEW c \in CallIds,
         c \in Holds(s), Send(h, op, s, c)
  PROVE  Asks(h, s)
<1>1. c # NoCall
  BY DEF CallIds, NoCall
<1>2. handler' = [handler EXCEPT ![h] = Asking(op, s, c)] /\ ~InFlight(h)
  BY DEF Send, Asking
<1>3. op # "offer"
  BY DEF Ends
<1>4. QED
  BY <1>1, <1>2, <1>3 DEF Asks

LEMMA TabSteps ==
  ASSUME Shape, NEW h \in Handlers, NEW s \in Sockets, TabStep(h, s)
  PROVE  /\ UNCHANGED <<call, room, inbox, raced, dropped>>
         /\ \E new : screen' = [screen EXCEPT ![s] = new] /\ LessHeld(new, screen[s])
         /\ handler' = handler \/ Asks(h, s) \/ Invites(h, s)
<1>1. PICK tab \in Screen : tab = screen[s]
  BY DEF Shape
<1>2. tab.incoming \in Holds(s) /\ tab.active \in Holds(s)
        /\ MediaCalls(s) = {tab.peer} \cup {m[1] : m \in tab.starting}
        /\ MediaCalls(s) \subseteq Holds(s)
  BY <1>1 DEF Holds, MediaCalls
<1>3. CASE \E u \in Users : Invite(h, s, u)
  <2>1. LessHeld([tab EXCEPT !.caller = TRUE], tab)
    BY <1>1 DEF LessHeld, Screen
  <2>2. screen' = [screen EXCEPT ![s] = [tab EXCEPT !.caller = TRUE]]
    BY <1>1, <1>3 DEF Invite
  <2>3. Invites(h, s)
    BY <1>3 DEF Invite, Invites, Inviter
  <2>4. QED
    BY <1>1, <1>3, <2>1, <2>2, <2>3 DEF Invite
<1>4. CASE Accept(h, s)
  <2>1. LessHeld([tab EXCEPT !.caller = FALSE], tab)
    BY <1>1 DEF LessHeld, Screen
  <2>2. screen' = [screen EXCEPT ![s] = [tab EXCEPT !.caller = FALSE]]
    BY <1>1, <1>4 DEF Accept
  <2>3. PICK c : c = tab.incoming
    OBVIOUS
  <2>4. c \in CallIds /\ c \in Holds(s)
    BY <1>1, <1>2, <1>4, <2>3, TabFields DEF Accept
  <2>5. Send(h, "accept", s, c)
    BY <1>1, <1>4, <2>3 DEF Accept
  <2>6. Asks(h, s)
    BY <2>4, <2>5, SendAsks DEF Ends
  <2>7. QED
    BY <1>1, <1>4, <2>1, <2>2, <2>6 DEF Accept
<1>5. CASE Reject(h, s)
  <2>1. LessHeld([tab EXCEPT !.incoming = NoCall], tab)
    BY <1>1 DEF LessHeld, Screen
  <2>2. screen' = [screen EXCEPT ![s] = [tab EXCEPT !.incoming = NoCall]]
    BY <1>1, <1>5 DEF Reject
  <2>3. PICK c : c = tab.incoming
    OBVIOUS
  <2>4. c \in CallIds /\ c \in Holds(s)
    BY <1>1, <1>2, <1>5, <2>3, TabFields DEF Reject
  <2>5. Send(h, "reject", s, c)
    BY <1>1, <1>5, <2>3 DEF Reject
  <2>6. Asks(h, s)
    BY <2>4, <2>5, SendAsks DEF Ends
  <2>7. QED
    BY <1>1, <1>5, <2>1, <2>2, <2>6 DEF Reject
<1>6. CASE HangUp(h, s)
  <2>1. LessHeld(Closed(tab), tab)
    BY <1>1 DEF LessHeld, Screen, Closed
  <2>2. screen' = [screen EXCEPT ![s] = Closed(tab)]
    BY <1>1, <1>6 DEF HangUp
  <2>3. PICK c : c = tab.active
    OBVIOUS
  <2>4. c \in CallIds /\ c \in Holds(s)
    BY <1>1, <1>2, <1>6, <2>3, TabFields DEF HangUp
  <2>5. Send(h, "hangup", s, c)
    BY <1>1, <1>6, <2>3 DEF HangUp
  <2>6. Asks(h, s)
    BY <2>4, <2>5, SendAsks DEF Ends
  <2>7. QED
    BY <1>1, <1>6, <2>1, <2>2, <2>6 DEF HangUp
<1>7. CASE \E c \in CallIds, role \in Roles : MediaReady(h, s, c, role)
  <2>1. PICK c \in CallIds, role \in Roles : MediaReady(h, s, c, role)
    BY <1>7
  <2>2. <<c, role>> \in tab.starting
    BY <1>1, <2>1 DEF MediaReady
  <2>3. c \in {m[1] : m \in tab.starting} /\ c # NoCall
    <3>1. <<c, role>>[1] = c
      OBVIOUS
    <3>2. QED
      BY <2>2, <3>1 DEF CallIds, NoCall
  <2>4. LessHeld([tab EXCEPT !.starting = @ \ {<<c, role>>}, !.peer = c], tab)
    BY <1>1, <2>3 DEF LessHeld, Screen
  <2>5. screen' = [screen EXCEPT ![s] = [tab EXCEPT !.starting = @ \ {<<c, role>>}, !.peer = c]]
    BY <1>1, <2>1 DEF MediaReady
  <2>6. handler' = handler \/ Asks(h, s)
    BY <1>2, <2>1, <2>3 DEF MediaReady, Send, Asks, Asking
  <2>7. QED
    BY <1>1, <2>1, <2>4, <2>5, <2>6 DEF MediaReady
<1>8. CASE \E c \in CallIds, role \in Roles : MediaFails(h, s, c, role)
  <2>1. PICK c \in CallIds, role \in Roles : MediaFails(h, s, c, role)
    BY <1>8
  <2>2. <<c, role>> \in tab.starting
    BY <1>1, <2>1 DEF MediaFails
  <2>3. c \in {m[1] : m \in tab.starting} /\ c # NoCall
    <3>1. <<c, role>>[1] = c
      OBVIOUS
    <3>2. QED
      BY <2>2, <3>1 DEF CallIds, NoCall
  <2>4. LessHeld([tab EXCEPT !.starting = @ \ {<<c, role>>}], tab)
    BY <1>1, <2>3 DEF LessHeld, Screen
  <2>5. screen' = [screen EXCEPT ![s] = [tab EXCEPT !.starting = @ \ {<<c, role>>}]]
    BY <1>1, <2>1 DEF MediaFails
  <2>6. Asks(h, s)
    BY <1>2, <2>1, <2>3 DEF MediaFails, Send, Asks, Asking, Ends
  <2>7. QED
    BY <1>1, <2>1, <2>4, <2>5, <2>6 DEF MediaFails
<1>9. QED
  BY <1>3, <1>4, <1>5, <1>6, <1>7, <1>8 DEF TabStep

-----------------------------------------------------------------------------
(***************************************************************************)
(* What a tab makes of an event: it comes to hold the call of the event at *)
(* most, and opens its microphone for an accepted call or an offer only.   *)
(***************************************************************************)
LEMMA AfterCases ==
  ASSUME NEW t, NEW c
  PROVE  /\ After(t, "incoming", c) = [t EXCEPT !.incoming = c]
         /\ After(t, "ringing", c) = [t EXCEPT !.active = c]
         /\ After(t, "accepted", c) =
              [t EXCEPT !.incoming = NoCall, !.active = c,
                        !.starting = IF t.caller THEN @ \cup {<<c, "offer">>} ELSE @]
         /\ After(t, "offer", c) = IF t.caller THEN t
                                   ELSE [t EXCEPT !.starting = @ \cup {<<c, "answer">>}]
         /\ After(t, "rejected", c) = Closed(t)
         /\ After(t, "ended", c) = Closed(t)
BY DEF After

LEMMA AfterFacts ==
  ASSUME NEW t \in Screen, NEW event \in Events, NEW c \in CallIds,
         NEW new, new = After(t, event, c)
  PROVE  /\ new \in Screen
         /\ new.incoming \in {t.incoming, c, NoCall}
         /\ event \in {"ringing", "accepted"} => new.active = c
         /\ event \in {"rejected", "ended"} => new.active = NoCall
         /\ event \in {"incoming", "offer"} => new.active = t.active
         /\ new.active \in {t.active, c, NoCall}
         /\ {new.peer} \cup {m[1] : m \in new.starting}
              \subseteq {t.peer, NoCall} \cup {m[1] : m \in t.starting}
                          \cup (IF event \in {"accepted", "offer"} THEN {c} ELSE {})
<1>1. {m[1] : m \in t.starting \cup {<<c, "offer">>}} \subseteq {m[1] : m \in t.starting} \cup {c}
        /\ {m[1] : m \in t.starting \cup {<<c, "answer">>}}
             \subseteq {m[1] : m \in t.starting} \cup {c}
  OBVIOUS
<1>2. t.starting \cup {<<c, "offer">>} \in SUBSET (CallIds \X Roles)
        /\ t.starting \cup {<<c, "answer">>} \in SUBSET (CallIds \X Roles)
  BY TabFields DEF Roles
<1>3. CASE event = "incoming"
  <2>1. new = [t EXCEPT !.incoming = c]
    BY <1>3, AfterCases
  <2>2. QED
    BY <1>3, <2>1 DEF Screen
<1>4. CASE event = "ringing"
  <2>1. new = [t EXCEPT !.active = c]
    BY <1>4, AfterCases
  <2>2. QED
    BY <1>4, <2>1 DEF Screen
<1>5. CASE event = "accepted"
  <2>1. PICK starting : starting = IF t.caller THEN t.starting \cup {<<c, "offer">>} ELSE t.starting
    OBVIOUS
  <2>2. starting \in SUBSET (CallIds \X Roles)
          /\ {m[1] : m \in starting} \subseteq {m[1] : m \in t.starting} \cup {c}
    BY <1>1, <1>2, <2>1, TabFields
  <2>3. new = [incoming |-> NoCall, active |-> c, caller |-> t.caller, starting |-> starting,
               peer |-> t.peer]
    <3>1. new = [t EXCEPT !.incoming = NoCall, !.active = c,
                          !.starting = IF t.caller THEN @ \cup {<<c, "offer">>} ELSE @]
      BY <1>5, AfterCases
    <3>2. QED
      BY <2>1, <3>1 DEF Screen
  <2>4. QED
    BY <1>5, <2>2, <2>3, TabFields DEF Screen
<1>6. CASE event = "offer"
  <2>1. PICK starting : starting = IF t.caller THEN t.starting ELSE t.starting \cup {<<c, "answer">>}
    OBVIOUS
  <2>2. starting \in SUBSET (CallIds \X Roles)
          /\ {m[1] : m \in starting} \subseteq {m[1] : m \in t.starting} \cup {c}
    BY <1>1, <1>2, <2>1, TabFields
  <2>3. new = [incoming |-> t.incoming, active |-> t.active, caller |-> t.caller,
               starting |-> starting, peer |-> t.peer]
    <3>1. new = IF t.caller THEN t ELSE [t EXCEPT !.starting = @ \cup {<<c, "answer">>}]
      BY <1>6, AfterCases
    <3>2. QED
      BY <2>1, <3>1 DEF Screen
  <2>4. QED
    BY <1>6, <2>2, <2>3, TabFields DEF Screen
<1>7. CASE event \in {"rejected", "ended"}
  <2>1. new = [t EXCEPT !.peer = NoCall, !.active = NoCall, !.incoming = NoCall]
    BY <1>7, AfterCases, ZenonT(60) DEF Closed
  <2>2. QED
    BY <1>7, <2>1 DEF Screen
<1>8. QED
  BY <1>3, <1>4, <1>5, <1>6, <1>7 DEF Events

-----------------------------------------------------------------------------
(***************************************************************************)
(* Handlers change one at a time, and calls are never taken back.          *)
(***************************************************************************)
LEMMA OneHandler ==
  ASSUME Shape, NEW h \in Handlers, NEW r \in Request, handler' = [handler EXCEPT ![h] = r]
  PROVE  /\ handler' \in [Handlers -> Request]
         /\ handler'[h] = r
         /\ \A g \in Handlers : g # h => handler'[g] = handler[g]
BY DEF Shape

LEMMA NoMoreToCome ==
  ASSUME Shape, NEW h \in Handlers, NEW r, handler' = [handler EXCEPT ![h] = r],
         InFlight(h) => handler[h].op # "invite",
         r.pc # "idle" => r.op # "invite"
  PROVE  ToCome' = ToCome
<1>1. handler'[h] = r /\ \A g \in Handlers : g # h => handler'[g] = handler[g]
  BY DEF Shape
<1>2. \A g \in Handlers : g \in ToCome' <=> g \in ToCome
  BY <1>1 DEF ToCome, InFlight
<1>3. QED
  BY <1>2 DEF ToCome

\* Calls are only added, and keep their parties.
Kept == /\ Len(call') \in Nat /\ Len(call) <= Len(call')
        /\ \A c \in 1 .. Len(call) : /\ call'[c].initiator = call[c].initiator
                                     /\ call'[c].receiver = call[c].receiver

LEMMA MineStays ==
  ASSUME Shape, Kept, NEW s, NEW c, Mine(s, c)
  PROVE  Mine(s, c)'
<1>1. Len(call) \in Nat
  BY DEF Shape
<1>2. c \in 1 .. Len(call')
  BY <1>1 DEF Mine, Kept
<1>3. QED
  BY <1>2 DEF Mine, Kept, Parties

LEMMA SameIsKept == ASSUME Shape, call' = call PROVE Kept
BY DEF Shape, Kept

\* A handler that belongs to its call.
HandlerFine(r) ==
  /\ r.pc # "idle" /\ r.op # "invite" => Mine(r.by, r.call)
  /\ r.pc # "idle" /\ r.op = "invite" => r.callee # UserOf[r.by]
  /\ r.pc = "fetched" => /\ r.copy.initiator = call[r.call].initiator
                         /\ r.copy.receiver = call[r.call].receiver

LEMMA HandlersAreFine ==
  ASSUME Base, NEW h \in Handlers
  PROVE  HandlerFine(handler[h])
BY DEF Base, Belongs, TwoParties, HandlerFine, OnCall, InFlight

LEMMA IdleIsFine == HandlerFine(Idle) /\ Idle \in Request /\ Idle.pc = "idle"
BY DEF HandlerFine, Idle, Request

LEMMA BaseStep ==
  ASSUME Base, Kept, Shape',
         \A s \in Sockets : \A e : e \in OnWay(s)' => e \in OnWay(s) \/ Mine(s, e[2])',
         \A s \in Sockets : \A c : c \in Holds(s)' => c = NoCall \/ c \in Holds(s) \/ Mine(s, c)',
         \A c \in CallIds : \A s : s \in room'[c] => s \in room[c] \/ Mine(s, c)',
         \A h \in Handlers : HandlerFine(handler'[h]),
         \A c \in 1 .. Len(call') : c \in 1 .. Len(call) \/ call'[c].initiator # call'[c].receiver
  PROVE  Base'
<1>1. Shape
  BY DEF Base
<1>2. \A s, c : Mine(s, c) => Mine(s, c)'
  BY <1>1, MineStays
<1>3. Belongs'
  <2>1. ASSUME NEW s \in Sockets, NEW e \in OnWay(s)'
        PROVE  Mine(s, e[2])'
    <3>1. PICK c : c = e[2]
      OBVIOUS
    <3>2. Mine(s, c) \/ Mine(s, c)'
      BY <3>1 DEF Base, Belongs
    <3>3. Mine(s, c)'
      BY <3>2, <1>2
    <3>4. QED
      BY <3>1, <3>3
  <2>2. ASSUME NEW s \in Sockets, NEW c \in Holds(s)' \ {NoCall}
        PROVE  Mine(s, c)'
    <3>1. Mine(s, c) \/ Mine(s, c)'
      BY DEF Base, Belongs
    <3>2. QED
      BY <3>1, <1>2
  <2>3. ASSUME NEW c \in CallIds, NEW s \in room'[c]
        PROVE  Mine(s, c)'
    <3>1. Mine(s, c) \/ Mine(s, c)'
      BY DEF Base, Belongs
    <3>2. QED
      BY <3>1, <1>2
  <2>4. ASSUME NEW h \in Handlers, OnCall(h)'
        PROVE  Mine(handler[h].by, handler[h].call)'
    <3>1. PICK s, c : s = handler'[h].by /\ c = handler'[h].call
      OBVIOUS
    <3>2. Mine(s, c)
      BY <2>4, <3>1 DEF HandlerFine, OnCall, InFlight
    <3>3. Mine(s, c)'
      BY <3>2, <1>2
    <3>4. QED
      BY <3>1, <3>3 DEF Mine, Parties
  <2>5. QED
    BY <2>1, <2>2, <2>3, <2>4 DEF Belongs
<1>4. TwoParties'
  <2>1. ASSUME NEW c \in 1 .. Len(call')
        PROVE  call'[c].initiator # call'[c].receiver
    BY DEF Base, TwoParties, Kept
  <2>2. ASSUME NEW h \in Handlers
        PROVE  /\ handler'[h].pc # "idle" /\ handler'[h].op = "invite" =>
                    handler'[h].callee # UserOf[handler'[h].by]
               /\ handler'[h].pc = "fetched" =>
                    /\ handler'[h].copy.initiator = call'[handler'[h].call].initiator
                    /\ handler'[h].copy.receiver = call'[handler'[h].call].receiver
    <3>1. PICK r : r = handler'[h]
      OBVIOUS
    <3>2. HandlerFine(r)
      BY <3>1
    <3>3. CASE r.pc = "fetched"
      <4>1. r.op # "invite"
        <5>1. r \in Request
          BY <3>1 DEF Shape
        <5>2. QED
          BY <5>1, <3>3 DEF Request, Idle, Inviting, Arrived, Checked, Fetched, Saved, Ends
      <4>2. r.call \in 1 .. Len(call)
        BY <3>2, <3>3, <4>1 DEF HandlerFine, Mine
      <4>3. QED
        BY <3>1, <3>2, <3>3, <4>1, <4>2 DEF HandlerFine, Kept
    <3>4. QED
      BY <3>1, <3>2, <3>3 DEF HandlerFine
  <2>3. QED
    BY <2>1, <2>2 DEF TwoParties, InFlight
<1>5. QED
  BY <1>3, <1>4 DEF Base

\* When only handlers change, only they must be looked at.
LEMMA BaseHandlerStep ==
  ASSUME Base, NEW h \in Handlers, NEW r \in Request, HandlerFine(r),
         InFlight(h) => handler[h].op # "invite",
         r.pc # "idle" => r.op # "invite",
         handler' = [handler EXCEPT ![h] = r],
         UNCHANGED <<call, room, inbox, screen>>
  PROVE  Base'
<1>1. Shape
  BY DEF Base
<1>2. Kept
  BY <1>1, SameIsKept
<1>3. ToCome' = ToCome
  BY <1>1, NoMoreToCome
<1>4. Shape'
  BY <1>1, <1>3, OneHandler DEF Shape
<1>5. \A g \in Handlers : HandlerFine(handler'[g])
  BY <1>1, OneHandler, HandlersAreFine
<1>6. \A s \in Sockets : OnWay(s)' = OnWay(s) /\ Holds(s)' = Holds(s)
  BY DEF OnWay, Holds, MediaCalls
<1>7. QED
  BY <1>2, <1>4, <1>5, <1>6, BaseStep

LEMMA CheckBase ==
  ASSUME Base, NEW h \in Handlers, Check(h)
  PROVE  Base'
<1> DEFINE r == handler[h]
<1>1. r \in Arrived /\ r.op \in Ends /\ InFlight(h) /\ r.op # "invite"
  BY HandlerFacts DEF Base, Check, InFlight, Ends
<1>2. Mine(r.by, r.call)
  BY <1>1 DEF Base, Belongs, OnCall
<1>3. UNCHANGED <<call, room, inbox, screen>>
  BY DEF Check
<1>4. CASE handler' = [handler EXCEPT ![h] = Idle]
  BY <1>1, <1>3, <1>4, IdleIsFine, BaseHandlerStep
<1>5. CASE ~(handler' = [handler EXCEPT ![h] = Idle])
  <2>1. PICK new : new = [pc |-> "checked", op |-> r.op, by |-> r.by, call |-> r.call,
                          gone |-> r.gone, outcome |-> Outcome(r.op, call[r.call].status)]
    OBVIOUS
  <2>2. handler' = [handler EXCEPT ![h] = new]
    BY <1>5, <2>1 DEF Check
  <2>3. Outcome(r.op, call[r.call].status) \in Outcomes
    BY DEF Outcome, Outcomes
  <2>4. new \in Checked
    BY <1>1, <2>1, <2>3 DEF Checked, Arrived
  <2>5. HandlerFine(new) /\ new \in Request /\ new.op # "invite"
    BY <1>1, <1>2, <2>1, <2>4 DEF HandlerFine, Request
  <2>6. QED
    BY <1>1, <1>3, <2>2, <2>5, BaseHandlerStep
<1>6. QED
  BY <1>4, <1>5

LEMMA FetchBase ==
  ASSUME Base, NEW h \in Handlers, Fetch(h)
  PROVE  Base'
<1> DEFINE r == handler[h]
<1>1. r \in Checked /\ InFlight(h) /\ r.op # "invite"
  BY HandlerFacts DEF Base, Fetch, InFlight, Checked, Ends
<1>2. Mine(r.by, r.call)
  BY <1>1 DEF Base, Belongs, OnCall
<1>3. PICK row : row = call[r.call]
  OBVIOUS
<1>4. row \in Row
  BY <1>2, <1>3 DEF Mine, Base, Shape
<1>5. PICK new : new = [pc |-> "fetched", op |-> r.op, by |-> r.by, call |-> r.call,
                        gone |-> r.gone, outcome |-> r.outcome, copy |-> row]
  OBVIOUS
<1>6. handler' = [handler EXCEPT ![h] = new]
  BY <1>3, <1>5 DEF Fetch
<1>7. new \in Fetched
  BY <1>1, <1>4, <1>5 DEF Checked, Fetched
<1>8. HandlerFine(new) /\ new \in Request /\ new.op # "invite"
  BY <1>1, <1>2, <1>3, <1>5, <1>7 DEF HandlerFine, Request
<1>9. UNCHANGED <<call, room, inbox, screen>>
  BY DEF Fetch
<1>10. QED
  BY <1>1, <1>6, <1>8, <1>9, BaseHandlerStep

\* A save changes the status and the start of one row.
CallOf(h) == handler[h].call

LEMMA SaveFacts ==
  ASSUME Base, NEW h \in Handlers, Save(h)
  PROVE  /\ handler[h] \in Fetched /\ InFlight(h) /\ handler[h].op # "invite"
         /\ CallOf(h) \in 1 .. Len(call) /\ CallOf(h) \in CallIds /\ Mine(handler[h].by, CallOf(h))
         /\ call' \in Seq(Row) /\ Len(call') = Len(call) /\ Len(call) \in Nat
         /\ \A d \in 1 .. Len(call) : d # CallOf(h) => call'[d] = call[d]
         /\ call'[CallOf(h)].status = handler[h].outcome
         /\ call'[CallOf(h)].started = (handler[h].copy.started \/ handler[h].op = "accept")
         /\ Kept
<1> DEFINE r == handler[h]
<1>20. PICK c : c = CallOf(h) /\ c = r.call
  BY DEF CallOf
<1>1. r \in Fetched /\ InFlight(h) /\ r.op # "invite" /\ Shape
  BY HandlerFacts DEF Base, Save, InFlight, Fetched, Ends
<1>2. Mine(r.by, c)
  BY <1>1, <1>20 DEF Base, Belongs, OnCall
<1>3. c \in 1 .. Len(call) /\ c \in CallIds
  BY <1>1, <1>2, <1>20 DEF Mine, Fetched
<1>4. PICK copy, started : copy = r.copy /\ started = (copy.started \/ r.op = "accept")
  OBVIOUS
<1>5. copy \in Row /\ started \in BOOLEAN /\ r.outcome \in Statuses
  BY <1>1, <1>4 DEF Fetched, Row, Outcomes, Statuses
<1>6. PICK row : row = [copy EXCEPT !.status = r.outcome, !.started = started]
  OBVIOUS
<1>7. /\ row \in Row /\ row.status = r.outcome /\ row.started = started
      /\ row.initiator = copy.initiator /\ row.receiver = copy.receiver
  BY <1>5, <1>6 DEF Row
<1>8. call' = [call EXCEPT ![c] = row]
  <2>1. call' = [call EXCEPT ![c] = [r.copy EXCEPT !.status = r.outcome,
                                                   !.started = @ \/ r.op = "accept"]]
    BY <1>20 DEF Save
  <2>2. [r.copy EXCEPT !.status = r.outcome, !.started = @ \/ r.op = "accept"]
          = [copy EXCEPT !.status = r.outcome, !.started = started]
    BY <1>4, <1>5 DEF Row
  <2>3. QED
    BY <2>1, <2>2, <1>6
<1>9. call \in Seq(Row) /\ Len(call) \in Nat
  BY <1>1 DEF Shape
<1>10. /\ call' \in Seq(Row) /\ Len(call') = Len(call)
       /\ \A d \in 1 .. Len(call) : call'[d] = IF d = c THEN row ELSE call[d]
  BY <1>3, <1>7, <1>8, <1>9, ExceptSeq
<1>11. copy.initiator = call[c].initiator /\ copy.receiver = call[c].receiver
  BY <1>1, <1>4, <1>20 DEF Base, TwoParties, Fetched
<1>12. Kept
  BY <1>9, <1>10, <1>11, <1>7, <1>3 DEF Kept
<1>13. QED
  BY <1>1, <1>2, <1>3, <1>4, <1>7, <1>9, <1>10, <1>12, <1>20

LEMMA SaveBase ==
  ASSUME Base, NEW h \in Handlers, Save(h)
  PROVE  Base'
<1> DEFINE r == handler[h]
<1>1. PICK c : c = CallOf(h) /\ c = r.call
  BY DEF CallOf
<1>2. /\ r \in Fetched /\ InFlight(h) /\ r.op # "invite" /\ Mine(r.by, c)
      /\ call' \in Seq(Row) /\ Len(call') = Len(call) /\ Kept
  BY <1>1, SaveFacts
<1>3. PICK new : new = [pc |-> "saved", op |-> r.op, by |-> r.by, call |-> c, gone |-> r.gone]
  OBVIOUS
<1>4. handler' = [handler EXCEPT ![h] = new]
  BY <1>1, <1>3 DEF Save
<1>5. new \in Saved
  BY <1>1, <1>2, <1>3 DEF Saved, Fetched
<1>6. new \in Request /\ HandlerFine(new) /\ new.op # "invite"
  BY <1>2, <1>3, <1>5 DEF Request, HandlerFine
<1>7. Shape
  BY DEF Base
<1>8. ToCome' = ToCome
  BY <1>2, <1>4, <1>6, <1>7, NoMoreToCome
<1>9. UNCHANGED <<room, inbox, screen>>
  BY DEF Save
<1>10. Shape'
  BY <1>2, <1>4, <1>6, <1>7, <1>8, <1>9, OneHandler DEF Shape
<1>11. \A g \in Handlers : HandlerFine(handler'[g])
  BY <1>4, <1>6, <1>7, OneHandler, HandlersAreFine
<1>12. \A s \in Sockets : OnWay(s)' = OnWay(s) /\ Holds(s)' = Holds(s)
  BY <1>9 DEF OnWay, Holds, MediaCalls
<1>13. QED
  BY <1>2, <1>9, <1>10, <1>11, <1>12, BaseStep

\* The event of a handler goes to the parties of its call.
LEMMA ClientFacts ==
  ASSUME Base, NEW h \in Handlers, InFlight(h), NEW s \in Client(h)
  PROVE  s = handler[h].by /\ s \in Sockets /\ ~handler[h].gone
BY HandlerFacts DEF Client, Base

LEMMA EmptyHandler ==
  ASSUME Base, NEW h \in Handlers, handler[h].op # "invite",
         handler' = [handler EXCEPT ![h] = Idle]
  PROVE  /\ ToCome' = ToCome
         /\ handler' \in [Handlers -> Request]
         /\ handler'[h] = Idle
         /\ \A g \in Handlers : g # h => handler'[g] = handler[g]
         /\ \A g \in Handlers : HandlerFine(handler'[g])
<1>1. Shape
  BY DEF Base
<1>2. ToCome' = ToCome
  BY <1>1, IdleIsFine, NoMoreToCome
<1>3. /\ handler' \in [Handlers -> Request]
      /\ handler'[h] = Idle
      /\ \A g \in Handlers : g # h => handler'[g] = handler[g]
  BY <1>1, IdleIsFine, OneHandler
<1>4. QED
  BY <1>2, <1>3, IdleIsFine, HandlersAreFine

\* What an announcement does.
EventBy(h) == EventOf[handler[h].op]
Told(h)    == Audience(h, handler[h].op, CallOf(h))

LEMMA AnnounceFacts ==
  ASSUME Base, NEW h \in Handlers, Announce(h)
  PROVE  /\ handler[h] \in Saved /\ InFlight(h) /\ handler[h].op \in Ends
         /\ CallOf(h) \in 1 .. Len(call) /\ CallOf(h) \in CallIds /\ Mine(handler[h].by, CallOf(h))
         /\ EventBy(h) \in Events
         /\ EventBy(h) = "accepted" <=> handler[h].op = "accept"
         /\ EventBy(h) \in {"accepted", "rejected", "ended"}
         /\ inbox' \in [Sockets -> Seq(Events \X CallIds)]
         /\ \A s \in Sockets : s \notin Told(h) => inbox'[s] = inbox[s] /\ OnWay(s)' = OnWay(s)
         /\ \A s \in Sockets : s \in Told(h) => /\ inbox'[s] = Append(inbox[s], <<EventBy(h), CallOf(h)>>)
                                           /\ OnWay(s)' = OnWay(s) \cup {<<EventBy(h), CallOf(h)>>}
         /\ room' \in [CallIds -> SUBSET Sockets]
         /\ \A d \in CallIds : d # CallOf(h) => room'[d] = room[d]
         /\ room'[CallOf(h)] = IF handler[h].op = "accept" THEN room[CallOf(h)] \cup Client(h) ELSE room[CallOf(h)]
         /\ UNCHANGED <<call, screen, raced, dropped>>
<1> DEFINE r == handler[h]
<1>20. PICK event, to, c : event = EventBy(h) /\ to = Told(h) /\ c = CallOf(h)
  OBVIOUS
<1>1. r \in Saved /\ InFlight(h) /\ r.op \in Ends /\ Shape
  BY HandlerFacts DEF Base, Announce, InFlight, Saved
<1>2. Mine(r.by, c)
  BY <1>1, <1>20 DEF CallOf, Base, Belongs, OnCall, Ends
<1>3. c \in 1 .. Len(call) /\ c \in CallIds
  BY <1>1, <1>2, <1>20 DEF CallOf, Mine, Saved
<1>4. /\ event \in Events
      /\ event = "accepted" <=> r.op = "accept"
      /\ event \in {"accepted", "rejected", "ended"}
  BY <1>1, <1>20 DEF Ends, EventBy, EventOf, Events
<1>5. /\ inbox' = [s \in Sockets |-> IF s \in to THEN Append(inbox[s], <<event, c>>)
                                     ELSE inbox[s]]
      /\ handler' = [handler EXCEPT ![h] = Idle]
      /\ room' = IF r.op = "accept" THEN [room EXCEPT ![c] = @ \cup Client(h)] ELSE room
      /\ UNCHANGED <<call, screen, raced, dropped>>
  BY <1>20 DEF Announce, Emit, EventBy, Told, CallOf
<1>6. Client(h) \subseteq Sockets
  BY <1>1, ClientFacts
<1>7. /\ room' \in [CallIds -> SUBSET Sockets]
      /\ \A d \in CallIds : d # c => room'[d] = room[d]
      /\ room'[c] = IF r.op = "accept" THEN room[c] \cup Client(h) ELSE room[c]
  BY <1>1, <1>3, <1>5, <1>6 DEF Shape
<1>8. PICK e \in Events \X CallIds : e = <<event, c>>
  BY <1>3, <1>4
<1>9. \A s \in Sockets : inbox'[s] = IF s \in to THEN Append(inbox[s], e) ELSE inbox[s]
  BY <1>5, <1>8
<1>10. inbox' \in [Sockets -> Seq(Events \X CallIds)]
  <2>1. inbox' = [s \in Sockets |-> inbox'[s]]
    BY <1>5
  <2>2. QED
    BY <2>1, <1>1, <1>9, InboxType
<1>11. \A s \in Sockets : s \notin to => inbox'[s] = inbox[s] /\ OnWay(s)' = OnWay(s)
  BY <1>9 DEF OnWay
<1>12. ASSUME NEW s \in Sockets, s \in to
       PROVE  inbox'[s] = Append(inbox[s], e) /\ OnWay(s)' = OnWay(s) \cup {e}
  BY <1>1, <1>9, <1>12, AppendOnWay
<1>13. QED
  BY <1>1, <1>2, <1>3, <1>4, <1>5, <1>7, <1>8, <1>10, <1>11, <1>12, <1>20

LEMMA AnnounceBase ==
  ASSUME Base, NEW h \in Handlers, Announce(h)
  PROVE  Base'
<1> DEFINE r == handler[h]
<1>1. PICK c, event : c = CallOf(h) /\ event = EventBy(h)
  OBVIOUS
<1>2. PICK to : to = Told(h)
  OBVIOUS
<1>3. /\ r \in Saved /\ InFlight(h) /\ r.op \in Ends
      /\ c \in 1 .. Len(call) /\ c \in CallIds /\ Mine(r.by, c)
      /\ event \in Events
      /\ room' \in [CallIds -> SUBSET Sockets]
      /\ \A d \in CallIds : d # c => room'[d] = room[d]
      /\ room'[c] = IF r.op = "accept" THEN room[c] \cup Client(h) ELSE room[c]
      /\ UNCHANGED <<call, screen, raced, dropped>>
  BY <1>1, <1>2, AnnounceFacts
<1>4. Shape /\ r.op # "invite" /\ handler' = [handler EXCEPT ![h] = Idle]
  BY <1>3 DEF Base, Ends, Announce
<1>5. /\ ToCome' = ToCome
      /\ handler' \in [Handlers -> Request]
      /\ \A g \in Handlers : HandlerFine(handler'[g])
  BY <1>3, <1>4, EmptyHandler
<1>6. /\ inbox' \in [Sockets -> Seq(Events \X CallIds)]
      /\ \A s \in Sockets : s \notin to => OnWay(s)' = OnWay(s)
      /\ \A s \in Sockets : s \in to => OnWay(s)' = OnWay(s) \cup {<<event, c>>}
  BY <1>1, <1>2, AnnounceFacts
<1>7. Shape'
  BY <1>3, <1>4, <1>5, <1>6 DEF Shape
<1>8. Kept
  BY <1>3, <1>4, SameIsKept
<1>9. \A s \in Client(h) : Mine(s, c)
  BY <1>3, ClientFacts
<1>10. \A s \in Sockets : s \in to => Mine(s, c)
  <2>1. \A s \in Sockets : s \in room[c] => Mine(s, c)
    BY <1>3 DEF Base, Belongs
  <2>2. \A s \in UserRoom(call[c].initiator) : Mine(s, c)
    BY <1>3 DEF UserRoom, Mine, Parties
  <2>3. QED
    BY <1>1, <1>2, <1>9, <2>1, <2>2, <1>3 DEF Told, CallOf, Audience, Base, Belongs
<1>11. \A s, d : Mine(s, d) => Mine(s, d)'
  BY <1>4, <1>8, MineStays
<1>12. ASSUME NEW s \in Sockets, NEW e, e \in OnWay(s)'
       PROVE  e \in OnWay(s) \/ Mine(s, e[2])'
  <2>1. CASE e = <<event, c>> /\ s \in to
    <3>1. e[2] = c
      BY <2>1
    <3>2. Mine(s, c)'
      BY <2>1, <1>10, <1>11
    <3>3. QED
      BY <3>1, <3>2
  <2>2. QED
    BY <2>1, <1>6, <1>12
<1>13. ASSUME NEW d \in CallIds, NEW s, s \in room'[d]
       PROVE  s \in room[d] \/ Mine(s, d)'
  BY <1>3, <1>9, <1>11, <1>13
<1>14. \A s \in Sockets : Holds(s)' = Holds(s)
  BY <1>3 DEF Holds, MediaCalls
<1>15. QED
  BY <1>3, <1>5, <1>7, <1>8, <1>12, <1>13, <1>14, BaseStep

\* What the relay of an offer does.
LEMMA RelayFacts ==
  ASSUME Base, NEW h \in Handlers, RelayOffer(h)
  PROVE  /\ InFlight(h) /\ handler[h].op = "offer"
         /\ CallOf(h) \in 1 .. Len(call) /\ CallOf(h) \in CallIds
         /\ inbox' \in [Sockets -> Seq(Events \X CallIds)]
         /\ \A s \in Sockets :
              \/ inbox'[s] = inbox[s] /\ OnWay(s)' = OnWay(s)
              \/ /\ s \in room[CallOf(h)]
                 /\ inbox'[s] = Append(inbox[s], <<"offer", CallOf(h)>>)
                 /\ OnWay(s)' = OnWay(s) \cup {<<"offer", CallOf(h)>>}
         /\ UNCHANGED <<call, room, screen, raced, dropped>>
<1> DEFINE r == handler[h]
<1>1. r \in Arrived /\ InFlight(h) /\ r.op = "offer" /\ Shape
  BY HandlerFacts DEF Base, RelayOffer, InFlight
<1>2. PICK c : c = CallOf(h) /\ c = r.call
  BY DEF CallOf
<1>3. c \in CallIds /\ c \in 1 .. Len(call)
  BY <1>1, <1>2 DEF Arrived, Base, Belongs, OnCall, Mine
<1>4. PICK e \in Events \X CallIds : e = <<"offer", c>>
  BY <1>3 DEF Events
<1>5. UNCHANGED <<call, room, screen, raced, dropped>>
  BY DEF RelayOffer
<1>6. CASE inbox' = inbox
  BY <1>1, <1>2, <1>3, <1>5, <1>6 DEF OnWay, Shape
<1>7. CASE inbox' # inbox
  <2>1. inbox' = [s \in Sockets |-> IF s \in room[c] \ Client(h) THEN Append(inbox[s], e)
                                   ELSE inbox[s]]
    BY <1>2, <1>4, <1>7 DEF RelayOffer, Emit
  <2>2. \A s \in Sockets : inbox'[s] = inbox[s] \/ (s \in room[c] /\ inbox'[s] = Append(inbox[s], e))
    BY <2>1
  <2>3. inbox' = [s \in Sockets |-> inbox'[s]]
    BY <2>1
  <2>4. inbox' \in [Sockets -> Seq(Events \X CallIds)]
    BY <1>1, <2>2, <2>3, InboxType
  <2>5. ASSUME NEW s \in Sockets, inbox'[s] = Append(inbox[s], e)
        PROVE  OnWay(s)' = OnWay(s) \cup {e}
    BY <1>1, <2>5, AppendOnWay
  <2>6. \A s \in Sockets : inbox'[s] = inbox[s] => OnWay(s)' = OnWay(s)
    BY DEF OnWay
  <2>7. QED
    BY <1>1, <1>2, <1>3, <1>4, <1>5, <2>2, <2>4, <2>5, <2>6
<1>8. QED
  BY <1>6, <1>7

LEMMA RelayBase ==
  ASSUME Base, NEW h \in Handlers, RelayOffer(h)
  PROVE  Base'
<1>1. PICK c : c = CallOf(h)
  OBVIOUS
<1>2. /\ handler[h].op = "offer" /\ c \in CallIds
      /\ inbox' \in [Sockets -> Seq(Events \X CallIds)]
      /\ \A s \in Sockets : \/ OnWay(s)' = OnWay(s)
                            \/ s \in room[c] /\ OnWay(s)' = OnWay(s) \cup {<<"offer", c>>}
      /\ UNCHANGED <<call, room, screen>>
  BY <1>1, RelayFacts
<1>3. Shape /\ handler[h].op # "invite"
  BY <1>2 DEF Base
<1>4. handler' = [handler EXCEPT ![h] = Idle]
  BY DEF RelayOffer
<1>5. /\ ToCome' = ToCome
      /\ handler' \in [Handlers -> Request]
      /\ \A g \in Handlers : HandlerFine(handler'[g])
  BY <1>3, <1>4, EmptyHandler
<1>6. Shape'
  BY <1>2, <1>3, <1>5 DEF Shape
<1>7. Kept
  BY <1>2, <1>3, SameIsKept
<1>8. ASSUME NEW s \in Sockets, NEW e, e \in OnWay(s)'
      PROVE  e \in OnWay(s) \/ Mine(s, e[2])'
  <2>1. CASE e = <<"offer", c>> /\ s \in room[c]
    <3>1. e[2] = c
      BY <2>1
    <3>2. Mine(s, c)
      BY <1>2, <2>1 DEF Base, Belongs
    <3>3. Mine(s, c)'
      BY <3>2, <1>3, <1>7, MineStays
    <3>4. QED
      BY <3>1, <3>3
  <2>2. QED
    BY <2>1, <1>2, <1>8
<1>9. \A s \in Sockets : Holds(s)' = Holds(s)
  BY <1>2 DEF Holds, MediaCalls
<1>10. QED
  BY <1>2, <1>5, <1>6, <1>7, <1>8, <1>9, BaseStep

\* What serving an invitation does: the next call is made, and nothing spoke of it before.
Next1 == Len(call) + 1

LEMMA ServeFacts ==
  ASSUME Base, NEW h \in Handlers, ServeInvite(h)
  PROVE  /\ h \in ToCome /\ InFlight(h) /\ handler[h].op = "invite" /\ handler[h].by \in Sockets
         /\ Next1 \in CallIds /\ Next1 \in 1 .. Len(call') /\ Len(call') = Next1
         /\ call' \in Seq(Row)
         /\ call'[Next1].status = "pending" /\ call'[Next1].initiator = UserOf[handler[h].by]
         /\ call'[Next1].receiver = handler[h].callee
         /\ call'[Next1].receiver # call'[Next1].initiator
         /\ \A c \in 1 .. Len(call) : call'[c] = call[c]
         /\ \A c \in 1 .. Len(call') : c = Next1 \/ c \in 1 .. Len(call)
         /\ Kept
         /\ room' \in [CallIds -> SUBSET Sockets]
         /\ \A c \in CallIds : c # Next1 => room'[c] = room[c]
         /\ room'[Next1] = Client(h)
         /\ inbox' \in [Sockets -> Seq(Events \X CallIds)]
         /\ \A s \in Sockets :
              \/ inbox'[s] = inbox[s] /\ OnWay(s)' = OnWay(s)
              \/ /\ UserOf[s] = handler[h].callee
                 /\ inbox'[s] = Append(inbox[s], <<"incoming", Next1>>)
                 /\ OnWay(s)' = OnWay(s) \cup {<<"incoming", Next1>>}
              \/ /\ s \in Client(h)
                 /\ inbox'[s] = Append(inbox[s], <<"ringing", Next1>>)
                 /\ OnWay(s)' = OnWay(s) \cup {<<"ringing", Next1>>}
         /\ handler'[h] = Idle /\ \A g \in Handlers : g # h => handler'[g] = handler[g]
         /\ UNCHANGED <<screen, raced, dropped>>
<1> DEFINE r == handler[h]
<1>1. r \in Inviting /\ InFlight(h) /\ r.op = "invite" /\ Shape
  BY HandlerFacts DEF Base, ServeInvite, InFlight
<1>2. PICK n : n = Next1
  OBVIOUS
<1>3. call \in Seq(Row) /\ Len(call) \in Nat
  BY <1>1 DEF Shape
<1>4. h \in ToCome
  BY <1>1 DEF ToCome
<1>5. n \in CallIds
  <2>1. Cardinality(ToCome) # 0 /\ Cardinality(ToCome) \in Nat
    BY <1>1, <1>4, FS_EmptySet, FS_CardinalityType DEF Shape
  <2>2. QED
    BY <1>1, <1>2, <1>3, <2>1, CallsAssumption DEF Shape, CallIds, Next1
<1>6. PICK row : row = [status |-> "pending", initiator |-> UserOf[r.by],
                        receiver |-> r.callee, started |-> FALSE]
  OBVIOUS
<1>7. row \in Row
  BY <1>1, <1>6, CallsAssumption DEF Row, Inviting, Statuses
<1>8. /\ call' = Append(call, row)
      /\ room' = [room EXCEPT ![n] = Client(h)]
      /\ inbox' = [s \in Sockets |->
                     IF s \in UserRoom(r.callee) THEN Append(inbox[s], <<"incoming", n>>)
                     ELSE IF s \in Client(h) THEN Append(inbox[s], <<"ringing", n>>)
                     ELSE inbox[s]]
      /\ handler' = [handler EXCEPT ![h] = Idle]
      /\ UNCHANGED <<screen, raced, dropped>>
  BY <1>2, <1>6 DEF ServeInvite, Next1
<1>9. /\ call' \in Seq(Row) /\ Len(call') = n /\ call'[n] = row
      /\ \A c \in 1 .. Len(call) : call'[c] = call[c]
  BY <1>2, <1>3, <1>7, <1>8, AppendProperties DEF Next1
<1>10. \A c \in 1 .. Len(call') : c = n \/ c \in 1 .. Len(call)
  BY <1>2, <1>3, <1>9 DEF Next1
<1>11. Kept /\ n \in 1 .. Len(call')
  BY <1>2, <1>3, <1>9 DEF Kept, Next1
<1>12. call'[n].receiver # call'[n].initiator
  BY <1>1, <1>6, <1>9 DEF Base, TwoParties
<1>13. Client(h) \subseteq Sockets
  BY <1>1, ClientFacts
<1>14. /\ room' \in [CallIds -> SUBSET Sockets]
       /\ \A c \in CallIds : c # n => room'[c] = room[c]
       /\ room'[n] = Client(h)
  BY <1>1, <1>5, <1>8, <1>13 DEF Shape
<1>15. PICK e1 \in Events \X CallIds, e2 \in Events \X CallIds :
         e1 = <<"incoming", n>> /\ e2 = <<"ringing", n>>
  BY <1>5 DEF Events
<1>16. \A s \in Sockets : \/ inbox'[s] = inbox[s]
                          \/ UserOf[s] = r.callee /\ inbox'[s] = Append(inbox[s], e1)
                          \/ s \in Client(h) /\ inbox'[s] = Append(inbox[s], e2)
  BY <1>8, <1>15 DEF UserRoom
<1>17. inbox' \in [Sockets -> Seq(Events \X CallIds)]
  <2>1. inbox' = [s \in Sockets |-> inbox'[s]]
    BY <1>8
  <2>2. QED
    BY <2>1, <1>1, <1>16, InboxType
<1>18. ASSUME NEW s \in Sockets, NEW e \in {e1, e2}, inbox'[s] = Append(inbox[s], e)
       PROVE  OnWay(s)' = OnWay(s) \cup {e}
  BY <1>1, <1>18, AppendOnWay
<1>19. \A s \in Sockets : inbox'[s] = inbox[s] => OnWay(s)' = OnWay(s)
  BY DEF OnWay
<1>20. /\ handler'[h] = Idle
       /\ \A g \in Handlers : g # h => handler'[g] = handler[g]
  BY <1>1, <1>8 DEF Shape
<1>21. \A s \in Sockets :
          \/ inbox'[s] = inbox[s] /\ OnWay(s)' = OnWay(s)
          \/ /\ UserOf[s] = r.callee
             /\ inbox'[s] = Append(inbox[s], e1)
             /\ OnWay(s)' = OnWay(s) \cup {e1}
          \/ /\ s \in Client(h)
             /\ inbox'[s] = Append(inbox[s], e2)
             /\ OnWay(s)' = OnWay(s) \cup {e2}
  BY <1>16, <1>18, <1>19
<1>22. row.status = "pending" /\ row.initiator = UserOf[r.by] /\ row.receiver = r.callee
         /\ r.by \in Sockets
  BY <1>1, <1>6 DEF Inviting
<1>23. QED
  BY <1>1, <1>2, <1>4, <1>5, <1>8, <1>9, <1>10, <1>11, <1>12, <1>14, <1>15, <1>17, <1>20, <1>21, <1>22, ZenonT(60)

LEMMA ServeBase ==
  ASSUME Base, NEW h \in Handlers, ServeInvite(h)
  PROVE  Base'
<1> DEFINE r == handler[h]
<1>1. PICK n : n = Next1
  OBVIOUS
<1>2. /\ h \in ToCome /\ r.by \in Sockets /\ InFlight(h)
      /\ n \in CallIds /\ n \in 1 .. Len(call') /\ Len(call') = n
      /\ call' \in Seq(Row)
      /\ call'[n].initiator = UserOf[r.by] /\ call'[n].receiver = r.callee
      /\ call'[n].receiver # call'[n].initiator
      /\ \A c \in 1 .. Len(call') : c = n \/ c \in 1 .. Len(call)
      /\ Kept
      /\ room' \in [CallIds -> SUBSET Sockets]
      /\ \A c \in CallIds : c # n => room'[c] = room[c]
      /\ room'[n] = Client(h)
      /\ inbox' \in [Sockets -> Seq(Events \X CallIds)]
      /\ \A s \in Sockets :
           \/ OnWay(s)' = OnWay(s)
           \/ UserOf[s] = r.callee /\ OnWay(s)' = OnWay(s) \cup {<<"incoming", n>>}
           \/ s \in Client(h) /\ OnWay(s)' = OnWay(s) \cup {<<"ringing", n>>}
      /\ handler'[h] = Idle /\ \A g \in Handlers : g # h => handler'[g] = handler[g]
      /\ screen' = screen
  BY <1>1, ServeFacts
<1>3. Shape
  BY DEF Base
<1>4. ToCome' = ToCome \ {h}
  BY <1>2 DEF ToCome, InFlight, Idle
<1>5. IsFiniteSet(ToCome') /\ Len(call') + Cardinality(ToCome') <= MaxCalls
  <2>1. IsFiniteSet(ToCome) /\ Cardinality(ToCome) \in Nat /\ Len(call) \in Nat
    BY <1>3, FS_CardinalityType DEF Shape
  <2>2. IsFiniteSet(ToCome \ {h}) /\ Cardinality(ToCome \ {h}) = Cardinality(ToCome) - 1
    BY <1>2, <2>1, FS_RemoveElement
  <2>3. Len(call) + Cardinality(ToCome) <= MaxCalls
    BY <1>3 DEF Shape
  <2>4. n = Len(call) + 1
    BY <1>1 DEF Next1
  <2>5. QED
    BY <1>2, <1>4, <2>1, <2>2, <2>3, <2>4, CallsAssumption
<1>6. handler' \in [Handlers -> Request]
  BY <1>3, IdleIsFine DEF ServeInvite, Shape
<1>7. Shape'
  BY <1>2, <1>3, <1>5, <1>6 DEF Shape
<1>8. \A g \in Handlers : HandlerFine(handler'[g])
  BY <1>2, IdleIsFine, HandlersAreFine
<1>9. \A s \in Client(h) : s = r.by
  BY <1>2, ClientFacts
<1>10. \A s \in Sockets : UserOf[s] = r.callee \/ s \in Client(h) => Mine(s, n)'
  BY <1>2, <1>9 DEF Mine, Parties
<1>11. ASSUME NEW s \in Sockets, NEW e, e \in OnWay(s)'
       PROVE  e \in OnWay(s) \/ Mine(s, e[2])'
  <2>1. CASE e \in {<<"incoming", n>>, <<"ringing", n>>} /\ (UserOf[s] = r.callee \/ s \in Client(h))
    <3>1. e[2] = n
      BY <2>1
    <3>2. Mine(s, n)'
      BY <2>1, <1>10
    <3>3. QED
      BY <3>1, <3>2
  <2>2. QED
    BY <2>1, <1>2, <1>11
<1>12. ASSUME NEW c \in CallIds, NEW s, s \in room'[c]
       PROVE  s \in room[c] \/ Mine(s, c)'
  BY <1>2, <1>9, <1>10, <1>12
<1>13. \A s \in Sockets : Holds(s)' = Holds(s)
  BY <1>2 DEF Holds, MediaCalls
<1>14. QED
  BY <1>2, <1>7, <1>8, <1>11, <1>12, <1>13, BaseStep

\* The handlers after a step of a tab.
LEMMA TabHandlers ==
  ASSUME Base, NEW h \in Handlers, NEW s \in Sockets, Asks(h, s) \/ Invites(h, s)
  PROVE  /\ ~InFlight(h)
         /\ \A g \in Handlers : g # h => handler'[g] = handler[g]
         /\ handler'[h].pc = "new" /\ HandlerFine(handler'[h])
         /\ handler'[h].op = "offer" => handler'[h].call \in MediaCalls(s) \ {NoCall}
         /\ handler' \in [Handlers -> Request]
         /\ IsFiniteSet(ToCome') /\ Len(call) + Cardinality(ToCome') <= MaxCalls
<1>1. Shape /\ IsFiniteSet(ToCome) /\ Cardinality(ToCome) \in Nat /\ Len(call) \in Nat
        /\ Len(call) + Cardinality(ToCome) <= MaxCalls /\ MaxCalls \in Nat
  BY FS_CardinalityType, CallsAssumption DEF Base, Shape
<1>2. CASE Asks(h, s)
  <2>1. PICK op \in Ends \cup {"offer"}, c \in Holds(s) \ {NoCall} :
          /\ handler' = [handler EXCEPT ![h] = Asking(op, s, c)]
          /\ c \in CallIds
          /\ op = "offer" => c \in MediaCalls(s)
    BY <1>2 DEF Asks
  <2>2. PICK r : r = Asking(op, s, c)
    OBVIOUS
  <2>3. r \in Arrived /\ r.pc = "new" /\ r.op = op /\ r.op # "invite" /\ r.by = s /\ r.call = c
    BY <2>1, <2>2 DEF Asking, Arrived, Ends
  <2>4. Mine(s, c)
    BY DEF Base, Belongs
  <2>5. HandlerFine(r)
    BY <2>3, <2>4 DEF HandlerFine
  <2>6. r \in Request
    BY <2>3 DEF Request
  <2>7. ~InFlight(h)
    BY <1>2 DEF Asks
  <2>8. ToCome' = ToCome
    BY <1>1, <2>1, <2>2, <2>3, <2>7, NoMoreToCome
  <2>9. /\ handler' \in [Handlers -> Request] /\ handler'[h] = r
        /\ \A g \in Handlers : g # h => handler'[g] = handler[g]
    BY <1>1, <2>1, <2>2, <2>6, OneHandler
  <2>10. QED
    BY <1>1, <2>1, <2>3, <2>5, <2>7, <2>8, <2>9
<1>3. CASE Invites(h, s)
  <2>1. PICK u \in Users \ {UserOf[s]} : handler' = [handler EXCEPT ![h] = Inviter(s, u)]
    BY <1>3 DEF Invites
  <2>2. PICK r : r = Inviter(s, u)
    OBVIOUS
  <2>3. /\ r \in Inviting /\ r.pc = "new" /\ r.op = "invite" /\ r.by = s /\ r.callee = u
    BY <2>1, <2>2 DEF Inviter, Inviting
  <2>4. HandlerFine(r)
    BY <2>1, <2>3 DEF HandlerFine
  <2>5. r \in Request
    BY <2>3 DEF Request
  <2>6. ~InFlight(h) /\ Len(call) + Cardinality(ToCome) < MaxCalls
    BY <1>3 DEF Invites
  <2>7. /\ handler' \in [Handlers -> Request] /\ handler'[h] = r
        /\ \A g \in Handlers : g # h => handler'[g] = handler[g]
    BY <1>1, <2>1, <2>2, <2>5, OneHandler
  <2>8. ToCome' = ToCome \cup {h} /\ h \notin ToCome
    BY <2>3, <2>6, <2>7 DEF ToCome, InFlight
  <2>9. IsFiniteSet(ToCome') /\ Cardinality(ToCome') = Cardinality(ToCome) + 1
    BY <1>1, <2>8, FS_AddElement
  <2>10. Len(call) + Cardinality(ToCome') <= MaxCalls
    BY <1>1, <2>6, <2>9
  <2>11. QED
    BY <2>3, <2>4, <2>6, <2>7, <2>9, <2>10
<1>4. QED
  BY <1>2, <1>3

LEMMA TabFacts ==
  ASSUME Base, NEW h \in Handlers, NEW s \in Sockets, TabStep(h, s)
  PROVE  /\ UNCHANGED <<call, room, inbox, raced, dropped>>
         /\ screen' \in [Sockets -> Screen]
         /\ \A t \in Sockets : /\ Holds(t)' \subseteq Holds(t) \cup {NoCall}
                               /\ MediaCalls(t)' \subseteq MediaCalls(t) \cup {NoCall}
                               /\ screen'[t].active \in {screen[t].active, NoCall}
         /\ handler' \in [Handlers -> Request]
         /\ IsFiniteSet(ToCome') /\ Len(call) + Cardinality(ToCome') <= MaxCalls
         /\ \A g \in Handlers : \/ handler'[g] = handler[g]
                                \/ /\ ~InFlight(g)
                                   /\ handler'[g].pc = "new" /\ HandlerFine(handler'[g])
                                   /\ handler'[g].op = "offer" =>
                                        handler'[g].call \in MediaCalls(s) \ {NoCall}
<1>1. Shape
  BY DEF Base
<1>2. /\ UNCHANGED <<call, room, inbox, raced, dropped>>
      /\ \E new : screen' = [screen EXCEPT ![s] = new] /\ LessHeld(new, screen[s])
      /\ handler' = handler \/ Asks(h, s) \/ Invites(h, s)
  BY <1>1, TabSteps
<1>3. /\ screen' \in [Sockets -> Screen]
      /\ \A t \in Sockets : /\ Holds(t)' \subseteq Holds(t) \cup {NoCall}
                            /\ MediaCalls(t)' \subseteq MediaCalls(t) \cup {NoCall}
                            /\ screen'[t].active \in {screen[t].active, NoCall}
  <2>1. PICK new : screen' = [screen EXCEPT ![s] = new] /\ LessHeld(new, screen[s])
    BY <1>2
  <2>2. QED
    BY <1>1, <2>1, TabScreen
<1>4. CASE handler' = handler
  <2>1. ToCome' = ToCome
    BY <1>4 DEF ToCome, InFlight
  <2>2. QED
    BY <1>1, <1>2, <1>3, <1>4, <2>1 DEF Shape
<1>5. CASE Asks(h, s) \/ Invites(h, s)
  BY <1>2, <1>3, <1>5, TabHandlers
<1>6. QED
  BY <1>2, <1>4, <1>5

LEMMA TabBase ==
  ASSUME Base, NEW h \in Handlers, NEW s \in Sockets, TabStep(h, s)
  PROVE  Base'
<1>1. Shape
  BY DEF Base
<1>2. UNCHANGED <<call, room, inbox, raced, dropped>> /\ Kept
  BY <1>1, TabFacts, SameIsKept
<1>3. Shape'
  BY <1>1, <1>2, TabFacts DEF Shape
<1>4. \A g \in Handlers : HandlerFine(handler'[g])
  BY TabFacts, HandlersAreFine
<1>5. \A t \in Sockets : Holds(t)' \subseteq Holds(t) \cup {NoCall}
  BY TabFacts
<1>6. \A t \in Sockets : OnWay(t)' = OnWay(t)
  BY <1>2 DEF OnWay
<1>7. QED
  BY <1>2, <1>3, <1>4, <1>5, <1>6, BaseStep

\* What taking an event does to the tabs.
LEMMA TakeFacts ==
  ASSUME Base, NEW s \in Sockets, Receive(s)
  PROVE  /\ screen' \in [Sockets -> Screen]
         /\ \A t \in Sockets : t # s => screen'[t] = screen[t]
         /\ inbox[s][1] \in Events \X CallIds /\ inbox[s][1] \in OnWay(s)
         /\ inbox[s][1][1] \in {"ringing", "accepted"} => screen'[s].active = inbox[s][1][2]
         /\ inbox[s][1][1] \in {"rejected", "ended"} => screen'[s].active = NoCall
         /\ inbox[s][1][1] \in {"incoming", "offer"} => screen'[s].active = screen[s].active
         /\ Holds(s)' \subseteq Holds(s) \cup {NoCall, inbox[s][1][2]}
         /\ MediaCalls(s)' \subseteq MediaCalls(s) \cup {NoCall}
              \cup (IF inbox[s][1][1] \in {"accepted", "offer"} THEN {inbox[s][1][2]} ELSE {})
<1>1. PICK event \in Events, c \in CallIds : inbox[s][1] = <<event, c>>
  BY ReceiveFacts DEF Base
<1>2. inbox[s][1][1] = event /\ inbox[s][1][2] = c
  BY <1>1
<1>3. PICK tab \in Screen : tab = screen[s]
  BY DEF Base, Shape
<1>4. PICK new : new = After(tab, event, c)
  OBVIOUS
<1>5. screen' = [screen EXCEPT ![s] = new]
  BY <1>2, <1>3, <1>4, ReceiveFacts DEF Base
<1>6. /\ new \in Screen
      /\ new.incoming \in {tab.incoming, c, NoCall}
      /\ event \in {"ringing", "accepted"} => new.active = c
      /\ event \in {"rejected", "ended"} => new.active = NoCall
      /\ event \in {"incoming", "offer"} => new.active = tab.active
      /\ new.active \in {tab.active, c, NoCall}
      /\ {new.peer} \cup {m[1] : m \in new.starting}
           \subseteq {tab.peer, NoCall} \cup {m[1] : m \in tab.starting}
                       \cup (IF event \in {"accepted", "offer"} THEN {c} ELSE {})
  BY <1>4, AfterFacts
<1>7. /\ screen' \in [Sockets -> Screen] /\ screen'[s] = new
      /\ \A t \in Sockets : t # s => screen'[t] = screen[t]
  BY <1>5, <1>6 DEF Base, Shape
<1>8. MediaCalls(s)' = {new.peer} \cup {m[1] : m \in new.starting}
        /\ MediaCalls(s) = {tab.peer} \cup {m[1] : m \in tab.starting}
  BY <1>3, <1>7 DEF MediaCalls
<1>9. MediaCalls(s)' \subseteq MediaCalls(s) \cup {NoCall}
              \cup (IF event \in {"accepted", "offer"} THEN {c} ELSE {})
  BY <1>6, <1>8
<1>10. Holds(s)' = {new.incoming, new.active} \cup MediaCalls(s)'
         /\ Holds(s) = {tab.incoming, tab.active} \cup MediaCalls(s)
  BY <1>3, <1>7 DEF Holds
<1>11. Holds(s)' \subseteq Holds(s) \cup {NoCall, c}
  BY <1>6, <1>9, <1>10
<1>12. inbox[s][1] \in OnWay(s)
  BY ReceiveFacts DEF Base
<1>13. QED
  BY <1>1, <1>2, <1>3, <1>6, <1>7, <1>9, <1>11, <1>12

LEMMA ReceiveBase ==
  ASSUME Base, NEW s \in Sockets, Receive(s)
  PROVE  Base'
<1>1. Shape
  BY DEF Base
<1>2. UNCHANGED <<call, room, handler, raced, dropped>> /\ Kept
  BY <1>1, SameIsKept DEF Receive
<1>3. ToCome' = ToCome
  BY <1>2 DEF ToCome, InFlight
<1>4. inbox' \in [Sockets -> Seq(Events \X CallIds)] /\ screen' \in [Sockets -> Screen]
  BY <1>1, ReceiveFacts, TakeFacts
<1>5. Shape'
  BY <1>1, <1>2, <1>3, <1>4 DEF Shape
<1>6. \A g \in Handlers : HandlerFine(handler'[g])
  BY <1>2, HandlersAreFine
<1>7. \A t \in Sockets : OnWay(t)' \subseteq OnWay(t)
  BY <1>1, ReceiveFacts
<1>8. PICK c : c = inbox[s][1][2]
  OBVIOUS
<1>9. Mine(s, c)
  BY <1>8, TakeFacts DEF Base, Belongs
<1>10. Mine(s, c)'
  BY <1>1, <1>2, <1>9, MineStays
<1>11. ASSUME NEW t \in Sockets, NEW d, d \in Holds(t)'
       PROVE  d = NoCall \/ d \in Holds(t) \/ Mine(t, d)'
  <2>1. CASE t = s
    BY <1>8, <1>10, <1>11, <2>1, TakeFacts
  <2>2. CASE t # s
    <3>1. screen'[t] = screen[t]
      BY <2>2, TakeFacts
    <3>2. Holds(t)' = Holds(t)
      BY <3>1 DEF Holds, MediaCalls
    <3>3. QED
      BY <1>11, <3>2
  <2>3. QED
    BY <2>1, <2>2
<1>12. QED
  BY <1>2, <1>5, <1>6, <1>7, <1>11, BaseStep

\* A lost connection marks the handlers it called, and takes its socket out of everything.
LEMMA ReconnectFacts ==
  ASSUME Base, NEW s \in Sockets, Reconnect(s)
  PROVE  /\ UNCHANGED <<call, screen, raced>>
         /\ dropped' = dropped \cup {s}
         /\ inbox'[s] = << >> /\ \A t \in Sockets : t # s => inbox'[t] = inbox[t]
         /\ OnWay(s)' = {} /\ \A t \in Sockets : t # s => OnWay(t)' = OnWay(t)
         /\ inbox' \in [Sockets -> Seq(Events \X CallIds)]
         /\ \A c \in CallIds : room'[c] = room[c] \ {s}
         /\ room' \in [CallIds -> SUBSET Sockets]
         /\ handler' \in [Handlers -> Request]
         /\ \A h \in Handlers :
              \/ handler'[h] = handler[h]
              \/ InFlight(h) /\ handler'[h] = [handler[h] EXCEPT !.gone = TRUE]
<1>1. Shape
  BY DEF Base
<1>2. << >> \in Seq(Events \X CallIds)
  OBVIOUS
<1>3. /\ inbox'[s] = << >> /\ \A t \in Sockets : t # s => inbox'[t] = inbox[t]
      /\ inbox' \in [Sockets -> Seq(Events \X CallIds)]
  BY <1>1, <1>2 DEF Reconnect, Shape
<1>4. OnWay(s)' = {}
  <2>1. DOMAIN inbox'[s] = {}
    BY <1>3
  <2>2. QED
    BY <2>1 DEF OnWay
<1>5. \A t \in Sockets : t # s => OnWay(t)' = OnWay(t)
  BY <1>3 DEF OnWay
<1>6. /\ \A c \in CallIds : room'[c] = room[c] \ {s}
      /\ room' \in [CallIds -> SUBSET Sockets]
  BY <1>1 DEF Reconnect, Shape
<1>7. \A h \in Handlers :
        \/ handler'[h] = handler[h]
        \/ InFlight(h) /\ handler'[h] = [handler[h] EXCEPT !.gone = TRUE]
  BY DEF Reconnect
<1>8. ASSUME NEW h \in Handlers
      PROVE  handler'[h] \in Request
  <2>1. PICK r \in Request : r = handler[h]
    BY <1>1 DEF Shape
  <2>2. CASE handler'[h] = r
    BY <2>2
  <2>3. CASE InFlight(h) /\ handler'[h] = [r EXCEPT !.gone = TRUE]
    <3>1. r # Idle
      BY <2>1, <2>3, IdleIsFine DEF InFlight
    <3>2. CASE r \in Inviting
      BY <2>3, <3>2 DEF Request, Inviting
    <3>3. CASE r \in Arrived
      BY <2>3, <3>3 DEF Request, Arrived
    <3>4. CASE r \in Checked
      BY <2>3, <3>4 DEF Request, Checked
    <3>5. CASE r \in Fetched
      BY <2>3, <3>5 DEF Request, Fetched
    <3>6. CASE r \in Saved
      BY <2>3, <3>6 DEF Request, Saved
    <3>7. QED
      BY <3>1, <3>2, <3>3, <3>4, <3>5, <3>6 DEF Request
  <2>4. QED
    BY <1>7, <2>1, <2>2, <2>3
<1>9. handler' \in [Handlers -> Request]
  BY <1>8 DEF Reconnect
<1>10. UNCHANGED <<call, screen, raced>> /\ dropped' = dropped \cup {s}
  BY DEF Reconnect
<1>11. QED
  BY <1>3, <1>4, <1>5, <1>6, <1>7, <1>9, <1>10

\* Otherwise the handlers stay what they are.
LEMMA ReconnectHandlers ==
  ASSUME Base, NEW s \in Sockets, Reconnect(s), NEW h \in Handlers
  PROVE  /\ handler'[h].pc = handler[h].pc
         /\ InFlight(h) => handler'[h].op = handler[h].op /\ handler'[h].by = handler[h].by
         /\ OnCall(h) => handler'[h].call = handler[h].call
         /\ InFlight(h) /\ handler[h].op = "invite" => handler'[h].callee = handler[h].callee
         /\ Decided(h) => handler'[h].outcome = handler[h].outcome
         /\ handler[h].pc = "fetched" => handler'[h].copy = handler[h].copy
<1>1. Shape
  BY DEF Base
<1>2. PICK r, new : r = handler[h] /\ new = handler'[h]
  OBVIOUS
<1>3. CASE new = r
  BY <1>2, <1>3
<1>4. CASE InFlight(h) /\ new = [r EXCEPT !.gone = TRUE]
  <2>1. r \in Request /\ r # Idle
    BY <1>1, <1>2, <1>4, IdleIsFine DEF InFlight, Shape
  <2>2. CASE r \in Inviting
    BY <1>2, <1>4, <2>2 DEF Inviting, OnCall, Decided
  <2>3. CASE r \in Arrived
    BY <1>2, <1>4, <2>3 DEF Arrived, Ends, OnCall, Decided
  <2>4. CASE r \in Checked
    BY <1>2, <1>4, <2>4 DEF Checked, Ends, OnCall, Decided
  <2>5. CASE r \in Fetched
    BY <1>2, <1>4, <2>5 DEF Fetched, Ends, OnCall, Decided
  <2>6. CASE r \in Saved
    BY <1>2, <1>4, <2>6 DEF Saved, Ends, OnCall, Decided
  <2>7. QED
    BY <2>1, <2>2, <2>3, <2>4, <2>5, <2>6 DEF Request
<1>5. QED
  BY <1>2, <1>3, <1>4, ReconnectFacts

LEMMA ReconnectBase ==
  ASSUME Base, NEW s \in Sockets, Reconnect(s)
  PROVE  Base'
<1>1. Shape
  BY DEF Base
<1>2. UNCHANGED <<call, screen, raced>>
  BY ReconnectFacts
<1>3. Kept
  BY <1>1, <1>2, SameIsKept
<1>4. ToCome' = ToCome
  <2>1. \A h \in Handlers : h \in ToCome' <=> h \in ToCome
    BY ReconnectHandlers DEF ToCome, InFlight
  <2>2. QED
    BY <2>1 DEF ToCome
<1>5. Shape'
  BY <1>1, <1>2, <1>4, ReconnectFacts DEF Shape
<1>6. ASSUME NEW h \in Handlers
      PROVE  HandlerFine(handler'[h])
  <2>1. PICK r, new : r = handler[h] /\ new = handler'[h]
    OBVIOUS
  <2>2. HandlerFine(r)
    BY <2>1, HandlersAreFine
  <2>3. /\ new.pc = r.pc
        /\ r.pc # "idle" => new.op = r.op /\ new.by = r.by
        /\ r.pc # "idle" /\ r.op # "invite" => new.call = r.call
        /\ r.pc # "idle" /\ r.op = "invite" => new.callee = r.callee
        /\ r.pc = "fetched" => new.copy = r.copy /\ r.op # "invite"
    BY <1>1, <2>1, ReconnectHandlers, HandlerFacts DEF InFlight, OnCall, Fetched, Ends
  <2>4. HandlerFine(new)
    BY <2>2, <2>3 DEF HandlerFine
  <2>5. QED
    BY <2>1, <2>4
<1>7. \A t \in Sockets : OnWay(t)' \subseteq OnWay(t)
  BY ReconnectFacts
<1>8. \A t \in Sockets : Holds(t)' = Holds(t)
  BY <1>2 DEF Holds, MediaCalls
<1>9. \A c \in CallIds : room'[c] \subseteq room[c]
  BY ReconnectFacts
<1>10. QED
  BY <1>2, <1>3, <1>5, <1>6, <1>7, <1>8, <1>9, BaseStep

LEMMA BaseInit == Init => Base
<1> SUFFICES ASSUME Init PROVE Base
  OBVIOUS
<1>1. \A h \in Handlers : handler[h] = Idle /\ ~InFlight(h)
  BY IdleIsFine DEF Init, InFlight
<1>2. ToCome = {}
  BY <1>1 DEF ToCome
<1>3. IsFiniteSet(ToCome) /\ Cardinality(ToCome) = 0 /\ Len(call) = 0 /\ call \in Seq(Row)
  BY <1>2, FS_EmptySet DEF Init
<1>4. inbox \in [Sockets -> Seq(Events \X CallIds)]
  <2>1. << >> \in Seq(Events \X CallIds)
    OBVIOUS
  <2>2. QED
    BY <2>1 DEF Init
<1>5. screen \in [Sockets -> Screen]
  BY DEF Init, Screen
<1>6. Shape
  <2>1. room \in [CallIds -> SUBSET Sockets] /\ handler \in [Handlers -> Request]
    BY IdleIsFine DEF Init
  <2>2. Len(call) + Cardinality(ToCome) <= MaxCalls
    BY <1>3, CallsAssumption
  <2>3. QED
    BY <1>3, <1>4, <1>5, <2>1, <2>2 DEF Shape
<1>7. \A s \in Sockets : OnWay(s) = {} /\ Holds(s) = {NoCall}
  <2>1. ASSUME NEW s \in Sockets
        PROVE  OnWay(s) = {} /\ Holds(s) = {NoCall}
    <3>1. DOMAIN inbox[s] = {}
      BY DEF Init
    <3>2. {m[1] : m \in screen[s].starting} = {}
      BY DEF Init
    <3>3. QED
      BY <3>1, <3>2 DEF OnWay, Holds, MediaCalls, Init
  <2>2. QED
    BY <2>1
<1>8. Belongs
  BY <1>1, <1>7 DEF Belongs, OnCall, Init
<1>9. TwoParties
  <2>1. \A c \in 1 .. Len(call) : FALSE
    BY <1>3
  <2>2. \A h \in Handlers : handler[h].pc # "fetched"
    BY <1>1, IdleIsFine
  <2>3. QED
    BY <1>1, <2>1, <2>2 DEF TwoParties
<1>10. QED
  BY <1>6, <1>8, <1>9 DEF Base

\* Nothing happens: the state functions stay what they are.
LEMMA StutterBase ==
  ASSUME Base, UNCHANGED vars
  PROVE  Base'
BY DEF vars, Base, Shape, Belongs, TwoParties, ToCome, InFlight, OnWay, Holds, MediaCalls, Mine,
       Parties, OnCall

LEMMA BaseNext == Base /\ [Next]_vars => Base'
<1> SUFFICES ASSUME Base, [Next]_vars PROVE Base'
  OBVIOUS
<1>1. ASSUME NEW h \in Handlers, GatewayStep(h)
      PROVE  Base'
  BY <1>1, ServeBase, CheckBase, FetchBase, SaveBase, AnnounceBase, RelayBase DEF GatewayStep
<1>2. ASSUME NEW h \in Handlers, NEW s \in Sockets, TabStep(h, s)
      PROVE  Base'
  BY <1>2, TabBase
<1>3. ASSUME NEW s \in Sockets, Receive(s) \/ Reconnect(s)
      PROVE  Base'
  BY <1>3, ReceiveBase, ReconnectBase
<1>4. QED
  BY <1>1, <1>2, <1>3, StutterBase DEF Next

-----------------------------------------------------------------------------
(***************************************************************************)
(* Undisturbed calls.  The lemmas about handlers that do not change go     *)
(* over to the next state what Calm says of them.                          *)
(***************************************************************************)
SameWork(h) ==
  /\ handler'[h].pc = handler[h].pc /\ handler'[h].op = handler[h].op
  /\ handler'[h].by = handler[h].by /\ handler'[h].call = handler[h].call
  /\ Decided(h) => handler'[h].outcome = handler[h].outcome
  /\ handler[h].pc = "fetched" => handler'[h].copy = handler[h].copy

AtWork(r) == r.pc \in {"checked", "fetched", "saved"}

LEMMA KnowsStays ==
  ASSUME NEW h \in Handlers, AtWork(handler[h]), SameWork(h), Knows(h),
         call'[handler[h].call] = call[handler[h].call]
  PROVE  Knows(h)'
<1>1. PICK row, c : c = handler[h].call /\ row = call[c]
  OBVIOUS
<1>2. handler'[h].call = c /\ call'[c] = row
  BY <1>1 DEF SameWork
<1>3. Decided(h)' <=> Decided(h)
  BY DEF Decided, SameWork
<1>4. handler[h].pc = "fetched" => handler'[h].copy = row
  BY <1>1 DEF Knows, SameWork
<1>5. Decided(h) => /\ Permits(handler[h].op, row, UserOf[handler[h].by])
                    /\ handler[h].outcome = Outcome(handler[h].op, row.status)
  BY <1>1 DEF Knows
<1>6. Decided(h) => /\ Permits(handler'[h].op, row, UserOf[handler'[h].by])
                    /\ handler'[h].outcome = Outcome(handler'[h].op, row.status)
  BY <1>5 DEF SameWork
<1>7. handler'[h].pc = "saved" =>
        /\ handler'[h].op = "accept" => row.status = "active" /\ row.started
        /\ handler'[h].op = "reject" => row.status = "rejected"
        /\ handler'[h].op = "hangup" => row.status \in {"missed", "ended"}
  BY <1>1 DEF SameWork, Knows
<1>8. handler'[h].pc = "fetched" => handler[h].pc = "fetched"
  BY DEF SameWork
<1>9. QED
  BY <1>2, <1>3, <1>4, <1>6, <1>7, <1>8 DEF Knows

\* No handler is at work that was not, and the calls stay as they are.
LEMMA CalmKeeps ==
  ASSUME Base, Calm, raced' = raced,
         \A c \in 1 .. Len(call) : call'[c] = call[c],
         \A h \in Handlers : AtWork(handler'[h]) => AtWork(handler[h]) /\ SameWork(h)
  PROVE  Calm'
<1>1. \A h \in Handlers, c \in CallIds : Busy(h, c)' => Busy(h, c)
  BY DEF Busy, AtWork, SameWork
<1>2. ASSUME NEW h \in Handlers, NEW c \in CallIds, Busy(h, c)', Undisturbed(c)'
      PROVE  Knows(h)' /\ \A g \in Handlers : Busy(g, c)' => g = h
  <2>1. Busy(h, c) /\ Undisturbed(c)
    BY <1>1, <1>2 DEF Undisturbed
  <2>2. AtWork(handler[h]) /\ SameWork(h) /\ handler[h].call = c /\ OnCall(h)
    <3>1. AtWork(handler[h]) /\ handler[h].call = c /\ AtWork(handler'[h])
      BY <1>2, <2>1 DEF Busy, AtWork
    <3>2. OnCall(h)
      BY <3>1, HandlerFacts DEF Base, AtWork, OnCall, InFlight, Checked, Fetched, Saved, Ends
    <3>3. QED
      BY <3>1, <3>2
  <2>3. c \in 1 .. Len(call)
    BY <2>2 DEF Base, Belongs, Mine
  <2>4. Knows(h) /\ \A g \in Handlers : Busy(g, c) => g = h
    BY <2>1 DEF Calm
  <2>5. Knows(h)'
    BY <2>2, <2>3, <2>4, KnowsStays
  <2>6. QED
    BY <1>1, <2>4, <2>5
<1>3. QED
  BY <1>2 DEF Calm

\* A handler at work has a call, which was made, and its socket is that of a party.
LEMMA WorkFacts ==
  ASSUME Base, NEW h \in Handlers, AtWork(handler[h])
  PROVE  /\ OnCall(h) /\ InFlight(h) /\ handler[h].op \in Ends
         /\ CallOf(h) \in 1 .. Len(call) /\ CallOf(h) \in CallIds
         /\ Mine(handler[h].by, CallOf(h))
         /\ Busy(h, CallOf(h))
<1>1. Shape
  BY DEF Base
<1>2. OnCall(h) /\ InFlight(h) /\ handler[h].op \in Ends
  BY <1>1, HandlerFacts DEF AtWork, OnCall, InFlight, Checked, Fetched, Saved, Ends
<1>3. CallOf(h) \in CallIds
  BY <1>1, <1>2, HandlerFacts DEF CallOf
<1>4. Mine(handler[h].by, CallOf(h))
  BY <1>2 DEF Base, Belongs, CallOf
<1>5. QED
  BY <1>2, <1>3, <1>4 DEF Mine, Busy, AtWork, CallOf

\* One handler goes on; the others and their calls stay as they are.
LEMMA CalmGoesOn ==
  ASSUME Base, Calm, NEW h \in Handlers, raced \subseteq raced',
         \A g \in Handlers : g # h => handler'[g] = handler[g],
         \A c \in 1 .. Len(call) : c = CallOf(h) \/ call'[c] = call[c],
         CallOf(h)' = CallOf(h),
         Undisturbed(CallOf(h))' =>
           Knows(h)' /\ \A g \in Handlers : Busy(g, CallOf(h)) => g = h
  PROVE  Calm'
<1>1. PICK d : d = CallOf(h)
  OBVIOUS
<1>2. handler'[h].call = d
  BY <1>1 DEF CallOf
<1>3. \A c \in CallIds : Undisturbed(c)' => Undisturbed(c)
  BY DEF Undisturbed
<1>4. \A g \in Handlers, c \in CallIds : g # h => (Busy(g, c)' <=> Busy(g, c))
  BY DEF Busy
<1>5. Undisturbed(d)' => Knows(h)' /\ \A g \in Handlers : Busy(g, d) => g = h
  BY <1>1
<1>6. ASSUME NEW g \in Handlers, NEW c \in CallIds, Busy(g, c)', Undisturbed(c)', c # d
      PROVE  Knows(g)' /\ \A f \in Handlers : Busy(f, c)' => f = g
  <2>1. g # h
    BY <1>2, <1>6 DEF Busy
  <2>2. Busy(g, c) /\ Undisturbed(c) /\ AtWork(handler[g]) /\ handler[g].call = c
    BY <1>3, <1>4, <1>6, <2>1 DEF Busy, AtWork
  <2>3. Knows(g) /\ \A f \in Handlers : Busy(f, c) => f = g
    BY <2>2 DEF Calm
  <2>4. c \in 1 .. Len(call)
    BY <2>2, WorkFacts DEF CallOf
  <2>5. SameWork(g) /\ call'[c] = call[c]
    BY <1>1, <1>6, <2>1, <2>4 DEF SameWork
  <2>6. Knows(g)'
    BY <2>2, <2>3, <2>5, KnowsStays
  <2>7. ASSUME NEW f \in Handlers, Busy(f, c)'
        PROVE  f = g
    <3>1. f # h
      BY <1>2, <1>6, <2>7 DEF Busy
    <3>2. QED
      BY <1>4, <2>3, <2>7, <3>1
  <2>8. QED
    BY <2>6, <2>7
<1>7. ASSUME NEW g \in Handlers, Busy(g, d)', Undisturbed(d)', d \in CallIds
      PROVE  Knows(g)' /\ \A f \in Handlers : Busy(f, d)' => f = g
  BY <1>4, <1>5, <1>7
<1>8. QED
  BY <1>6, <1>7 DEF Calm

\* The outcomes a handler may have decided on are those of a call that lives its life.
LEMMA OutcomeFits ==
  ASSUME NEW op \in Ends, NEW row \in Row, NEW user, Permits(op, row, user)
  PROVE  /\ <<row.status, Outcome(op, row.status)>> \in CallLife
         /\ op = "accept" => Outcome(op, row.status) = "active"
         /\ op = "reject" => Outcome(op, row.status) = "rejected"
         /\ op = "hangup" => Outcome(op, row.status) \in {"missed", "ended"}
         /\ op \in {"accept", "reject"} => row.status = "pending" /\ row.receiver = user
<1>1. row.status \in Statuses
  BY DEF Row
<1>2. CASE op = "accept"
  BY <1>2 DEF Permits, Outcome, CallLife
<1>3. CASE op = "reject"
  BY <1>3 DEF Permits, Outcome, CallLife
<1>4. CASE op = "hangup"
  BY <1>1, <1>4 DEF Permits, Outcome, CallLife, Statuses
<1>5. QED
  BY <1>2, <1>3, <1>4 DEF Ends

LEMMA SameWorkIfSame ==
  ASSUME NEW h \in Handlers, handler'[h] = handler[h]
  PROVE  SameWork(h)
BY DEF SameWork

\* What a check does.
LEMMA CheckFacts ==
  ASSUME Base, NEW h \in Handlers, Check(h)
  PROVE  /\ handler[h] \in Arrived /\ handler[h].op \in Ends /\ InFlight(h) /\ OnCall(h)
         /\ CallOf(h) \in 1 .. Len(call) /\ CallOf(h) \in CallIds
         /\ Mine(handler[h].by, CallOf(h))
         /\ raced \subseteq raced'
         /\ \A g \in Handlers : g # h => handler'[g] = handler[g]
         /\ UNCHANGED <<call, room, inbox, screen, dropped>>
         /\ \/ handler'[h] = Idle /\ raced' = raced
            \/ /\ handler'[h].pc = "checked" /\ handler'[h].op = handler[h].op
               /\ handler'[h].by = handler[h].by /\ handler'[h].call = handler[h].call
               /\ handler'[h].outcome = Outcome(handler[h].op, call[CallOf(h)].status)
               /\ Permits(handler[h].op, call[CallOf(h)], UserOf[handler[h].by])
               /\ CallOf(h) \in raced' \/ \A g \in Handlers : ~Busy(g, CallOf(h))
<1> DEFINE r == handler[h]
<1>1. r \in Arrived /\ r.op \in Ends /\ InFlight(h) /\ OnCall(h) /\ Shape
  BY HandlerFacts DEF Base, Check, InFlight, OnCall, Ends
<1>2. PICK c : c = CallOf(h) /\ c = r.call
  BY DEF CallOf
<1>3. Mine(r.by, c) /\ c \in 1 .. Len(call) /\ c \in CallIds
  BY <1>1, <1>2 DEF Base, Belongs, Mine, Arrived
<1>4. UNCHANGED <<call, room, inbox, screen, dropped>> /\ raced \subseteq raced'
  BY DEF Check
<1>5. CASE Permits(r.op, call[c], UserOf[r.by])
  <2>1. PICK new : new = [pc |-> "checked", op |-> r.op, by |-> r.by, call |-> c,
                          gone |-> r.gone, outcome |-> Outcome(r.op, call[c].status)]
    OBVIOUS
  <2>2. handler' = [handler EXCEPT ![h] = new]
    BY <1>2, <1>5, <2>1 DEF Check
  <2>3. handler'[h] = new /\ \A g \in Handlers : g # h => handler'[g] = handler[g]
    BY <1>1, <2>2 DEF Shape
  <2>4. raced' = IF \E g \in Handlers : Busy(g, c) THEN raced \cup {c} ELSE raced
    BY <1>2, <1>5 DEF Check
  <2>5. QED
    BY <1>1, <1>2, <1>3, <1>4, <1>5, <2>1, <2>3, <2>4
<1>6. CASE ~Permits(r.op, call[c], UserOf[r.by])
  <2>1. handler' = [handler EXCEPT ![h] = Idle] /\ raced' = raced
    BY <1>2, <1>6 DEF Check
  <2>2. handler'[h] = Idle /\ \A g \in Handlers : g # h => handler'[g] = handler[g]
    BY <1>1, <2>1 DEF Shape
  <2>3. QED
    BY <1>1, <1>2, <1>3, <1>4, <2>1, <2>2
<1>7. QED
  BY <1>5, <1>6

\* What a fetch does.
LEMMA FetchFacts ==
  ASSUME Base, NEW h \in Handlers, Fetch(h)
  PROVE  /\ handler[h].pc = "checked" /\ AtWork(handler[h])
         /\ \A g \in Handlers : g # h => handler'[g] = handler[g]
         /\ UNCHANGED <<call, room, inbox, screen, raced, dropped>>
         /\ handler'[h].pc = "fetched" /\ handler'[h].op = handler[h].op
         /\ handler'[h].by = handler[h].by /\ handler'[h].call = handler[h].call
         /\ handler'[h].outcome = handler[h].outcome
         /\ handler'[h].copy = call[CallOf(h)]
<1> DEFINE r == handler[h]
<1>1. r \in Checked
  BY HandlerFacts DEF Base, Fetch
<1>2. PICK new : new = [pc |-> "fetched", op |-> r.op, by |-> r.by, call |-> r.call,
                        gone |-> r.gone, outcome |-> r.outcome, copy |-> call[CallOf(h)]]
  OBVIOUS
<1>3. handler' = [handler EXCEPT ![h] = new]
  BY <1>2 DEF Fetch, CallOf
<1>4. handler'[h] = new /\ \A g \in Handlers : g # h => handler'[g] = handler[g]
  BY <1>3 DEF Base, Shape
<1>5. r.pc = "checked" /\ AtWork(r)
  BY <1>1 DEF Checked, AtWork
<1>6. UNCHANGED <<call, room, inbox, screen, raced, dropped>>
  BY DEF Fetch
<1>7. QED
  BY <1>2, <1>4, <1>5, <1>6

\* What a save does to its handler.
LEMMA SaveHandlers ==
  ASSUME Base, NEW h \in Handlers, Save(h)
  PROVE  /\ handler[h].pc = "fetched" /\ AtWork(handler[h])
         /\ \A g \in Handlers : g # h => handler'[g] = handler[g]
         /\ UNCHANGED <<room, inbox, screen, raced, dropped>>
         /\ handler'[h].pc = "saved" /\ handler'[h].op = handler[h].op
         /\ handler'[h].by = handler[h].by /\ handler'[h].call = handler[h].call
<1> DEFINE r == handler[h]
<1>1. PICK new : new = [pc |-> "saved", op |-> r.op, by |-> r.by, call |-> r.call, gone |-> r.gone]
  OBVIOUS
<1>2. handler' = [handler EXCEPT ![h] = new]
  BY <1>1 DEF Save
<1>3. handler'[h] = new /\ \A g \in Handlers : g # h => handler'[g] = handler[g]
  BY <1>2 DEF Base, Shape
<1>4. r.pc = "fetched" /\ AtWork(r) /\ UNCHANGED <<room, inbox, screen, raced, dropped>>
  BY DEF Save, AtWork
<1>5. QED
  BY <1>1, <1>3, <1>4

LEMMA CheckCalm ==
  ASSUME Base, Calm, NEW h \in Handlers, Check(h)
  PROVE  Calm'
<1>1. PICK c : c = CallOf(h)
  OBVIOUS
<1>2. c \in CallIds /\ call' = call /\ \A g \in Handlers : g # h => handler'[g] = handler[g]
  BY <1>1, CheckFacts
<1>3. CASE handler'[h] = Idle /\ raced' = raced
  <2>1. ~AtWork(handler'[h])
    BY <1>3, IdleIsFine DEF AtWork
  <2>2. \A g \in Handlers : AtWork(handler'[g]) => AtWork(handler[g]) /\ SameWork(g)
    BY <1>2, <2>1, SameWorkIfSame
  <2>3. QED
    BY <1>2, <1>3, <2>2, CalmKeeps
<1>4. CASE handler'[h] # Idle \/ raced' # raced
  <2>1. /\ handler'[h].pc = "checked" /\ handler'[h].op = handler[h].op
        /\ handler'[h].by = handler[h].by /\ handler'[h].call = c
        /\ handler'[h].outcome = Outcome(handler[h].op, call[c].status)
        /\ Permits(handler[h].op, call[c], UserOf[handler[h].by])
        /\ c \in raced' \/ \A g \in Handlers : ~Busy(g, c)
    BY <1>1, <1>4, CheckFacts DEF CallOf
  <2>2. Knows(h)'
    BY <1>2, <2>1 DEF Knows, Decided
  <2>3. CallOf(h)' = CallOf(h)
    BY <1>1, <2>1 DEF CallOf
  <2>4. Undisturbed(CallOf(h))' => \A g \in Handlers : ~Busy(g, CallOf(h))
    BY <1>1, <2>1, <2>3 DEF Undisturbed
  <2>5. QED
    BY <1>2, <2>2, <2>3, <2>4, CheckFacts, CalmGoesOn
<1>5. QED
  BY <1>3, <1>4

LEMMA FetchCalm ==
  ASSUME Base, Calm, NEW h \in Handlers, Fetch(h)
  PROVE  Calm'
<1>1. PICK c, row : c = CallOf(h) /\ row = call[c]
  OBVIOUS
<1>2. /\ call' = call /\ raced' = raced
      /\ handler[h].pc = "checked" /\ AtWork(handler[h])
      /\ \A g \in Handlers : g # h => handler'[g] = handler[g]
      /\ handler'[h].pc = "fetched" /\ handler'[h].op = handler[h].op
      /\ handler'[h].by = handler[h].by /\ handler'[h].call = c
      /\ handler'[h].outcome = handler[h].outcome
      /\ handler'[h].copy = row
  BY <1>1, FetchFacts DEF CallOf
<1>3. CallOf(h)' = CallOf(h)
  BY <1>1, <1>2 DEF CallOf
<1>4. c \in CallIds /\ Busy(h, c)
  BY <1>1, <1>2, WorkFacts
<1>5. ASSUME Undisturbed(CallOf(h))'
      PROVE  Knows(h)' /\ \A g \in Handlers : Busy(g, CallOf(h)) => g = h
  <2>1. Undisturbed(c)
    BY <1>1, <1>2, <1>3, <1>5 DEF Undisturbed
  <2>2. Knows(h) /\ \A g \in Handlers : Busy(g, c) => g = h
    BY <1>4, <2>1 DEF Calm
  <2>3. Permits(handler[h].op, row, UserOf[handler[h].by])
          /\ handler[h].outcome = Outcome(handler[h].op, row.status)
    BY <1>1, <1>2, <2>2 DEF Knows, Decided, CallOf
  <2>4. Knows(h)'
    BY <1>1, <1>2, <2>3 DEF Knows, Decided
  <2>5. QED
    BY <1>1, <2>2, <2>4
<1>6. QED
  BY <1>2, <1>3, <1>5, CalmGoesOn

LEMMA SaveCalm ==
  ASSUME Base, Calm, NEW h \in Handlers, Save(h)
  PROVE  Calm'
<1>1. PICK c, row, op : c = CallOf(h) /\ row = call[c] /\ op = handler[h].op
  OBVIOUS
<1>2. /\ raced' = raced
      /\ handler[h].pc = "fetched" /\ AtWork(handler[h])
      /\ \A g \in Handlers : g # h => handler'[g] = handler[g]
      /\ handler'[h].pc = "saved" /\ handler'[h].op = op
      /\ handler'[h].by = handler[h].by /\ handler'[h].call = c
  BY <1>1, SaveHandlers DEF CallOf
<1>3. CallOf(h)' = CallOf(h)
  BY <1>1, <1>2 DEF CallOf
<1>4. c \in CallIds /\ Busy(h, c) /\ op \in Ends /\ c \in 1 .. Len(call)
  BY <1>1, <1>2, WorkFacts
<1>5. /\ \A d \in 1 .. Len(call) : d # c => call'[d] = call[d]
      /\ call'[c].status = handler[h].outcome
      /\ call'[c].started = (handler[h].copy.started \/ op = "accept")
  BY <1>1, SaveFacts
<1>6. row \in Row
  BY <1>1, <1>4 DEF Base, Shape
<1>7. ASSUME Undisturbed(CallOf(h))'
      PROVE  Knows(h)' /\ \A g \in Handlers : Busy(g, CallOf(h)) => g = h
  <2>1. Undisturbed(c)
    BY <1>1, <1>2, <1>3, <1>7 DEF Undisturbed
  <2>2. Knows(h) /\ \A g \in Handlers : Busy(g, c) => g = h
    BY <1>4, <2>1 DEF Calm
  <2>3. Permits(op, row, UserOf[handler[h].by])
          /\ handler[h].outcome = Outcome(op, row.status)
    BY <1>1, <1>2, <2>2 DEF Knows, Decided, CallOf
  <2>4. /\ op = "accept" => handler[h].outcome = "active"
        /\ op = "reject" => handler[h].outcome = "rejected"
        /\ op = "hangup" => handler[h].outcome \in {"missed", "ended"}
    BY <1>4, <1>6, <2>3, OutcomeFits
  <2>5. op = "accept" => call'[c].started
    BY <1>5
  <2>6. Knows(h)'
    BY <1>2, <1>5, <2>4, <2>5 DEF Knows, Decided
  <2>7. QED
    BY <1>1, <2>2, <2>6
<1>8. \A d \in 1 .. Len(call) : d = CallOf(h) \/ call'[d] = call[d]
  BY <1>1, <1>5
<1>9. QED
  BY <1>2, <1>3, <1>7, <1>8, CalmGoesOn

\* A handler that ends leaves the others as they are.
LEMMA EndedHandler ==
  ASSUME Base, NEW h \in Handlers, Announce(h) \/ RelayOffer(h) \/ ServeInvite(h)
  PROVE  /\ handler'[h] = Idle /\ ~AtWork(handler'[h])
         /\ \A g \in Handlers : g # h => handler'[g] = handler[g]
         /\ \A g \in Handlers : AtWork(handler'[g]) => g # h /\ AtWork(handler[g]) /\ SameWork(g)
<1>1. handler' = [handler EXCEPT ![h] = Idle]
  BY DEF Announce, RelayOffer, ServeInvite
<1>2. handler'[h] = Idle /\ \A g \in Handlers : g # h => handler'[g] = handler[g]
  BY <1>1 DEF Base, Shape
<1>3. ~AtWork(handler'[h])
  BY <1>2, IdleIsFine DEF AtWork
<1>4. QED
  BY <1>2, <1>3, SameWorkIfSame

LEMMA ReconnectWork ==
  ASSUME Base, NEW s \in Sockets, Reconnect(s), NEW h \in Handlers, AtWork(handler'[h])
  PROVE  AtWork(handler[h]) /\ SameWork(h)
<1>1. AtWork(handler[h])
  BY ReconnectHandlers DEF AtWork
<1>2. InFlight(h) /\ OnCall(h)
  BY <1>1, WorkFacts
<1>3. QED
  BY <1>1, <1>2, ReconnectHandlers DEF SameWork

LEMMA CalmNext == Base /\ Calm /\ [Next]_vars => Calm'
<1> SUFFICES ASSUME Base, Calm, [Next]_vars PROVE Calm'
  OBVIOUS
<1>1. ASSUME NEW h \in Handlers, GatewayStep(h)
      PROVE  Calm'
  <2>1. CASE ServeInvite(h)
    BY <2>1, ServeFacts, EndedHandler, CalmKeeps
  <2>2. CASE Announce(h)
    BY <2>2, AnnounceFacts, EndedHandler, CalmKeeps
  <2>3. CASE RelayOffer(h)
    BY <2>3, RelayFacts, EndedHandler, CalmKeeps
  <2>4. QED
    BY <1>1, <2>1, <2>2, <2>3, CheckCalm, FetchCalm, SaveCalm DEF GatewayStep
<1>2. ASSUME NEW h \in Handlers, NEW s \in Sockets, TabStep(h, s)
      PROVE  Calm'
  <2>1. \A g \in Handlers : AtWork(handler'[g]) => AtWork(handler[g]) /\ SameWork(g)
    BY <1>2, TabFacts, SameWorkIfSame DEF AtWork
  <2>2. QED
    BY <1>2, <2>1, TabFacts, CalmKeeps
<1>3. ASSUME NEW s \in Sockets, Receive(s)
      PROVE  Calm'
  <2>1. UNCHANGED <<call, handler, raced>>
    BY <1>3 DEF Receive
  <2>2. QED
    BY <2>1, SameWorkIfSame, CalmKeeps
<1>4. ASSUME NEW s \in Sockets, Reconnect(s)
      PROVE  Calm'
  BY <1>4, ReconnectWork, ReconnectFacts, CalmKeeps
<1>5. CASE UNCHANGED vars
  BY <1>5, SameWorkIfSame, CalmKeeps DEF vars
<1>6. QED
  BY <1>1, <1>2, <1>3, <1>4, <1>5 DEF Next

LEMMA CalmInit == Init => Calm
BY IdleIsFine DEF Init, Calm, Busy

LEMMA CalmCorrect == Spec => [](Base /\ Calm)
<1>1. Base /\ Calm /\ [Next]_vars => (Base /\ Calm)'
  BY BaseNext, CalmNext
<1>2. QED
  BY <1>1, BaseInit, CalmInit, PTL DEF Spec

\* Only a save changes the status of a call.
LEMMA StatusIsSaved ==
  ASSUME Base, [Next]_vars, NEW c \in 1 .. Len(call), call'[c].status # call[c].status
  PROVE  \E h \in Handlers : Save(h)
<1>1. ASSUME NEW h \in Handlers, GatewayStep(h)
      PROVE  Save(h)
  <2>1. ~ServeInvite(h)
    BY ServeFacts
  <2>2. ~Announce(h) /\ ~RelayOffer(h) /\ ~Check(h) /\ ~Fetch(h)
    BY DEF Announce, RelayOffer, Check, Fetch
  <2>3. QED
    BY <1>1, <2>1, <2>2 DEF GatewayStep
<1>2. \A h \in Handlers, s \in Sockets : ~TabStep(h, s)
  BY TabFacts
<1>3. \A s \in Sockets : ~Receive(s) /\ ~Reconnect(s)
  BY DEF Receive, Reconnect
<1>4. ~UNCHANGED vars
  BY DEF vars
<1>5. QED
  BY <1>1, <1>2, <1>3, <1>4 DEF Next

LEMMA LifeStep ==
  ASSUME Base, Calm, [Next]_vars, NEW c \in 1 .. Len(call), Undisturbed(c),
         call'[c].status # call[c].status
  PROVE  <<call[c].status, call'[c].status>> \in CallLife
<1>1. PICK h \in Handlers : Save(h)
  BY StatusIsSaved
<1>2. CallOf(h) = c
  BY <1>1, SaveFacts
<1>3. c \in CallIds /\ Busy(h, c) /\ handler[h].op \in Ends /\ handler[h].pc = "fetched"
  BY <1>1, <1>2, SaveHandlers, WorkFacts
<1>4. Permits(handler[h].op, call[c], UserOf[handler[h].by])
        /\ handler[h].outcome = Outcome(handler[h].op, call[c].status)
  BY <1>2, <1>3 DEF Calm, Knows, Decided, CallOf
<1>5. call[c] \in Row /\ call'[c].status = handler[h].outcome
  BY <1>1, <1>2, SaveFacts DEF Base, Shape
<1>6. <<call[c].status, Outcome(handler[h].op, call[c].status)>> \in CallLife
  BY <1>3, <1>4, <1>5, OutcomeFits
<1>7. QED
  BY <1>4, <1>5, <1>6

\* The handlers of the gateway keep the life of a call as long as they do not overlap on it: it is
\* answered, rejected or missed once, and what was answered only ends.
THEOREM CallLifeKept == Spec => KeepsCallLife
<1>1. Base /\ Calm /\ [Next]_vars =>
        [\A c \in 1 .. Len(call) :
           /\ Undisturbed(c)
           /\ call'[c].status # call[c].status
           => <<call[c].status, call'[c].status>> \in CallLife]_vars
  BY LifeStep
<1>2. QED
  BY <1>1, CalmCorrect, PTL DEF Spec, KeepsCallLife

-----------------------------------------------------------------------------
(***************************************************************************)
(* Consent.  The start of an undisturbed call is never taken back, so what *)
(* was said about it once stays true.                                      *)
(***************************************************************************)
Agreed(c) == c \in 1 .. Len(call) /\ Started(c)

\* Whatever may open a microphone speaks of a call that was accepted.
LEMMA ConsentFacts ==
  ASSUME Base, Consent
  PROVE  /\ \A s \in Sockets : \A c \in MediaCalls(s) : c = NoCall \/ Agreed(c)
         /\ \A s \in Sockets : \A e \in OnWay(s) : e[1] \in {"accepted", "offer"} => Agreed(e[2])
         /\ \A h \in Handlers : InFlight(h) /\ handler[h].op = "offer" => Agreed(CallOf(h))
<1>1. \A s \in Sockets : \A c \in MediaCalls(s) : c = NoCall \/ Agreed(c)
  BY DEF Base, Belongs, Consent, Agreed, Mine, Holds
<1>2. \A s \in Sockets : \A e \in OnWay(s) : e[1] \in {"accepted", "offer"} => Agreed(e[2])
  BY DEF Base, Belongs, Consent, Agreed, Mine
<1>3. \A h \in Handlers : InFlight(h) /\ handler[h].op = "offer" => Agreed(CallOf(h))
  BY DEF Base, Belongs, Consent, Agreed, Mine, OnCall, CallOf
<1>4. QED
  BY <1>1, <1>2, <1>3

LEMMA AgreedStays ==
  ASSUME Base, Calm, [Next]_vars, NEW c, Agreed(c)
  PROVE  Agreed(c)'
<1>1. c \in 1 .. Len(call) /\ (c \notin raced => call[c].started)
  BY DEF Agreed, Started, Undisturbed
<1>2. Shape /\ Len(call) \in Nat
  BY DEF Base, Shape
<1>3. ASSUME c \in 1 .. Len(call'), raced \subseteq raced', call'[c] = call[c]
      PROVE  Agreed(c)'
  BY <1>1, <1>3 DEF Agreed, Started, Undisturbed
<1>4. ASSUME NEW h \in Handlers, GatewayStep(h)
      PROVE  Agreed(c)'
  <2>1. CASE ServeInvite(h)
    <3>1. c \in 1 .. Len(call')
      BY <1>1, <1>2, <2>1, ServeFacts DEF Next1
    <3>2. call'[c] = call[c] /\ raced' = raced
      BY <1>1, <2>1, ServeFacts
    <3>3. QED
      BY <1>3, <3>1, <3>2
  <2>2. CASE Check(h)
    BY <1>1, <1>3, <2>2, CheckFacts
  <2>3. CASE Fetch(h)
    BY <1>1, <1>3, <2>3, FetchFacts
  <2>4. CASE Save(h)
    <3>1. Len(call') = Len(call) /\ raced' = raced
      BY <2>4, SaveFacts, SaveHandlers
    <3>2. CASE c # CallOf(h)
      BY <1>1, <1>3, <2>4, <3>1, <3>2, SaveFacts
    <3>3. CASE c = CallOf(h)
      <4>1. handler[h].pc = "fetched" /\ Busy(h, c) /\ c \in CallIds
        BY <2>4, <3>3, SaveHandlers, WorkFacts
      <4>2. c \notin raced => handler[h].copy = call[c]
        BY <3>3, <4>1 DEF Calm, Knows, Undisturbed, CallOf
      <4>3. call'[c].started = (handler[h].copy.started \/ handler[h].op = "accept")
        BY <2>4, <3>3, SaveFacts
      <4>4. c \notin raced => call'[c].started
        BY <1>1, <4>2, <4>3
      <4>5. QED
        BY <1>1, <3>1, <4>4 DEF Agreed, Started, Undisturbed
    <3>4. QED
      BY <3>2, <3>3
  <2>5. CASE Announce(h)
    BY <1>1, <1>3, <2>5, AnnounceFacts
  <2>6. CASE RelayOffer(h)
    BY <1>1, <1>3, <2>6, RelayFacts
  <2>7. QED
    BY <1>4, <2>1, <2>2, <2>3, <2>4, <2>5, <2>6 DEF GatewayStep
<1>5. ASSUME NEW h \in Handlers, NEW s \in Sockets, TabStep(h, s)
      PROVE  Agreed(c)'
  BY <1>1, <1>3, <1>5, TabFacts
<1>6. ASSUME NEW s \in Sockets, Receive(s) \/ Reconnect(s)
      PROVE  Agreed(c)'
  BY <1>1, <1>3, <1>6 DEF Receive, Reconnect
<1>7. CASE UNCHANGED vars
  BY <1>1, <1>3, <1>7 DEF vars
<1>8. QED
  BY <1>4, <1>5, <1>6, <1>7 DEF Next

LEMMA ConsentStep ==
  ASSUME Base, Consent, \A c : Agreed(c) => Agreed(c)',
         \A s \in Sockets : \A c : c \in MediaCalls(s)' =>
           c = NoCall \/ c \in MediaCalls(s) \/ Agreed(c),
         \A s \in Sockets : \A e : e \in OnWay(s)' =>
           e \in OnWay(s) \/ e[1] \notin {"accepted", "offer"} \/ Agreed(e[2]),
         \A h \in Handlers : handler'[h].pc # "idle" /\ handler'[h].op = "offer" =>
           Agreed(handler'[h].call)
  PROVE  Consent'
<1>1. ASSUME NEW s \in Sockets, NEW c \in MediaCalls(s)' \ {NoCall}
      PROVE  Started(c)'
  <2>1. Agreed(c)
    BY ConsentFacts
  <2>2. QED
    BY <2>1 DEF Agreed
<1>2. ASSUME NEW s \in Sockets, NEW e \in OnWay(s)', e[1] \in {"accepted", "offer"}
      PROVE  Started(e[2])'
  <2>1. PICK c : c = e[2]
    OBVIOUS
  <2>2. Agreed(c)
    BY <1>2, <2>1, ConsentFacts
  <2>3. Started(c)'
    BY <2>2 DEF Agreed
  <2>4. QED
    BY <2>1, <2>3
<1>3. ASSUME NEW h \in Handlers, InFlight(h)', handler'[h].op = "offer"
      PROVE  Started(handler[h].call)'
  <2>1. PICK c : c = handler'[h].call
    OBVIOUS
  <2>2. Agreed(c)
    BY <1>3, <2>1 DEF InFlight
  <2>3. Started(c)'
    BY <2>2 DEF Agreed
  <2>4. QED
    BY <2>1, <2>3 DEF Started, Undisturbed
<1>4. QED
  BY <1>1, <1>2, <1>3 DEF Consent

\* A handler that did not come to offer keeps the third part.
LEMMA OffersStay ==
  ASSUME Base, Consent, NEW h \in Handlers,
         \A g \in Handlers : g # h => handler'[g] = handler[g],
         handler'[h] = Idle \/ handler'[h].op \in Ends
  PROVE  \A g \in Handlers : handler'[g].pc # "idle" /\ handler'[g].op = "offer" =>
           Agreed(handler'[g].call)
<1>1. ASSUME NEW g \in Handlers, g # h, handler'[g].pc # "idle", handler'[g].op = "offer"
      PROVE  Agreed(handler'[g].call)
  BY <1>1, ConsentFacts DEF InFlight, CallOf
<1>2. ~(handler'[h].pc # "idle" /\ handler'[h].op = "offer")
  BY IdleIsFine DEF Ends
<1>3. QED
  BY <1>1, <1>2

LEMMA ConsentNext ==
  Base /\ Calm /\ Consent /\ [Next]_vars => Consent'
<1> SUFFICES ASSUME Base, Calm, Consent, [Next]_vars PROVE Consent'
  OBVIOUS
<1>1. \A c : Agreed(c) => Agreed(c)'
  BY AgreedStays
<1>2. ASSUME screen' = screen
      PROVE  \A s \in Sockets : MediaCalls(s)' = MediaCalls(s)
  BY <1>2 DEF MediaCalls
<1>3. ASSUME inbox' = inbox
      PROVE  \A s \in Sockets : OnWay(s)' = OnWay(s)
  BY <1>3 DEF OnWay
<1>4. ASSUME NEW h \in Handlers, GatewayStep(h)
      PROVE  Consent'
  <2>1. CASE ServeInvite(h)
    <3>1. \A g \in Handlers : handler'[g].pc # "idle" /\ handler'[g].op = "offer" =>
            Agreed(handler'[g].call)
      BY <2>1, EndedHandler, OffersStay
    <3>2. ASSUME NEW s \in Sockets, NEW e, e \in OnWay(s)'
          PROVE  e \in OnWay(s) \/ e[1] \notin {"accepted", "offer"} \/ Agreed(e[2])
      <4>1. PICK n : n = Next1
        OBVIOUS
      <4>2. e \in OnWay(s) \/ e = <<"incoming", n>> \/ e = <<"ringing", n>>
        BY <2>1, <3>2, <4>1, ServeFacts
      <4>3. QED
        BY <4>2
    <3>3. screen' = screen
      BY <2>1, ServeFacts
    <3>4. QED
      BY <1>1, <1>2, <3>1, <3>2, <3>3, ConsentStep
  <2>2. CASE Check(h)
    <3>1. UNCHANGED <<screen, inbox>>
      BY <2>2, CheckFacts
    <3>2. \A g \in Handlers : handler'[g].pc # "idle" /\ handler'[g].op = "offer" =>
            Agreed(handler'[g].call)
      BY <2>2, CheckFacts, OffersStay
    <3>3. QED
      BY <1>1, <1>2, <1>3, <3>1, <3>2, ConsentStep
  <2>3. CASE Fetch(h)
    <3>1. UNCHANGED <<screen, inbox>>
      BY <2>3, FetchFacts
    <3>2. \A g \in Handlers : handler'[g].pc # "idle" /\ handler'[g].op = "offer" =>
            Agreed(handler'[g].call)
      BY <2>3, FetchFacts, WorkFacts, OffersStay
    <3>3. QED
      BY <1>1, <1>2, <1>3, <3>1, <3>2, ConsentStep
  <2>4. CASE Save(h)
    <3>1. UNCHANGED <<screen, inbox>>
      BY <2>4, SaveHandlers
    <3>2. \A g \in Handlers : handler'[g].pc # "idle" /\ handler'[g].op = "offer" =>
            Agreed(handler'[g].call)
      BY <2>4, SaveHandlers, WorkFacts, OffersStay
    <3>3. QED
      BY <1>1, <1>2, <1>3, <3>1, <3>2, ConsentStep
  <2>5. CASE Announce(h)
    <3>1. PICK c, event : c = CallOf(h) /\ event = EventBy(h)
      OBVIOUS
    <3>2. event \in {"accepted", "offer"} => Agreed(c)
      <4>1. /\ handler[h].pc = "saved" /\ AtWork(handler[h])
            /\ event = "accepted" <=> handler[h].op = "accept"
            /\ event # "offer"
        BY <2>5, <3>1, AnnounceFacts DEF Saved, AtWork
      <4>2. c \in 1 .. Len(call) /\ c \in CallIds /\ Busy(h, c)
        BY <3>1, <4>1, WorkFacts
      <4>3. Undisturbed(c) => (handler[h].op = "accept" => call[c].started)
        BY <3>1, <4>1, <4>2 DEF Calm, Knows, CallOf
      <4>4. QED
        BY <4>1, <4>2, <4>3 DEF Agreed, Started
    <3>3. ASSUME NEW s \in Sockets, NEW e, e \in OnWay(s)'
          PROVE  e \in OnWay(s) \/ e[1] \notin {"accepted", "offer"} \/ Agreed(e[2])
      <4>1. e \in OnWay(s) \/ e = <<event, c>>
        <5>1. CASE s \in Told(h)
          <6>1. OnWay(s)' = OnWay(s) \cup {<<event, c>>}
            BY <2>5, <3>1, <5>1, AnnounceFacts
          <6>2. QED
            BY <3>3, <6>1
        <5>2. CASE s \notin Told(h)
          <6>1. OnWay(s)' = OnWay(s)
            BY <2>5, <5>2, AnnounceFacts
          <6>2. QED
            BY <3>3, <6>1
        <5>3. QED
          BY <5>1, <5>2
      <4>2. CASE e = <<event, c>>
        <5>1. e[1] = event /\ e[2] = c
          BY <4>2
        <5>2. QED
          BY <3>2, <5>1
      <4>3. QED
        BY <4>1, <4>2
    <3>4. \A g \in Handlers : handler'[g].pc # "idle" /\ handler'[g].op = "offer" =>
            Agreed(handler'[g].call)
      BY <2>5, EndedHandler, OffersStay
    <3>5. screen' = screen
      BY <2>5, AnnounceFacts
    <3>6. QED
      BY <1>1, <1>2, <3>3, <3>4, <3>5, ConsentStep
  <2>6. CASE RelayOffer(h)
    <3>1. PICK c : c = CallOf(h)
      OBVIOUS
    <3>2. Agreed(c)
      BY <2>6, <3>1, RelayFacts, ConsentFacts
    <3>3. ASSUME NEW s \in Sockets, NEW e, e \in OnWay(s)'
          PROVE  e \in OnWay(s) \/ e[1] \notin {"accepted", "offer"} \/ Agreed(e[2])
      <4>1. e \in OnWay(s) \/ e = <<"offer", c>>
        BY <2>6, <3>1, <3>3, RelayFacts
      <4>2. CASE e = <<"offer", c>>
        <5>1. e[2] = c
          BY <4>2
        <5>2. QED
          BY <3>2, <5>1
      <4>3. QED
        BY <4>1, <4>2
    <3>4. \A g \in Handlers : handler'[g].pc # "idle" /\ handler'[g].op = "offer" =>
            Agreed(handler'[g].call)
      BY <2>6, EndedHandler, OffersStay
    <3>5. screen' = screen
      BY <2>6, RelayFacts
    <3>6. QED
      BY <1>1, <1>2, <3>3, <3>4, <3>5, ConsentStep
  <2>7. QED
    BY <1>4, <2>1, <2>2, <2>3, <2>4, <2>5, <2>6 DEF GatewayStep
<1>5. ASSUME NEW h \in Handlers, NEW s \in Sockets, TabStep(h, s)
      PROVE  Consent'
  <2>1. inbox' = inbox /\ \A t \in Sockets : MediaCalls(t)' \subseteq MediaCalls(t) \cup {NoCall}
    BY <1>5, TabFacts
  <2>2. ASSUME NEW g \in Handlers, handler'[g].pc # "idle", handler'[g].op = "offer"
        PROVE  Agreed(handler'[g].call)
    <3>1. CASE handler'[g] = handler[g]
      BY <2>2, <3>1, ConsentFacts DEF InFlight, CallOf
    <3>2. CASE handler'[g].call \in MediaCalls(s) \ {NoCall}
      BY <3>2, ConsentFacts
    <3>3. QED
      BY <1>5, <2>2, <3>1, <3>2, TabFacts
  <2>3. QED
    BY <1>1, <1>3, <2>1, <2>2, ConsentStep
<1>6. ASSUME NEW s \in Sockets, Receive(s)
      PROVE  Consent'
  <2>1. PICK event, c : event = inbox[s][1][1] /\ c = inbox[s][1][2]
    OBVIOUS
  <2>2. event \in {"accepted", "offer"} => Agreed(c)
    BY <1>6, <2>1, TakeFacts, ConsentFacts
  <2>3. ASSUME NEW t \in Sockets, NEW d, d \in MediaCalls(t)'
        PROVE  d = NoCall \/ d \in MediaCalls(t) \/ Agreed(d)
    <3>1. CASE t = s
      BY <1>6, <2>1, <2>2, <2>3, <3>1, TakeFacts
    <3>2. CASE t # s
      <4>1. screen'[t] = screen[t]
        BY <1>6, <3>2, TakeFacts
      <4>2. MediaCalls(t)' = MediaCalls(t)
        BY <4>1 DEF MediaCalls
      <4>3. QED
        BY <2>3, <4>2
    <3>3. QED
      BY <3>1, <3>2
  <2>4. \A t \in Sockets : OnWay(t)' \subseteq OnWay(t)
    BY <1>6, ReceiveFacts DEF Base
  <2>5. \A g \in Handlers : handler'[g].pc # "idle" /\ handler'[g].op = "offer" =>
          Agreed(handler'[g].call)
    BY <1>6, ConsentFacts DEF Receive, InFlight, CallOf
  <2>6. QED
    BY <1>1, <2>3, <2>4, <2>5, ConsentStep
<1>7. ASSUME NEW s \in Sockets, Reconnect(s)
      PROVE  Consent'
  <2>1. screen' = screen /\ \A t \in Sockets : OnWay(t)' \subseteq OnWay(t)
    BY <1>7, ReconnectFacts
  <2>2. ASSUME NEW g \in Handlers, handler'[g].pc # "idle", handler'[g].op = "offer"
        PROVE  Agreed(handler'[g].call)
    <3>1. InFlight(g) /\ handler[g].op = "offer" /\ handler'[g].call = CallOf(g)
      BY <1>7, <2>2, ReconnectHandlers DEF InFlight, OnCall, CallOf
    <3>2. QED
      BY <3>1, ConsentFacts
  <2>3. QED
    BY <1>1, <1>2, <2>1, <2>2, ConsentStep
<1>8. CASE UNCHANGED vars
  <2>1. \A g \in Handlers : handler'[g].pc # "idle" /\ handler'[g].op = "offer" =>
          Agreed(handler'[g].call)
    BY <1>8, ConsentFacts DEF vars, InFlight, CallOf
  <2>2. QED
    BY <1>1, <1>2, <1>3, <1>8, <2>1, ConsentStep DEF vars
<1>9. QED
  BY <1>4, <1>5, <1>6, <1>7, <1>8 DEF Next

LEMMA ConsentInit == Init => Consent
<1> SUFFICES ASSUME Init PROVE Consent
  OBVIOUS
<1>1. ASSUME NEW s \in Sockets
      PROVE  OnWay(s) = {} /\ MediaCalls(s) = {NoCall}
  <2>1. DOMAIN inbox[s] = {}
    BY DEF Init
  <2>2. {m[1] : m \in screen[s].starting} = {}
    BY DEF Init
  <2>3. QED
    BY <2>1, <2>2 DEF OnWay, MediaCalls, Init
<1>2. \A h \in Handlers : ~InFlight(h)
  BY IdleIsFine DEF Init, InFlight
<1>3. QED
  BY <1>1, <1>2 DEF Consent

-----------------------------------------------------------------------------
(***************************************************************************)
(* Rooms.  Only the announcement of an accept lets a tab of the receiver   *)
(* in, and on an undisturbed call there is one.                            *)
(***************************************************************************)
LEMMA RoomStays ==
  ASSUME NEW c, RoomFine(c), raced \subseteq raced',
         call'[c].receiver = call[c].receiver, room'[c] \subseteq room[c],
         call'[c].status = "pending" => call[c].status = "pending",
         \A h \in Handlers : Answers(h, c)' => Answers(h, c) \/ call[c].status = "pending"
  PROVE  RoomFine(c)'
<1>1. SUFFICES ASSUME Undisturbed(c)'
               PROVE  /\ \A s, t \in Answered(c)' : s = t
                      /\ call'[c].status = "pending" \/ (\E h \in Handlers : Answers(h, c)') =>
                           Answered(c)' = {}
  BY DEF RoomFine
<1>2. Answered(c)' \subseteq Answered(c)
  BY DEF Answered, UserRoom
<1>3. Undisturbed(c)
  BY <1>1 DEF Undisturbed
<1>4. QED
  BY <1>2, <1>3 DEF RoomFine

LEMMA HasId ==
  ASSUME Base
  PROVE  1 .. Len(call) \subseteq CallIds /\ Len(call) \in Nat
<1>1. IsFiniteSet(ToCome) /\ Len(call) + Cardinality(ToCome) <= MaxCalls /\ Len(call) \in Nat
  BY DEF Base, Shape
<1>2. Cardinality(ToCome) \in Nat
  BY <1>1, FS_CardinalityType
<1>3. QED
  BY <1>1, <1>2, CallsAssumption DEF CallIds

LEMMA RoomsStay ==
  ASSUME Base, Rooms, Kept, raced \subseteq raced',
         \A c \in CallIds : room'[c] \subseteq room[c],
         \A c \in 1 .. Len(call) : call'[c].status = "pending" => call[c].status = "pending",
         Len(call') = Len(call),
         \A h \in Handlers : \A c \in 1 .. Len(call) :
           Answers(h, c)' => Answers(h, c) \/ call[c].status = "pending"
  PROVE  Rooms'
<1>1. ASSUME NEW c \in 1 .. Len(call)
      PROVE  RoomFine(c)'
  <2>1. c \in CallIds
    BY HasId
  <2>2. RoomFine(c)
    BY DEF Rooms
  <2>3. QED
    BY <2>1, <2>2, RoomStays DEF Kept
<1>2. QED
  BY <1>1 DEF Rooms

\* The tabs of the receiver that an announcement lets in: one at most.
LEMMA AnnounceRooms ==
  ASSUME Base, Calm, Rooms, NEW h \in Handlers, Announce(h)
  PROVE  Rooms'
<1>1. PICK c : c = CallOf(h)
  OBVIOUS
<1>2. /\ call' = call /\ raced' = raced /\ handler[h].pc = "saved" /\ AtWork(handler[h])
      /\ \A d \in CallIds : d # c => room'[d] = room[d]
      /\ room'[c] = IF handler[h].op = "accept" THEN room[c] \cup Client(h) ELSE room[c]
  BY <1>1, AnnounceFacts DEF Saved, AtWork
<1>3. c \in 1 .. Len(call) /\ c \in CallIds /\ Busy(h, c)
  BY <1>1, <1>2, WorkFacts
<1>4. \A g \in Handlers : \A d : Answers(g, d)' => g # h /\ Answers(g, d)
  <2>1. \A g \in Handlers : g # h => handler'[g] = handler[g]
    BY EndedHandler
  <2>2. ~AtWork(handler'[h])
    BY EndedHandler
  <2>3. QED
    BY <2>1, <2>2 DEF Answers, Busy, AtWork
<1>5. ASSUME NEW d \in 1 .. Len(call), d # c \/ handler[h].op # "accept"
      PROVE  RoomFine(d)'
  <2>1. room'[d] = room[d]
    BY <1>2, <1>5, HasId
  <2>2. RoomFine(d)
    BY DEF Rooms
  <2>3. QED
    BY <1>2, <1>4, <2>1, <2>2, RoomStays
<1>6. ASSUME handler[h].op = "accept"
      PROVE  RoomFine(c)'
  <2>1. SUFFICES ASSUME Undisturbed(c)
                 PROVE  /\ \A s, t \in Answered(c)' : s = t
                        /\ call[c].status # "pending"
                        /\ \A g \in Handlers : ~Answers(g, c)'
    BY <1>2 DEF RoomFine, Undisturbed
  <2>2. Knows(h) /\ \A g \in Handlers : Busy(g, c) => g = h
    BY <1>3, <2>1 DEF Calm
  <2>3. call[c].status = "active"
    BY <1>1, <1>2, <1>6, <2>2 DEF Knows, CallOf
  <2>4. \A g \in Handlers : ~Answers(g, c)'
    BY <1>4, <2>2 DEF Answers
  <2>5. Answers(h, c)
    BY <1>3, <1>6 DEF Answers
  <2>6. Answered(c) = {}
    BY <1>3, <2>1, <2>5 DEF Rooms, RoomFine
  <2>7. Answered(c)' \subseteq Client(h)
    BY <1>2, <1>6, <2>6 DEF Answered, UserRoom
  <2>8. \A s, t \in Client(h) : s = t
    BY DEF Client
  <2>9. QED
    BY <2>3, <2>4, <2>7, <2>8
<1>7. QED
  BY <1>2, <1>5, <1>6 DEF Rooms

\* A new call has its initiator in the room, who is not its receiver.
LEMMA ServeRooms ==
  ASSUME Base, Rooms, NEW h \in Handlers, ServeInvite(h)
  PROVE  Rooms'
<1>1. PICK n : n = Next1
  OBVIOUS
<1>2. /\ \A c \in 1 .. Len(call) : call'[c] = call[c]
      /\ \A c \in 1 .. Len(call') : c = n \/ c \in 1 .. Len(call)
      /\ \A c \in CallIds : c # n => room'[c] = room[c]
      /\ room'[n] = Client(h)
      /\ call'[n].initiator = UserOf[handler[h].by]
      /\ call'[n].receiver # call'[n].initiator
      /\ raced' = raced /\ InFlight(h)
  BY <1>1, ServeFacts
<1>3. \A g \in Handlers : \A d : Answers(g, d)' => Answers(g, d)
  <2>1. \A g \in Handlers : g # h => handler'[g] = handler[g]
    BY EndedHandler
  <2>2. ~AtWork(handler'[h])
    BY EndedHandler
  <2>3. QED
    BY <2>1, <2>2 DEF Answers, Busy, AtWork
<1>4. n \notin 1 .. Len(call)
  BY <1>1, HasId DEF Next1
<1>5. ASSUME NEW c \in 1 .. Len(call)
      PROVE  RoomFine(c)'
  <2>1. room'[c] = room[c] /\ call'[c] = call[c]
    BY <1>2, <1>4, HasId
  <2>2. RoomFine(c)
    BY DEF Rooms
  <2>3. QED
    BY <1>2, <1>3, <2>1, <2>2, RoomStays
<1>6. RoomFine(n)'
  <2>1. \A s \in Client(h) : UserOf[s] = call'[n].initiator
    BY <1>2, ClientFacts
  <2>2. Answered(n)' = {}
    BY <1>2, <2>1 DEF Answered, UserRoom
  <2>3. QED
    BY <2>2 DEF RoomFine
<1>7. QED
  BY <1>2, <1>5, <1>6 DEF Rooms

LEMMA RoomsNext ==
  Base /\ Calm /\ Rooms /\ [Next]_vars => Rooms'
<1> SUFFICES ASSUME Base, Calm, Rooms, [Next]_vars PROVE Rooms'
  OBVIOUS
<1>1. ASSUME UNCHANGED <<call, room>>, raced \subseteq raced',
             \A h \in Handlers : \A c \in 1 .. Len(call) :
               Answers(h, c)' => Answers(h, c) \/ call[c].status = "pending"
      PROVE  Rooms'
  BY <1>1, SameIsKept, RoomsStay DEF Base
<1>2. ASSUME NEW h \in Handlers, GatewayStep(h)
      PROVE  Rooms'
  <2>1. CASE Check(h)
    <3>1. PICK c, row, op : c = CallOf(h) /\ row = call[c] /\ op = handler[h].op
      OBVIOUS
    <3>2. ASSUME NEW g \in Handlers, NEW d \in 1 .. Len(call), Answers(g, d)'
          PROVE  Answers(g, d) \/ call[d].status = "pending"
      <4>1. CASE g # h
        BY <2>1, <3>2, <4>1, CheckFacts DEF Answers, Busy
      <4>2. CASE g = h
        <5>1. handler'[h] # Idle
          BY <3>2, <4>2, IdleIsFine DEF Answers, Busy
        <5>2. /\ handler'[h].op = op /\ handler'[h].call = handler[h].call
              /\ Permits(op, row, UserOf[handler[h].by]) /\ op \in Ends
          BY <2>1, <3>1, <5>1, CheckFacts
        <5>3. d = c /\ op \in {"accept", "reject"}
          BY <3>1, <3>2, <4>2, <5>2 DEF Answers, Busy, CallOf
        <5>4. row \in Row
          BY <3>1, <5>3 DEF Base, Shape
        <5>5. row.status = "pending"
          BY <5>2, <5>3, <5>4, OutcomeFits
        <5>6. QED
          BY <3>1, <5>3, <5>5
      <4>3. QED
        BY <4>1, <4>2
    <3>3. QED
      BY <1>1, <2>1, <3>2, CheckFacts
  <2>2. CASE Fetch(h)
    <3>1. \A g \in Handlers : \A c : Answers(g, c)' => Answers(g, c)
      BY <2>2, FetchFacts DEF Answers, Busy
    <3>2. QED
      BY <1>1, <2>2, <3>1, FetchFacts
  <2>3. CASE Save(h)
    <3>1. \A g \in Handlers : \A c : Answers(g, c)' => Answers(g, c)
      BY <2>3, SaveHandlers DEF Answers, Busy
    <3>2. ASSUME NEW c \in 1 .. Len(call), call'[c].status = "pending"
          PROVE  call[c].status = "pending"
      <4>1. CASE c = CallOf(h)
        <5>1. call'[c].status = handler[h].outcome /\ handler[h] \in Fetched
          BY <2>3, <4>1, SaveFacts
        <5>2. handler[h].outcome \in Outcomes
          BY <5>1 DEF Fetched
        <5>3. QED
          BY <3>2, <5>1, <5>2 DEF Outcomes
      <4>2. CASE c # CallOf(h)
        BY <2>3, <3>2, <4>2, SaveFacts
      <4>3. QED
        BY <4>1, <4>2
    <3>3. Kept /\ Len(call') = Len(call)
      BY <2>3, SaveFacts
    <3>4. raced' = raced /\ room' = room
      BY <2>3, SaveHandlers
    <3>5. QED
      BY <3>1, <3>2, <3>3, <3>4, RoomsStay
  <2>4. CASE RelayOffer(h)
    <3>1. \A g \in Handlers : g # h => handler'[g] = handler[g]
      BY <2>4, EndedHandler
    <3>2. ~AtWork(handler'[h])
      BY <2>4, EndedHandler
    <3>3. \A g \in Handlers : \A c : Answers(g, c)' => Answers(g, c)
      BY <3>1, <3>2 DEF Answers, Busy, AtWork
    <3>4. QED
      BY <1>1, <2>4, <3>3, RelayFacts
  <2>5. QED
    BY <1>2, <2>1, <2>2, <2>3, <2>4, ServeRooms, AnnounceRooms DEF GatewayStep
<1>3. ASSUME NEW h \in Handlers, NEW s \in Sockets, TabStep(h, s)
      PROVE  Rooms'
  <2>1. \A g \in Handlers : \A c : Answers(g, c)' => Answers(g, c)
    BY <1>3, TabFacts DEF Answers, Busy
  <2>2. QED
    BY <1>1, <1>3, <2>1, TabFacts
<1>4. ASSUME NEW s \in Sockets, Receive(s)
      PROVE  Rooms'
  BY <1>1, <1>4 DEF Receive, Answers, Busy
<1>5. ASSUME NEW s \in Sockets, Reconnect(s)
      PROVE  Rooms'
  <2>1. ASSUME NEW g \in Handlers, NEW c, Answers(g, c)'
        PROVE  Answers(g, c)
    <3>1. AtWork(handler'[g])
      BY <2>1 DEF Answers, Busy, AtWork
    <3>2. AtWork(handler[g]) /\ SameWork(g)
      BY <1>5, <3>1, ReconnectWork
    <3>3. QED
      BY <2>1, <3>2 DEF Answers, Busy, SameWork
  <2>2. call' = call /\ raced' = raced /\ \A c \in CallIds : room'[c] \subseteq room[c]
    BY <1>5, ReconnectFacts
  <2>3. QED
    BY <2>1, <2>2, SameIsKept, RoomsStay DEF Base
<1>6. CASE UNCHANGED vars
  BY <1>1, <1>6 DEF vars, Answers, Busy
<1>7. QED
  BY <1>2, <1>3, <1>4, <1>5, <1>6 DEF Next

LEMMA RoomsInit == Init => Rooms
BY DEF Init, Rooms

-----------------------------------------------------------------------------
(***************************************************************************)
(* Screens, a tab and a call at a time.  What tells the end of a call      *)
(* reaches every tab of the room, and every tab that shows it is there.    *)
(***************************************************************************)
LEMMA ShowsIsMine ==
  ASSUME Base, NEW s \in Sockets, NEW c \in CallIds,
         screen[s].active = c \/ OnWay(s) \cap Opening(c) # {}
  PROVE  Mine(s, c)
<1>1. CASE screen[s].active = c
  <2>1. c \in Holds(s) \ {NoCall}
    BY <1>1 DEF Holds, NoCall, CallIds
  <2>2. QED
    BY <2>1 DEF Base, Belongs
<1>2. CASE OnWay(s) \cap Opening(c) # {}
  <2>1. PICK e \in OnWay(s) : e \in Opening(c)
    BY <1>2
  <2>2. e[2] = c
    BY <2>1 DEF Opening
  <2>3. QED
    BY <2>1, <2>2 DEF Base, Belongs
<1>3. QED
  BY <1>1, <1>2

\* A tab that will show a call has it or is told of it.
LEMMA WillShowIsJoined ==
  ASSUME NEW s, NEW c, WillShow(s, c)
  PROVE  screen[s].active = c \/ OnWay(s) \cap Opening(c) # {}
BY DEF WillShow, OnWay

\* What an event added to the inbox does to it.
LEMMA WillShowGrows ==
  ASSUME Shape, NEW s \in Sockets, NEW c, NEW e \in Events \X CallIds,
         inbox'[s] = Append(inbox[s], e), screen'[s] = screen[s],
         WillShow(s, c)'
  PROVE  ~Closing(e) /\ (WillShow(s, c) \/ e \in Opening(c))
<1>1. PICK q, n, p : q = inbox[s] /\ n = Len(q) + 1 /\ p = inbox'[s]
  OBVIOUS
<1>2. q \in Seq(Events \X CallIds) /\ DOMAIN q = 1 .. Len(q) /\ Len(q) \in Nat
  BY <1>1 DEF Shape
<1>3. /\ DOMAIN p = 1 .. n /\ p[n] = e /\ n \in DOMAIN p
      /\ \A i \in DOMAIN q : i \in DOMAIN p /\ p[i] = q[i] /\ i < n
      /\ \A i \in DOMAIN p : i = n \/ i \in DOMAIN q
  BY <1>1, <1>2
<1>4. \/ screen[s].active = c /\ \A i \in DOMAIN p : ~Closing(p[i])
      \/ \E i \in DOMAIN p : /\ p[i] \in Opening(c)
                             /\ \A j \in DOMAIN p : j > i => ~Closing(p[j])
  BY <1>1 DEF WillShow, Closing, Opening
<1>5. CASE screen[s].active = c /\ \A i \in DOMAIN p : ~Closing(p[i])
  <2>1. \A i \in DOMAIN q : ~Closing(q[i])
    BY <1>3, <1>5
  <2>2. ~Closing(e)
    BY <1>3, <1>5
  <2>3. QED
    BY <1>1, <1>5, <2>1, <2>2 DEF WillShow
<1>6. ASSUME NEW i \in DOMAIN p, p[i] \in Opening(c),
             \A j \in DOMAIN p : j > i => ~Closing(p[j])
      PROVE  ~Closing(e) /\ (WillShow(s, c) \/ e \in Opening(c))
  <2>1. CASE i = n
    <3>1. e \in Opening(c)
      BY <1>3, <1>6, <2>1
    <3>2. QED
      BY <3>1 DEF Opening, Closing
  <2>2. CASE i \in DOMAIN q
    <3>1. n > i /\ p[i] = q[i]
      BY <1>1, <1>2, <1>3, <2>2
    <3>2. ~Closing(e)
      BY <1>3, <1>6, <3>1
    <3>3. \A j \in DOMAIN q : j > i => ~Closing(q[j])
      BY <1>3, <1>6
    <3>4. WillShow(s, c)
      BY <1>1, <1>6, <2>2, <3>1, <3>3 DEF WillShow
    <3>5. QED
      BY <3>2, <3>4
  <2>3. QED
    BY <1>3, <2>1, <2>2
<1>7. QED
  BY <1>4, <1>5, <1>6

\* Taking an event does not bring a call to a tab that was not to show it.
LEMMA WillShowTaken ==
  ASSUME Base, NEW s \in Sockets, Receive(s), NEW c \in CallIds, WillShow(s, c)'
  PROVE  WillShow(s, c)
<1>1. PICK q, p, e, a, b : q = inbox[s] /\ p = inbox'[s] /\ e = q[1] /\ a = e[1] /\ b = e[2]
  OBVIOUS
<1>2. /\ q \in Seq(Events \X CallIds) /\ 1 \in DOMAIN q
      /\ \A i \in DOMAIN p : i \in Nat /\ i + 1 \in DOMAIN q /\ p[i] = q[i + 1]
      /\ \A i \in DOMAIN q : i = 1 \/ i - 1 \in DOMAIN p
      /\ \A i \in DOMAIN q : i \in Nat
  BY <1>1, ReceiveFacts DEF Base, Shape
<1>3. e = <<a, b>> /\ a \in Events
  BY <1>1, <1>2, TakeFacts
<1>4. /\ a \in {"ringing", "accepted"} => screen'[s].active = b
      /\ a \in {"rejected", "ended"} => screen'[s].active = NoCall
      /\ a \in {"incoming", "offer"} => screen'[s].active = screen[s].active
  BY <1>1, TakeFacts
<1>5. ASSUME NEW k \in Nat, \A j \in DOMAIN p : j > k => ~Closing(p[j])
      PROVE  \A j \in DOMAIN q : j > k + 1 => ~Closing(q[j])
  <2>1. SUFFICES ASSUME NEW j \in DOMAIN q, j > k + 1
                 PROVE  ~Closing(q[j])
    OBVIOUS
  <2>2. PICK i : i = j - 1
    OBVIOUS
  <2>3. i \in DOMAIN p /\ i > k /\ i + 1 = j
    BY <1>2, <2>1, <2>2
  <2>4. QED
    BY <1>2, <1>5, <2>3
<1>6. \/ screen'[s].active = c /\ \A i \in DOMAIN p : ~Closing(p[i])
      \/ \E i \in DOMAIN p : /\ p[i] \in Opening(c)
                             /\ \A j \in DOMAIN p : j > i => ~Closing(p[j])
  BY <1>1 DEF WillShow, Closing, Opening
<1>7. CASE screen'[s].active = c /\ \A i \in DOMAIN p : ~Closing(p[i])
  <2>1. \A j \in DOMAIN q : j > 1 => ~Closing(q[j])
    <3>1. \A j \in DOMAIN p : j > 0 => ~Closing(p[j])
      BY <1>7
    <3>2. \A j \in DOMAIN q : j > 0 + 1 => ~Closing(q[j])
      BY <1>5, <3>1
    <3>3. QED
      BY <3>2
  <2>2. CASE a \in {"ringing", "accepted"}
    <3>1. q[1] \in Opening(c)
      BY <1>1, <1>3, <1>4, <1>7, <2>2 DEF Opening
    <3>2. QED
      BY <1>1, <1>2, <2>1, <3>1 DEF WillShow
  <2>3. CASE a \in {"incoming", "offer"}
    <3>1. ~Closing(q[1]) /\ screen[s].active = c
      BY <1>1, <1>4, <1>7, <2>3 DEF Closing
    <3>2. \A j \in DOMAIN q : ~Closing(q[j])
      <4>1. ASSUME NEW j \in DOMAIN q, j # 1
            PROVE  j > 1
        BY <1>2, <4>1
      <4>2. QED
        BY <2>1, <3>1, <4>1
    <3>3. QED
      BY <1>1, <3>1, <3>2 DEF WillShow
  <2>4. CASE a \in {"rejected", "ended"}
    <3>1. c = NoCall
      BY <1>4, <1>7, <2>4
    <3>2. QED
      BY <3>1 DEF NoCall, CallIds
  <2>5. QED
    BY <1>3, <2>2, <2>3, <2>4 DEF Events
<1>8. ASSUME NEW i \in DOMAIN p, p[i] \in Opening(c),
             \A j \in DOMAIN p : j > i => ~Closing(p[j])
      PROVE  WillShow(s, c)
  <2>1. PICK k : k = i + 1
    OBVIOUS
  <2>2. i \in Nat /\ k \in DOMAIN q /\ q[k] \in Opening(c)
    BY <1>2, <1>8, <2>1
  <2>3. \A j \in DOMAIN q : j > k => ~Closing(q[j])
    BY <1>5, <1>8, <2>1, <2>2
  <2>4. QED
    BY <1>1, <2>2, <2>3 DEF WillShow
<1>9. QED
  BY <1>6, <1>7, <1>8

\* A tab goes on being told the end of a call, as long as nothing opens it again.
LEMMA EndStillComes ==
  ASSUME NEW s, NEW c, EndComes(s, c), raced \subseteq raced',
         IsOver(c)' => IsOver(c), WillShow(s, c)' => WillShow(s, c),
         \A h \in Handlers : TellsEnd(h, c) => \E g \in Handlers : TellsEnd(g, c)'
  PROVE  EndComes(s, c)'
<1>1. SUFFICES ASSUME Undisturbed(c)', IsOver(c)', WillShow(s, c)'
               PROVE  \E h \in Handlers : TellsEnd(h, c)'
  BY DEF EndComes
<1>2. Undisturbed(c)
  BY <1>1 DEF Undisturbed
<1>3. QED
  BY <1>1, <1>2 DEF EndComes

\* Steps that leave tabs, inboxes and rooms alone.
LEMMA JoinedSame ==
  ASSUME NEW s \in Sockets, NEW c \in CallIds, Joined(s, c),
         screen'[s].active \in {screen[s].active, NoCall},
         OnWay(s)' \cap Opening(c) \subseteq OnWay(s), s \in room[c] => s \in room'[c]
  PROVE  Joined(s, c)'
<1>1. c # NoCall
  BY DEF CallIds, NoCall
<1>2. Opening(c)' = Opening(c)
  BY DEF Opening
<1>3. QED
  BY <1>1, <1>2 DEF Joined

LEMMA TellsEndStays ==
  ASSUME NEW h \in Handlers, handler'[h] = Idle \/ handler[h].pc # "saved",
         \A g \in Handlers : g # h => handler'[g] = handler[g],
         NEW c, handler[h].pc = "saved" => handler[h].call # c
  PROVE  \A g \in Handlers : TellsEnd(g, c) => TellsEnd(g, c)'
BY DEF TellsEnd

LEMMA ServeScreens ==
  ASSUME Base, Screens, NEW h \in Handlers, ServeInvite(h)
  PROVE  Screens'
<1>1. PICK n : n = Next1
  OBVIOUS
<1>2. /\ n \in CallIds /\ call'[n].status = "pending" /\ InFlight(h)
      /\ \A c \in 1 .. Len(call) : call'[c] = call[c]
      /\ \A c \in 1 .. Len(call') : c = n \/ c \in 1 .. Len(call)
      /\ \A c \in CallIds : c # n => room'[c] = room[c]
      /\ room'[n] = Client(h)
      /\ \A s \in Sockets :
           \/ inbox'[s] = inbox[s] /\ OnWay(s)' = OnWay(s)
           \/ inbox'[s] = Append(inbox[s], <<"incoming", n>>)
                /\ OnWay(s)' = OnWay(s) \cup {<<"incoming", n>>}
           \/ s \in Client(h) /\ inbox'[s] = Append(inbox[s], <<"ringing", n>>)
                /\ OnWay(s)' = OnWay(s) \cup {<<"ringing", n>>}
      /\ UNCHANGED <<screen, raced, dropped>>
  BY <1>1, ServeFacts
<1>3. n \notin 1 .. Len(call) /\ Shape
  BY <1>1, HasId DEF Next1, Base
<1>4. ASSUME NEW s \in Sockets \ dropped, NEW c \in CallIds
      PROVE  Joined(s, c)'
  <2>1. Joined(s, c)
    BY DEF Screens
  <2>2. CASE c # n
    <3>1. OnWay(s)' \cap Opening(c) \subseteq OnWay(s)
      BY <1>2, <2>2 DEF Opening
    <3>2. QED
      BY <1>2, <2>1, <2>2, <3>1, JoinedSame
  <2>3. CASE c = n
    <3>1. ~Mine(s, n)
      BY <1>3 DEF Mine
    <3>2. screen[s].active # n /\ OnWay(s) \cap Opening(n) = {}
      BY <1>2, <3>1, ShowsIsMine
    <3>3. OnWay(s)' \cap Opening(n) # {} => s \in Client(h)
      BY <1>2, <3>2 DEF Opening
    <3>4. Opening(n)' = Opening(n)
      BY DEF Opening
    <3>5. QED
      BY <1>2, <2>3, <3>2, <3>3, <3>4 DEF Joined
  <2>4. QED
    BY <2>2, <2>3
<1>5. ASSUME NEW s \in Sockets \ dropped, NEW c \in 1 .. Len(call)
      PROVE  EndComes(s, c)'
  <2>1. EndComes(s, c) /\ c # n
    BY <1>3 DEF Screens
  <2>2. IsOver(c)' => IsOver(c)
    BY <1>2 DEF IsOver
  <2>3. ASSUME NEW event \in {"incoming", "ringing"}, WillShow(s, c)',
               inbox'[s] = Append(inbox[s], <<event, n>>)
        PROVE  WillShow(s, c)
    <3>1. <<event, n>> \in Events \X CallIds /\ <<event, n>> \notin Opening(c)
      BY <1>2, <2>1, <2>3 DEF Events, Opening
    <3>2. QED
      BY <1>2, <1>3, <2>3, <3>1, WillShowGrows
  <2>4. WillShow(s, c)' => WillShow(s, c)
    <3>1. inbox'[s] = inbox[s] => (WillShow(s, c)' => WillShow(s, c))
      BY <1>2 DEF WillShow, Opening, Closing
    <3>2. QED
      BY <1>2, <2>3, <3>1
  <2>5. \A g \in Handlers : TellsEnd(g, c) => TellsEnd(g, c)'
    <3>1. handler'[h] = Idle /\ \A g \in Handlers : g # h => handler'[g] = handler[g]
      BY EndedHandler
    <3>2. handler[h].pc # "saved"
      BY DEF ServeInvite
    <3>3. QED
      BY <3>1, <3>2, TellsEndStays
  <2>6. QED
    BY <1>2, <2>1, <2>2, <2>4, <2>5, EndStillComes
<1>6. ASSUME NEW s \in Sockets \ dropped
      PROVE  EndComes(s, n)'
  BY <1>2 DEF EndComes, IsOver
<1>7. QED
  BY <1>2, <1>4, <1>5, <1>6 DEF Screens

\* What an announcement is to a tab of the room.
LEMMA RoomIsTold ==
  ASSUME Base, Calm, Rooms, NEW h \in Handlers, Announce(h), handler[h].op # "accept",
         Undisturbed(CallOf(h)), NEW s \in room[CallOf(h)]
  PROVE  s \in Told(h)
<1>1. PICK c, op : c = CallOf(h) /\ op = handler[h].op
  OBVIOUS
<1>2. AtWork(handler[h]) /\ c \in 1 .. Len(call) /\ c \in CallIds /\ op \in Ends /\ Busy(h, c)
  BY <1>1, AnnounceFacts, WorkFacts DEF Saved, AtWork
<1>3. CASE op = "hangup"
  BY <1>1, <1>3 DEF Told, Audience
<1>4. CASE op = "reject"
  <2>1. Answers(h, c)
    BY <1>1, <1>2, <1>4 DEF Answers
  <2>2. Answered(c) = {}
    BY <1>1, <1>2, <2>1 DEF Rooms, RoomFine
  <2>3. Mine(s, c) /\ s \in Sockets
    BY <1>1, <1>2 DEF Base, Belongs, Shape
  <2>4. UserOf[s] # call[c].receiver
    BY <1>1, <2>2, <2>3 DEF Answered, UserRoom
  <2>5. UserOf[s] = call[c].initiator
    BY <2>3, <2>4 DEF Mine, Parties
  <2>6. QED
    BY <1>1, <1>4, <2>3, <2>5 DEF Told, Audience, UserRoom
<1>5. QED
  BY <1>1, <1>2, <1>3, <1>4 DEF Ends

LEMMA AnnounceScreens ==
  ASSUME Base, Calm, Rooms, Screens, NEW h \in Handlers, Announce(h)
  PROVE  Screens'
<1>1. PICK c, op, e : c = CallOf(h) /\ op = handler[h].op /\ e = <<EventBy(h), CallOf(h)>>
  OBVIOUS
<1>2. /\ handler[h].pc = "saved" /\ AtWork(handler[h])
      /\ \A d \in CallIds : d # c => room'[d] = room[d]
      /\ room'[c] = IF op = "accept" THEN room[c] \cup Client(h) ELSE room[c]
      /\ e[1] = "accepted" <=> op = "accept"
      /\ e[1] \in {"accepted", "rejected", "ended"} /\ e[2] = c /\ e = <<e[1], c>>
      /\ UNCHANGED <<call, screen, raced, dropped>>
  BY <1>1, AnnounceFacts DEF Saved, AtWork
<1>3. /\ c \in 1 .. Len(call) /\ c \in CallIds /\ Busy(h, c) /\ op \in Ends
      /\ e \in Events \X CallIds /\ Shape
  <2>1. c \in 1 .. Len(call) /\ c \in CallIds /\ Busy(h, c) /\ op \in Ends
    BY <1>1, <1>2, WorkFacts
  <2>2. e[1] \in Events
    BY <1>2 DEF Events
  <2>3. QED
    BY <1>2, <2>1, <2>2 DEF Base
<1>4. \A s \in Sockets : /\ s \notin Told(h) => inbox'[s] = inbox[s] /\ OnWay(s)' = OnWay(s)
                         /\ s \in Told(h) => /\ inbox'[s] = Append(inbox[s], e)
                                             /\ OnWay(s)' = OnWay(s) \cup {e}
  BY <1>1, AnnounceFacts
<1>5. op = "accept" => Told(h) = room'[c]
  BY <1>1, <1>2 DEF Told, Audience
<1>6. ASSUME NEW s \in Sockets \ dropped, NEW d \in CallIds
      PROVE  Joined(s, d)'
  <2>1. Joined(s, d)
    BY DEF Screens
  <2>2. CASE e \notin Opening(d)
    <3>1. OnWay(s)' \cap Opening(d) \subseteq OnWay(s)
      BY <1>4, <2>2
    <3>2. s \in room[d] => s \in room'[d]
      BY <1>2
    <3>3. QED
      BY <1>2, <2>1, <3>1, <3>2, JoinedSame
  <2>3. CASE e \in Opening(d)
    <3>1. d = c /\ op = "accept"
      BY <1>2, <2>3 DEF Opening
    <3>2. CASE s \in Told(h)
      BY <1>5, <3>1, <3>2 DEF Joined
    <3>3. CASE s \notin Told(h)
      <4>1. s \in room[d] => s \in room'[d]
        BY <1>2
      <4>2. OnWay(s)' \cap Opening(d) \subseteq OnWay(s)
        BY <1>4, <3>3
      <4>3. QED
        BY <1>2, <2>1, <4>1, <4>2, JoinedSame
    <3>4. QED
      BY <3>2, <3>3
  <2>4. QED
    BY <2>2, <2>3
<1>7. ASSUME NEW s \in Sockets, NEW d, e \notin Opening(d), WillShow(s, d)'
      PROVE  WillShow(s, d) /\ (s \in Told(h) => ~Closing(e))
  <2>1. CASE s \in Told(h)
    <3>1. inbox'[s] = Append(inbox[s], e) /\ screen'[s] = screen[s]
      BY <1>2, <1>4, <2>1
    <3>2. QED
      BY <1>3, <1>7, <3>1, WillShowGrows
  <2>2. CASE s \notin Told(h)
    <3>1. inbox'[s] = inbox[s]
      BY <1>4, <2>2
    <3>2. QED
      BY <1>2, <1>7, <2>2, <3>1 DEF WillShow, Opening, Closing
  <2>3. QED
    BY <2>1, <2>2
<1>8. ASSUME NEW s \in Sockets \ dropped, NEW d \in 1 .. Len(call), d # c
      PROVE  EndComes(s, d)'
  <2>1. e \notin Opening(d)
    BY <1>2, <1>8 DEF Opening
  <2>2. EndComes(s, d)
    BY DEF Screens
  <2>3. \A g \in Handlers : TellsEnd(g, d) => TellsEnd(g, d)'
    <3>1. handler'[h] = Idle /\ \A g \in Handlers : g # h => handler'[g] = handler[g]
      BY EndedHandler
    <3>2. handler[h].call # d
      BY <1>1, <1>8 DEF CallOf
    <3>3. QED
      BY <3>1, <3>2, TellsEndStays
  <2>4. IsOver(d)' => IsOver(d)
    BY <1>2 DEF IsOver
  <2>5. QED
    BY <1>2, <1>7, <2>1, <2>2, <2>3, <2>4, EndStillComes
<1>9. ASSUME NEW s \in Sockets \ dropped
      PROVE  EndComes(s, c)'
  <2>1. SUFFICES ASSUME Undisturbed(c), IsOver(c), WillShow(s, c)'
                 PROVE  FALSE
    BY <1>2 DEF EndComes, Undisturbed, IsOver
  <2>2. Knows(h)
    BY <1>3, <2>1 DEF Calm
  <2>3. op # "accept"
    BY <1>1, <1>2, <2>1, <2>2 DEF Knows, IsOver, CallOf
  <2>4. e \notin Opening(c) /\ Closing(e)
    BY <1>2, <2>3 DEF Opening, Closing
  <2>5. WillShow(s, c)
    BY <1>7, <2>1, <2>4
  <2>6. Joined(s, c)
    BY <1>3 DEF Screens
  <2>7. s \in room[c]
    BY <2>5, <2>6, WillShowIsJoined DEF Joined
  <2>8. s \in Told(h)
    BY <1>1, <2>1, <2>3, <2>7, RoomIsTold
  <2>9. QED
    BY <1>7, <2>1, <2>4, <2>8
<1>10. QED
  BY <1>2, <1>6, <1>8, <1>9 DEF Screens

\* A handler that goes on with a call and says nothing yet.
LEMMA QuietScreens ==
  ASSUME Base, Screens, UNCHANGED <<room, inbox, screen, dropped>>, raced \subseteq raced',
         Len(call') = Len(call),
         \A c \in 1 .. Len(call) : Undisturbed(c)' /\ IsOver(c)' =>
           IsOver(c) \/ \E h \in Handlers : TellsEnd(h, c)',
         \A c \in 1 .. Len(call) : \A h \in Handlers : TellsEnd(h, c) => TellsEnd(h, c)'
  PROVE  Screens'
<1>1. ASSUME NEW s \in Sockets \ dropped, NEW c \in CallIds
      PROVE  Joined(s, c)'
  BY DEF Screens, Joined, OnWay, Opening
<1>2. ASSUME NEW s \in Sockets \ dropped, NEW c \in 1 .. Len(call)
      PROVE  EndComes(s, c)'
  <2>1. EndComes(s, c)
    BY DEF Screens
  <2>2. WillShow(s, c)' => WillShow(s, c)
    BY DEF WillShow, Opening, Closing
  <2>3. CASE IsOver(c)' => IsOver(c)
    BY <2>1, <2>2, <2>3, EndStillComes
  <2>4. CASE \E h \in Handlers : TellsEnd(h, c)'
    BY <2>4 DEF EndComes
  <2>5. QED
    BY <2>3, <2>4 DEF EndComes
<1>3. QED
  BY <1>1, <1>2 DEF Screens

LEMMA SaveScreens ==
  ASSUME Base, Calm, Screens, NEW h \in Handlers, Save(h)
  PROVE  Screens'
<1>1. PICK c, op : c = CallOf(h) /\ op = handler[h].op
  OBVIOUS
<1>2. /\ UNCHANGED <<room, inbox, screen, raced, dropped>> /\ Len(call') = Len(call)
      /\ handler[h].pc = "fetched" /\ handler'[h].pc = "saved"
      /\ handler'[h].op = op /\ handler'[h].call = c
      /\ \A g \in Handlers : g # h => handler'[g] = handler[g]
      /\ \A d \in 1 .. Len(call) : d # c => call'[d] = call[d]
  BY <1>1, SaveFacts, SaveHandlers DEF CallOf
<1>3. ASSUME NEW d \in 1 .. Len(call), NEW g \in Handlers, TellsEnd(g, d)
      PROVE  TellsEnd(g, d)'
  <2>1. g # h
    BY <1>2, <1>3 DEF TellsEnd
  <2>2. QED
    BY <1>2, <1>3, <2>1 DEF TellsEnd
<1>4. ASSUME NEW d \in 1 .. Len(call), Undisturbed(d)', IsOver(d)'
      PROVE  IsOver(d) \/ \E g \in Handlers : TellsEnd(g, d)'
  <2>1. CASE d # c
    BY <1>2, <1>4, <2>1 DEF IsOver
  <2>2. CASE d = c /\ op # "accept"
    BY <1>2, <2>2 DEF TellsEnd
  <2>3. CASE d = c /\ op = "accept"
    <3>1. Knows(h)'
      <4>1. Calm'
        BY SaveCalm
      <4>2. d \in CallIds /\ Busy(h, d)'
        BY <1>2, <1>4, <2>3, HasId DEF Busy
      <4>3. QED
        BY <1>4, <4>1, <4>2 DEF Calm
    <3>2. call'[d].status = "active"
      BY <1>2, <2>3, <3>1 DEF Knows
    <3>3. QED
      BY <1>4, <3>2 DEF IsOver
  <2>4. QED
    BY <2>1, <2>2, <2>3
<1>5. QED
  BY <1>2, <1>3, <1>4, QuietScreens

LEMMA ScreensNext ==
  Base /\ Calm /\ Rooms /\ Screens /\ [Next]_vars => Screens'
<1> SUFFICES ASSUME Base, Calm, Rooms, Screens, [Next]_vars PROVE Screens'
  OBVIOUS
<1>1. ASSUME UNCHANGED <<call, room, inbox, screen, dropped>>, raced \subseteq raced',
             NEW h \in Handlers, handler[h].pc # "saved",
             \A g \in Handlers : g # h => handler'[g] = handler[g]
      PROVE  Screens'
  <2>1. \A c \in 1 .. Len(call) : \A g \in Handlers : TellsEnd(g, c) => TellsEnd(g, c)'
    BY <1>1 DEF TellsEnd
  <2>2. \A c \in 1 .. Len(call) : IsOver(c)' => IsOver(c)
    BY <1>1 DEF IsOver
  <2>3. QED
    BY <1>1, <2>1, <2>2, QuietScreens
<1>2. ASSUME NEW h \in Handlers, GatewayStep(h)
      PROVE  Screens'
  <2>1. CASE Check(h)
    <3>1. handler[h].pc # "saved"
      BY <2>1 DEF Check
    <3>2. QED
      BY <1>1, <2>1, <3>1, CheckFacts
  <2>2. CASE Fetch(h)
    BY <1>1, <2>2, FetchFacts
  <2>3. CASE RelayOffer(h)
    <3>1. PICK c, e : c = CallOf(h) /\ e = <<"offer", c>>
      OBVIOUS
    <3>2. /\ UNCHANGED <<call, room, screen, raced, dropped>> /\ e \in Events \X CallIds
          /\ \A s \in Sockets :
               \/ inbox'[s] = inbox[s] /\ OnWay(s)' = OnWay(s)
               \/ inbox'[s] = Append(inbox[s], e) /\ OnWay(s)' = OnWay(s) \cup {e}
          /\ \A d : e \notin Opening(d)
      <4>1. \A d : e \notin Opening(d)
        BY <3>1 DEF Opening
      <4>2. c \in CallIds /\ UNCHANGED <<call, room, screen, raced, dropped>>
        BY <2>3, <3>1, RelayFacts
      <4>3. ASSUME NEW s \in Sockets
            PROVE  \/ inbox'[s] = inbox[s] /\ OnWay(s)' = OnWay(s)
                   \/ inbox'[s] = Append(inbox[s], e) /\ OnWay(s)' = OnWay(s) \cup {e}
        BY <2>3, <3>1, RelayFacts
      <4>4. e \in Events \X CallIds
        BY <3>1, <4>2 DEF Events
      <4>5. QED
        BY <4>1, <4>2, <4>3, <4>4
    <3>3. ASSUME NEW s \in Sockets \ dropped, NEW d \in CallIds
          PROVE  Joined(s, d)'
      <4>1. Joined(s, d)
        BY DEF Screens
      <4>2. OnWay(s)' \cap Opening(d) \subseteq OnWay(s)
        BY <3>2
      <4>3. QED
        BY <3>2, <4>1, <4>2, JoinedSame
    <3>4. ASSUME NEW s \in Sockets \ dropped, NEW d \in 1 .. Len(call)
          PROVE  EndComes(s, d)'
      <4>1. EndComes(s, d)
        BY DEF Screens
      <4>4. WillShow(s, d)' => WillShow(s, d)
        <5>1. CASE inbox'[s] = inbox[s]
          BY <3>2, <5>1 DEF WillShow, Opening, Closing
        <5>2. CASE inbox'[s] = Append(inbox[s], e)
          BY <3>2, <5>2, WillShowGrows DEF Base
        <5>3. QED
          BY <3>2, <5>1, <5>2
      <4>5. \A g \in Handlers : TellsEnd(g, d) => TellsEnd(g, d)'
        <5>1. \A g \in Handlers : g # h => handler'[g] = handler[g]
          BY <2>3, EndedHandler
        <5>2. handler[h].pc # "saved"
          BY <2>3 DEF RelayOffer
        <5>3. QED
          BY <5>1, <5>2, TellsEndStays
      <4>6. IsOver(d)' => IsOver(d)
        BY <3>2 DEF IsOver
      <4>7. QED
        BY <3>2, <4>1, <4>4, <4>5, <4>6, EndStillComes
    <3>5. QED
      BY <3>2, <3>3, <3>4 DEF Screens
  <2>4. QED
    BY <1>2, <2>1, <2>2, <2>3, ServeScreens, SaveScreens, AnnounceScreens DEF GatewayStep
<1>3. ASSUME NEW t \in Sockets,
             UNCHANGED <<call, room, raced, dropped>>,
             \A s \in Sockets : OnWay(s)' \subseteq OnWay(s),
             \A s \in Sockets : \A c \in CallIds : WillShow(s, c)' => WillShow(s, c),
             \A s \in Sockets \ dropped : \A c \in CallIds : Joined(s, c) => Joined(s, c)',
             \A g \in Handlers : \A c : TellsEnd(g, c) => TellsEnd(g, c)'
      PROVE  Screens'
  <2>1. ASSUME NEW s \in Sockets \ dropped, NEW c \in CallIds
        PROVE  Joined(s, c)'
    BY <1>3 DEF Screens
  <2>2. ASSUME NEW s \in Sockets \ dropped, NEW c \in 1 .. Len(call)
        PROVE  EndComes(s, c)'
    <3>1. EndComes(s, c) /\ c \in CallIds
      BY HasId DEF Screens
    <3>2. WillShow(s, c)' => WillShow(s, c)
      BY <1>3, <3>1
    <3>3. IsOver(c)' => IsOver(c)
      BY <1>3 DEF IsOver
    <3>4. \A g \in Handlers : TellsEnd(g, c) => TellsEnd(g, c)'
      BY <1>3
    <3>5. QED
      BY <1>3, <3>1, <3>2, <3>3, <3>4, EndStillComes
  <2>3. QED
    BY <1>3, <2>1, <2>2 DEF Screens
<1>4. ASSUME NEW h \in Handlers, NEW t \in Sockets, TabStep(h, t)
      PROVE  Screens'
  <2>1. /\ UNCHANGED <<call, room, inbox, raced, dropped>>
        /\ \A s \in Sockets : screen'[s].active \in {screen[s].active, NoCall}
    BY <1>4, TabFacts
  <2>2. \A s \in Sockets : OnWay(s)' = OnWay(s)
    BY <2>1 DEF OnWay
  <2>3. \A s \in Sockets \ dropped : \A c \in CallIds : Joined(s, c) => Joined(s, c)'
    BY <2>1, <2>2, JoinedSame
  <2>4. \A s \in Sockets : \A c \in CallIds : WillShow(s, c)' => WillShow(s, c)
    BY <2>1 DEF WillShow, Opening, Closing, CallIds, NoCall
  <2>5. \A g \in Handlers : \A c : TellsEnd(g, c) => TellsEnd(g, c)'
    BY <1>4, TabFacts DEF TellsEnd, InFlight
  <2>6. QED
    BY <1>3, <2>1, <2>2, <2>3, <2>4, <2>5
<1>5. ASSUME NEW t \in Sockets, Receive(t)
      PROVE  Screens'
  <2>1. UNCHANGED <<call, room, handler, raced, dropped>>
    BY <1>5 DEF Receive
  <2>2. \A s \in Sockets : s # t => /\ inbox'[s] = inbox[s] /\ OnWay(s)' = OnWay(s)
                                    /\ screen'[s] = screen[s]
    BY <1>5, ReceiveFacts, TakeFacts DEF Base
  <2>3. OnWay(t)' \subseteq OnWay(t)
    BY <1>5, ReceiveFacts DEF Base
  <2>4. ASSUME NEW s \in Sockets \ dropped, NEW c \in CallIds, Joined(s, c)
        PROVE  Joined(s, c)'
    <3>1. CASE screen'[s].active \in {screen[s].active, NoCall}
      BY <2>1, <2>2, <2>3, <2>4, <3>1, JoinedSame
    <3>2. CASE screen'[s].active \notin {screen[s].active, NoCall}
      <4>1. s = t
        BY <2>2, <3>2
      <4>2. PICK e, a, b : e = inbox[t][1] /\ a = e[1] /\ b = e[2]
        OBVIOUS
      <4>3. e \in Events \X CallIds /\ e \in OnWay(t)
        BY <1>5, <4>2, TakeFacts
      <4>4. a \in {"ringing", "accepted"} /\ screen'[t].active = b
        <5>1. a \in Events
          BY <4>2, <4>3
        <5>2. a \notin {"rejected", "ended"} /\ a \notin {"incoming", "offer"}
          BY <1>5, <3>2, <4>1, <4>2, TakeFacts
        <5>3. a \in {"ringing", "accepted"}
          BY <5>1, <5>2 DEF Events
        <5>4. QED
          BY <1>5, <4>2, <5>3, TakeFacts
      <4>5. e = <<a, b>>
        BY <4>2, <4>3
      <4>6. c = b => s \in room[c]
        BY <2>4, <4>1, <4>3, <4>4, <4>5 DEF Joined, Opening
      <4>7. Opening(c)' = Opening(c)
        BY DEF Opening
      <4>8. OnWay(s)' \cap Opening(c) # {} => s \in room[c]
        BY <2>3, <2>4, <4>1 DEF Joined
      <4>9. QED
        BY <2>1, <4>1, <4>4, <4>6, <4>7, <4>8 DEF Joined
    <3>3. QED
      BY <3>1, <3>2
  <2>5. ASSUME NEW s \in Sockets, NEW c \in CallIds, WillShow(s, c)'
        PROVE  WillShow(s, c)
    <3>1. CASE s = t
      BY <1>5, <2>5, <3>1, WillShowTaken
    <3>2. CASE s # t
      BY <2>2, <2>5, <3>2 DEF WillShow, Opening, Closing
    <3>3. QED
      BY <3>1, <3>2
  <2>6. \A g \in Handlers : \A c : TellsEnd(g, c) => TellsEnd(g, c)'
    BY <2>1 DEF TellsEnd
  <2>7. \A s \in Sockets : OnWay(s)' \subseteq OnWay(s)
    BY <2>2, <2>3
  <2>8. QED
    BY <1>3, <2>1, <2>4, <2>5, <2>6, <2>7
<1>6. ASSUME NEW t \in Sockets, Reconnect(t)
      PROVE  Screens'
  <2>1. /\ UNCHANGED <<call, screen, raced>> /\ dropped' = dropped \cup {t}
        /\ \A s \in Sockets : s # t => inbox'[s] = inbox[s] /\ OnWay(s)' = OnWay(s)
        /\ \A c \in CallIds : room'[c] = room[c] \ {t}
    BY <1>6, ReconnectFacts
  <2>2. ASSUME NEW s \in Sockets \ dropped', NEW c \in CallIds
        PROVE  Joined(s, c)'
    <3>1. s \in Sockets \ dropped /\ s # t
      BY <2>1
    <3>2. Joined(s, c)
      BY <3>1 DEF Screens
    <3>3. QED
      BY <2>1, <3>1, <3>2, JoinedSame
  <2>3. ASSUME NEW s \in Sockets \ dropped', NEW c \in 1 .. Len(call)
        PROVE  EndComes(s, c)'
    <3>1. s \in Sockets \ dropped /\ s # t
      BY <2>1
    <3>2. EndComes(s, c)
      BY <3>1 DEF Screens
    <3>3. WillShow(s, c)' => WillShow(s, c)
      BY <2>1, <3>1 DEF WillShow, Opening, Closing
    <3>4. IsOver(c)' => IsOver(c)
      BY <2>1 DEF IsOver
    <3>5. ASSUME NEW g \in Handlers, TellsEnd(g, c)
          PROVE  TellsEnd(g, c)'
      <4>1. AtWork(handler[g])
        BY <3>5 DEF TellsEnd, AtWork
      <4>2. InFlight(g) /\ OnCall(g)
        BY <4>1, WorkFacts
      <4>3. QED
        BY <1>6, <3>5, <4>2, ReconnectHandlers DEF TellsEnd
    <3>6. QED
      BY <2>1, <3>2, <3>3, <3>4, <3>5, EndStillComes
  <2>4. QED
    BY <2>1, <2>2, <2>3 DEF Screens
<1>7. CASE UNCHANGED vars
  <2>1. \A c \in 1 .. Len(call) : \A g \in Handlers : TellsEnd(g, c) => TellsEnd(g, c)'
    BY <1>7 DEF TellsEnd, vars
  <2>2. \A c \in 1 .. Len(call) : IsOver(c)' => IsOver(c)
    BY <1>7 DEF IsOver, vars
  <2>3. QED
    BY <1>7, <2>1, <2>2, QuietScreens DEF vars
<1>8. QED
  BY <1>2, <1>4, <1>5, <1>6, <1>7 DEF Next

LEMMA ScreensInit == Init => Screens
<1> SUFFICES ASSUME Init PROVE Screens
  OBVIOUS
<1>1. ASSUME NEW s \in Sockets, NEW c \in CallIds
      PROVE  Joined(s, c)
  <2>1. DOMAIN inbox[s] = {}
    BY DEF Init
  <2>2. screen[s].active = NoCall
    BY DEF Init
  <2>3. QED
    BY <2>1, <2>2 DEF Joined, OnWay, CallIds, NoCall
<1>2. 1 .. Len(call) = {}
  BY DEF Init
<1>3. QED
  BY <1>1, <1>2 DEF Screens

-----------------------------------------------------------------------------
LEMMA CallsCorrect == Spec => []CallsInv
<1>1. CallsInv /\ [Next]_vars => CallsInv'
  BY BaseNext, CalmNext, ConsentNext, RoomsNext, ScreensNext DEF CallsInv
<1>2. Init => CallsInv
  BY BaseInit, CalmInit, ConsentInit, RoomsInit, ScreensInit DEF CallsInv
<1>3. QED
  BY <1>1, <1>2, PTL DEF Spec

\* The tables are well formed, and no tab of any user has or waits for a peer connection of a call
\* it is no party of, or that the receiver did not accept (handlers that overlap excepted).
THEOREM MicrophonesNeedConsent == Spec => []MediaNeedsConsent
<1>1. ASSUME CallsInv PROVE MediaNeedsConsent
  <2>1. Base /\ Consent /\ Shape /\ Belongs
    BY <1>1 DEF CallsInv, Base
  <2>2. TypeOK
    <3>1. \A h \in Handlers : handler[h].pc \in {"idle", "new", "checked", "fetched", "saved"}
      BY <2>1, HandlerFacts
    <3>2. ASSUME NEW c \in CallIds, NEW s \in room[c]
          PROVE  s \in Sockets /\ c <= Len(call) /\ UserOf[s] \in Parties(c)
      BY <2>1 DEF Belongs, Mine, Shape
    <3>3. QED
      BY <2>1, <3>1, <3>2 DEF TypeOK, Shape
  <2>3. ASSUME NEW s \in Sockets, NEW c \in MediaCalls(s) \ {NoCall}
        PROVE  UserOf[s] \in Parties(c) /\ (Undisturbed(c) => call[c].started)
    BY <2>1 DEF Belongs, Mine, Holds, Consent, Started
  <2>4. QED
    BY <2>2, <2>3 DEF MediaNeedsConsent
<1>2. QED
  BY <1>1, CallsCorrect, PTL

\* Of the tabs of the receiver one at most answers a call, unless two handlers overlapped on it.
THEOREM OneTabAnswers == Spec => []AnsweredOnce
<1>1. ASSUME CallsInv PROVE AnsweredOnce
  <2>1. SUFFICES ASSUME NEW c \in 1 .. Len(call), Undisturbed(c)
                 PROVE  Cardinality(room[c] \cap UserRoom(call[c].receiver)) <= 1
    BY DEF AnsweredOnce
  <2>2. \A s, t \in Answered(c) : s = t
    BY <1>1, <2>1 DEF CallsInv, Rooms, RoomFine
  <2>3. PICK A : A = room[c] \cap UserRoom(call[c].receiver)
    OBVIOUS
  <2>4. \A s, t \in A : s = t
    BY <2>2, <2>3 DEF Answered
  <2>5. CASE A = {}
    <3>1. Cardinality(A) = 0
      BY <2>5, FS_EmptySet
    <3>2. QED
      BY <2>3, <3>1
  <2>6. ASSUME NEW s \in A
        PROVE  Cardinality(A) <= 1
    <3>1. A = {s}
      BY <2>4, <2>6
    <3>2. Cardinality({s}) = 1
      BY FS_Singleton
    <3>3. QED
      BY <3>1, <3>2
  <2>7. QED
    BY <2>3, <2>5, <2>6
<1>2. QED
  BY <1>1, CallsCorrect, PTL

\* When no handler is in flight and a tab that stayed connected has taken all its events, what it
\* shows as its call is not over: the end of an undisturbed call reaches every tab that had it.
THEOREM NoScreenIsLeft == Spec => []ScreensAgree
<1>1. ASSUME CallsInv PROVE ScreensAgree
  <2>1. SUFFICES ASSUME NEW s \in Sockets, NEW c, c = screen[s].active, Quiet, inbox[s] = << >>,
                        s \notin dropped, c # NoCall, Undisturbed(c),
                        call[c].status \notin {"pending", "active"}
                 PROVE  FALSE
    BY DEF ScreensAgree
  <2>2. Base /\ Screens
    BY <1>1 DEF CallsInv
  <2>3. c \in 1 .. Len(call)
    BY <2>1, <2>2 DEF Base, Belongs, Holds, Mine
  <2>4. WillShow(s, c)
    BY <2>1 DEF WillShow
  <2>5. IsOver(c)
    BY <2>1 DEF IsOver
  <2>6. PICK h \in Handlers : TellsEnd(h, c)
    BY <2>1, <2>2, <2>3, <2>4, <2>5 DEF Screens, EndComes
  <2>7. InFlight(h)
    BY <2>6 DEF TellsEnd, InFlight
  <2>8. QED
    BY <2>1, <2>7 DEF Quiet
<1>2. QED
  BY <1>1, CallsCorrect, PTL
==============================================================================
