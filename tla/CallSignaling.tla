---------------------------- MODULE CallSignaling ----------------------------
(***************************************************************************)
(* Calls between users: the calls table, the handlers of CallsGateway and  *)
(* the browsers (useCallsSocket) at the other end of its sockets.          *)
(*                                                                         *)
(*   call     the rows of calls in the order of their ids                  *)
(*   room     the sockets that joined the room call:<id>                   *)
(*   handler  the gateway handlers in flight; each has awaits between its  *)
(*            check, the read and the save of updateStatus, and its emits  *)
(*   inbox    the events on their way to a socket, in order                *)
(*   screen   what a browser tab shows and holds                           *)
(*   raced    history: calls on which two handlers overlapped              *)
(*   dropped  history: sockets that lost their connection once             *)
(*   admitted how many requests were made; only a bound reads it           *)
(*                                                                         *)
(* Every tab has one socket.  Left out: the relays of answers and ICE      *)
(* candidates, which touch nothing kept here, times and durations.         *)
(***************************************************************************)
EXTENDS Naturals, Sequences, FiniteSets

CONSTANTS Users, Sockets,
          UserOf,        \* the user signed in on a socket
          Handlers,      \* handlers in flight at one time
          MaxCalls,      \* bound: calls ever made
          MaxRequests,   \* bound: events sent to the gateway
          MaxDrops       \* bound: sockets that lose their connection

ASSUME CallsAssumption ==
  /\ UserOf \in [Sockets -> Users]
  /\ {MaxCalls, MaxRequests, MaxDrops} \subseteq Nat

VARIABLES call, room, handler, inbox, screen, raced, dropped, admitted

vars == <<call, room, handler, inbox, screen, raced, dropped, admitted>>

CallIds  == 1 .. MaxCalls
NoCall   == 0
Statuses == {"pending", "active", "missed", "rejected", "ended"}
Events   == {"incoming", "ringing", "accepted", "rejected", "ended", "offer"}
Roles    == {"offer", "answer"}
Idle     == [pc |-> "idle"]

Screen ==
  [incoming : {NoCall} \cup CallIds,         \* incomingCall
   active   : {NoCall} \cup CallIds,         \* activeCall
   caller   : BOOLEAN,                       \* isCallerRef
   starting : SUBSET (CallIds \X Roles),     \* waiting for the microphone
   peer     : {NoCall} \cup CallIds]         \* pcRef: the call it belongs to

Parties(c) == {call[c].initiator, call[c].receiver}
UserRoom(u) == {s \in Sockets : UserOf[s] = u}

Init ==
  /\ call = << >>
  /\ room = [c \in CallIds |-> {}]
  /\ handler = [h \in Handlers |-> Idle]
  /\ inbox = [s \in Sockets |-> << >>]
  /\ screen = [s \in Sockets |-> [incoming |-> NoCall, active |-> NoCall,
                                  caller |-> FALSE, starting |-> {}, peer |-> NoCall]]
  /\ raced = {}
  /\ dropped = {}
  /\ admitted = 0

-----------------------------------------------------------------------------
(***************************************************************************)
(* What a tab sends.                                                       *)
(***************************************************************************)
InFlight(h) == handler[h].pc # "idle"

Send(h, op, s, c) ==
  /\ ~InFlight(h)
  /\ admitted < MaxRequests
  /\ handler' = [handler EXCEPT ![h] =
                   [pc |-> "new", op |-> op, by |-> s, call |-> c, gone |-> FALSE]]
  /\ admitted' = admitted + 1

ToCome == {h \in Handlers : InFlight(h) /\ handler[h].op = "invite"}

\* initiateCall; handleInvite refuses a call to oneself.
Invite(h, s, u) ==
  /\ Len(call) + Cardinality(ToCome) < MaxCalls
  /\ u # UserOf[s]
  /\ ~InFlight(h)
  /\ admitted < MaxRequests
  /\ handler' = [handler EXCEPT ![h] =
                   [pc |-> "new", op |-> "invite", by |-> s, callee |-> u, gone |-> FALSE]]
  /\ admitted' = admitted + 1
  /\ screen' = [screen EXCEPT ![s].caller = TRUE]
  /\ UNCHANGED <<call, room, inbox, raced, dropped>>

Accept(h, s) ==
  /\ screen[s].incoming # NoCall
  /\ Send(h, "accept", s, screen[s].incoming)
  /\ screen' = [screen EXCEPT ![s].caller = FALSE]
  /\ UNCHANGED <<call, room, inbox, raced, dropped>>

Reject(h, s) ==
  /\ screen[s].incoming # NoCall
  /\ Send(h, "reject", s, screen[s].incoming)
  /\ screen' = [screen EXCEPT ![s].incoming = NoCall]
  /\ UNCHANGED <<call, room, inbox, raced, dropped>>

\* hangUp, and a peer connection that failed for good.
Closed(t) == [t EXCEPT !.peer = NoCall, !.active = NoCall, !.incoming = NoCall]

HangUp(h, s) ==
  /\ screen[s].active # NoCall
  /\ Send(h, "hangup", s, screen[s].active)
  /\ screen' = [screen EXCEPT ![s] = Closed(@)]
  /\ UNCHANGED <<call, room, inbox, raced, dropped>>

\* The microphone is there: the tab has a peer connection, a caller offers.
MediaReady(h, s, c, role) ==
  /\ <<c, role>> \in screen[s].starting
  /\ screen' = [screen EXCEPT ![s].starting = @ \ {<<c, role>>}, ![s].peer = c]
  /\ IF role = "offer" THEN Send(h, "offer", s, c) ELSE UNCHANGED <<handler, admitted>>
  /\ UNCHANGED <<call, room, inbox, raced, dropped>>

MediaFails(h, s, c, role) ==
  /\ <<c, role>> \in screen[s].starting
  /\ screen' = [screen EXCEPT ![s].starting = @ \ {<<c, role>>}]
  /\ Send(h, "hangup", s, c)
  /\ UNCHANGED <<call, room, inbox, raced, dropped>>

-----------------------------------------------------------------------------
(***************************************************************************)
(* The gateway.                                                            *)
(***************************************************************************)
Emit(to, event, c) ==
  inbox' = [s \in Sockets |-> IF s \in to THEN Append(inbox[s], <<event, c>>) ELSE inbox[s]]

\* The socket a handler was called on, unless that connection is gone.
Client(h) == IF handler[h].gone THEN {} ELSE {handler[h].by}

ServeInvite(h) ==
  LET r == handler[h]
      c == Len(call) + 1
  IN  /\ r.pc = "new"
      /\ r.op = "invite"
      /\ call' = Append(call, [status |-> "pending", initiator |-> UserOf[r.by],
                               receiver |-> r.callee, started |-> FALSE])
      /\ room' = [room EXCEPT ![c] = Client(h)]
      /\ inbox' = [s \in Sockets |->
                     IF s \in UserRoom(r.callee) THEN Append(inbox[s], <<"incoming", c>>)
                     ELSE IF s \in Client(h) THEN Append(inbox[s], <<"ringing", c>>)
                     ELSE inbox[s]]
      /\ handler' = [handler EXCEPT ![h] = Idle]
      /\ UNCHANGED <<screen, raced, dropped, admitted>>

Busy(h, c) == handler[h].pc \in {"checked", "fetched", "saved"} /\ handler[h].call = c

\* Bug: an accept does not ask whether the call is still pending.
AcceptsAny(op, row, user) ==
  \/ op = "accept" /\ row.receiver = user
  \/ op = "reject" /\ row.receiver = user /\ row.status = "pending"
  \/ op = "hangup" /\ user \in {row.initiator, row.receiver}
       /\ row.status \notin {"ended", "rejected"}

\* The receiver answers a pending call; a participant ends what is not over.
Permits(op, row, user) ==
  \/ op \in {"accept", "reject"} /\ row.receiver = user /\ row.status = "pending"
  \/ op = "hangup" /\ user \in {row.initiator, row.receiver}
       /\ row.status \notin {"ended", "rejected"}

\* Bug: a call that nobody answered is recorded as ended.
NeverMissed(op, status) ==
  IF op = "accept" THEN "active" ELSE IF op = "reject" THEN "rejected" ELSE "ended"

\* The status a handler decides on when it checks.
Outcome(op, status) ==
  IF op = "accept" THEN "active"
  ELSE IF op = "reject" THEN "rejected"
  ELSE IF status = "pending" THEN "missed" ELSE "ended"

Check(h) ==
  LET r   == handler[h]
      row == call[r.call]
  IN  /\ r.pc = "new"
      /\ r.op \in {"accept", "reject", "hangup"}
      /\ IF Permits(r.op, row, UserOf[r.by])
         THEN /\ handler' = [handler EXCEPT ![h] =
                   [pc |-> "checked", op |-> r.op, by |-> r.by, call |-> r.call,
                    gone |-> r.gone, outcome |-> Outcome(r.op, row.status)]]
              /\ raced' = IF \E g \in Handlers : Busy(g, r.call)
                          THEN raced \cup {r.call} ELSE raced
         ELSE handler' = [handler EXCEPT ![h] = Idle] /\ UNCHANGED raced
      /\ UNCHANGED <<call, room, inbox, screen, dropped, admitted>>

\* updateStatus reads the row once more and saves what it read, changed.
Fetch(h) ==
  LET r == handler[h]
  IN  /\ r.pc = "checked"
      /\ handler' = [handler EXCEPT ![h] =
           [pc |-> "fetched", op |-> r.op, by |-> r.by, call |-> r.call,
            gone |-> r.gone, outcome |-> r.outcome, copy |-> call[r.call]]]
      /\ UNCHANGED <<call, room, inbox, screen, raced, dropped, admitted>>

Save(h) ==
  LET r == handler[h]
  IN  /\ r.pc = "fetched"
      /\ call' = [call EXCEPT ![r.call] =
                    [r.copy EXCEPT !.status = r.outcome,
                                   !.started = @ \/ r.op = "accept"]]
      /\ handler' = [handler EXCEPT ![h] =
           [pc |-> "saved", op |-> r.op, by |-> r.by, call |-> r.call, gone |-> r.gone]]
      /\ UNCHANGED <<room, inbox, screen, raced, dropped, admitted>>

\* Bug: the end of a call is told to the tabs of its initiator only.
TellsInitiator(h, op, c) ==
  IF op = "accept" THEN room[c] \cup Client(h) ELSE UserRoom(call[c].initiator)

\* An accepting socket joins the room first; a rejection goes past the room.
Audience(h, op, c) ==
  IF op = "accept" THEN room[c] \cup Client(h)
  ELSE IF op = "reject" THEN UserRoom(call[c].initiator) \cup Client(h)
  ELSE room[c]

EventOf == [accept |-> "accepted", reject |-> "rejected", hangup |-> "ended"]

Announce(h) ==
  LET r == handler[h]
  IN  /\ r.pc = "saved"
      /\ room' = IF r.op = "accept" THEN [room EXCEPT ![r.call] = @ \cup Client(h)] ELSE room
      /\ Emit(Audience(h, r.op, r.call), EventOf[r.op], r.call)
      /\ handler' = [handler EXCEPT ![h] = Idle]
      /\ UNCHANGED <<call, screen, raced, dropped, admitted>>

\* handleOffer: a participant's offer goes to everybody else in the room.
RelayOffer(h) ==
  LET r == handler[h]
  IN  /\ r.pc = "new"
      /\ r.op = "offer"
      /\ IF UserOf[r.by] \in Parties(r.call)
         THEN Emit(room[r.call] \ Client(h), "offer", r.call)
         ELSE UNCHANGED inbox
      /\ handler' = [handler EXCEPT ![h] = Idle]
      /\ UNCHANGED <<call, room, screen, raced, dropped, admitted>>

-----------------------------------------------------------------------------
(***************************************************************************)
(* What a tab makes of an event.                                           *)
(***************************************************************************)
\* Bug: the caller asks for the microphone as soon as it rings.
StartsOnRinging(t, event, c) ==
  CASE event = "incoming" -> [t EXCEPT !.incoming = c]
    [] event = "ringing"  -> [t EXCEPT !.active = c, !.starting = @ \cup {<<c, "offer">>}]
    [] event = "accepted" -> [t EXCEPT !.incoming = NoCall, !.active = c]
    [] event = "offer"    -> IF t.caller THEN t
                             ELSE [t EXCEPT !.starting = @ \cup {<<c, "answer">>}]
    [] OTHER -> Closed(t)

\* Whether a tab starts a call as its caller is a flag of the tab, not of the
\* call; and a rejected or ended call closes whatever call the tab has.
After(t, event, c) ==
  CASE event = "incoming" -> [t EXCEPT !.incoming = c]
    [] event = "ringing"  -> [t EXCEPT !.active = c]
    [] event = "accepted" ->
         [t EXCEPT !.incoming = NoCall, !.active = c,
                   !.starting = IF t.caller THEN @ \cup {<<c, "offer">>} ELSE @]
    [] event = "offer" -> IF t.caller THEN t
                          ELSE [t EXCEPT !.starting = @ \cup {<<c, "answer">>}]
    [] OTHER -> Closed(t)

Receive(s) ==
  /\ inbox[s] # << >>
  /\ screen' = [screen EXCEPT ![s] = After(@, Head(inbox[s])[1], Head(inbox[s])[2])]
  /\ inbox' = [inbox EXCEPT ![s] = Tail(@)]
  /\ UNCHANGED <<call, room, handler, raced, dropped, admitted>>

(***************************************************************************)
(* The connection is lost and made anew: what was on its way is lost, the  *)
(* new socket is in its user's room only, and the tab goes on as it was.   *)
(***************************************************************************)
Reconnect(s) ==
  /\ s \notin dropped
  /\ Cardinality(dropped) < MaxDrops
  /\ dropped' = dropped \cup {s}
  /\ inbox' = [inbox EXCEPT ![s] = << >>]
  /\ room' = [c \in CallIds |-> room[c] \ {s}]
  /\ handler' = [h \in Handlers |->
                   IF InFlight(h) /\ handler[h].by = s
                   THEN [handler[h] EXCEPT !.gone = TRUE] ELSE handler[h]]
  /\ UNCHANGED <<call, screen, raced, admitted>>

TabStep(h, s) ==
  \/ \E u \in Users : Invite(h, s, u)
  \/ Accept(h, s)
  \/ Reject(h, s)
  \/ HangUp(h, s)
  \/ \E c \in CallIds, role \in Roles : MediaReady(h, s, c, role) \/ MediaFails(h, s, c, role)

GatewayStep(h) ==
  \/ ServeInvite(h)
  \/ Check(h)
  \/ Fetch(h)
  \/ Save(h)
  \/ Announce(h)
  \/ RelayOffer(h)

Next ==
  \/ \E h \in Handlers : GatewayStep(h) \/ (\E s \in Sockets : TabStep(h, s))
  \/ \E s \in Sockets : Receive(s) \/ Reconnect(s)

Spec == Init /\ [][Next]_vars

-----------------------------------------------------------------------------
(***************************************************************************)
(* Rows, rooms and tabs are well formed, and only sockets of the two       *)
(* parties are ever in the room of a call.                                 *)
(***************************************************************************)
Row ==
  [status : Statuses, initiator : Users, receiver : Users, started : BOOLEAN]

TypeOK ==
  /\ call \in Seq(Row)
  /\ \A c \in CallIds :
       room[c] \subseteq {s \in Sockets : c <= Len(call) /\ UserOf[s] \in Parties(c)}
  /\ screen \in [Sockets -> Screen]
  /\ \A s \in Sockets : inbox[s] \in Seq(Events \X CallIds)
  /\ \A h \in Handlers : handler[h].pc \in {"idle", "new", "checked", "fetched", "saved"}

Undisturbed(c) == c \notin raced

\* The calls a tab has or waits to have a peer connection for.
MediaCalls(s) == {screen[s].peer} \cup {m[1] : m \in screen[s].starting}

(***************************************************************************)
(* The tables are well formed, and nobody's microphone is opened before    *)
(* the receiver accepted: a tab that has or waits for a peer connection    *)
(* belongs to a party of a call that was started.  The offer reaches the   *)
(* receiver through the room, which the receiver joins by accepting.       *)
(* Handlers that overlap may take the start of the call back in the table, *)
(* hence the exception.                                                    *)
(***************************************************************************)
MediaNeedsConsent ==
  /\ TypeOK
  /\ \A s \in Sockets : \A c \in MediaCalls(s) \ {NoCall} :
       UserOf[s] \in Parties(c) /\ (Undisturbed(c) => call[c].started)

(***************************************************************************)
(* One tab answers: of all the tabs of the receiver at most one is in the  *)
(* room of a call, unless two handlers overlapped on it.                   *)
(***************************************************************************)
AnsweredOnce ==
  \A c \in 1 .. Len(call) :
    Undisturbed(c) => Cardinality(room[c] \cap UserRoom(call[c].receiver)) <= 1

(***************************************************************************)
(* When everything has been delivered, a tab that shows a call as its own  *)
(* shows one that is not over: hanging up or rejecting reaches every tab   *)
(* that had the call on screen.  It takes a tab that stayed connected and  *)
(* a call on which no handlers overlapped.                                 *)
(***************************************************************************)
Quiet == \A h \in Handlers : ~InFlight(h)

ScreensAgree ==
  Quiet =>
    \A s \in Sockets :
      LET c == screen[s].active
      IN  /\ inbox[s] = << >>
          /\ s \notin dropped
          /\ c # NoCall
          /\ Undisturbed(c)
          => call[c].status \in {"pending", "active"}

(***************************************************************************)
(* Handlers that do not overlap keep the life of a call: it is answered,   *)
(* rejected or missed once, and what was answered only ends.  (A missed    *)
(* call that is hung up again becomes an ended one: that is the code.)     *)
(***************************************************************************)
CallLife ==
  {<<"pending", "active">>, <<"pending", "rejected">>, <<"pending", "missed">>,
   <<"active", "ended">>, <<"missed", "ended">>}

KeepsCallLife ==
  [][\A c \in 1 .. Len(call) :
       /\ Undisturbed(c)
       /\ call'[c].status # call[c].status
       => <<call[c].status, call'[c].status>> \in CallLife]_vars

-----------------------------------------------------------------------------
(***************************************************************************)
(* call:ended is for either party: when everything has been delivered no   *)
(* connected tab rings for a call that is over.  The gateway sends it to   *)
(* the room, where a receiver who did not answer is not.                   *)
(***************************************************************************)
RingingIsPending ==
  Quiet =>
    \A s \in Sockets :
      LET c == screen[s].incoming
      IN  inbox[s] = << >> /\ s \notin dropped /\ c # NoCall =>
            call[c].status \in {"pending", "active"}
=============================================================================
