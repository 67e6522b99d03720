------------------------------- MODULE Channel -------------------------------
(***************************************************************************)
(* A channel: its clients (ChannelClient), the relay (ChannelRoom) and the *)
(* sockets between them.  A socket is a pair of FIFO channels whose ends   *)
(* notice its loss at different times: the client may have a new socket,   *)
(* and a session on it, before the relay handles the close of the old one. *)
(*                                                                         *)
(* All clients belong to the user who owns the channel.  Time is not       *)
(* modelled: a timeout may come at any moment its timer is set.            *)
(***************************************************************************)
EXTENDS ChannelRoom, ChannelClient

CONSTANTS
  Clients,
  Senders,     \* bound: the clients that send data messages,
  MaxSeq       \* bound: and how many

ASSUME ChannelAssumption == Senders \subseteq Clients /\ MaxSeq \in Nat /\ NoSocket \notin Sockets

VARIABLES
  cl,        \* the clients
  fresh,     \* client IDs not given out yet
  up,        \* client-to-relay messages in flight, per socket
  late,      \* history: sockets whose session was registered after they had closed
  relayed,   \* history: messages passed on to their recipients, [by, seq]
  got        \* history: got[s][t], the last seq client s got from client t

vars == <<roomVars, cl, fresh, up, late, relayed, got>>

live == {cl[c].sock : c \in Clients} \ {NoSocket}

Init ==
  /\ EmptyRoom
  /\ cl = [c \in Clients |-> NewClient]
  /\ fresh = Sockets
  /\ up = [s \in Sockets |-> <<>>]
  /\ late = {}
  /\ relayed = {}
  /\ got = [s \in Sockets |-> [t \in Sockets |-> {}]]

-----------------------------------------------------------------------------
(* The clients. *)

JoinMsg == [type |-> "join"]
LeaveRequest == [type |-> "leave"]
DataMsg(c, msg) == [type |-> "data", by |-> c, msg |-> msg]

Set(c, x) == cl' = [cl EXCEPT ![c] = x]

\* Nothing the relay sends on the socket of c is taken any more.
Deafen(c) ==
  down' = IF cl[c].sock = NoSocket THEN down ELSE [down EXCEPT ![cl[c].sock] = <<>>]

SendUp(c, msg) == up' = [up EXCEPT ![cl[c].sock] = Append(@, msg)]

NewId == CHOOSE s \in fresh : TRUE    \* a UUID: whichever, but never given out before

\* connect(), also while a reconnect is pending or under way.
Connect(c) ==
  /\ cl[c].state \in {"disconnected", "reconnecting"}
  /\ fresh # {}
  /\ Set(c, Connecting(cl[c], NewId))
  /\ fresh' = fresh \ {NewId}
  /\ Deafen(c)
  /\ UNCHANGED <<open, joining, sessions, lastSeen, up, late, relayed, got>>

ReconnectTimer(c) ==
  /\ cl[c].timer
  /\ fresh # {}
  /\ Set(c, Reconnecting(cl[c], NewId))
  /\ fresh' = fresh \ {NewId}
  /\ UNCHANGED <<roomVars, up, late, relayed, got>>

\* The socket opens, and the join goes out.
Open(c) ==
  /\ cl[c].sock # NoSocket /\ ~cl[c].opened
  /\ Set(c, Opened(cl[c]))
  /\ Accept(cl[c].sock)
  /\ SendUp(c, JoinMsg)
  /\ UNCHANGED <<joining, sessions, lastSeen, down, fresh, late, relayed, got>>

\* It cannot be opened, or not in time.
OpenFails(c) ==
  /\ cl[c].sock # NoSocket /\ ~cl[c].opened
  /\ Set(c, Lost(cl[c]))
  /\ UNCHANGED <<roomVars, fresh, up, late, relayed, got>>

\* The connection breaks: a prefix of what c sent still reaches the relay.
Drop(c) ==
  /\ cl[c].opened
  /\ Set(c, Lost(cl[c]))
  /\ Deafen(c)
  /\ \E k \in 0 .. Len(up[cl[c].sock]) : up' = [up EXCEPT ![cl[c].sock] = SubSeq(@, 1, k)]
  /\ UNCHANGED <<open, joining, sessions, lastSeen, fresh, late, relayed, got>>

Disconnect(c) ==
  /\ cl[c].state # "disconnected"
  /\ Set(c, Disconnected(cl[c]))
  /\ Deafen(c)
  /\ IF cl[c].state = "connected" THEN SendUp(c, LeaveRequest) ELSE UNCHANGED up
  /\ UNCHANGED <<open, joining, sessions, lastSeen, fresh, late, relayed, got>>

\* send, sendBinary, broadcast and broadcastBinary (a broadcast is relayed alike in both forms).
SendData(c) ==
  /\ c \in Senders
  /\ cl[c].state = "connected" /\ cl[c].next =< MaxSeq
  /\ \E to \in cl[c].peers \cup {Everyone}, binary \in BOOLEAN :
       LET msg == Message(cl[c], to, binary) IN
       /\ to = Everyone => ~binary
       /\ Set(c, Tracked(cl[c], msg))
       /\ SendUp(c, DataMsg(c, msg))
  /\ UNCHANGED <<roomVars, fresh, late, relayed, got>>

\* An ack did not come in time: the message is sent again, if there is a connection to send it on,
\* or given up.
AckTimeout(c) ==
  /\ \E p \in cl[c].pending :
       /\ TimedOut(cl[c], p)
       /\ \/ /\ p.retries < MaxRetries
             /\ Set(c, Retried(cl[c], p))
             /\ IF cl[c].state = "connected" THEN SendUp(c, DataMsg(c, p.msg)) ELSE UNCHANGED up
          \/ /\ p.retries = MaxRetries
             /\ Set(c, Failed(cl[c], p))
             /\ UNCHANGED up
  /\ UNCHANGED <<roomVars, fresh, late, relayed, got>>

Handle(x, msg) ==
  CASE msg.type = "joined"      -> Joined(x, msg.peers)
    [] msg.type = "peer_joined" -> PeerJoined(x, msg.id)
    [] msg.type = "peer_left"   -> PeerLeft(x, msg.id)
    [] msg.type = "ack"         -> Acked(x, msg.seq)
    [] msg.type = "close"       -> Lost(x)
    [] OTHER                    -> x       \* data and errors are handed to the application

\* The next message of the relay reaches c.
Deliver(c) ==
  LET s == cl[c].sock
      msg == Head(down[s])
  IN  /\ s # NoSocket /\ down[s] # <<>>
      /\ Set(c, Handle(cl[c], msg))
      /\ down' = [down EXCEPT ![s] = IF msg.type = "close" THEN <<>> ELSE Tail(@)]
      /\ got' = IF msg.type = "data" THEN [got EXCEPT ![s][msg.from] = @ \cup {msg.seq}] ELSE got
      /\ UNCHANGED <<open, joining, sessions, lastSeen, fresh, up, late, relayed>>

-----------------------------------------------------------------------------
(* The relay. *)

Arrived(s, type) == up[s] # <<>> /\ Head(up[s]).type = type

Consume(s) == up' = [up EXCEPT ![s] = Tail(@)]

HandleJoin(s) ==
  /\ Arrived(s, "join")
  /\ Consume(s)
  /\ BeginJoin(s)
  /\ UNCHANGED <<cl, fresh, late, relayed, got>>

JoinVerified(s) ==
  /\ FinishJoin(live, s)
  /\ late' = IF s \in open THEN late ELSE late \cup {s}
  /\ UNCHANGED <<cl, fresh, up, relayed, got>>

JoinRefused(s) ==
  /\ RejectJoin(live, s)
  /\ UNCHANGED <<cl, fresh, up, late, relayed, got>>

HandleLeave(s) ==
  /\ Arrived(s, "leave")
  /\ Consume(s)
  /\ LeaveMsg(live, s)
  /\ UNCHANGED <<cl, fresh, late, relayed, got>>

HandleData(s) ==
  /\ Arrived(s, "data") /\ s \in sessions
  /\ Consume(s)
  /\ LET msg == Head(up[s]).msg IN
     \/ (RateLimited(live, s) \/ Retry(live, s, msg) \/ Undeliverable(live, s, msg))
        /\ UNCHANGED relayed
     \/ Relay(live, s, msg)
        /\ relayed' = relayed \cup {[by |-> Head(up[s]).by, seq |-> msg.seq]}
  /\ UNCHANGED <<open, joining, sessions, cl, fresh, late, got>>

\* The relay sees a socket close, after all that still arrived on it.
HandleClose(s) ==
  /\ s \in open /\ s \notin live /\ up[s] = <<>>
  /\ Closed(live, s)
  /\ UNCHANGED <<cl, fresh, up, late, relayed, got>>

\* Nothing is on its way when the relay has been idle for long enough to be evicted, and a socket
\* that left has closed.
Evict ==
  /\ \A s \in Sockets : up[s] = <<>> /\ down[s] = <<>>
  /\ open \ sessions \subseteq live
  /\ Hibernate
  /\ UNCHANGED <<cl, fresh, up, late, relayed, got>>

-----------------------------------------------------------------------------
ClientStep(c) ==
  \/ Connect(c) \/ ReconnectTimer(c) \/ Open(c) \/ OpenFails(c) \/ Drop(c) \/ Disconnect(c)
  \/ SendData(c) \/ AckTimeout(c) \/ Deliver(c)

RoomStep(s) ==
  \/ HandleJoin(s) \/ JoinVerified(s) \/ JoinRefused(s) \/ HandleLeave(s) \/ HandleData(s)
  \/ HandleClose(s)

Next == (\E c \in Clients : ClientStep(c)) \/ (\E s \in Sockets : RoomStep(s)) \/ Evict

Spec == Init /\ [][Next]_vars
=============================================================================
