--------------------------- MODULE Channel_proofs ---------------------------
(***************************************************************************)
(* For any number of clients, sockets and messages: a channel's types and  *)
(* connections are right, nothing is given to a peer twice, and a full     *)
(* sender has been told to pause.                                          *)
(*                                                                         *)
(* That nothing is given twice rests on the relay's memory, the last seq   *)
(* of each session, which an eviction wipes.  So the invariant says when   *)
(* the relay needs it (Settled) and that it is not evicted then: what was  *)
(* relayed and is still pending at a connected sender has its ack on the   *)
(* way (Acks).                                                             *)
(***************************************************************************)
EXTENDS ChannelProps, FiniteSetTheorems, TLAPS

(* Types. *)

UpMsg ==
  [type : {"join", "leave"}] \cup [type : {"data"}, by : Clients, msg : ClientMessage]

Pending == [msg : ClientMessage, retries : 0 .. MaxRetries]

\* A client, with what is pending.
FullClient ==
  [state : {"disconnected", "connecting", "connected", "reconnecting"},
   sock : Sockets \cup {NoSocket}, opened : BOOLEAN, timer : BOOLEAN, attempt : Nat,
   peers : SUBSET Sockets, next : Nat, pending : SUBSET Pending, pressed : BOOLEAN]

Types ==
  /\ open \subseteq Sockets /\ joining \subseteq Sockets /\ sessions \subseteq Sockets
  /\ fresh \subseteq Sockets
  /\ lastSeen \in [Sockets -> Nat]
  /\ down \in [Sockets -> Seq(RelayMsg)] /\ up \in [Sockets -> Seq(UpMsg)]
  /\ cl \in [Clients -> FullClient]
  /\ got \in [Sockets -> [Sockets -> SUBSET Nat]]

-----------------------------------------------------------------------------
(* The argument about delivery. *)

HasData(q, s, n) ==
  \E i \in 1 .. Len(q) : q[i].type = "data" /\ q[i].from = s /\ q[i].seq = n

HasAck(q, n) == \E i \in 1 .. Len(q) : q[i].type = "ack" /\ q[i].seq = n

\* The message n of the connection s has reached t or is on its way to it.
Given(t, s, n) == n \in got[t][s] \/ HasData(down[t], s, n)

Relayed(s, n) == \E t \in Sockets : Given(t, s, n)

\* It is on its way to the relay.
Sent(s, n) == \E i \in 1 .. Len(up[s]) : up[s][i].type = "data" /\ up[s][i].msg.seq = n

Pends(c, n) == \E p \in cl[c].pending : p.msg.seq = n

\* It will not be sent on this connection again.
Over(s, n) == ~Sent(s, n) /\ \A c \in Clients : cl[c].sock = s => ~Pends(c, n)

Untried(s) ==
  /\ up[s] = <<>> /\ down[s] = <<>> /\ s \notin open \cup joining \cup sessions
  /\ \A n \in Nat : ~Relayed(s, n)

Connection ==
  \A c \in Clients :
    /\ ~(cl[c].timer /\ cl[c].sock # NoSocket)
    /\ cl[c].state = "disconnected" <=> ~cl[c].timer /\ cl[c].sock = NoSocket
    /\ cl[c].opened => cl[c].sock # NoSocket
    /\ cl[c].state = "connected" => cl[c].opened

\* No two clients have one socket, and nothing has happened on a socket that has not opened.
Own == \A c, d \in Clients : cl[c].sock = cl[d].sock /\ cl[c].sock # NoSocket => c = d

Fresh ==
  /\ \A s \in fresh : Untried(s) /\ \A c \in Clients : cl[c].sock # s
  /\ \A c \in Clients : cl[c].sock # NoSocket /\ ~cl[c].opened => Untried(cl[c].sock)

\* A join is the first message of its socket, and nothing of it was relayed before.
Joins ==
  \A s \in Sockets :
    /\ \A i \in 1 .. Len(up[s]) : up[s][i].type = "join" =>
         i = 1 /\ s \notin joining \cup sessions /\ \A n \in Nat : ~Relayed(s, n)
    /\ s \in joining => s \notin sessions /\ \A n \in Nat : ~Relayed(s, n)

\* What is pending, sent or relayed has an earlier number than the next message.
Numbers ==
  \A c \in Clients :
    /\ \A p \in cl[c].pending : p.msg.seq < cl[c].next
    /\ \A n \in Nat :
         cl[c].sock # NoSocket /\ (Sent(cl[c].sock, n) \/ Relayed(cl[c].sock, n)) => n < cl[c].next

\* The relay remembers what it relayed, or needs not.
Settled == \A s \in sessions, n \in Nat : Relayed(s, n) => n =< lastSeen[s] \/ Over(s, n)

\* What was relayed and is still pending has its ack on the way: so the relay is not evicted.
Acks ==
  \A c \in Clients, n \in Nat :
    cl[c].sock # NoSocket /\ Relayed(cl[c].sock, n) /\ Pends(c, n) => HasAck(down[cl[c].sock], n)

\* What is on its way to t has not been given to it, and is on its way once.
Once ==
  \A t \in Sockets : \A i \in 1 .. Len(down[t]) : down[t][i].type = "data" =>
    /\ down[t][i].seq \notin got[t][down[t][i].from]
    /\ \A j \in 1 .. Len(down[t]) :
         /\ down[t][j].type = "data"
         /\ down[t][j].from = down[t][i].from /\ down[t][j].seq = down[t][i].seq
         => i = j

LEMMA InitTypes == Init => Types
BY ChannelAssumption, ClientAssumption, RoomAssumption
   DEF Init, Types, EmptyRoom, NewClient, FullClient

-----------------------------------------------------------------------------
LEMMA SentDown ==
  ASSUME Types, NEW M \in [Sockets -> Seq(RelayMsg)], Send(live, M)
  PROVE  /\ down' \in [Sockets -> Seq(RelayMsg)]
         /\ \A t \in Sockets : down'[t] = IF t \in live THEN down[t] \o M[t] ELSE down[t]
BY DEF Types, Send

LEMMA RoomMessages ==
  /\ \A peers \in SUBSET Sockets : JoinedMsg(peers) \in RelayMsg
  /\ \A s \in Sockets : PeerJoinedMsg(s) \in RelayMsg /\ PeerLeftMsg(s) \in RelayMsg
  /\ \A n \in Nat : AckMsg(n) \in RelayMsg
  /\ \A code \in {"auth_failed", "rate_limited", "peer_not_found"} : ErrorMsg(code) \in RelayMsg
  /\ \A s \in Sockets, msg \in ClientMessage : RelayedMsg(s, msg) \in RelayMsg
  /\ CloseMsg \in RelayMsg
BY DEF JoinedMsg, PeerJoinedMsg, PeerLeftMsg, AckMsg, ErrorMsg, RelayedMsg, CloseMsg, RelayMsg,
       ClientMessage

LEMMA ClientTypes ==
  ASSUME NEW x \in FullClient
  PROVE  /\ \A s \in Sockets : Connecting(x, s) \in FullClient /\ Reconnecting(x, s) \in FullClient
         /\ Opened(x) \in FullClient /\ Lost(x) \in FullClient /\ Disconnected(x) \in FullClient
         /\ \A peers \in SUBSET Sockets : Joined(x, peers) \in FullClient
         /\ \A s \in Sockets : PeerJoined(x, s) \in FullClient /\ PeerLeft(x, s) \in FullClient
         /\ \A to \in Sockets \cup {Everyone}, binary \in BOOLEAN :
              /\ Message(x, to, binary) \in ClientMessage
              /\ Tracked(x, Message(x, to, binary)) \in FullClient
         /\ \A n \in Nat : Acked(x, n) \in FullClient
         /\ \A p \in x.pending : p.retries < MaxRetries => Retried(x, p) \in FullClient
         /\ \A p \in x.pending : Failed(x, p) \in FullClient
<1> USE ClientAssumption DEF FullClient
<1>1. \A s \in Sockets : Connecting(x, s) \in FullClient /\ Reconnecting(x, s) \in FullClient
  BY DEF Connecting, Reconnecting
<1>2. Opened(x) \in FullClient /\ Disconnected(x) \in FullClient
  BY DEF Opened, Disconnected
<1>3. Lost(x) \in FullClient
  <2> DEFINE again == x.attempt < MaxAttempts
  <2>1. again \in BOOLEAN /\ x.attempt + 1 \in Nat
    OBVIOUS
  <2>2. Lost(x) = [x EXCEPT !.sock = NoSocket, !.opened = FALSE, !.peers = {}, !.timer = again,
                            !.attempt = IF again THEN @ + 1 ELSE @,
                            !.state = IF again THEN "reconnecting" ELSE "disconnected"]
    BY Zenon DEF Lost
  <2> HIDE DEF again
  <2>3. QED
    BY <2>1, <2>2
<1>4. \A peers \in SUBSET Sockets : Joined(x, peers) \in FullClient
  BY DEF Joined
<1>5. \A s \in Sockets : PeerJoined(x, s) \in FullClient /\ PeerLeft(x, s) \in FullClient
  BY DEF PeerJoined, PeerLeft
<1>6. ASSUME NEW to \in Sockets \cup {Everyone}, NEW binary \in BOOLEAN
      PROVE  /\ Message(x, to, binary) \in ClientMessage
             /\ Tracked(x, Message(x, to, binary)) \in FullClient
  <2>1. Message(x, to, binary) \in ClientMessage
    BY DEF Message, ClientMessage
  <2>2. [msg |-> Message(x, to, binary), retries |-> 0] \in Pending
    BY <2>1 DEF Pending
  <2> DEFINE p == x.pending \cup {[msg |-> Message(x, to, binary), retries |-> 0]}
             full == x.pressed \/ Cardinality(p) >= MaxPending
  <2>3. p \in SUBSET Pending
    BY <2>2
  <2>4. full \in BOOLEAN
    OBVIOUS
  <2>5. Tracked(x, Message(x, to, binary))
          = [x EXCEPT !.next = @ + 1, !.pending = p, !.pressed = full]
    BY Zenon DEF Tracked
  <2> HIDE DEF p, full
  <2>6. x.next + 1 \in Nat
    OBVIOUS
  <2>7. [x EXCEPT !.next = @ + 1, !.pending = p, !.pressed = full] \in FullClient
    BY <2>3, <2>4, <2>6
  <2>8. QED
    BY <2>1, <2>5, <2>7
<1>7. ASSUME NEW n \in Nat PROVE Acked(x, n) \in FullClient
  BY DEF Acked
<1>8. ASSUME NEW p \in x.pending, p.retries < MaxRetries PROVE Retried(x, p) \in FullClient
  BY <1>8 DEF Retried, Pending
<1>9. ASSUME NEW p \in x.pending PROVE Failed(x, p) \in FullClient
  BY DEF Failed
<1>10. QED
  BY <1>1, <1>2, <1>3, <1>4, <1>5, <1>6, <1>7, <1>8, <1>9

LEMMA HandleTypes ==
  ASSUME NEW x \in FullClient, NEW msg \in RelayMsg
  PROVE  Handle(x, msg) \in FullClient
<1>1. CASE msg.type = "joined"
  BY <1>1, ClientTypes DEF Handle, RelayMsg
<1>2. CASE msg.type \in {"peer_joined", "peer_left"}
  BY <1>2, ClientTypes DEF Handle, RelayMsg
<1>3. CASE msg.type = "ack"
  BY <1>3, ClientTypes DEF Handle, RelayMsg
<1>4. CASE msg.type \in {"close", "data", "error"}
  BY <1>4, ClientTypes DEF Handle, RelayMsg
<1>5. QED
  BY <1>1, <1>2, <1>3, <1>4 DEF RelayMsg

LEMMA SentUp ==
  ASSUME Types, NEW c \in Clients, NEW msg \in UpMsg, SendUp(c, msg)
  PROVE  up' \in [Sockets -> Seq(UpMsg)]
<1> DEFINE k == cl[c].sock
<1>1. up' = [up EXCEPT ![k] = Append(@, msg)]
  BY DEF SendUp
<1>2. up \in [Sockets -> Seq(UpMsg)]
  BY DEF Types
<1> HIDE DEF k
<1>3. \A q \in Seq(UpMsg) : Append(q, msg) \in Seq(UpMsg)
  OBVIOUS
<1>4. QED
  BY <1>1, <1>2, <1>3

LEMMA TypesClient ==
  ASSUME Types, NEW c \in Clients, ClientStep(c)
  PROVE  Types'
<1> DEFINE x == cl[c]
<1>x. x \in FullClient
  BY DEF Types
<1>set. ASSUME NEW y \in FullClient, Set(c, y) PROVE cl' \in [Clients -> FullClient]
  BY <1>set DEF Set, Types
<1>deaf. ASSUME Deafen(c) PROVE down' \in [Sockets -> Seq(RelayMsg)]
  <2>1. <<>> \in Seq(RelayMsg)
    OBVIOUS
  <2>2. QED
    BY <1>deaf, <2>1 DEF Deafen, Types
<1>new. fresh # {} => NewId \in Sockets
  BY DEF NewId, Types
<1> HIDE DEF x
<1>1. CASE Connect(c)
  BY <1>1, <1>x, <1>set, <1>deaf, <1>new, ClientTypes DEF Connect, Types, x
<1>2. CASE ReconnectTimer(c)
  BY <1>2, <1>x, <1>set, <1>new, ClientTypes DEF ReconnectTimer, Types, roomVars, x
<1>3. CASE Open(c)
  <2>1. JoinMsg \in UpMsg
    BY DEF JoinMsg, UpMsg
  <2>2. cl[c].sock \in Sockets
    BY <1>x, <1>3 DEF Open, FullClient, x
  <2>3. QED
    BY <1>3, <1>x, <1>set, <2>1, <2>2, SentUp, ClientTypes DEF Open, Accept, Types, x
<1>4. CASE OpenFails(c)
  BY <1>4, <1>x, <1>set, ClientTypes DEF OpenFails, Types, roomVars, x
<1>5. CASE Drop(c)
  <2>1. PICK k \in 0 .. Len(up[cl[c].sock]) : up' = [up EXCEPT ![cl[c].sock] = SubSeq(@, 1, k)]
    BY <1>5 DEF Drop
  <2>b. cl[c].sock \in Sockets => SubSeq(up[cl[c].sock], 1, k) \in Seq(UpMsg)
    BY DEF Types
  <2>c. up' \in [Sockets -> Seq(UpMsg)]
    BY <2>1, <2>b DEF Types
  <2>2. QED
    BY <1>5, <1>x, <1>set, <1>deaf, <2>c, ClientTypes DEF Drop, Types, x
<1>6. CASE Disconnect(c)
  <2>1. LeaveRequest \in UpMsg
    BY DEF LeaveRequest, UpMsg
  <2>2. up' \in [Sockets -> Seq(UpMsg)]
    BY <1>6, <2>1, SentUp DEF Disconnect, Types
  <2>3. QED
    BY <1>6, <1>x, <1>set, <1>deaf, <2>2, ClientTypes DEF Disconnect, Types, x
<1>7. CASE SendData(c)
  <2>1. PICK to \in cl[c].peers \cup {Everyone}, binary \in BOOLEAN :
          LET msg == Message(cl[c], to, binary) IN
          Set(c, Tracked(cl[c], msg)) /\ SendUp(c, DataMsg(c, msg))
    BY <1>7 DEF SendData
  <2>2. to \in Sockets \cup {Everyone}
    BY <1>x DEF FullClient, x
  <2>3. DataMsg(c, Message(cl[c], to, binary)) \in UpMsg
    BY <1>x, <2>2, ClientTypes DEF DataMsg, UpMsg, x
  <2>4. QED
    BY <1>7, <1>x, <1>set, <2>1, <2>2, <2>3, SentUp, ClientTypes DEF SendData, Types, roomVars, x
<1>8. CASE AckTimeout(c)
  <2>1. PICK p \in cl[c].pending :
          \/ /\ p.retries < MaxRetries
             /\ Set(c, Retried(cl[c], p))
             /\ IF cl[c].state = "connected" THEN SendUp(c, DataMsg(c, p.msg)) ELSE UNCHANGED up
          \/ Set(c, Failed(cl[c], p)) /\ UNCHANGED up
    BY <1>8 DEF AckTimeout
  <2>2. p.msg \in ClientMessage
    BY <1>x DEF FullClient, Pending, x
  <2>3. DataMsg(c, p.msg) \in UpMsg
    BY <2>2 DEF DataMsg, UpMsg
  <2>4. cl' \in [Clients -> FullClient]
    BY <2>1, <1>x, <1>set, ClientTypes DEF x
  <2>5. up' \in [Sockets -> Seq(UpMsg)]
    BY <2>1, <2>3, SentUp DEF Types
  <2>6. QED
    BY <1>8, <2>4, <2>5 DEF AckTimeout, Types, roomVars
<1>9. CASE Deliver(c)
  <2> DEFINE s == cl[c].sock
             msg == Head(down[s])
  <2>1. s \in Sockets /\ down[s] \in Seq(RelayMsg) /\ down[s] # <<>>
    BY <1>9, <1>x DEF Deliver, FullClient, Types, x
  <2>2. msg \in RelayMsg
    BY <2>1
  <2>3. Set(c, Handle(cl[c], msg))
    BY <1>9 DEF Deliver
  <2>4. cl' \in [Clients -> FullClient]
    BY <2>2, <2>3, <1>x, <1>set, HandleTypes DEF x
  <2>5. down' = [down EXCEPT ![s] = IF msg.type = "close" THEN <<>> ELSE Tail(@)]
    BY <1>9 DEF Deliver
  <2>6. got' = IF msg.type = "data" THEN [got EXCEPT ![s][msg.from] = @ \cup {msg.seq}] ELSE got
    BY <1>9 DEF Deliver
  <2> HIDE DEF s, msg
  <2>7. down' \in [Sockets -> Seq(RelayMsg)]
    BY <2>1, <2>5 DEF Types
  <2>8. msg.type = "data" => msg.from \in Sockets /\ msg.seq \in Nat
    BY <2>2 DEF RelayMsg
  <2>9. got' \in [Sockets -> [Sockets -> SUBSET Nat]]
    BY <2>1, <2>6, <2>8 DEF Types
  <2>10. QED
    BY <1>9, <2>4, <2>7, <2>9 DEF Deliver, Types
<1>10. QED
  BY <1>1, <1>2, <1>3, <1>4, <1>5, <1>6, <1>7, <1>8, <1>9 DEF ClientStep

\* The relay's replies are messages, and its tables stay in their types.
LEMMA TypesRoom ==
  ASSUME Types, NEW s \in Sockets, RoomStep(s)
  PROVE  Types'
<1>send. ASSUME NEW M \in [Sockets -> Seq(RelayMsg)], Send(live, M)
         PROVE  down' \in [Sockets -> Seq(RelayMsg)]
  BY <1>send, SentDown
<1>one. ASSUME NEW m \in RelayMsg PROVE <<m>> \in Seq(RelayMsg)
  OBVIOUS
<1>none. <<>> \in Seq(RelayMsg)
  OBVIOUS
<1>consume. ASSUME up[s] # <<>>, Consume(s) PROVE up' \in [Sockets -> Seq(UpMsg)]
  BY <1>consume DEF Consume, Types
<1>leave. ASSUME Leave(live, s)
          PROVE  /\ sessions' \subseteq Sockets /\ lastSeen' \in [Sockets -> Nat]
                 /\ down' \in [Sockets -> Seq(RelayMsg)]
  <2> DEFINE M == [t \in Sockets |-> CASE t = s -> <<CloseMsg>>
                                        [] t \in sessions \ {s} -> <<PeerLeftMsg(s)>>
                                        [] OTHER -> <<>>]
  <2>1. Send(live, M)
    BY <1>leave DEF Leave
  <2>2. M \in [Sockets -> Seq(RelayMsg)]
    <3> SUFFICES ASSUME NEW t \in Sockets
                 PROVE  (CASE t = s -> <<CloseMsg>> [] t \in sessions \ {s} -> <<PeerLeftMsg(s)>>
                           [] OTHER -> <<>>) \in Seq(RelayMsg)
      OBVIOUS
    <3>1. <<CloseMsg>> \in Seq(RelayMsg) /\ <<PeerLeftMsg(s)>> \in Seq(RelayMsg)
      BY RoomMessages, <1>one
    <3>2. QED
      BY <3>1, <1>none
  <2> HIDE DEF M
  <2>3. QED
    BY <1>leave, <1>send, <2>1, <2>2 DEF Leave, Types
<1>reply. ASSUME NEW m \in RelayMsg, Reply(live, s, m) PROVE down' \in [Sockets -> Seq(RelayMsg)]
  <2> DEFINE M == [t \in Sockets |-> IF t = s THEN <<m>> ELSE <<>>]
  <2>1. M \in [Sockets -> Seq(RelayMsg)]
    BY <1>one, <1>none
  <2>2. Send(live, M)
    BY <1>reply DEF Reply
  <2> HIDE DEF M
  <2>3. QED
    BY <2>1, <2>2, <1>send
<1>1. CASE HandleJoin(s)
  BY <1>1, <1>consume DEF HandleJoin, Arrived, BeginJoin, Types
<1>2. CASE JoinVerified(s)
  <2> DEFINE M == [t \in Sockets |-> CASE t = s -> <<JoinedMsg(sessions)>>
                                        [] t \in sessions \ {s} -> <<PeerJoinedMsg(s)>>
                                        [] OTHER -> <<>>]
  <2>1. Send(live, M)
    BY <1>2 DEF JoinVerified, FinishJoin
  <2>2. M \in [Sockets -> Seq(RelayMsg)]
    <3> SUFFICES ASSUME NEW t \in Sockets
                 PROVE  (CASE t = s -> <<JoinedMsg(sessions)>> [] t \in sessions \ {s} -> <<PeerJoinedMsg(s)>>
                           [] OTHER -> <<>>) \in Seq(RelayMsg)
      OBVIOUS
    <3>1. <<JoinedMsg(sessions)>> \in Seq(RelayMsg) /\ <<PeerJoinedMsg(s)>> \in Seq(RelayMsg)
      BY RoomMessages, <1>one DEF Types
    <3>2. QED
      BY <3>1, <1>none
  <2> HIDE DEF M
  <2>3. down' \in [Sockets -> Seq(RelayMsg)]
    BY <1>send, <2>1, <2>2
  <2>4. QED
    BY <1>2, <2>3 DEF JoinVerified, FinishJoin, Types
<1>3. CASE JoinRefused(s)
  <2> DEFINE two == <<ErrorMsg("auth_failed"), CloseMsg>>
             M == [t \in Sockets |-> IF t = s THEN two ELSE <<>>]
  <2>1. Send(live, M)
    BY <1>3 DEF JoinRefused, RejectJoin
  <2>2. ErrorMsg("auth_failed") \in RelayMsg /\ CloseMsg \in RelayMsg
    BY RoomMessages
  <2>3. two \in Seq(RelayMsg)
    BY <2>2
  <2> HIDE DEF two
  <2>4. M \in [Sockets -> Seq(RelayMsg)]
    BY <2>3, <1>none
  <2> HIDE DEF M
  <2>5. down' \in [Sockets -> Seq(RelayMsg)]
    BY <1>send, <2>1, <2>4
  <2>6. QED
    BY <1>3, <2>5 DEF JoinRefused, RejectJoin, Types
<1>4. CASE HandleLeave(s)
  BY <1>4, <1>leave, <1>consume DEF HandleLeave, LeaveMsg, Arrived, Types
<1>5. CASE HandleData(s)
  <2> DEFINE msg == Head(up[s]).msg
  <2>1. msg \in ClientMessage /\ msg.seq \in Nat
    <3>1. Head(up[s]) \in UpMsg /\ Head(up[s]).type = "data"
      BY <1>5 DEF HandleData, Arrived, Types
    <3>2. QED
      BY <3>1 DEF UpMsg, ClientMessage
  <2>2. up' \in [Sockets -> Seq(UpMsg)]
    BY <1>5, <1>consume DEF HandleData, Arrived
  <2>3. /\ UNCHANGED <<open, joining, sessions, cl, fresh, got>>
        /\ RateLimited(live, s) \/ Retry(live, s, msg) \/ Undeliverable(live, s, msg) \/ Relay(live, s, msg)
    BY <1>5 DEF HandleData
  <2> HIDE DEF msg
  <2>4. CASE RateLimited(live, s)
    BY <2>2, <2>3, <2>4, <1>reply, RoomMessages DEF RateLimited, Types
  <2>5. CASE Retry(live, s, msg)
    BY <2>1, <2>2, <2>3, <2>5, <1>reply, RoomMessages DEF Retry, Types
  <2>6. CASE Undeliverable(live, s, msg)
    BY <2>1, <2>2, <2>3, <2>6, <1>reply, RoomMessages DEF Undeliverable, Types
  <2>7. CASE Relay(live, s, msg)
    <3> DEFINE data(t) == IF t \in Recipients(s, msg) THEN <<RelayedMsg(s, msg)>> ELSE <<>>
               ack(t) == IF t = s THEN <<AckMsg(msg.seq)>> ELSE <<>>
               M == [t \in Sockets |-> data(t) \o ack(t)]
    <3>1. Send(live, M)
      BY <2>7 DEF Relay
    <3>2. M \in [Sockets -> Seq(RelayMsg)]
      <4> SUFFICES ASSUME NEW t \in Sockets PROVE data(t) \o ack(t) \in Seq(RelayMsg)
        OBVIOUS
      <4>1. <<RelayedMsg(s, msg)>> \in Seq(RelayMsg) /\ <<AckMsg(msg.seq)>> \in Seq(RelayMsg)
        BY <2>1, RoomMessages, <1>one
      <4>2. data(t) \in Seq(RelayMsg) /\ ack(t) \in Seq(RelayMsg)
        BY <4>1, <1>none
      <4> HIDE DEF data, ack
      <4>3. QED
        BY <4>2
    <3> HIDE DEF M
    <3>3. down' \in [Sockets -> Seq(RelayMsg)]
      BY <1>send, <3>1, <3>2
    <3>4. lastSeen' = [lastSeen EXCEPT ![s] = msg.seq]
      BY <2>7 DEF Relay
    <3>5. QED
      BY <2>1, <2>2, <2>3, <3>3, <3>4 DEF Types
  <2>8. QED
    BY <2>3, <2>4, <2>5, <2>6, <2>7
<1>6. CASE HandleClose(s)
  BY <1>6, <1>leave DEF HandleClose, Closed, Types
<1>7. QED
  BY <1>1, <1>2, <1>3, <1>4, <1>5, <1>6 DEF RoomStep

LEMMA TypesNext == Types /\ [Next]_vars => Types'
<1> SUFFICES ASSUME Types, [Next]_vars PROVE Types'
  OBVIOUS
<1>1. CASE Evict
  BY <1>1 DEF Evict, Hibernate, Types
<1>2. CASE UNCHANGED vars
  BY <1>2 DEF vars, roomVars, Types
<1>3. QED
  BY <1>1, <1>2, TypesClient, TypesRoom DEF Next

-----------------------------------------------------------------------------
(* What is sent. *)

\* In this step the relay passes on the message n of the session s, which it has not seen before.
Relays(s, n) ==
  /\ HandleData(s) /\ Relay(live, s, Head(up[s]).msg) /\ n = Head(up[s]).msg.seq

\* What was on its way to t is, and after it what a step of s sends it.
Sends(s, t) ==
  /\ Len(down[t]) =< Len(down'[t])
  /\ \A i \in 1 .. Len(down[t]) : down'[t][i] = down[t][i]
  /\ \A i \in Len(down[t]) + 1 .. Len(down'[t]) : LET m == down'[t][i] IN
       /\ t = s \/ t \in sessions
       /\ m.type = "data" => Relays(s, m.seq) /\ m.from = s /\ i = Len(down[t]) + 1

LEMMA Appended ==
  ASSUME NEW S, NEW q \in Seq(S), NEW r \in Seq(S)
  PROVE  /\ Len(q \o r) = Len(q) + Len(r)
         /\ \A i \in 1 .. Len(q) : (q \o r)[i] = q[i]
         /\ \A i \in Len(q) + 1 .. Len(q \o r) : (q \o r)[i] = r[i - Len(q)]
OBVIOUS

LEMMA SendsNothing ==
  ASSUME Types, NEW s \in Sockets, NEW t \in Sockets, down'[t] = down[t]
  PROVE  Sends(s, t)
<1>1. Len(down[t]) \in Nat
  BY DEF Types
<1>2. QED
  BY <1>1 DEF Sends

LEMMA SendsAll ==
  ASSUME Types, NEW s \in Sockets, NEW t \in Sockets, NEW r \in Seq(RelayMsg),
         down'[t] = IF t \in live THEN down[t] \o r ELSE down[t],
         t = s \/ t \in sessions,
         \A i \in 1 .. Len(r) :
           r[i].type = "data" => Relays(s, r[i].seq) /\ r[i].from = s /\ i = 1
  PROVE  Sends(s, t)
<1>1. CASE t \in live
  <2>1. down[t] \in Seq(RelayMsg) /\ Len(down[t]) \in Nat /\ Len(r) \in Nat
    BY DEF Types
  <2>2. down'[t] = down[t] \o r
    BY <1>1
  <2>3. /\ Len(down'[t]) = Len(down[t]) + Len(r)
        /\ \A i \in 1 .. Len(down[t]) : down'[t][i] = down[t][i]
    BY <2>1, <2>2, Appended
  <2>4. ASSUME NEW i \in Len(down[t]) + 1 .. Len(down'[t])
        PROVE  /\ i - Len(down[t]) \in 1 .. Len(r)
               /\ down'[t][i] = r[i - Len(down[t])]
    BY <2>1, <2>2, <2>3, Appended
  <2>5. QED
    BY <2>1, <2>3, <2>4 DEF Sends
<1>2. CASE t \notin live
  BY <1>2, SendsNothing
<1>3. QED
  BY <1>1, <1>2

LEMMA SendsOne ==
  ASSUME Types, NEW s \in Sockets, NEW t \in Sockets, NEW m \in RelayMsg,
         down'[t] = IF t \in live THEN down[t] \o <<m>> ELSE down[t],
         t = s \/ t \in sessions,
         m.type = "data" => Relays(s, m.seq) /\ m.from = s
  PROVE  Sends(s, t)
<1> DEFINE r == <<m>>
<1>1. r \in Seq(RelayMsg) /\ Len(r) = 1 /\ r[1] = m
  OBVIOUS
<1>2. down'[t] = IF t \in live THEN down[t] \o r ELSE down[t]
  OBVIOUS
<1> HIDE DEF r
<1>3. QED
  BY <1>1, <1>2, SendsAll

LEMMA RoomSends ==
  ASSUME Types, NEW s \in Sockets, RoomStep(s), NEW t \in Sockets
  PROVE  Sends(s, t)
<1>leave. ASSUME Leave(live, s) PROVE Sends(s, t)
  <2>1. down'[t] = IF t \in live
                   THEN down[t] \o (CASE t = s -> <<CloseMsg>>
                                      [] t \in sessions \ {s} -> <<PeerLeftMsg(s)>>
                                      [] OTHER -> <<>>)
                   ELSE down[t]
    BY <1>leave DEF Leave, Send
  <2>2. CASE t = s
    <3>1. CloseMsg \in RelayMsg /\ CloseMsg.type = "close"
      BY RoomMessages DEF CloseMsg
    <3>2. down'[t] = IF t \in live THEN down[t] \o <<CloseMsg>> ELSE down[t]
      BY <2>1, <2>2
    <3>3. QED
      BY <2>2, <3>1, <3>2, SendsOne
  <2>3. CASE t # s /\ t \in sessions
    <3>1. PeerLeftMsg(s) \in RelayMsg /\ PeerLeftMsg(s).type = "peer_left"
      BY RoomMessages DEF PeerLeftMsg
    <3>2. QED
      BY <2>1, <2>3, <3>1, SendsOne
  <2>4. CASE t # s /\ t \notin sessions
    <3>1. down[t] \o <<>> = down[t]
      BY DEF Types
    <3>2. QED
      BY <2>1, <2>4, <3>1, SendsNothing
  <2>5. QED
    BY <2>2, <2>3, <2>4
<1>reply. ASSUME NEW m \in RelayMsg, Reply(live, s, m), m.type \in {"ack", "error"}
          PROVE  Sends(s, t)
  <2>1. down'[t] = IF t \in live THEN down[t] \o (IF t = s THEN <<m>> ELSE <<>>) ELSE down[t]
    BY <1>reply DEF Reply, Send
  <2>2. CASE t = s
    BY <1>reply, <2>1, <2>2, SendsOne
  <2>3. CASE t # s
    <3>1. down[t] \o <<>> = down[t]
      BY DEF Types
    <3>2. QED
      BY <2>1, <2>3, <3>1, SendsNothing
  <2>4. QED
    BY <2>2, <2>3
<1>1. CASE HandleJoin(s)
  BY <1>1, SendsNothing DEF HandleJoin, BeginJoin
<1>2. CASE JoinVerified(s)
  <2>1. /\ s \in joining
        /\ down'[t] = IF t \in live
                      THEN down[t] \o (CASE t = s -> <<JoinedMsg(sessions)>>
                                         [] t \in sessions \ {s} -> <<PeerJoinedMsg(s)>>
                                         [] OTHER -> <<>>)
                      ELSE down[t]
    BY <1>2 DEF JoinVerified, FinishJoin, Send
  <2>2. CASE t = s
    <3>1. /\ JoinedMsg(sessions) \in RelayMsg /\ JoinedMsg(sessions).type = "joined"
          /\ JoinedMsg(sessions).peers = sessions
      BY RoomMessages DEF JoinedMsg, Types
    <3>2. down'[t] = IF t \in live THEN down[t] \o <<JoinedMsg(sessions)>> ELSE down[t]
      BY <2>1, <2>2
    <3>3. QED
      BY <2>1, <2>2, <3>1, <3>2, SendsOne
  <2>3. CASE t # s /\ t \in sessions
    <3>1. /\ PeerJoinedMsg(s) \in RelayMsg /\ PeerJoinedMsg(s).type = "peer_joined"
          /\ PeerJoinedMsg(s).id = s
      BY RoomMessages DEF PeerJoinedMsg
    <3>2. QED
      BY <2>1, <2>3, <3>1, SendsOne
  <2>4. CASE t # s /\ t \notin sessions
    <3>1. down[t] \o <<>> = down[t]
      BY DEF Types
    <3>2. QED
      BY <2>1, <2>4, <3>1, SendsNothing
  <2>5. QED
    BY <2>2, <2>3, <2>4
<1>3. CASE JoinRefused(s)
  <2> DEFINE two == <<ErrorMsg("auth_failed"), CloseMsg>>
  <2>1. down'[t] = IF t \in live THEN down[t] \o (IF t = s THEN two ELSE <<>>) ELSE down[t]
    BY <1>3 DEF JoinRefused, RejectJoin, Send
  <2>2. /\ two \in Seq(RelayMsg) /\ Len(two) = 2
        /\ \A i \in 1 .. 2 : two[i].type \in {"error", "close"}
    <3>1. ErrorMsg("auth_failed") \in RelayMsg /\ CloseMsg \in RelayMsg
      BY RoomMessages
    <3>2. ErrorMsg("auth_failed").type = "error" /\ CloseMsg.type = "close"
      BY DEF ErrorMsg, CloseMsg
    <3>3. QED
      BY <3>1, <3>2
  <2> HIDE DEF two
  <2>3. CASE t = s
    BY <2>1, <2>2, <2>3, SendsAll
  <2>4. CASE t # s
    <3>1. down[t] \o <<>> = down[t]
      BY DEF Types
    <3>2. QED
      BY <2>1, <2>4, <3>1, SendsNothing
  <2>5. QED
    BY <2>3, <2>4
<1>4. CASE HandleLeave(s)
  BY <1>4, <1>leave DEF HandleLeave, LeaveMsg
<1>5. CASE HandleData(s)
  <2> DEFINE msg == Head(up[s]).msg
  <2>1. msg \in ClientMessage /\ msg.seq \in Nat
    <3>1. Head(up[s]) \in UpMsg /\ Head(up[s]).type = "data"
      BY <1>5 DEF HandleData, Arrived, Types
    <3>2. QED
      BY <3>1 DEF UpMsg, ClientMessage
  <2>2. RateLimited(live, s) \/ Retry(live, s, msg) \/ Undeliverable(live, s, msg) \/ Relay(live, s, msg)
    BY <1>5 DEF HandleData
  <2>3. /\ AckMsg(msg.seq) \in RelayMsg /\ AckMsg(msg.seq).type = "ack"
        /\ \A code \in {"rate_limited", "peer_not_found"} :
             ErrorMsg(code) \in RelayMsg /\ ErrorMsg(code).type = "error"
    BY <2>1, RoomMessages DEF AckMsg, ErrorMsg
  <2>4. CASE RateLimited(live, s)
    BY <2>3, <2>4, <1>reply DEF RateLimited
  <2>5. CASE Retry(live, s, msg)
    BY <2>3, <2>5, <1>reply DEF Retry
  <2>6. CASE Undeliverable(live, s, msg)
    BY <2>3, <2>6, <1>reply DEF Undeliverable
  <2>7. CASE Relay(live, s, msg)
    <3> DEFINE data == IF t \in Recipients(s, msg) THEN <<RelayedMsg(s, msg)>> ELSE <<>>
               ack == IF t = s THEN <<AckMsg(msg.seq)>> ELSE <<>>
    <3>1. down'[t] = IF t \in live THEN down[t] \o (data \o ack) ELSE down[t]
      BY <2>7 DEF Relay, Send
    <3>2. /\ RelayedMsg(s, msg) \in RelayMsg /\ RelayedMsg(s, msg).type = "data"
          /\ RelayedMsg(s, msg).from = s /\ RelayedMsg(s, msg).seq = msg.seq
      BY <2>1, RoomMessages DEF RelayedMsg
    <3>3. Relays(s, msg.seq)
      BY <1>5, <2>7 DEF Relays
    <3> HIDE DEF msg
    <3>4. CASE t \notin Recipients(s, msg) /\ t # s
      <4>1. down[t] \o (<<>> \o <<>>) = down[t]
        BY DEF Types
      <4>2. QED
        BY <3>1, <3>4, <4>1, SendsNothing
    <3>5. CASE t \in Recipients(s, msg) \/ t = s
      <4>1. t = s \/ t \in sessions
        BY <3>5 DEF Recipients
      <4>2. /\ data \in Seq(RelayMsg) /\ Len(data) \in {0, 1}
            /\ Len(data) = 1 => data[1] = RelayedMsg(s, msg)
        BY <3>2
      <4>3. /\ ack \in Seq(RelayMsg) /\ Len(ack) \in {0, 1}
            /\ Len(ack) = 1 => ack[1] = AckMsg(msg.seq)
        BY <2>3
      <4> HIDE DEF data, ack
      <4>4. data \o ack \in Seq(RelayMsg)
        BY <4>2, <4>3
      <4>5. ASSUME NEW i \in 1 .. Len(data \o ack)
            PROVE  \/ i = 1 /\ (data \o ack)[i] = RelayedMsg(s, msg)
                   \/ (data \o ack)[i] = AckMsg(msg.seq)
        <5>1. i \in 1 .. Len(data) \/ i \in Len(data) + 1 .. Len(data \o ack)
          BY <4>2, <4>3
        <5>2. CASE i \in 1 .. Len(data)
          BY <4>2, <4>3, <5>2, Appended
        <5>3. CASE i \in Len(data) + 1 .. Len(data \o ack)
          <6>1. (data \o ack)[i] = ack[i - Len(data)] /\ Len(data \o ack) = Len(data) + Len(ack)
            BY <4>2, <4>3, <5>3, Appended
          <6>2. i - Len(data) = 1 /\ Len(ack) = 1
            BY <4>2, <4>3, <5>3, <6>1
          <6>3. QED
            BY <4>3, <6>1, <6>2
        <5>4. QED
          BY <5>1, <5>2, <5>3
      <4>6. QED
        BY <2>3, <3>1, <3>2, <3>3, <4>1, <4>4, <4>5, SendsAll
    <3>6. QED
      BY <3>4, <3>5
  <2>8. QED
    BY <2>2, <2>4, <2>5, <2>6, <2>7
<1>6. CASE HandleClose(s)
  BY <1>6, <1>leave, SendsNothing DEF HandleClose, Closed
<1>7. QED
  BY <1>1, <1>2, <1>3, <1>4, <1>5, <1>6 DEF RoomStep

\* What is relayed for a connected sender is acked.
LEMMA RelayAcks ==
  ASSUME Types, NEW s \in Sockets, NEW n \in Nat, Relays(s, n), s \in live
  PROVE  HasAck(down'[s], n)
<1> DEFINE msg == Head(up[s]).msg
           data == IF s \in Recipients(s, msg) THEN <<RelayedMsg(s, msg)>> ELSE <<>>
           q == down[s] \o (data \o <<AckMsg(n)>>)
<1>1. down'[s] = q /\ msg \in ClientMessage
  <2>1. Head(up[s]) \in UpMsg /\ Head(up[s]).type = "data"
    BY DEF Relays, HandleData, Arrived, Types
  <2>2. QED
    BY <2>1 DEF Relays, Relay, Send, UpMsg
<1>2. data \in Seq(RelayMsg) /\ <<AckMsg(n)>> \in Seq(RelayMsg) /\ AckMsg(n) \in RelayMsg
  <2>1. RelayedMsg(s, msg) \in RelayMsg
    BY <1>1, RoomMessages
  <2>2. QED
    BY <2>1, RoomMessages
<1>3. down[s] \in Seq(RelayMsg)
  BY DEF Types
<1> HIDE DEF data
<1>4. Len(q) \in 1 .. Len(q) /\ q[Len(q)] = AckMsg(n)
  <2> DEFINE r == data \o <<AckMsg(n)>>
  <2>1. r \in Seq(RelayMsg) /\ Len(r) \in Nat \ {0} /\ r[Len(r)] = AckMsg(n)
    BY <1>2
  <2> HIDE DEF r
  <2>2. Len(q) = Len(down[s]) + Len(r) /\ Len(down[s]) \in Nat
    BY <1>3, <2>1, Appended DEF r
  <2>3. \A i \in Len(down[s]) + 1 .. Len(q) : q[i] = r[i - Len(down[s])]
    BY <1>3, <2>1, Appended DEF r
  <2> HIDE DEF q
  <2>4. Len(q) - Len(down[s]) = Len(r) /\ Len(q) \in Len(down[s]) + 1 .. Len(q) /\ Len(q) \in Nat
    BY <2>1, <2>2
  <2>5. QED
    BY <2>1, <2>2, <2>3, <2>4
<1>5. AckMsg(n).type = "ack" /\ AckMsg(n).seq = n
  BY DEF AckMsg
<1>6. QED
  BY <1>1, <1>4, <1>5 DEF HasAck

-----------------------------------------------------------------------------
(* What clients send and hear. *)

\* In a step of c: what it sends on its socket t.
ClientSends(c, t) ==
  \A i \in 1 .. Len(up'[t]) :
    \/ i \in 1 .. Len(up[t]) /\ up'[t][i] = up[t][i]
    \/ t = cl[c].sock /\ LET m == up'[t][i] IN
         \/ m.type = "join" /\ Open(c) /\ i = Len(up[t]) + 1
         \/ m.type = "leave" /\ cl[c].state = "connected"
         \/ /\ m.type = "data" /\ cl[c].state = "connected"
            /\ \/ SendData(c) /\ m.msg.seq = cl[c].next
               \/ AckTimeout(c) /\ \E p \in cl[c].pending : m.msg = p.msg

LEMMA AppendedUp ==
  ASSUME Types, NEW c \in Clients, NEW msg \in UpMsg, SendUp(c, msg), NEW t \in Sockets
  PROVE  \A i \in 1 .. Len(up'[t]) :
           \/ i \in 1 .. Len(up[t]) /\ up'[t][i] = up[t][i]
           \/ t = cl[c].sock /\ up'[t][i] = msg /\ i = Len(up[t]) + 1
<1>1. up[t] \in Seq(UpMsg)
  BY DEF Types
<1>2. up'[t] = IF t = cl[c].sock THEN Append(up[t], msg) ELSE up[t]
  BY DEF SendUp, Types
<1>3. QED
  BY <1>1, <1>2

LEMMA KeptUp ==
  ASSUME NEW c \in Clients, NEW t \in Sockets, up'[t] = up[t]
  PROVE  ClientSends(c, t)
BY DEF ClientSends

LEMMA ClientUp ==
  ASSUME Types, NEW c \in Clients, ClientStep(c), NEW t \in Sockets
  PROVE  ClientSends(c, t)
<1>1. CASE UNCHANGED up
  BY <1>1, KeptUp
<1>2. CASE Open(c)
  <2>1. JoinMsg \in UpMsg /\ JoinMsg.type = "join"
    BY DEF JoinMsg, UpMsg
  <2>2. SendUp(c, JoinMsg)
    BY <1>2 DEF Open
  <2>3. QED
    BY <1>2, <2>1, <2>2, AppendedUp DEF ClientSends
<1>3. CASE Drop(c)
  <2>1. PICK k \in 0 .. Len(up[cl[c].sock]) : up' = [up EXCEPT ![cl[c].sock] = SubSeq(@, 1, k)]
    BY <1>3 DEF Drop
  <2>2. CASE t = cl[c].sock
    <3>1. up[t] \in Seq(UpMsg) /\ up'[t] = SubSeq(up[t], 1, k) /\ k \in 0 .. Len(up[t])
      BY <2>1, <2>2 DEF Types
    <3>2. Len(up'[t]) = k /\ \A i \in 1 .. k : i \in 1 .. Len(up[t]) /\ up'[t][i] = up[t][i]
      BY <3>1
    <3>3. QED
      BY <3>2 DEF ClientSends
  <2>3. CASE t # cl[c].sock
    <3>1. up'[t] = up[t]
      BY <2>1, <2>3 DEF Types
    <3>2. QED
      BY <3>1, KeptUp
  <2>4. QED
    BY <2>2, <2>3
<1>4. CASE Disconnect(c)
  <2>1. LeaveRequest \in UpMsg /\ LeaveRequest.type = "leave"
    BY DEF LeaveRequest, UpMsg
  <2>2. UNCHANGED up \/ (cl[c].state = "connected" /\ SendUp(c, LeaveRequest))
    <3>1. CASE cl[c].state = "connected"
      BY <1>4, <3>1 DEF Disconnect
    <3>2. CASE cl[c].state # "connected"
      BY <1>4, <3>2 DEF Disconnect
    <3>3. QED
      BY <3>1, <3>2
  <2>3. QED
    BY <1>1, <2>1, <2>2, AppendedUp DEF ClientSends
<1>5. CASE SendData(c)
  <2>1. PICK to \in cl[c].peers \cup {Everyone}, binary \in BOOLEAN :
          SendUp(c, DataMsg(c, Message(cl[c], to, binary)))
    BY <1>5 DEF SendData
  <2> DEFINE m == DataMsg(c, Message(cl[c], to, binary))
  <2>2. cl[c] \in FullClient /\ to \in Sockets \cup {Everyone}
    BY DEF FullClient, Types
  <2>3. m \in UpMsg /\ m.type = "data" /\ m.msg.seq = cl[c].next
    BY <2>2, ClientTypes DEF DataMsg, Message, UpMsg
  <2>4. cl[c].state = "connected" /\ SendUp(c, m)
    BY <1>5, <2>1 DEF SendData
  <2> HIDE DEF m
  <2>5. QED
    BY <1>5, <2>3, <2>4, AppendedUp DEF ClientSends
<1>6. CASE AckTimeout(c)
  <2>1. \/ UNCHANGED up
        \/ cl[c].state = "connected" /\ \E p \in cl[c].pending : SendUp(c, DataMsg(c, p.msg))
    <3>1. CASE cl[c].state = "connected"
      BY <1>6, <3>1 DEF AckTimeout
    <3>2. CASE cl[c].state # "connected"
      BY <1>6, <3>2 DEF AckTimeout
    <3>3. QED
      BY <3>1, <3>2
  <2>2. CASE cl[c].state = "connected" /\ \E p \in cl[c].pending : SendUp(c, DataMsg(c, p.msg))
    <3>1. PICK p \in cl[c].pending : SendUp(c, DataMsg(c, p.msg))
      BY <2>2
    <3>2. p.msg \in ClientMessage
      BY DEF Types, FullClient, Pending
    <3>3. DataMsg(c, p.msg) \in UpMsg /\ DataMsg(c, p.msg).type = "data" /\ DataMsg(c, p.msg).msg = p.msg
      BY <3>2 DEF DataMsg, UpMsg
    <3>4. QED
      BY <1>6, <2>2, <3>1, <3>3, AppendedUp DEF ClientSends
  <2>3. QED
    BY <1>1, <2>1, <2>2
<1>7. QED
  BY <1>1, <1>2, <1>3, <1>4, <1>5, <1>6
     DEF ClientStep, Connect, ReconnectTimer, OpenFails, Deliver

\* A step of the relay takes the first message of s, or none.
LEMMA RoomUp ==
  ASSUME Types, NEW s \in Sockets, RoomStep(s), NEW t \in Sockets
  PROVE  \/ up'[t] = up[t] /\ (t = s => JoinVerified(s) \/ JoinRefused(s) \/ HandleClose(s))
         \/ /\ t = s /\ up[s] # <<>>
            /\ \A i \in 1 .. Len(up'[t]) : i + 1 \in 1 .. Len(up[t]) /\ up'[t][i] = up[t][i + 1]
<1>1. CASE UNCHANGED up /\ (JoinVerified(s) \/ JoinRefused(s) \/ HandleClose(s))
  BY <1>1
<1>2. CASE up[s] # <<>> /\ Consume(s)
  <2>1. up'[t] = IF t = s THEN Tail(up[t]) ELSE up[t]
    BY <1>2 DEF Consume, Types
  <2>2. CASE t = s
    <3>1. up[t] \in Seq(UpMsg) /\ up[t] # <<>> /\ up'[t] = Tail(up[t])
      BY <1>2, <2>1, <2>2 DEF Types
    <3>2. Len(up'[t]) = Len(up[t]) - 1 /\ \A i \in 1 .. Len(up'[t]) : up'[t][i] = up[t][i + 1]
      BY <3>1
    <3>3. QED
      BY <2>2, <3>1, <3>2
  <2>3. QED
    BY <2>1, <2>2
<1>3. QED
  BY <1>1, <1>2
     DEF RoomStep, HandleJoin, JoinVerified, JoinRefused, HandleLeave, HandleData, HandleClose, Arrived

\* A step of c that takes no message from the relay either leaves what is on its way to c, or nothing.
LEMMA ClientDown ==
  ASSUME Types, NEW c \in Clients, ClientStep(c), ~Deliver(c)
  PROVE  /\ got' = got
         /\ \A t \in Sockets : down'[t] = down[t] \/ (t = cl[c].sock /\ down'[t] = <<>>)
<1>1. CASE UNCHANGED <<down, got>>
  BY <1>1
<1>2. CASE Deafen(c) /\ UNCHANGED got
  BY <1>2 DEF Deafen, Types
<1>3. Connect(c) \/ Drop(c) \/ Disconnect(c) => Deafen(c) /\ UNCHANGED got
  BY DEF Connect, Drop, Disconnect
<1>4. ReconnectTimer(c) \/ Open(c) \/ OpenFails(c) => UNCHANGED <<down, got>>
  BY DEF ReconnectTimer, Open, OpenFails, roomVars
<1>5. SendData(c) \/ AckTimeout(c) => UNCHANGED <<down, got>>
  BY DEF SendData, AckTimeout, roomVars
<1>6. QED
  BY <1>1, <1>2, <1>3, <1>4, <1>5 DEF ClientStep

\* Taking the next one.
LEMMA DeliverDown ==
  ASSUME Types, NEW c \in Clients, Deliver(c)
  PROVE  LET s == cl[c].sock
             m == Head(down[s])
         IN  /\ s \in Sockets /\ down[s] # <<>> /\ m \in RelayMsg /\ m = down[s][1]
             /\ \A t \in Sockets : t # s => down'[t] = down[t]
             /\ \A i \in 1 .. Len(down'[s]) :
                  i + 1 \in 1 .. Len(down[s]) /\ down'[s][i] = down[s][i + 1]
             /\ m.type # "close" => Len(down'[s]) = Len(down[s]) - 1
             /\ \A t, r \in Sockets, n \in Nat : n \in got'[t][r] =>
                  n \in got[t][r] \/ (t = s /\ m.type = "data" /\ m.from = r /\ m.seq = n)
<1> DEFINE s == cl[c].sock
           m == Head(down[s])
<1>1. s \in Sockets /\ down[s] # <<>> /\ down[s] \in Seq(RelayMsg)
  <2>1. s \in Sockets \cup {NoSocket}
    BY DEF Types, FullClient
  <2>2. QED
    BY <2>1 DEF Deliver, Types
<1>2. down' = [down EXCEPT ![s] = IF m.type = "close" THEN <<>> ELSE Tail(@)]
  BY DEF Deliver
<1>3. got' = IF m.type = "data" THEN [got EXCEPT ![s][m.from] = @ \cup {m.seq}] ELSE got
  BY DEF Deliver
<1>4. m \in RelayMsg /\ m = down[s][1]
  BY <1>1
<1> HIDE DEF s, m
<1>5. down'[s] = IF m.type = "close" THEN <<>> ELSE Tail(down[s])
  BY <1>1, <1>2 DEF Types
<1>6. \A t \in Sockets : t # s => down'[t] = down[t]
  BY <1>1, <1>2 DEF Types
<1>7. /\ \A i \in 1 .. Len(down'[s]) : i + 1 \in 1 .. Len(down[s]) /\ down'[s][i] = down[s][i + 1]
      /\ m.type # "close" => Len(down'[s]) = Len(down[s]) - 1
  BY <1>1, <1>5
<1>8. m.type = "data" => m.from \in Sockets /\ m.seq \in Nat
  BY <1>4 DEF RelayMsg
<1>9. ASSUME NEW t \in Sockets, NEW r \in Sockets, NEW n \in Nat, n \in got'[t][r]
      PROVE  n \in got[t][r] \/ (t = s /\ m.type = "data" /\ m.from = r /\ m.seq = n)
  <2>1. CASE m.type # "data"
    BY <1>3, <1>9, <2>1
  <2>2. CASE m.type = "data"
    <3>1. got' = [got EXCEPT ![s] = [got[s] EXCEPT ![m.from] = @ \cup {m.seq}]]
      BY <1>3, <2>2
    <3>2. got'[t] = IF t = s THEN [got[s] EXCEPT ![m.from] = @ \cup {m.seq}] ELSE got[t]
      BY <1>1, <3>1 DEF Types
    <3>3. got[s] \in [Sockets -> SUBSET Nat]
      BY <1>1 DEF Types
    <3>4. QED
      BY <1>8, <1>9, <2>2, <3>2, <3>3
  <2>3. QED
    BY <2>1, <2>2
<1>10. QED
  BY <1>1, <1>4, <1>6, <1>7, <1>9 DEF s, m

LEMMA RelayedStep ==
  ASSUME Types, [Next]_vars, NEW s \in Sockets, NEW n \in Nat, Relayed(s, n)'
  PROVE  Relayed(s, n) \/ Relays(s, n)
<1>1. PICK t \in Sockets : n \in got'[t][s] \/ HasData(down'[t], s, n)
  BY DEF Relayed, Given
<1>2. ASSUME got' = got, down'[t] = down[t] \/ down'[t] = <<>> PROVE Relayed(s, n)
  BY <1>1, <1>2 DEF Relayed, Given, HasData
<1>3. ASSUME NEW c \in Clients, ClientStep(c) PROVE Relayed(s, n)
  <2>1. CASE ~Deliver(c)
    BY <1>2, <1>3, <2>1, ClientDown
  <2>2. CASE Deliver(c)
    <3> DEFINE k == cl[c].sock
               m == Head(down[k])
    <3>1. /\ k \in Sockets /\ down[k] # <<>> /\ m = down[k][1]
          /\ \A r \in Sockets : r # k => down'[r] = down[r]
          /\ \A i \in 1 .. Len(down'[k]) : i + 1 \in 1 .. Len(down[k]) /\ down'[k][i] = down[k][i + 1]
          /\ n \in got'[t][s] =>
               n \in got[t][s] \/ (t = k /\ m.type = "data" /\ m.from = s /\ m.seq = n)
      BY <2>2, DeliverDown
    <3>2. down[k] \in Seq(RelayMsg)
      BY <3>1 DEF Types
    <3> HIDE DEF k, m
    <3>3. 1 \in 1 .. Len(down[k])
      BY <3>1, <3>2
    <3>4. CASE n \in got'[t][s]
      BY <3>1, <3>3, <3>4 DEF Relayed, Given, HasData
    <3>5. CASE HasData(down'[t], s, n)
      <4>1. PICK i \in 1 .. Len(down'[t]) :
              down'[t][i].type = "data" /\ down'[t][i].from = s /\ down'[t][i].seq = n
        BY <3>5 DEF HasData
      <4>2. \E j \in 1 .. Len(down[t]) : down[t][j] = down'[t][i]
        BY <3>1, <4>1
      <4>3. QED
        BY <4>1, <4>2 DEF Relayed, Given, HasData
    <3>6. QED
      BY <1>1, <3>4, <3>5
  <2>3. QED
    BY <2>1, <2>2
<1>4. ASSUME NEW r \in Sockets, RoomStep(r) PROVE Relayed(s, n) \/ Relays(s, n)
  <2>1. got' = got
    BY <1>4 DEF RoomStep, HandleJoin, JoinVerified, JoinRefused, HandleLeave, HandleData, HandleClose
  <2>2. CASE n \in got[t][s]
    BY <2>2 DEF Relayed, Given
  <2>3. CASE HasData(down'[t], s, n)
    <3>1. PICK i \in 1 .. Len(down'[t]) :
            down'[t][i].type = "data" /\ down'[t][i].from = s /\ down'[t][i].seq = n
      BY <2>3 DEF HasData
    <3>2. Len(down[t]) \in Nat /\ Sends(r, t)
      BY <1>4, RoomSends DEF Types
    <3>3. CASE i \in 1 .. Len(down[t])
      BY <3>1, <3>2, <3>3 DEF Relayed, Given, HasData, Sends
    <3>4. CASE i \in Len(down[t]) + 1 .. Len(down'[t])
      BY <3>1, <3>2, <3>4 DEF Sends
    <3>5. QED
      BY <3>1, <3>2, <3>3, <3>4
  <2>4. QED
    BY <1>1, <2>1, <2>2, <2>3
<1>5. CASE Evict \/ UNCHANGED vars
  BY <1>2, <1>5 DEF Evict, Hibernate, vars, roomVars
<1>6. QED
  BY <1>3, <1>4, <1>5 DEF Next

LEMMA SentStep ==
  ASSUME Types, [Next]_vars, NEW s \in Sockets, NEW n \in Nat, Sent(s, n)'
  PROVE  \/ Sent(s, n)
         \/ \E c \in Clients :
              /\ cl[c].sock = s /\ cl[c].state = "connected"
              /\ \/ SendData(c) /\ n = cl[c].next
                 \/ AckTimeout(c) /\ Pends(c, n)
<1>1. PICK i \in 1 .. Len(up'[s]) : up'[s][i].type = "data" /\ up'[s][i].msg.seq = n
  BY DEF Sent
<1>2. ASSUME NEW c \in Clients, ClientStep(c)
      PROVE  \/ Sent(s, n)
             \/ /\ cl[c].sock = s /\ cl[c].state = "connected"
                /\ \/ SendData(c) /\ n = cl[c].next
                   \/ AckTimeout(c) /\ Pends(c, n)
  BY <1>1, <1>2, ClientUp DEF ClientSends, Sent, Pends
<1>3. ASSUME NEW r \in Sockets, RoomStep(r) PROVE Sent(s, n)
  BY <1>1, <1>3, RoomUp DEF Sent
<1>4. CASE Evict \/ UNCHANGED vars
  BY <1>1, <1>4 DEF Evict, vars, Sent
<1>5. QED
  BY <1>2, <1>3, <1>4 DEF Next

\* What a step may make of a client.
Changes(c) ==
  /\ \/ cl'[c].sock = NoSocket
     \/ cl'[c].sock = cl[c].sock /\ (cl'[c].opened = cl[c].opened \/ Open(c))
     \/ cl'[c].sock \in fresh /\ cl'[c].sock \notin fresh' /\ ~cl'[c].opened /\ up' = up
  /\ cl'[c].next >= cl[c].next
  /\ SendData(c) => cl'[c].next = cl[c].next + 1
  /\ \A p \in cl'[c].pending :
       \/ \E q \in cl[c].pending : q.msg = p.msg
       \/ SendData(c) /\ p.msg.seq = cl[c].next

LEMMA ClientChanges ==
  ASSUME Types, Connection, NEW c \in Clients, ClientStep(c)
  PROVE  Changes(c) /\ fresh' \subseteq fresh /\ \A d \in Clients : d # c => cl'[d] = cl[d]
<1> DEFINE x == cl[c]
           y == cl'[c]
<1>x. x \in FullClient
  BY DEF Types
<1>set. ASSUME NEW z, Set(c, z) PROVE y = z /\ \A d \in Clients : d # c => cl'[d] = cl[d]
  BY <1>set DEF Set, Types
<1>new. fresh # {} => NewId \in fresh
  BY DEF NewId
<1> USE DEF FullClient
<1>next. SendData(c) => y.next = x.next + 1
  <2>1. ASSUME NEW m PROVE Tracked(x, m).next = x.next + 1
    BY <1>x DEF Tracked
  <2>2. QED
    BY <1>set, <2>1 DEF SendData
<1>1. CASE Connect(c)
  <2>1. y = Connecting(x, NewId) /\ \A d \in Clients : d # c => cl'[d] = cl[d]
    BY <1>1, <1>set DEF Connect
  <2>2. NewId \in fresh /\ fresh' = fresh \ {NewId} /\ up' = up
    BY <1>1, <1>new DEF Connect
  <2> HIDE DEF Changes, x, y
  <2>3. y.sock = NewId /\ ~y.opened /\ y.next = x.next /\ y.pending = x.pending
    BY <1>x, <2>1 DEF Connecting
  <2>4. QED
    BY <1>x, <1>next, <2>1, <2>2, <2>3 DEF Changes, x, y
<1>2. CASE ReconnectTimer(c)
  <2>1. y = Reconnecting(x, NewId) /\ \A d \in Clients : d # c => cl'[d] = cl[d]
    BY <1>2, <1>set DEF ReconnectTimer
  <2>2. NewId \in fresh /\ fresh' = fresh \ {NewId} /\ up' = up /\ x.timer
    BY <1>2, <1>new DEF ReconnectTimer
  <2>3. ~x.opened
    BY <2>2 DEF Connection
  <2> HIDE DEF Changes, x, y
  <2>4. y.sock = NewId /\ ~y.opened /\ y.next = x.next /\ y.pending = x.pending
    BY <1>x, <2>1, <2>3 DEF Reconnecting
  <2>5. QED
    BY <1>x, <1>next, <2>1, <2>2, <2>4 DEF Changes, x, y
<1>3. CASE Open(c)
  <2>1. y = Opened(x) /\ (\A d \in Clients : d # c => cl'[d] = cl[d]) /\ fresh' = fresh
    BY <1>3, <1>set DEF Open
  <2> HIDE DEF Changes, x, y
  <2>2. y.sock = x.sock /\ y.next = x.next /\ y.pending = x.pending
    BY <1>x, <2>1 DEF Opened
  <2>3. QED
    BY <1>3, <1>x, <1>next, <2>1, <2>2 DEF Changes, x, y
<1>4. CASE OpenFails(c) \/ Drop(c) \/ Disconnect(c)
  <2>1. y \in {Lost(x), Disconnected(x)} /\ (\A d \in Clients : d # c => cl'[d] = cl[d]) /\ fresh' = fresh
    BY <1>4, <1>set DEF OpenFails, Drop, Disconnect
  <2> HIDE DEF Changes, x, y
  <2>2. y.sock = NoSocket /\ y.next = x.next /\ y.pending \subseteq x.pending
    <3>1. CASE y = Lost(x)
      BY <1>x, <3>1 DEF Lost
    <3>2. CASE y = Disconnected(x)
      BY <1>x, <3>2 DEF Disconnected
    <3>3. QED
      BY <2>1, <3>1, <3>2
  <2>3. QED
    BY <1>x, <1>next, <2>1, <2>2 DEF Changes, x, y
<1>5. CASE SendData(c)
  <2>1. PICK to \in x.peers \cup {Everyone}, binary \in BOOLEAN : Set(c, Tracked(x, Message(x, to, binary)))
    BY <1>5 DEF SendData
  <2>2. /\ y = Tracked(x, Message(x, to, binary))
        /\ (\A d \in Clients : d # c => cl'[d] = cl[d]) /\ fresh' = fresh
    BY <1>5, <1>set, <2>1 DEF SendData
  <2> HIDE DEF Changes, x, y
  <2>3. /\ y.sock = x.sock /\ y.opened = x.opened /\ y.next = x.next + 1
        /\ y.pending = x.pending \cup {[msg |-> Message(x, to, binary), retries |-> 0]}
    BY <1>x, <2>2 DEF Tracked
  <2>4. \A p \in y.pending : p \in x.pending \/ p.msg.seq = x.next
    BY <2>3 DEF Message
  <2>5. QED
    BY <1>5, <1>x, <1>next, <2>2, <2>3, <2>4 DEF Changes, x, y
<1>6. CASE AckTimeout(c)
  <2>1. PICK p \in x.pending : Set(c, Retried(x, p)) \/ Set(c, Failed(x, p))
    BY <1>6 DEF AckTimeout
  <2>2. /\ y \in {Retried(x, p), Failed(x, p)}
        /\ (\A d \in Clients : d # c => cl'[d] = cl[d]) /\ fresh' = fresh
    BY <1>6, <1>set, <2>1 DEF AckTimeout
  <2> HIDE DEF Changes, x, y
  <2>3. /\ y.sock = x.sock /\ y.opened = x.opened /\ y.next = x.next
        /\ y.pending \subseteq x.pending \cup {[p EXCEPT !.retries = @ + 1]}
    BY <1>x, <2>2 DEF Retried, Failed
  <2>4. [p EXCEPT !.retries = @ + 1].msg = p.msg
    BY <1>x DEF Pending
  <2>5. \A r \in y.pending : \E q \in x.pending : q.msg = r.msg
    BY <2>3, <2>4
  <2>6. QED
    BY <1>x, <1>next, <2>2, <2>3, <2>5 DEF Changes, x, y
<1>7. CASE Deliver(c)
  <2> DEFINE m == Head(down[x.sock])
  <2>1. /\ y = Handle(x, m) /\ (\A d \in Clients : d # c => cl'[d] = cl[d]) /\ fresh' = fresh
        /\ m \in RelayMsg
    BY <1>7, <1>set, DeliverDown DEF Deliver
  <2> HIDE DEF x, y, m
  <2>2. /\ y.sock = NoSocket \/ (y.sock = x.sock /\ y.opened = x.opened)
        /\ y.next = x.next /\ y.pending \subseteq x.pending
    <3>1. CASE m.type = "joined"
      BY <1>x, <2>1, <3>1 DEF Handle, Joined
    <3>2. CASE m.type \in {"peer_joined", "peer_left"}
      BY <1>x, <2>1, <3>2 DEF Handle, PeerJoined, PeerLeft
    <3>3. CASE m.type = "ack"
      BY <1>x, <2>1, <3>3 DEF Handle, Acked
    <3>4. CASE m.type = "close"
      BY <1>x, <2>1, <3>4 DEF Handle, Lost
    <3>5. CASE m.type \in {"error", "data"}
      BY <1>x, <2>1, <3>5 DEF Handle
    <3>6. QED
      BY <2>1, <3>1, <3>2, <3>3, <3>4, <3>5 DEF RelayMsg
  <2>3. QED
    BY <1>x, <1>next, <2>1, <2>2 DEF Changes, x, y
<1>8. QED
  BY <1>1, <1>2, <1>3, <1>4, <1>5, <1>6, <1>7 DEF ClientStep

\* What a step may make of the relay's sets.
LEMMA RoomSets ==
  ASSUME NEW r \in Sockets, RoomStep(r)
  PROVE  /\ cl' = cl /\ fresh' = fresh /\ got' = got /\ open' \subseteq open
         /\ \/ joining' \subseteq joining
            \/ HandleJoin(r) /\ joining' = joining \cup {r} /\ sessions' = sessions
         /\ \/ sessions' \subseteq sessions
            \/ JoinVerified(r) /\ r \in joining /\ joining' = joining \ {r}
               /\ sessions' = sessions \cup {r}
<1>1. CASE HandleJoin(r)
  BY <1>1 DEF HandleJoin, BeginJoin
<1>2. CASE JoinVerified(r)
  BY <1>2 DEF JoinVerified, FinishJoin
<1>3. CASE JoinRefused(r)
  BY <1>3 DEF JoinRefused, RejectJoin
<1>4. CASE HandleLeave(r)
  BY <1>4 DEF HandleLeave, LeaveMsg, Leave
<1>5. CASE HandleData(r)
  BY <1>5 DEF HandleData
<1>6. CASE HandleClose(r)
  BY <1>6 DEF HandleClose, Closed, Leave
<1>7. QED
  BY <1>1, <1>2, <1>3, <1>4, <1>5, <1>6 DEF RoomStep

\* A step of a client leaves the relay's tables alone, but for a socket that opens.
LEMMA ClientSets ==
  ASSUME Types, NEW c \in Clients, ClientStep(c)
  PROVE  /\ joining' = joining /\ sessions' = sessions /\ lastSeen' = lastSeen
         /\ open' \subseteq open \/ (Open(c) /\ open' = open \cup {cl[c].sock})
<1>1. CASE Open(c)
  BY <1>1 DEF Open, Accept
<1>2. Connect(c) \/ Drop(c) \/ Disconnect(c) \/ Deliver(c)
        => UNCHANGED <<open, joining, sessions, lastSeen>>
  BY DEF Connect, Drop, Disconnect, Deliver
<1>3. ReconnectTimer(c) \/ OpenFails(c) \/ SendData(c) \/ AckTimeout(c)
        => UNCHANGED <<open, joining, sessions, lastSeen>>
  BY DEF ReconnectTimer, OpenFails, SendData, AckTimeout, roomVars
<1>4. QED
  BY <1>1, <1>2, <1>3 DEF ClientStep

LEMMA EveryClient ==
  ASSUME Types, Connection, [Next]_vars, NEW c \in Clients
  PROVE  Changes(c) \/ cl'[c] = cl[c]
<1>1. ASSUME NEW d \in Clients, ClientStep(d) PROVE Changes(c) \/ cl'[c] = cl[c]
  BY <1>1, ClientChanges
<1>2. CASE cl' = cl
  BY <1>2
<1>3. QED
  BY <1>1, <1>2, RoomSets DEF Next, Evict, vars

LEMMA FreshShrinks ==
  ASSUME Types, Connection, [Next]_vars
  PROVE  fresh' \subseteq fresh
BY ClientChanges, RoomSets DEF Next, Evict, vars

LEMMA RelayArrived ==
  ASSUME Types, NEW s \in Sockets, NEW n \in Nat, Relays(s, n)
  PROVE  /\ up[s] # <<>> /\ s \in sessions /\ Sent(s, n) /\ n > lastSeen[s]
         /\ lastSeen' = [lastSeen EXCEPT ![s] = n] /\ sessions' = sessions /\ RoomStep(s)
<1>1. up[s] \in Seq(UpMsg) /\ up[s] # <<>> /\ Head(up[s]).type = "data" /\ Head(up[s]).msg.seq = n
  BY DEF Relays, HandleData, Arrived, Types
<1>2. Sent(s, n)
  <2>1. 1 \in 1 .. Len(up[s]) /\ Head(up[s]) = up[s][1]
    BY <1>1
  <2>2. QED
    BY <1>1, <2>1 DEF Sent
<1>3. n > lastSeen[s] /\ lastSeen' = [lastSeen EXCEPT ![s] = n]
  BY DEF Relays, Relay, Duplicate, Types
<1>4. QED
  BY <1>1, <1>2, <1>3 DEF Relays, HandleData, RoomStep

-----------------------------------------------------------------------------
(* Sockets. *)

\* Nothing happens on a socket before it opens.
LEMMA StaysUntried ==
  ASSUME Types, Types', Connection, [Next]_vars, NEW s \in Sockets, Untried(s),
         \A c \in Clients : cl[c].sock = s => ~cl[c].opened /\ ~Open(c)
  PROVE  Untried(s)'
<1>0. Len(up[s]) = 0 /\ Len(down[s]) = 0
  BY DEF Untried
<1>1. \A r \in Sockets : RoomStep(r) => r # s
  BY DEF Untried, RoomStep, HandleJoin, JoinVerified, FinishJoin, JoinRefused, RejectJoin, HandleLeave,
         HandleData, HandleClose, Arrived
<1>2. up'[s] = <<>>
  <2>1. ASSUME NEW i \in 1 .. Len(up'[s]) PROVE FALSE
    <3>1. ASSUME NEW c \in Clients, ClientStep(c) PROVE FALSE
      <4>1. ClientSends(c, s)
        BY <3>1, ClientUp
      <4>2. QED
        BY <1>0, <4>1 DEF ClientSends, Connection
    <3>2. ASSUME NEW r \in Sockets, RoomStep(r) PROVE FALSE
      BY <1>0, <1>1, <3>2, RoomUp
    <3>3. CASE up' = up
      BY <1>0, <3>3
    <3>4. QED
      BY <3>1, <3>2, <3>3 DEF Next, Evict, vars
  <2>2. up'[s] \in Seq(UpMsg)
    BY DEF Types
  <2>3. QED
    BY <2>1, <2>2
<1>3. down'[s] = <<>>
  <2>1. ASSUME NEW c \in Clients, ClientStep(c) PROVE down'[s] = <<>>
    <3>1. CASE ~Deliver(c)
      BY <2>1, <3>1, ClientDown DEF Untried
    <3>2. CASE Deliver(c)
      BY <3>2, DeliverDown DEF Untried
    <3>3. QED
      BY <3>1, <3>2
  <2>2. ASSUME NEW r \in Sockets, RoomStep(r) PROVE down'[s] = <<>>
    <3>1. Sends(r, s) /\ r # s /\ s \notin sessions
      BY <1>1, <2>2, RoomSends DEF Untried
    <3>2. down'[s] \in Seq(RelayMsg) /\ Len(down'[s]) \in Nat
      BY DEF Types
    <3>3. \A i \in 1 .. Len(down'[s]) : FALSE
      BY <1>0, <3>1 DEF Sends
    <3>4. QED
      BY <3>2, <3>3
  <2>3. CASE down' = down
    BY <2>3 DEF Untried
  <2>4. QED
    BY <2>1, <2>2, <2>3 DEF Next, Evict, Hibernate, vars, roomVars
<1>4. s \notin open' \cup joining' \cup sessions'
  <2>1. ASSUME NEW c \in Clients, ClientStep(c) PROVE s \notin open' \cup joining' \cup sessions'
    BY <2>1, ClientSets DEF Untried
  <2>2. ASSUME NEW r \in Sockets, RoomStep(r) PROVE s \notin open' \cup joining' \cup sessions'
    BY <1>1, <2>2, RoomSets DEF Untried
  <2>3. QED
    BY <2>1, <2>2 DEF Untried, Next, Evict, Hibernate, vars, roomVars
<1>5. \A n \in Nat : ~Relayed(s, n)'
  BY RelayedStep, RelayArrived DEF Untried
<1>6. QED
  BY <1>2, <1>3, <1>4, <1>5 DEF Untried

LEMMA FreshStep ==
  ASSUME Types, Types', Connection, Own, Fresh, [Next]_vars
  PROVE  Own' /\ Fresh'
<1>fresh. fresh' \subseteq fresh /\ fresh \subseteq Sockets
  BY FreshShrinks DEF Types
<1>sock. \A c \in Clients : cl[c].sock \in Sockets \cup {NoSocket}
  BY DEF Types, FullClient
<1>0. ASSUME NEW s \in fresh PROVE Untried(s)'
  BY <1>fresh, StaysUntried DEF Fresh
<1>1. ASSUME NEW s \in Sockets, NEW c \in Clients, cl[c].sock = s, ~cl[c].opened, ~Open(c)
      PROVE  Untried(s)'
  <2>1. Untried(s)
    BY <1>1, ChannelAssumption DEF Fresh
  <2>2. \A d \in Clients : cl[d].sock = s => d = c
    BY <1>1, ChannelAssumption DEF Own
  <2>3. QED
    BY <1>1, <2>1, <2>2, StaysUntried
<1>2. \A c \in Clients : Open(c) => cl'[c].opened
  <2>1. ASSUME NEW c \in Clients PROVE Opened(cl[c]).opened
    BY DEF Opened, Types, FullClient
  <2>2. QED
    BY <2>1 DEF Open, Set, Types
<1>3. Own'
  <2>1. ASSUME NEW c \in Clients, ClientStep(c) PROVE Own'
    BY <2>1, ClientChanges DEF Own, Fresh, Changes
  <2>2. CASE cl' = cl
    BY <2>2 DEF Own
  <2>3. QED
    BY <2>1, <2>2, RoomSets DEF Next, Evict, vars
<1>4. \A s \in fresh' : \A c \in Clients : cl'[c].sock # s
  BY <1>fresh, <1>sock, EveryClient, ChannelAssumption DEF Fresh, Changes
<1>5. ASSUME NEW s \in Sockets, NEW c \in Clients, cl'[c].sock = s, ~cl'[c].opened
      PROVE  Untried(s)'
  <2>1. CASE cl'[c] = cl[c]
    BY <1>1, <1>2, <1>5, <2>1
  <2>2. CASE Changes(c)
    BY <1>0, <1>1, <1>2, <1>5, <2>2, ChannelAssumption DEF Changes
  <2>3. QED
    BY <2>1, <2>2, EveryClient
<1>6. \A c \in Clients : cl'[c].sock # NoSocket => cl'[c].sock \in Sockets
  BY DEF Types, FullClient
<1>7. QED
  BY <1>fresh, <1>0, <1>3, <1>4, <1>5, <1>6 DEF Fresh, Untried

LEMMA ConnectionStep ==
  ASSUME Types, Connection, Fresh, [Next]_vars
  PROVE  Connection'
<1> DEFINE Sound(x) == /\ ~(x.timer /\ x.sock # NoSocket)
                       /\ x.state = "disconnected" <=> ~x.timer /\ x.sock = NoSocket
                       /\ x.opened => x.sock # NoSocket
                       /\ x.state = "connected" => x.opened
<1>1. \A c \in Clients : Sound(cl[c])
  BY DEF Connection
<1>2. SUFFICES \A c \in Clients : Sound(cl'[c])
  BY DEF Connection
<1>3. ASSUME NEW c \in Clients, ClientStep(c) PROVE Sound(cl'[c])
  <2> DEFINE x == cl[c]
  <2>x. x \in FullClient /\ Sound(x)
    BY <1>1 DEF Types
  <2>set. ASSUME NEW z, Set(c, z) PROVE cl'[c] = z
    BY <2>set DEF Set, Types
  <2>new. fresh # {} => NewId # NoSocket
    BY ChannelAssumption DEF NewId, Types
  <2> USE DEF FullClient
  <2> HIDE DEF x
  <2>1. CASE Connect(c)
    <3>1. cl'[c] = Connecting(x, NewId) /\ NewId # NoSocket
      BY <2>1, <2>set, <2>new DEF Connect, x
    <3>2. QED
      BY <2>x, <3>1 DEF Connecting
  <2>2. CASE ReconnectTimer(c)
    BY <2>2, <2>x, <2>set, <2>new DEF ReconnectTimer, Reconnecting, x
  <2>3. CASE Open(c)
    BY <2>3, <2>x, <2>set DEF Open, Opened, x
  <2>lost. Sound(Lost(x)) /\ Sound(Disconnected(x))
    <3> DEFINE again == x.attempt < MaxAttempts
    <3>1. again \in BOOLEAN
      BY <2>x, ClientAssumption
    <3>2. Lost(x) = [x EXCEPT !.sock = NoSocket, !.opened = FALSE, !.peers = {}, !.timer = again,
                              !.attempt = IF again THEN @ + 1 ELSE @,
                              !.state = IF again THEN "reconnecting" ELSE "disconnected"]
      BY Zenon DEF Lost
    <3> HIDE DEF again
    <3>3. Sound(Lost(x))
      BY <2>x, <3>1, <3>2
    <3>4. Sound(Disconnected(x))
      BY <2>x DEF Disconnected
    <3>5. QED
      BY <3>3, <3>4
  <2>4. CASE OpenFails(c) \/ Drop(c) \/ Disconnect(c)
    BY <2>4, <2>lost, <2>set DEF OpenFails, Drop, Disconnect, x
  <2>5. CASE SendData(c)
    <3>1. ASSUME NEW m PROVE Sound(Tracked(x, m))
      <4>1. /\ Tracked(x, m).timer = x.timer /\ Tracked(x, m).sock = x.sock
            /\ Tracked(x, m).state = x.state /\ Tracked(x, m).opened = x.opened
        BY <2>x DEF Tracked
      <4>2. QED
        BY <2>x, <4>1
    <3>2. QED
      BY <2>5, <2>set, <3>1 DEF SendData, x
  <2>6. CASE AckTimeout(c)
    <3>1. ASSUME NEW p PROVE Sound(Retried(x, p)) /\ Sound(Failed(x, p))
      BY <2>x DEF Retried, Failed
    <3>2. QED
      BY <2>6, <2>set, <3>1 DEF AckTimeout, x
  <2>7. CASE Deliver(c)
    <3> DEFINE m == Head(down[x.sock])
    <3>1. cl'[c] = Handle(x, m) /\ m \in RelayMsg
      BY <2>7, <2>set, DeliverDown DEF Deliver, x
    <3>2. x.opened /\ x.sock # NoSocket
      BY <2>7 DEF Deliver, Fresh, Untried, x
    <3> HIDE DEF m
    <3>3. CASE m.type = "joined"
      BY <2>x, <3>1, <3>2, <3>3 DEF Handle, Joined
    <3>4. CASE m.type \in {"peer_joined", "peer_left"}
      BY <2>x, <3>1, <3>4 DEF Handle, PeerJoined, PeerLeft
    <3>5. CASE m.type = "ack"
      <4>1. /\ Acked(x, m.seq).timer = x.timer /\ Acked(x, m.seq).sock = x.sock
            /\ Acked(x, m.seq).state = x.state /\ Acked(x, m.seq).opened = x.opened
        BY <2>x DEF Acked
      <4>2. QED
        BY <2>x, <3>1, <3>5, <4>1 DEF Handle
    <3>6. CASE m.type = "close"
      BY <2>lost, <3>1, <3>6 DEF Handle
    <3>7. CASE m.type \in {"error", "data"}
      BY <2>x, <3>1, <3>7 DEF Handle
    <3>8. QED
      BY <3>1, <3>3, <3>4, <3>5, <3>6, <3>7 DEF RelayMsg
  <2>8. QED
    BY <1>3, <2>1, <2>2, <2>3, <2>4, <2>5, <2>6, <2>7 DEF ClientStep
<1>4. ASSUME NEW c \in Clients, cl'[c] = cl[c] PROVE Sound(cl'[c])
  BY <1>1, <1>4
<1>5. QED
  BY <1>3, <1>4, ClientChanges, RoomSets DEF Next, Evict, vars

LEMMA JoinsStep ==
  ASSUME Types, Connection, Fresh, Joins, [Next]_vars
  PROVE  Joins'
<1> SUFFICES ASSUME NEW s \in Sockets
             PROVE  /\ \A i \in 1 .. Len(up'[s]) : up'[s][i].type = "join" =>
                         i = 1 /\ s \notin joining' \cup sessions' /\ \A n \in Nat : ~Relayed(s, n)'
                    /\ s \in joining' => s \notin sessions' /\ \A n \in Nat : ~Relayed(s, n)'
  BY DEF Joins
<1> DEFINE New == s \notin sessions /\ \A n \in Nat : ~Relayed(s, n)
<1>1. New => \A n \in Nat : ~Relayed(s, n)'
  BY RelayedStep, RelayArrived
<1>2. ASSUME NEW i \in 1 .. Len(up[s]), up[s][i].type = "join"
      PROVE  i = 1 /\ s \notin joining /\ New
  BY <1>2 DEF Joins
<1>3. s \in joining => New
  BY DEF Joins
<1> HIDE DEF New
<1>4. ASSUME NEW c \in Clients, ClientStep(c)
      PROVE  /\ \A i \in 1 .. Len(up'[s]) : up'[s][i].type = "join" => i = 1 /\ s \notin joining /\ New
             /\ joining' = joining /\ sessions' = sessions
  <2>1. ASSUME NEW i \in 1 .. Len(up'[s]), up'[s][i].type = "join"
        PROVE  i = 1 /\ s \notin joining /\ New
    <3>1. \/ i \in 1 .. Len(up[s]) /\ up'[s][i] = up[s][i]
          \/ s = cl[c].sock /\ Open(c) /\ i = Len(up[s]) + 1
      BY <1>4, <2>1, ClientUp DEF ClientSends
    <3>2. CASE i \in 1 .. Len(up[s]) /\ up'[s][i] = up[s][i]
      BY <1>2, <2>1, <3>2
    <3>3. CASE s = cl[c].sock /\ Open(c) /\ i = Len(up[s]) + 1
      <4>1. Untried(s)
        BY <3>3 DEF Open, Fresh
      <4>2. QED
        BY <3>3, <4>1 DEF Untried, New
    <3>4. QED
      BY <3>1, <3>2, <3>3
  <2>2. QED
    BY <1>4, <2>1, ClientSets
<1>5. ASSUME NEW r \in Sockets, RoomStep(r)
      PROVE  /\ \A i \in 1 .. Len(up'[s]) : up'[s][i].type = "join" =>
                  i = 1 /\ s \notin joining' \cup sessions' /\ New
             /\ s \in joining' => s \notin sessions' /\ New
  <2>1. ASSUME NEW i \in 1 .. Len(up'[s]), up'[s][i].type = "join"
        PROVE  i = 1 /\ s \notin joining' \cup sessions' /\ New
    <3>1. Len(up[s]) \in Nat
      BY DEF Types
    <3>2. up'[s] = up[s] /\ (s = r => JoinVerified(s) \/ JoinRefused(s) \/ HandleClose(s))
      BY <1>2, <1>5, <2>1, <3>1, RoomUp
    <3>3. i = 1 /\ s \notin joining /\ New
      BY <1>2, <2>1, <3>2
    <3>4. CASE r # s
      BY <1>5, <3>3, <3>4, RoomSets DEF New
    <3>5. CASE r = s
      BY <3>2, <3>3, <3>5
         DEF JoinVerified, FinishJoin, JoinRefused, RejectJoin, HandleClose, Closed, Leave, New
    <3>6. QED
      BY <3>4, <3>5
  <2>2. ASSUME s \in joining' PROVE s \notin sessions' /\ New
    <3>1. CASE s \in joining
      BY <1>3, <1>5, <2>2, <3>1, RoomSets DEF New
    <3>2. CASE s \notin joining
      <4>1. HandleJoin(s) /\ sessions' = sessions
        BY <1>5, <2>2, <3>2, RoomSets
      <4>2. up[s] \in Seq(UpMsg) /\ up[s] # <<>> /\ Head(up[s]).type = "join"
        BY <4>1 DEF HandleJoin, Arrived, Types
      <4>3. 1 \in 1 .. Len(up[s]) /\ up[s][1].type = "join"
        BY <4>2
      <4>4. QED
        BY <1>2, <4>1, <4>3 DEF New
    <3>3. QED
      BY <3>1, <3>2
  <2>3. QED
    BY <2>1, <2>2
<1>6. CASE Evict \/ UNCHANGED vars
  BY <1>1, <1>2, <1>3, <1>6 DEF Evict, Hibernate, vars, roomVars, New
<1>7. QED
  BY <1>1, <1>3, <1>4, <1>5, <1>6 DEF Next, New

-----------------------------------------------------------------------------
(* Numbers and the relay's memory. *)

LEMMA NumbersStep ==
  ASSUME Types, Types', Connection, Own, Fresh, Numbers, [Next]_vars
  PROVE  Numbers'
<1>next. \A c \in Clients : cl[c].next \in Nat /\ cl'[c].next \in Nat /\ cl'[c].next >= cl[c].next
  <2>1. \A c \in Clients : cl[c].next \in Nat /\ cl'[c].next \in Nat
    BY DEF Types, FullClient
  <2>2. QED
    BY <2>1, EveryClient DEF Changes
<1>1. ASSUME NEW c \in Clients, NEW p \in cl'[c].pending PROVE p.msg.seq < cl'[c].next
  <2>1. CASE cl'[c] = cl[c]
    BY <1>1, <2>1 DEF Numbers
  <2>2. CASE Changes(c)
    <3>1. CASE \E q \in cl[c].pending : q.msg = p.msg
      <4>1. PICK q \in cl[c].pending : q.msg = p.msg
        BY <3>1
      <4>2. q.msg.seq < cl[c].next /\ q.msg.seq \in Nat
        BY DEF Numbers, Types, FullClient, Pending, ClientMessage
      <4>3. QED
        BY <1>next, <4>1, <4>2
    <3>2. CASE SendData(c) /\ p.msg.seq = cl[c].next
      BY <1>next, <2>2, <3>2 DEF Changes
    <3>3. QED
      BY <1>1, <2>2, <3>1, <3>2 DEF Changes
  <2>3. QED
    BY <2>1, <2>2, EveryClient
<1>2. ASSUME NEW c \in Clients, NEW s \in Sockets, NEW n \in Nat, cl'[c].sock = s,
             Sent(s, n)' \/ Relayed(s, n)'
      PROVE  n < cl'[c].next
  <2>1. CASE cl[c].sock = s
    <3>1. \A m \in Nat : Sent(s, m) \/ Relayed(s, m) => m < cl[c].next
      BY <2>1, ChannelAssumption DEF Numbers
    <3>2. CASE Sent(s, n) \/ Relayed(s, n) \/ Relays(s, n)
      <4>1. n < cl[c].next
        BY <3>1, <3>2, RelayArrived
      <4>2. QED
        BY <1>next, <4>1
    <3>3. CASE \E d \in Clients :
                 /\ cl[d].sock = s
                 /\ \/ SendData(d) /\ n = cl[d].next
                    \/ AckTimeout(d) /\ Pends(d, n)
      <4>1. (SendData(c) /\ n = cl[c].next) \/ (AckTimeout(c) /\ Pends(c, n))
        BY <2>1, <3>3, ChannelAssumption DEF Own
      <4>2. CASE SendData(c) /\ n = cl[c].next
        <5>1. ClientStep(c)
          BY <4>2 DEF ClientStep
        <5>2. QED
          BY <1>next, <4>2, <5>1, ClientChanges DEF Changes
      <4>3. CASE Pends(c, n)
        <5>1. n < cl[c].next
          BY <4>3 DEF Numbers, Pends
        <5>2. QED
          BY <1>next, <5>1
      <4>4. QED
        BY <4>1, <4>2, <4>3
    <3>4. QED
      BY <1>2, <3>2, <3>3, SentStep, RelayedStep
  <2>2. CASE cl[c].sock # s
    <3>1. s \in fresh /\ up' = up
      BY <1>2, <2>2, EveryClient, ChannelAssumption DEF Changes
    <3>2. Untried(s) /\ up'[s] = <<>>
      BY <3>1 DEF Fresh, Untried
    <3>3. ~Sent(s, n)' /\ ~Relayed(s, n)'
      BY <3>2, RelayedStep, RelayArrived DEF Untried, Sent
    <3>4. QED
      BY <1>2, <3>3
  <2>3. QED
    BY <2>1, <2>2
<1>3. \A c \in Clients : cl'[c].sock # NoSocket => cl'[c].sock \in Sockets
  BY DEF Types, FullClient
<1>4. QED
  BY <1>1, <1>2, <1>3 DEF Numbers, Sent, Relayed, Given

\* What happens to the memory of a session while it lasts.
LEMMA LastSeenStep ==
  ASSUME Types, [Next]_vars, ~Evict, NEW s \in sessions, s \in sessions'
  PROVE  lastSeen'[s] >= lastSeen[s]
<1>0. \A r \in Sockets : lastSeen[r] \in Nat
  BY DEF Types
<1>1. CASE lastSeen' = lastSeen
  BY <1>0, <1>1 DEF Types
<1>2. ASSUME NEW r \in Sockets, RoomStep(r) PROVE lastSeen'[s] >= lastSeen[s]
  <2>1. HandleJoin(r) \/ JoinVerified(r) \/ JoinRefused(r) => lastSeen' = lastSeen
    BY DEF HandleJoin, BeginJoin, JoinVerified, FinishJoin, JoinRefused, RejectJoin
  <2>2. CASE HandleData(r)
    <3> DEFINE msg == Head(up[r]).msg
    <3>1. Head(up[r]) \in UpMsg /\ Head(up[r]).type = "data"
      BY <2>2 DEF HandleData, Arrived, Types
    <3>2. msg.seq \in Nat
      BY <3>1 DEF UpMsg, ClientMessage
    <3>3. RateLimited(live, r) \/ Retry(live, r, msg) \/ Undeliverable(live, r, msg) \/ Relay(live, r, msg)
      BY <2>2 DEF HandleData
    <3> HIDE DEF msg
    <3>4. \/ lastSeen' = lastSeen
          \/ ~(msg.seq =< lastSeen[r]) /\ lastSeen' = [lastSeen EXCEPT ![r] = msg.seq]
      BY <3>3 DEF RateLimited, Retry, Undeliverable, Relay, Duplicate
    <3>5. CASE ~(msg.seq =< lastSeen[r]) /\ lastSeen' = [lastSeen EXCEPT ![r] = msg.seq]
      <4>1. s \in Sockets /\ lastSeen \in [Sockets -> Nat]
        BY DEF Types
      <4>2. lastSeen'[s] = IF s = r THEN msg.seq ELSE lastSeen[s]
        BY <3>5, <4>1
      <4>3. QED
        BY <1>0, <3>2, <3>5, <4>1, <4>2
    <3>6. QED
      BY <1>1, <3>4, <3>5
  <2>3. CASE Leave(live, r)
    BY <1>0, <2>3 DEF Leave, Types
  <2>4. QED
    BY <1>1, <1>2, <2>1, <2>2, <2>3 DEF RoomStep, HandleLeave, LeaveMsg, HandleClose, Closed
<1>3. QED
  BY <1>1, <1>2, ClientSets DEF Next, vars, roomVars

LEMMA SettledStep ==
  ASSUME Types, Types', Connection, Own, Fresh, Joins, Numbers, Settled, Acks, [Next]_vars
  PROVE  Settled'
<1> SUFFICES ASSUME NEW s \in sessions', NEW n \in Nat, Relayed(s, n)'
             PROVE  n =< lastSeen'[s] \/ Over(s, n)'
  BY DEF Settled
<1>0. s \in Sockets /\ lastSeen \in [Sockets -> Nat] /\ lastSeen'[s] \in Nat
  BY DEF Types
<1>1. CASE Relays(s, n)
  BY <1>0, <1>1, RelayArrived
<1>2. CASE Relayed(s, n)
  <2>1. s \in sessions
    <3>1. ASSUME NEW r \in Sockets, RoomStep(r) PROVE s \in sessions
      BY <1>0, <1>2, <3>1, RoomSets DEF Joins
    <3>2. QED
      BY <3>1, ClientSets DEF Next, Evict, Hibernate, vars, roomVars
  <2>2. n =< lastSeen[s] \/ Over(s, n)
    BY <1>2, <2>1 DEF Settled
  <2>3. CASE Evict
    <3>1. up' = up /\ cl' = cl /\ up[s] = <<>> /\ down[s] = <<>>
      BY <1>0, <2>3 DEF Evict
    <3>2. ~Sent(s, n)'
      BY <3>1 DEF Sent
    <3>3. ASSUME NEW c \in Clients, cl[c].sock = s PROVE ~Pends(c, n)
      BY <1>0, <1>2, <3>1, <3>3, ChannelAssumption DEF Acks, HasAck
    <3>4. QED
      BY <3>1, <3>2, <3>3 DEF Over, Pends
  <2>4. CASE ~Evict /\ n =< lastSeen[s]
    BY <1>0, <2>1, <2>4, LastSeenStep
  <2>5. CASE Over(s, n)
    <3>1. ~Sent(s, n)'
      BY <1>0, <1>2, <2>5, SentStep, ChannelAssumption DEF Over, Numbers
    <3>2. ASSUME NEW c \in Clients, cl'[c].sock = s, NEW p \in cl'[c].pending, p.msg.seq = n PROVE FALSE
      <4>1. s \notin fresh
        BY <1>2 DEF Fresh, Untried
      <4>2. cl[c].sock = s
        BY <1>0, <3>2, <4>1, EveryClient, ChannelAssumption DEF Changes
      <4>3. n < cl[c].next /\ ~Pends(c, n) /\ cl[c].next \in Nat
        BY <1>0, <1>2, <2>5, <4>2, ChannelAssumption DEF Over, Numbers, Types, FullClient
      <4>4. QED
        BY <3>2, <4>3, EveryClient DEF Changes, Pends
    <3>3. QED
      BY <3>1, <3>2 DEF Over, Pends
  <2>6. QED
    BY <2>2, <2>3, <2>4, <2>5
<1>3. QED
  BY <1>0, <1>1, <1>2, RelayedStep

LEMMA AcksStep ==
  ASSUME Types, Types', Connection, Own, Fresh, Numbers, Acks, [Next]_vars
  PROVE  Acks'
<1>1. ASSUME NEW c \in Clients, NEW k \in Sockets, NEW n \in Nat,
             cl'[c].sock = k, Relayed(k, n)', Pends(c, n)'
      PROVE  HasAck(down'[k], n)
  <2>p. PICK p \in cl'[c].pending : p.msg.seq = n
    BY <1>1 DEF Pends
  <2>1. CASE cl[c].sock # k
    <3>1. Untried(k)
      BY <1>1, <2>1, EveryClient, ChannelAssumption DEF Changes, Fresh
    <3>2. QED
      BY <1>1, <3>1, RelayedStep, RelayArrived DEF Untried
  <2>2. CASE cl[c].sock = k /\ Relays(k, n)
    <3>1. k \in live
      BY <2>2, ChannelAssumption DEF live
    <3>2. QED
      BY <2>2, <3>1, RelayAcks
  <2>3. CASE cl[c].sock = k /\ Relayed(k, n)
    <3>1. n < cl[c].next /\ cl[c].next \in Nat
      BY <2>3, ChannelAssumption DEF Numbers, Types, FullClient
    <3>2. Pends(c, n)
      <4>1. CASE cl'[c] = cl[c]
        BY <2>p, <4>1 DEF Pends
      <4>2. CASE Changes(c)
        BY <2>p, <3>1, <4>2 DEF Changes, Pends
      <4>3. QED
        BY <4>1, <4>2, EveryClient
    <3>3. HasAck(down[k], n)
      BY <2>3, <3>2, ChannelAssumption DEF Acks
    <3>4. PICK i \in 1 .. Len(down[k]) : down[k][i].type = "ack" /\ down[k][i].seq = n
      BY <3>3 DEF HasAck
    <3>5. CASE down'[k] = down[k]
      BY <3>3, <3>5
    <3>6. ASSUME NEW r \in Sockets, RoomStep(r) PROVE HasAck(down'[k], n)
      <4>1. Sends(r, k) /\ Len(down[k]) \in Nat /\ Len(down'[k]) \in Nat
        BY <3>6, RoomSends DEF Types
      <4>2. i \in 1 .. Len(down'[k]) /\ down'[k][i] = down[k][i]
        BY <3>4, <4>1 DEF Sends
      <4>3. QED
        BY <3>4, <4>2 DEF HasAck
    <3>7. ASSUME NEW d \in Clients, ClientStep(d) PROVE HasAck(down'[k], n)
      <4>1. CASE d # c
        <5>1. cl[d].sock # k
          BY <2>3, <4>1, ChannelAssumption DEF Own
        <5>2. down'[k] = down[k]
          BY <3>7, <5>1, ClientDown, DeliverDown
        <5>3. QED
          BY <3>5, <5>2
      <4>2. CASE d = c /\ Deliver(c)
        <5> DEFINE m == Head(down[k])
        <5>1. /\ m = down[k][1] /\ m \in RelayMsg
              /\ \A j \in 1 .. Len(down'[k]) : down'[k][j] = down[k][j + 1]
              /\ m.type # "close" => Len(down'[k]) = Len(down[k]) - 1
          BY <2>3, <4>2, DeliverDown
        <5>2. cl'[c] = Handle(cl[c], m)
          BY <2>3, <4>2 DEF Deliver, Set, Types
        <5>x. cl[c] \in FullClient
          BY DEF Types
        <5> HIDE DEF m
        <5>3. m.type # "close"
          <6>1. Lost(cl[c]).sock = NoSocket
            BY <5>x DEF Lost, FullClient
          <6>2. QED
            BY <1>1, <5>2, <6>1, ChannelAssumption DEF Handle
        <5>4. ~(m.type = "ack" /\ m.seq = n)
          <6>1. ASSUME m.type = "ack", m.seq = n PROVE FALSE
            <7>1. cl'[c] = Acked(cl[c], n)
              BY <5>2, <6>1 DEF Handle
            <7>2. cl'[c].pending = {q \in cl[c].pending : q.msg.seq # n}
              BY <5>x, <7>1 DEF Acked, FullClient
            <7>3. QED
              BY <2>p, <7>2
          <6>2. QED
            BY <6>1
        <5>5. i # 1 /\ Len(down[k]) \in Nat /\ Len(down'[k]) = Len(down[k]) - 1
          BY <3>4, <5>1, <5>3, <5>4 DEF Types
        <5>6. i - 1 \in 1 .. Len(down'[k]) /\ (i - 1) + 1 = i
          BY <5>5
        <5>7. down'[k][i - 1] = down[k][i]
          BY <5>1, <5>6
        <5>8. QED
          BY <3>4, <5>6, <5>7 DEF HasAck
      <4>3. CASE d = c /\ ~Deliver(c)
        <5>1. CASE Connect(c)
          <6>1. cl'[c].sock = NewId
            BY <5>1 DEF Connect, Set, Connecting, Types, FullClient
          <6>2. NewId \in fresh
            BY <5>1 DEF Connect, NewId
          <6>3. QED
            BY <1>1, <2>3, <6>1, <6>2 DEF Fresh
        <5>2. CASE Drop(c) \/ Disconnect(c)
          <6>1. Lost(cl[c]).sock = NoSocket /\ Disconnected(cl[c]).sock = NoSocket
            BY DEF Lost, Disconnected, Types, FullClient
          <6>2. QED
            BY <1>1, <5>2, <6>1, ChannelAssumption DEF Drop, Disconnect, Set, Types
        <5>3. CASE down' = down
          BY <3>5, <5>3
        <5>4. QED
          BY <3>7, <4>3, <5>1, <5>2, <5>3
             DEF ClientStep, ReconnectTimer, Open, OpenFails, SendData, AckTimeout, roomVars
      <4>4. QED
        BY <4>1, <4>2, <4>3
    <3>8. QED
      BY <3>5, <3>6, <3>7 DEF Next, Evict, Hibernate, vars, roomVars
  <2>4. QED
    BY <1>1, <2>1, <2>2, <2>3, RelayedStep
<1>2. \A c \in Clients : cl'[c].sock # NoSocket => cl'[c].sock \in Sockets
  BY DEF Types, FullClient
<1>3. QED
  BY <1>1, <1>2 DEF Acks, Relayed, Given, Pends, HasAck

-----------------------------------------------------------------------------
(* Nothing is given twice. *)

LEMMA RelaysNew ==
  ASSUME Types, Settled, NEW s \in Sockets, NEW n \in Nat, Relays(s, n)
  PROVE  ~Relayed(s, n)
<1>1. s \in sessions /\ Sent(s, n) /\ ~(n =< lastSeen[s])
  BY RelayArrived DEF Types
<1>2. QED
  BY <1>1 DEF Settled, Over

LEMMA OnceStep ==
  ASSUME Types, Types', Settled, Once, [Next]_vars
  PROVE  Once'
<1> SUFFICES ASSUME NEW t \in Sockets, NEW i \in 1 .. Len(down'[t]), down'[t][i].type = "data"
             PROVE  /\ down'[t][i].seq \notin got'[t][down'[t][i].from]
                    /\ \A j \in 1 .. Len(down'[t]) :
                         /\ down'[t][j].type = "data"
                         /\ down'[t][j].from = down'[t][i].from /\ down'[t][j].seq = down'[t][i].seq
                         => i = j
  BY DEF Once
<1> DEFINE m == down'[t][i]
           Alike(j) == down'[t][j].type = "data" /\ down'[t][j].from = m.from /\ down'[t][j].seq = m.seq
<1>m. m.from \in Sockets /\ m.seq \in Nat
  <2>1. m \in RelayMsg
    BY DEF Types
  <2>2. QED
    BY <2>1 DEF RelayMsg
<1>0. Len(down[t]) \in Nat
  BY DEF Types
<1> SUFFICES m.seq \notin got'[t][m.from] /\ \A j \in 1 .. Len(down'[t]) : Alike(j) => i = j
  OBVIOUS
<1>1. CASE got' = got /\ down'[t] = down[t]
  BY <1>1 DEF Once
<1>2. CASE down'[t] = <<>>
  BY <1>2
<1>3. ASSUME NEW r \in Sockets, RoomStep(r)
      PROVE  m.seq \notin got'[t][m.from] /\ \A j \in 1 .. Len(down'[t]) : Alike(j) => i = j
  <2>1. got' = got /\ Sends(r, t)
    BY <1>3, RoomSets, RoomSends
  <2>2. ASSUME NEW j \in 1 .. Len(down'[t]), Alike(j), j \notin 1 .. Len(down[t])
        PROVE  j = Len(down[t]) + 1 /\ m.from = r /\ ~Relayed(r, m.seq)
    <3>1. j \in Len(down[t]) + 1 .. Len(down'[t])
      BY <1>0, <2>2
    <3>2. Relays(r, m.seq) /\ m.from = r /\ j = Len(down[t]) + 1
      BY <2>1, <2>2, <3>1 DEF Sends
    <3>3. QED
      BY <1>m, <3>2, RelaysNew
  <2>3. ASSUME NEW j \in 1 .. Len(down[t]), Alike(j) PROVE Relayed(m.from, m.seq)
    <3>1. down'[t][j] = down[t][j]
      BY <2>1 DEF Sends
    <3>2. QED
      BY <2>3, <3>1 DEF Relayed, Given, HasData
  <2>4. Alike(i)
    OBVIOUS
  <2>5. CASE i \in 1 .. Len(down[t])
    <3>1. \A j \in 1 .. Len(down[t]) : down'[t][j] = down[t][j]
      BY <2>1 DEF Sends
    <3>2. \A j \in 1 .. Len(down'[t]) : Alike(j) => j \in 1 .. Len(down[t])
      BY <2>2, <2>3, <2>4, <2>5
    <3>3. QED
      BY <2>1, <2>5, <3>1, <3>2 DEF Once
  <2>6. CASE i \notin 1 .. Len(down[t])
    <3>1. i = Len(down[t]) + 1 /\ m.from = r /\ ~Relayed(r, m.seq)
      BY <2>2, <2>4, <2>6
    <3>2. \A j \in 1 .. Len(down'[t]) : Alike(j) => j = Len(down[t]) + 1
      BY <2>2, <2>3, <3>1
    <3>3. m.seq \notin got[t][m.from]
      BY <3>1 DEF Relayed, Given
    <3>4. QED
      BY <2>1, <3>1, <3>2, <3>3
  <2>7. QED
    BY <2>5, <2>6
<1>4. ASSUME NEW c \in Clients, ClientStep(c)
      PROVE  m.seq \notin got'[t][m.from] /\ \A j \in 1 .. Len(down'[t]) : Alike(j) => i = j
  <2>1. CASE ~Deliver(c)
    BY <1>1, <1>2, <1>4, <2>1, ClientDown
  <2>2. CASE Deliver(c)
    <3> DEFINE k == cl[c].sock
               h == Head(down[k])
    <3>1. /\ k \in Sockets /\ down[k] # <<>> /\ h = down[k][1]
          /\ \A r \in Sockets : r # k => down'[r] = down[r]
          /\ \A j \in 1 .. Len(down'[k]) : j + 1 \in 1 .. Len(down[k]) /\ down'[k][j] = down[k][j + 1]
          /\ \A r \in Sockets, n \in Nat : n \in got'[t][r] =>
               n \in got[t][r] \/ (t = k /\ h.type = "data" /\ h.from = r /\ h.seq = n)
      BY <2>2, DeliverDown
    <3>a. m.seq \in got'[t][m.from] =>
            m.seq \in got[t][m.from] \/ (t = k /\ h.type = "data" /\ h.from = m.from /\ h.seq = m.seq)
      <4> HIDE DEF m, k, h
      <4>1. QED
        BY <1>m, <3>1
    <3> HIDE DEF k, h
    <3>2. CASE t # k
      BY <3>1, <3>2, <3>a DEF Once
    <3>3. CASE t = k
      <4>1. 1 \in 1 .. Len(down[t]) /\ i + 1 \in 1 .. Len(down[t]) /\ m = down[t][i + 1] /\ i + 1 # 1
        BY <1>0, <3>1, <3>3
      <4>2. m.seq \notin got'[t][m.from]
        BY <3>1, <3>3, <3>a, <4>1 DEF Once
      <4>3. ASSUME NEW j \in 1 .. Len(down'[t]), Alike(j) PROVE i = j
        <5>1. j + 1 \in 1 .. Len(down[t]) /\ down'[t][j] = down[t][j + 1]
          BY <3>1, <3>3
        <5>2. i + 1 = j + 1
          BY <4>1, <4>3, <5>1 DEF Once
        <5>3. QED
          BY <5>2
      <4>4. QED
        BY <4>2, <4>3
    <3>4. QED
      BY <3>2, <3>3
  <2>3. QED
    BY <2>1, <2>2
<1>5. QED
  BY <1>1, <1>3, <1>4 DEF Next, Evict, Hibernate, vars, roomVars

-----------------------------------------------------------------------------
IInv ==
  /\ Types /\ Connection /\ Own /\ Fresh /\ Joins /\ Numbers /\ Settled /\ Acks /\ Once

LEMMA InitIInv == Init => IInv
<1> SUFFICES ASSUME Init PROVE IInv
  OBVIOUS
<1>1. Types
  BY InitTypes
<1>2. /\ up = [s \in Sockets |-> <<>>] /\ down = [s \in Sockets |-> <<>>]
      /\ got = [s \in Sockets |-> [t \in Sockets |-> {}]]
      /\ open = {} /\ joining = {} /\ sessions = {} /\ fresh = Sockets
  BY DEF Init, EmptyRoom
<1>3. \A c \in Clients :
        /\ cl[c].sock = NoSocket /\ cl[c].state = "disconnected" /\ ~cl[c].timer /\ ~cl[c].opened
        /\ cl[c].pending = {}
  BY DEF Init, NewClient
<1>4. \A s \in Sockets, n \in Nat : ~Relayed(s, n)
  BY <1>2 DEF Relayed, Given, HasData
<1>5. Connection /\ Own
  BY <1>3 DEF Connection, Own
<1>6. Fresh
  BY <1>2, <1>3, <1>4, ChannelAssumption DEF Fresh, Untried
<1>7. Joins
  <2>1. \A s \in Sockets : Len(up[s]) = 0 /\ s \notin joining
    BY <1>2
  <2>2. \A s \in Sockets : \A i \in 1 .. Len(up[s]) : FALSE
    BY <2>1
  <2>3. QED
    BY <2>1, <2>2 DEF Joins
<1>8. Numbers /\ Settled /\ Acks /\ Once
  BY <1>2, <1>3 DEF Numbers, Settled, Acks, Once
<1>9. QED
  BY <1>1, <1>5, <1>6, <1>7, <1>8 DEF IInv

LEMMA NextIInv == IInv /\ [Next]_vars => IInv'
<1> SUFFICES ASSUME IInv, [Next]_vars PROVE IInv'
  OBVIOUS
<1> USE DEF IInv
<1>1. Types'
  BY TypesNext
<1>2. Connection'
  BY ConnectionStep
<1>3. Own' /\ Fresh'
  BY <1>1, FreshStep
<1>4. Joins'
  BY JoinsStep
<1>5. Numbers'
  BY <1>1, NumbersStep
<1>6. Settled'
  BY <1>1, SettledStep
<1>7. Acks'
  BY <1>1, AcksStep
<1>8. Once'
  BY <1>1, OnceStep
<1>9. QED
  BY <1>1, <1>2, <1>3, <1>4, <1>5, <1>6, <1>7, <1>8

LEMMA Invariance == Spec => []IInv
BY InitIInv, NextIInv, PTL DEF Spec

\* Types, and a client has one socket or a reconnect scheduled, never both: a socket that could answer
\* a client behind its back does not exist (connect, scheduleReconnect, cleanup).
THEOREM TypeCorrect == Spec => []TypeOK
<1>1. IInv => TypeOK
  <2> SUFFICES ASSUME IInv PROVE TypeOK
    OBVIOUS
  <2> USE DEF IInv
  <2>1. ASSUME NEW c \in Clients
        PROVE  /\ [cl[c] EXCEPT !.pending = {}] \in Client
               /\ \A p \in cl[c].pending : p.msg \in ClientMessage /\ p.retries \in 0 .. MaxRetries
    <3>1. cl[c] \in FullClient
      BY DEF Types
    <3>2. QED
      BY <3>1 DEF FullClient, Client, Pending
  <2>2. fresh \cap (open \cup joining \cup sessions) = {}
    BY DEF Fresh, Untried
  <2>3. \A s \in Sockets : \A i \in 1 .. Len(down[s]) : down[s][i] \in RelayMsg
    BY DEF Types
  <2>4. QED
    BY <2>1, <2>2, <2>3 DEF TypeOK, Types, Connection
<1>2. QED
  BY <1>1, Invariance, PTL

\* No message of a connection reaches a peer twice, whatever is sent again, delayed or forgotten by an
\* evicted relay (isDuplicate).
THEOREM AtMostOnceCorrect == Spec => []AtMostOnce
<1>1. IInv => AtMostOnce
  <2> SUFFICES ASSUME IInv, NEW s \in live, down[s] # <<>>, Head(down[s]).type = "data"
               PROVE  Head(down[s]).seq \notin got[s][Head(down[s]).from]
    BY DEF AtMostOnce
  <2>1. s \in Sockets /\ down[s] \in Seq(RelayMsg)
    BY DEF live, IInv, Types, FullClient
  <2>2. 1 \in 1 .. Len(down[s]) /\ Head(down[s]) = down[s][1]
    BY <2>1
  <2>3. QED
    BY <2>1, <2>2 DEF IInv, Once
<1>2. QED
  BY <1>1, Invariance, PTL

-----------------------------------------------------------------------------
(* Backpressure. *)

\* Of one client; what is pending is a finite set.
Paused(x) ==
  /\ IsFiniteSet(x.pending)
  /\ Cardinality(x.pending) >= MaxPending => x.pressed

\* Fewer pending messages need no pause that more of them did not need.
LEMMA PausedFewer ==
  ASSUME NEW x, NEW y, Paused(x), y.pending \subseteq x.pending, y.pressed = x.pressed
  PROVE  Paused(y)
<1>1. /\ IsFiniteSet(y.pending) /\ Cardinality(y.pending) =< Cardinality(x.pending)
      /\ Cardinality(y.pending) \in Nat /\ Cardinality(x.pending) \in Nat
  BY FS_Subset, FS_CardinalityType DEF Paused
<1>2. QED
  BY <1>1, ClientAssumption DEF Paused

LEMMA PausedClient ==
  ASSUME NEW x \in FullClient, Paused(x)
  PROVE  /\ \A s \in Sockets : Paused(Connecting(x, s)) /\ Paused(Reconnecting(x, s))
         /\ Paused(Opened(x)) /\ Paused(Lost(x)) /\ Paused(Disconnected(x))
         /\ \A to, binary : Paused(Tracked(x, Message(x, to, binary)))
         /\ \A p \in x.pending : Paused(Retried(x, p)) /\ Paused(Failed(x, p))
         /\ \A m \in RelayMsg : Paused(Handle(x, m))
<1> USE DEF FullClient
<1>1. \A s \in Sockets : Paused(Connecting(x, s)) /\ Paused(Reconnecting(x, s))
  <2>1. ASSUME NEW s \in Sockets
        PROVE  /\ Connecting(x, s).pending = x.pending /\ Connecting(x, s).pressed = x.pressed
               /\ Reconnecting(x, s).pending = x.pending /\ Reconnecting(x, s).pressed = x.pressed
    BY DEF Connecting, Reconnecting
  <2>2. QED
    BY <2>1, PausedFewer
<1>2. Paused(Opened(x)) /\ Paused(Lost(x))
  <2>1. /\ Opened(x).pending = x.pending /\ Opened(x).pressed = x.pressed
        /\ Lost(x).pending = x.pending /\ Lost(x).pressed = x.pressed
    BY DEF Opened, Lost
  <2>2. QED
    BY <2>1, PausedFewer
<1>3. Paused(Disconnected(x))
  <2>1. Disconnected(x).pending = {} /\ Disconnected(x).pressed = x.pressed
    BY DEF Disconnected
  <2>2. QED
    BY <2>1, PausedFewer
<1>4. ASSUME NEW to, NEW binary PROVE Paused(Tracked(x, Message(x, to, binary)))
  <2> DEFINE pending == x.pending \cup {[msg |-> Message(x, to, binary), retries |-> 0]}
             full == Cardinality(pending) >= MaxPending
  <2>1. Tracked(x, Message(x, to, binary))
          = [x EXCEPT !.next = @ + 1, !.pending = pending, !.pressed = @ \/ full]
    BY Zenon DEF Tracked
  <2>2. IsFiniteSet(pending)
    BY FS_AddElement DEF Paused
  <2>3. /\ Tracked(x, Message(x, to, binary)).pending = pending
        /\ Tracked(x, Message(x, to, binary)).pressed = (x.pressed \/ full)
    <3> HIDE DEF pending, full
    <3>1. QED
      BY <2>1
  <2>4. QED
    BY <2>2, <2>3 DEF Paused
<1>5. ASSUME NEW p \in x.pending PROVE Paused(Retried(x, p)) /\ Paused(Failed(x, p))
  <2> DEFINE q == [p EXCEPT !.retries = @ + 1]
             others == x.pending \ {p}
  <2>1. /\ Retried(x, p).pending = others \cup {q} /\ Retried(x, p).pressed = x.pressed
        /\ Failed(x, p).pending = others /\ Failed(x, p).pressed = x.pressed
    BY DEF Retried, Failed
  <2> HIDE DEF q
  <2>2. IsFiniteSet(others) /\ Cardinality(others) = Cardinality(x.pending) - 1
    BY FS_RemoveElement DEF Paused
  <2> HIDE DEF others
  <2>3. /\ IsFiniteSet(others \cup {q})
        /\ Cardinality(others \cup {q}) \in {Cardinality(others), Cardinality(others) + 1}
    BY <2>2, FS_AddElement
  <2>4. Cardinality(others) \in Nat /\ Cardinality(x.pending) \in Nat
    BY <2>2, FS_CardinalityType DEF Paused
  <2>5. Paused(Retried(x, p))
    BY <2>1, <2>2, <2>3, <2>4, ClientAssumption DEF Paused
  <2>6. Paused(Failed(x, p))
    BY <2>1, <2>2, <2>4, ClientAssumption DEF Paused
  <2>7. QED
    BY <2>5, <2>6
<1>6. ASSUME NEW m \in RelayMsg PROVE Paused(Handle(x, m))
  <2>1. CASE m.type \in {"joined", "peer_joined", "peer_left"}
    <3>1. Handle(x, m).pending = x.pending /\ Handle(x, m).pressed = x.pressed
      BY <2>1 DEF Handle, Joined, PeerJoined, PeerLeft
    <3>2. QED
      BY <3>1, PausedFewer
  <2>2. CASE m.type = "ack"
    <3> DEFINE pending == {p \in x.pending : p.msg.seq # m.seq}
               still == 10 * Cardinality(pending) >= 8 * MaxPending
    <3>1. CASE Acked(x, m.seq) = x
      BY <2>2, <3>1 DEF Handle
    <3>2. CASE Acked(x, m.seq) = [x EXCEPT !.pending = pending, !.pressed = @ /\ still]
      <4>1. pending \subseteq x.pending
        OBVIOUS
      <4> HIDE DEF pending
      <4>2. /\ IsFiniteSet(pending) /\ Cardinality(pending) =< Cardinality(x.pending)
            /\ Cardinality(pending) \in Nat /\ Cardinality(x.pending) \in Nat
        BY <4>1, FS_Subset, FS_CardinalityType DEF Paused
      <4>3. Cardinality(pending) >= MaxPending => x.pressed /\ still
        BY <4>2, ClientAssumption DEF Paused
      <4> HIDE DEF still
      <4>4. Acked(x, m.seq).pending = pending /\ Acked(x, m.seq).pressed = (x.pressed /\ still)
        BY <3>2
      <4>5. Paused(Acked(x, m.seq))
        BY <4>2, <4>3, <4>4 DEF Paused
      <4>6. QED
        BY <2>2, <4>5 DEF Handle
    <3>3. Acked(x, m.seq) = x \/ Acked(x, m.seq) = [x EXCEPT !.pending = pending, !.pressed = @ /\ still]
      BY Zenon DEF Acked
    <3>4. QED
      BY <3>1, <3>2, <3>3
  <2>3. CASE m.type = "close"
    BY <1>2, <2>3 DEF Handle
  <2>4. CASE m.type \in {"error", "data"}
    BY <2>4 DEF Handle
  <2>5. QED
    BY <2>1, <2>2, <2>3, <2>4 DEF RelayMsg
<1>7. QED
  BY <1>1, <1>2, <1>3, <1>4, <1>5, <1>6

LEMMA PausedStep ==
  ASSUME Types, [Next]_vars, \A c \in Clients : Paused(cl[c])
  PROVE  \A c \in Clients : Paused(cl'[c])
<1>1. ASSUME NEW c \in Clients, ClientStep(c) PROVE \A d \in Clients : Paused(cl'[d])
  <2> DEFINE x == cl[c]
  <2>1. x \in FullClient /\ Paused(x) /\ (fresh # {} => NewId \in Sockets)
    BY DEF Types, NewId
  <2>2. \E y : Set(c, y) /\ Paused(y)
    <3> HIDE DEF x
    <3>1. CASE Connect(c) \/ ReconnectTimer(c) \/ Open(c) \/ OpenFails(c) \/ Drop(c) \/ Disconnect(c)
      BY <2>1, <3>1, PausedClient DEF Connect, ReconnectTimer, Open, OpenFails, Drop, Disconnect, x
    <3>2. CASE SendData(c)
      BY <2>1, <3>2, PausedClient DEF SendData, x
    <3>3. CASE AckTimeout(c)
      BY <2>1, <3>3, PausedClient DEF AckTimeout, x
    <3>4. CASE Deliver(c)
      <4>1. Head(down[cl[c].sock]) \in RelayMsg
        BY <3>4, DeliverDown
      <4>2. QED
        BY <2>1, <3>4, <4>1, PausedClient DEF Deliver, x
    <3>5. QED
      BY <1>1, <3>1, <3>2, <3>3, <3>4 DEF ClientStep
  <2>3. QED
    BY <2>2 DEF Set, Types
<1>2. CASE cl' = cl
  BY <1>2
<1>3. QED
  BY <1>1, <1>2, RoomSets DEF Next, Evict, vars

\* At the threshold of pending messages, and above it, the application has been told to pause: acks,
\* retries and failures in any order never leave a full sender unpaused (trackPendingMessage, handleAck).
THEOREM PausedCorrect == Spec => []PausedWhenFull
<1> DEFINE AllPaused == \A c \in Clients : Paused(cl[c])
<1>1. Init => AllPaused
  <2>1. IsFiniteSet({}) /\ ~(Cardinality({}) >= MaxPending)
    BY FS_EmptySet, ClientAssumption
  <2>2. NewClient.pending = {}
    BY DEF NewClient
  <2>3. QED
    BY <2>1, <2>2 DEF Init, Paused
<1>2. IInv /\ AllPaused /\ [Next]_vars => AllPaused'
  BY PausedStep DEF IInv, Paused
<1>3. AllPaused => PausedWhenFull
  BY DEF Paused, PausedWhenFull
<1> HIDE DEF AllPaused
<1>4. QED
  BY <1>1, <1>2, <1>3, Invariance, PTL DEF Spec

-----------------------------------------------------------------------------
(* Peers: what a client makes of the messages on their way to it. *)

After(peers, q) == {p \in Sockets : KnowsAfter(peers, q, p)}

Neutral(m) == m.type \in {"data", "ack", "error"}

\* One more message.
LEMMA KnowsMore ==
  ASSUME NEW peers, NEW q \in Seq(RelayMsg), NEW m \in RelayMsg, NEW p
  PROVE  KnowsAfter(peers, q \o <<m>>, p) <=> Adds(m, p) \/ (KnowsAfter(peers, q, p) /\ ~Removes(m, p))
<1> DEFINE r == q \o <<m>>
           n == Len(q)
<1>1. /\ n \in Nat /\ Len(r) = n + 1 /\ r[n + 1] = m
      /\ \A i \in 1 .. n : r[i] = q[i]
  <2> HIDE DEF RelayMsg
  <2> QED
    OBVIOUS
<1> HIDE DEF r
<1>2. ASSUME NEW i \in 0 .. n
      PROVE  (\A j \in i + 1 .. n + 1 : ~Removes(r[j], p))
               <=> (\A j \in i + 1 .. n : ~Removes(q[j], p)) /\ ~Removes(m, p)
  <2>1. i + 1 .. n + 1 = (i + 1 .. n) \cup {n + 1} /\ \A j \in i + 1 .. n : r[j] = q[j]
    BY <1>1
  <2> QED
    BY <1>1, <2>1
<1>3. (\A j \in 1 .. n + 1 : ~Removes(r[j], p)) <=> (\A j \in 1 .. n : ~Removes(q[j], p)) /\ ~Removes(m, p)
  BY <1>1, <1>2
<1>4. (\E i \in 1 .. n + 1 : Adds(r[i], p) /\ \A j \in i + 1 .. n + 1 : ~Removes(r[j], p))
        <=> \/ Adds(m, p)
            \/ /\ \E i \in 1 .. n : Adds(q[i], p) /\ \A j \in i + 1 .. n : ~Removes(q[j], p)
               /\ ~Removes(m, p)
  <2>1. \A j \in n + 2 .. n + 1 : FALSE
    BY <1>1
  <2>2. ASSUME NEW i \in 1 .. n + 1, Adds(r[i], p), \A j \in i + 1 .. n + 1 : ~Removes(r[j], p)
        PROVE  \/ Adds(m, p)
               \/ /\ \E k \in 1 .. n : Adds(q[k], p) /\ \A j \in k + 1 .. n : ~Removes(q[j], p)
                  /\ ~Removes(m, p)
    <3>1. CASE i = n + 1
      BY <1>1, <2>2, <3>1
    <3>2. CASE i \in 1 .. n
      BY <1>1, <1>2, <2>2, <3>2
    <3> QED
      BY <1>1, <3>1, <3>2
  <2>3. ASSUME NEW i \in 1 .. n, Adds(q[i], p), \A j \in i + 1 .. n : ~Removes(q[j], p),
               ~Removes(m, p)
        PROVE  \E k \in 1 .. n + 1 : Adds(r[k], p) /\ \A j \in k + 1 .. n + 1 : ~Removes(r[j], p)
    <3>1. i \in 1 .. n + 1 /\ i \in 0 .. n
      BY <1>1
    <3>2. Adds(r[i], p) /\ \A j \in i + 1 .. n + 1 : ~Removes(r[j], p)
      BY <1>1, <1>2, <2>3, <3>1
    <3> QED
      BY <3>1, <3>2
  <2>4. ASSUME Adds(m, p)
        PROVE  \E k \in 1 .. n + 1 : Adds(r[k], p) /\ \A j \in k + 1 .. n + 1 : ~Removes(r[j], p)
    <3>1. n + 1 \in 1 .. n + 1 /\ (n + 1) + 1 = n + 2
      BY <1>1
    <3> QED
      BY <1>1, <2>1, <2>4, <3>1
  <2> QED
    BY <2>2, <2>3, <2>4
<1>5. KnowsAfter(peers, r, p) <=> Adds(m, p) \/ (KnowsAfter(peers, q, p) /\ ~Removes(m, p))
  <2>1. KnowsAfter(peers, r, p)
          <=> \/ p \in peers /\ \A i \in 1 .. n + 1 : ~Removes(r[i], p)
              \/ \E i \in 1 .. n + 1 : Adds(r[i], p) /\ \A j \in i + 1 .. n + 1 : ~Removes(r[j], p)
    BY <1>1 DEF KnowsAfter
  <2>2. KnowsAfter(peers, q, p)
          <=> \/ p \in peers /\ \A i \in 1 .. n : ~Removes(q[i], p)
              \/ \E i \in 1 .. n : Adds(q[i], p) /\ \A j \in i + 1 .. n : ~Removes(q[j], p)
    BY DEF KnowsAfter
  <2> QED
    BY <1>3, <1>4, <2>1, <2>2
<1> QED
  BY <1>5 DEF r

\* Data, acks and errors tell nothing of peers.
LEMMA KnowsNeutral ==
  ASSUME NEW peers, NEW q \in Seq(RelayMsg), NEW r \in Seq(RelayMsg), NEW p,
         \A i \in 1 .. Len(r) : Neutral(r[i])
  PROVE  KnowsAfter(peers, q \o r, p) <=> KnowsAfter(peers, q, p)
<1> DEFINE n == Len(q)
           k == Len(q \o r)
           s == q \o r
<1>1. \A i \in 1 .. Len(r) : ~Adds(r[i], p) /\ ~Removes(r[i], p)
  BY DEF Neutral, Adds, Removes
<1>2. /\ n \in Nat /\ k \in Nat /\ n =< k
      /\ \A i \in 1 .. n : s[i] = q[i]
      /\ \A i \in n + 1 .. k : s[i] = r[i - n] /\ i - n \in 1 .. Len(r)
  <2> HIDE DEF RelayMsg
  <2> QED
    OBVIOUS
<1> HIDE DEF s, k, n
<1>3. \A i \in 1 .. k : IF i \in 1 .. n THEN s[i] = q[i] ELSE ~Adds(s[i], p) /\ ~Removes(s[i], p)
  <2>1. \A i \in 1 .. k : i \in 1 .. n \/ i \in n + 1 .. k
    BY <1>2
  <2> QED
    BY <1>1, <1>2, <2>1
<1>4. \A i \in 1 .. n : i \in 1 .. k
  BY <1>2
<1>5. (\A i \in 1 .. k : ~Removes(s[i], p)) <=> (\A i \in 1 .. n : ~Removes(q[i], p))
  BY <1>3, <1>4
<1>6. ASSUME NEW i \in 1 .. n
      PROVE  (\A j \in i + 1 .. k : ~Removes(s[j], p)) <=> (\A j \in i + 1 .. n : ~Removes(q[j], p))
  <2>1. /\ \A j \in i + 1 .. k : j \in 1 .. k /\ (j \in 1 .. n => j \in i + 1 .. n)
        /\ \A j \in i + 1 .. n : j \in i + 1 .. k /\ j \in 1 .. n /\ j \in 1 .. k
    BY <1>2
  <2> QED
    BY <1>3, <2>1
<1>7. (\E i \in 1 .. k : Adds(s[i], p) /\ \A j \in i + 1 .. k : ~Removes(s[j], p))
        <=> (\E i \in 1 .. n : Adds(q[i], p) /\ \A j \in i + 1 .. n : ~Removes(q[j], p))
  BY <1>3, <1>4, <1>6
<1> QED
  BY <1>5, <1>7 DEF KnowsAfter, s, k, n

\* What was on its way tells the same once its first message is handled.
LEMMA KnowsNext ==
  ASSUME NEW peers, NEW others, NEW q \in Seq(RelayMsg), q # <<>>, NEW p,
         p \in others <=> Adds(q[1], p) \/ (p \in peers /\ ~Removes(q[1], p))
  PROVE  KnowsAfter(others, Tail(q), p) <=> KnowsAfter(peers, q, p)
<1> DEFINE n == Len(q)
           r == Tail(q)
<1>1. /\ n \in Nat /\ n >= 1 /\ Len(r) = n - 1 /\ n - 1 \in Nat
      /\ \A i \in 1 .. n - 1 : r[i] = q[i + 1]
  <2> HIDE DEF RelayMsg
  <2> QED
    OBVIOUS
<1> HIDE DEF r, n
<1>2. ASSUME NEW i \in 0 .. n - 1
      PROVE  (\A j \in i + 1 .. n - 1 : ~Removes(r[j], p)) <=> (\A j \in i + 2 .. n : ~Removes(q[j], p))
  <2>1. ASSUME NEW j \in i + 1 .. n - 1
        PROVE  j + 1 \in i + 2 .. n /\ r[j] = q[j + 1]
    BY <1>1
  <2>2. ASSUME NEW j \in i + 2 .. n
        PROVE  j - 1 \in i + 1 .. n - 1 /\ q[j] = r[j - 1]
    <3>1. j - 1 \in 1 .. n - 1 /\ (j - 1) + 1 = j /\ j - 1 \in i + 1 .. n - 1
      BY <1>1
    <3> QED
      BY <1>1, <3>1
  <2> QED
    BY <2>1, <2>2
<1>3. (\A j \in 1 .. n - 1 : ~Removes(r[j], p)) <=> (\A j \in 2 .. n : ~Removes(q[j], p))
  <2>1. 0 \in 0 .. n - 1 /\ 0 + 1 = 1 /\ 0 + 2 = 2
    BY <1>1
  <2>2. (\A j \in 0 + 1 .. n - 1 : ~Removes(r[j], p)) <=> (\A j \in 0 + 2 .. n : ~Removes(q[j], p))
    BY <1>2, <2>1
  <2> QED
    BY <2>1, <2>2
<1>4. (\A j \in 1 .. n : ~Removes(q[j], p)) <=> ~Removes(q[1], p) /\ \A j \in 2 .. n : ~Removes(q[j], p)
  <2>1. 1 .. n = {1} \cup (2 .. n)
    BY <1>1
  <2> QED
    BY <2>1
<1>5. (\E i \in 1 .. n - 1 : Adds(r[i], p) /\ \A j \in i + 1 .. n - 1 : ~Removes(r[j], p))
        <=> (\E i \in 2 .. n : Adds(q[i], p) /\ \A j \in i + 1 .. n : ~Removes(q[j], p))
  <2>1. ASSUME NEW i \in 1 .. n - 1, Adds(r[i], p), \A j \in i + 1 .. n - 1 : ~Removes(r[j], p)
        PROVE  \E k \in 2 .. n : Adds(q[k], p) /\ \A j \in k + 1 .. n : ~Removes(q[j], p)
    <3>1. i + 1 \in 2 .. n /\ (i + 1) + 1 = i + 2 /\ i \in 0 .. n - 1 /\ r[i] = q[i + 1]
      BY <1>1
    <3>2. \A j \in i + 2 .. n : ~Removes(q[j], p)
      BY <1>2, <2>1, <3>1
    <3> QED
      BY <2>1, <3>1, <3>2
  <2>2. ASSUME NEW i \in 2 .. n, Adds(q[i], p), \A j \in i + 1 .. n : ~Removes(q[j], p)
        PROVE  \E k \in 1 .. n - 1 : Adds(r[k], p) /\ \A j \in k + 1 .. n - 1 : ~Removes(r[j], p)
    <3>1. PICK k \in 1 .. n - 1 : k + 1 = i
      <4>1. i - 1 \in 1 .. n - 1 /\ (i - 1) + 1 = i
        BY <1>1
      <4> QED
        BY <4>1
    <3>2. k \in 0 .. n - 1 /\ r[k] = q[i] /\ i + 1 = k + 2
      BY <1>1, <3>1
    <3>3. \A j \in k + 1 .. n - 1 : ~Removes(r[j], p)
      BY <1>2, <2>2, <3>2
    <3> QED
      BY <2>2, <3>2, <3>3
  <2> QED
    BY <2>1, <2>2
<1>6. (\E i \in 1 .. n : Adds(q[i], p) /\ \A j \in i + 1 .. n : ~Removes(q[j], p))
        <=> \/ Adds(q[1], p) /\ \A j \in 2 .. n : ~Removes(q[j], p)
            \/ \E i \in 2 .. n : Adds(q[i], p) /\ \A j \in i + 1 .. n : ~Removes(q[j], p)
  <2>1. 1 .. n = {1} \cup (2 .. n) /\ 1 + 1 = 2
    BY <1>1
  <2> QED
    BY <2>1
<1>7. KnowsAfter(others, r, p)
        <=> \/ p \in others /\ \A i \in 1 .. n - 1 : ~Removes(r[i], p)
            \/ \E i \in 1 .. n - 1 : Adds(r[i], p) /\ \A j \in i + 1 .. n - 1 : ~Removes(r[j], p)
  BY <1>1 DEF KnowsAfter
<1>8. KnowsAfter(peers, q, p)
        <=> \/ p \in peers /\ \A i \in 1 .. n : ~Removes(q[i], p)
            \/ \E i \in 1 .. n : Adds(q[i], p) /\ \A j \in i + 1 .. n : ~Removes(q[j], p)
  BY DEF KnowsAfter, n
<1> QED
  BY <1>3, <1>4, <1>5, <1>6, <1>7, <1>8 DEF r

\* A joined message replaces the peers of a client.
LEMMA AfterJoined ==
  ASSUME NEW peers, NEW q \in Seq(RelayMsg), NEW known \in SUBSET Sockets
  PROVE  After(peers, q \o <<JoinedMsg(known)>>) = known
<1>1. JoinedMsg(known) \in RelayMsg
  BY RoomMessages
<1>2. \A p : (Adds(JoinedMsg(known), p) <=> p \in known) /\ (Removes(JoinedMsg(known), p) <=> p \notin known)
  BY DEF Adds, Removes, JoinedMsg
<1> QED
  BY <1>1, <1>2, KnowsMore DEF After

\* The news that a peer has joined adds it.
LEMMA AfterPeerJoined ==
  ASSUME NEW peers, NEW q \in Seq(RelayMsg), NEW s \in Sockets
  PROVE  After(peers, q \o <<PeerJoinedMsg(s)>>) = After(peers, q) \cup {s}
<1>1. PeerJoinedMsg(s) \in RelayMsg
  BY RoomMessages
<1>2. \A p : (Adds(PeerJoinedMsg(s), p) <=> p = s) /\ ~Removes(PeerJoinedMsg(s), p)
  BY DEF Adds, Removes, PeerJoinedMsg
<1> QED
  BY <1>1, <1>2, KnowsMore DEF After

\* The news that a peer has left takes it out.
LEMMA AfterPeerLeft ==
  ASSUME NEW peers, NEW q \in Seq(RelayMsg), NEW s \in Sockets
  PROVE  After(peers, q \o <<PeerLeftMsg(s)>>) = After(peers, q) \ {s}
<1>1. PeerLeftMsg(s) \in RelayMsg
  BY RoomMessages
<1>2. \A p : (Removes(PeerLeftMsg(s), p) <=> p = s) /\ ~Adds(PeerLeftMsg(s), p)
  BY DEF Adds, Removes, PeerLeftMsg
<1> QED
  BY <1>1, <1>2, KnowsMore DEF After

\* The client's handlers do what the messages say.
LEMMA AfterNext ==
  ASSUME NEW x \in FullClient, NEW q \in Seq(RelayMsg), q # <<>>, q[1].type # "close"
  PROVE  /\ After(Handle(x, q[1]).peers, Tail(q)) = After(x.peers, q)
         /\ Handle(x, q[1]).sock = x.sock
<1> DEFINE m == q[1]
           y == Handle(x, m)
<1>1. m \in RelayMsg
  <2> HIDE DEF RelayMsg
  <2> QED
    OBVIOUS
<1>2. (\A p \in Sockets : p \in y.peers <=> Adds(m, p) \/ (p \in x.peers /\ ~Removes(m, p)))
      /\ y.sock = x.sock
  <2> HIDE DEF m
  <2>1. CASE m.type = "joined"
    <3>1. y = Joined(x, m.peers)
      BY <2>1 DEF Handle
    <3>2. y.peers = m.peers /\ y.sock = x.sock
      BY <3>1 DEF Joined, FullClient
    <3> QED
      BY <2>1, <3>2 DEF Adds, Removes
  <2>2. CASE m.type = "peer_joined"
    <3>1. y = PeerJoined(x, m.id)
      BY <2>2 DEF Handle
    <3>2. y.peers = x.peers \cup {m.id} /\ y.sock = x.sock
      BY <3>1 DEF PeerJoined, FullClient
    <3> QED
      BY <2>2, <3>2 DEF Adds, Removes
  <2>3. CASE m.type = "peer_left"
    <3>1. y = PeerLeft(x, m.id)
      BY <2>3 DEF Handle
    <3>2. y.peers = x.peers \ {m.id} /\ y.sock = x.sock
      BY <3>1 DEF PeerLeft, FullClient
    <3> QED
      BY <2>3, <3>2 DEF Adds, Removes
  <2>4. CASE m.type = "ack"
    <3>1. y = Acked(x, m.seq)
      BY <2>4 DEF Handle
    <3>2. y.peers = x.peers /\ y.sock = x.sock
      BY <3>1 DEF Acked, FullClient
    <3> QED
      BY <2>4, <3>2 DEF Adds, Removes
  <2>5. CASE m.type \in {"error", "data"}
    BY <2>5 DEF Handle, Adds, Removes
  <2> QED
    BY <1>1, <2>1, <2>2, <2>3, <2>4, <2>5 DEF RelayMsg, m
<1>3. \A p \in Sockets : KnowsAfter(y.peers, Tail(q), p) <=> KnowsAfter(x.peers, q, p)
  <2> HIDE DEF y
  <2> QED
    BY <1>2, KnowsNext DEF m
<1> QED
  BY <1>2, <1>3 DEF After

\* Of one client.
Agrees(c) ==
  cl[c].sock \in sessions =>
    /\ sessions \ {cl[c].sock} \subseteq PeersAfter(c)
    /\ PeersAfter(c) \ sessions \subseteq late

\* A session whose socket the relay has seen close was registered after that.
LateSessions == sessions \ open \subseteq late

\* The sockets that closed before their session was registered are all the relay forgets when it is
\* evicted.
LEMMA LateStep ==
  ASSUME IInv, LateSessions, [Next]_vars
  PROVE  LateSessions' /\ late \subseteq late'
<1>1. ASSUME NEW c \in Clients, ClientStep(c)
      PROVE  sessions' = sessions /\ open \subseteq open' /\ late' = late
  <2>1. CASE Open(c)
    BY <2>1 DEF Open, Accept
  <2>2. Connect(c) \/ Drop(c) \/ Disconnect(c) \/ Deliver(c) => UNCHANGED <<open, sessions, late>>
    BY DEF Connect, Drop, Disconnect, Deliver
  <2>3. ReconnectTimer(c) \/ OpenFails(c) \/ SendData(c) \/ AckTimeout(c)
          => UNCHANGED <<open, sessions, late>>
    BY DEF ReconnectTimer, OpenFails, SendData, AckTimeout, roomVars
  <2> QED
    BY <1>1, <2>1, <2>2, <2>3 DEF ClientStep
<1>2. ASSUME NEW s \in Sockets, RoomStep(s)
      PROVE  LateSessions' /\ late \subseteq late'
  <2>1. CASE HandleJoin(s)
    BY <2>1 DEF HandleJoin, BeginJoin, LateSessions
  <2>2. CASE JoinVerified(s)
    BY <2>2 DEF JoinVerified, FinishJoin, LateSessions
  <2>3. CASE JoinRefused(s)
    BY <2>3 DEF JoinRefused, RejectJoin, LateSessions
  <2>4. CASE HandleLeave(s)
    BY <2>4 DEF HandleLeave, LeaveMsg, Leave, LateSessions
  <2>5. CASE HandleData(s)
    BY <2>5 DEF HandleData, LateSessions
  <2>6. CASE HandleClose(s)
    BY <2>6 DEF HandleClose, Closed, Leave, LateSessions
  <2> QED
    BY <1>2, <2>1, <2>2, <2>3, <2>4, <2>5, <2>6 DEF RoomStep
<1>3. CASE Evict \/ UNCHANGED vars
  BY <1>3 DEF Evict, Hibernate, vars, roomVars, LateSessions
<1> QED
  BY <1>1, <1>2, <1>3 DEF Next, LateSessions

\* The relay's answers to a data message are no news of peers.
LEMMA DataIsNeutral ==
  ASSUME Types, NEW r \in Sockets, HandleData(r), NEW t \in Sockets
  PROVE  \E msgs \in Seq(RelayMsg) :
           /\ \A i \in 1 .. Len(msgs) : Neutral(msgs[i])
           /\ down'[t] = IF t \in live THEN down[t] \o msgs ELSE down[t]
<1> DEFINE msg == Head(up[r]).msg
           Good(msgs) == msgs \in Seq(RelayMsg) /\ \A i \in 1 .. Len(msgs) : Neutral(msgs[i])
<1>1. msg \in ClientMessage /\ msg.seq \in Nat
  <2>1. Head(up[r]) \in UpMsg /\ Head(up[r]).type = "data"
    BY DEF HandleData, Arrived, Types
  <2> QED
    BY <2>1 DEF UpMsg, ClientMessage
<1>2. RateLimited(live, r) \/ Retry(live, r, msg) \/ Undeliverable(live, r, msg) \/ Relay(live, r, msg)
  BY DEF HandleData
<1>3. /\ AckMsg(msg.seq) \in RelayMsg /\ Neutral(AckMsg(msg.seq))
      /\ \A code \in {"rate_limited", "peer_not_found"} :
           ErrorMsg(code) \in RelayMsg /\ Neutral(ErrorMsg(code))
      /\ RelayedMsg(r, msg) \in RelayMsg /\ Neutral(RelayedMsg(r, msg))
  BY <1>1, RoomMessages DEF AckMsg, ErrorMsg, RelayedMsg, Neutral
<1> HIDE DEF msg
<1>4. Good(<<>>)
  OBVIOUS
<1>5. ASSUME NEW m \in RelayMsg, Neutral(m) PROVE Good(<<m>>)
  <2>1. <<m>> \in Seq(RelayMsg) /\ Len(<<m>>) = 1 /\ <<m>>[1] = m
    OBVIOUS
  <2> QED
    BY <1>5, <2>1
<1>6. ASSUME NEW m \in RelayMsg, Neutral(m), Reply(live, r, m)
      PROVE  \E msgs : Good(msgs) /\ down'[t] = IF t \in live THEN down[t] \o msgs ELSE down[t]
  <2>1. down'[t] = IF t \in live THEN down[t] \o (IF t = r THEN <<m>> ELSE <<>>) ELSE down[t]
    BY <1>6 DEF Reply, Send
  <2>2. Good(IF t = r THEN <<m>> ELSE <<>>)
    BY <1>4, <1>5, <1>6
  <2> HIDE DEF Good
  <2> QED
    BY <2>1, <2>2
<1>7. CASE RateLimited(live, r) \/ Retry(live, r, msg) \/ Undeliverable(live, r, msg)
  BY <1>3, <1>6, <1>7 DEF RateLimited, Retry, Undeliverable
<1>8. CASE Relay(live, r, msg)
  <2> DEFINE data == IF t \in Recipients(r, msg) THEN <<RelayedMsg(r, msg)>> ELSE <<>>
             ack  == IF t = r THEN <<AckMsg(msg.seq)>> ELSE <<>>
  <2>1. down'[t] = IF t \in live THEN down[t] \o (data \o ack) ELSE down[t]
    BY <1>8 DEF Relay, Send
  <2>2. Good(data) /\ Good(ack)
    BY <1>3, <1>4, <1>5
  <2> HIDE DEF data, ack
  <2>3. Good(data \o ack)
    <3>1. /\ data \o ack \in Seq(RelayMsg) /\ Len(data) \in Nat /\ Len(ack) \in Nat
          /\ Len(data \o ack) = Len(data) + Len(ack)
          /\ \A i \in 1 .. Len(data) : (data \o ack)[i] = data[i]
          /\ \A i \in Len(data) + 1 .. Len(data \o ack) : (data \o ack)[i] = ack[i - Len(data)]
      <4> HIDE DEF RelayMsg
      <4> QED
        BY <2>2, Appended
    <3>2. ASSUME NEW i \in 1 .. Len(data \o ack) PROVE Neutral((data \o ack)[i])
      <4>1. CASE i \in 1 .. Len(data)
        BY <2>2, <3>1, <4>1
      <4>2. CASE i \in Len(data) + 1 .. Len(data \o ack)
        <5>1. i - Len(data) \in 1 .. Len(ack)
          BY <3>1, <4>2
        <5> QED
          BY <2>2, <3>1, <4>2, <5>1
      <4> QED
        BY <3>1, <4>1, <4>2
    <3> QED
      BY <3>1, <3>2
  <2> QED
    BY <2>1, <2>3
<1> QED
  BY <1>2, <1>7, <1>8

\* The relay tells the sessions that stay of those that come and go.
LEMMA AgreesRoom ==
  ASSUME IInv, LateSessions, NEW c \in Clients, Agrees(c), NEW r \in Sockets, RoomStep(r)
  PROVE  Agrees(c)'
<1>0. PICK s : s = cl[c].sock
  OBVIOUS
<1>P. PICK P : P = cl[c].peers
  OBVIOUS
<1>q. PICK q : q = down[s]
  OBVIOUS
<1>1. cl' = cl /\ late \subseteq late'
  BY LateStep, RoomSets DEF Next
<1> SUFFICES ASSUME s \in sessions'
             PROVE  /\ sessions' \ {s} \subseteq After(P, down'[s])
                    /\ After(P, down'[s]) \ sessions' \subseteq late'
  BY <1>0, <1>P, <1>1 DEF Agrees, PeersAfter, After
<1>2. Types /\ Joins
  BY DEF IInv
<1>3. sessions \subseteq Sockets /\ sessions' \subseteq Sockets
  BY <1>2, RoomSets DEF Types
<1>4. s \in Sockets /\ s \in live /\ q \in Seq(RelayMsg) /\ P \subseteq Sockets
  <2>1. s \in Sockets
    BY <1>3
  <2>2. q \in Seq(RelayMsg) /\ P \subseteq Sockets
    BY <1>2, <1>P, <1>q, <2>1 DEF Types, FullClient
  <2> QED
    BY <1>0, <2>1, <2>2, ChannelAssumption DEF live
<1>5. s \in sessions => sessions \ {s} \subseteq After(P, q) /\ After(P, q) \ sessions \subseteq late
  BY <1>0, <1>P, <1>q DEF Agrees, PeersAfter, After
<1>6. ASSUME s \in sessions, sessions' = sessions, After(P, down'[s]) = After(P, q)
      PROVE  sessions' \ {s} \subseteq After(P, down'[s]) /\ After(P, down'[s]) \ sessions' \subseteq late'
  BY <1>1, <1>5, <1>6
<1>leave. ASSUME Leave(live, r), r \in sessions
          PROVE  sessions' \ {s} \subseteq After(P, down'[s]) /\ After(P, down'[s]) \ sessions' \subseteq late'
  <2>1. sessions' = sessions \ {r} /\ s # r /\ s \in sessions
    BY <1>leave DEF Leave
  <2>2. down'[s] = q \o <<PeerLeftMsg(r)>>
    BY <1>q, <1>4, <1>leave, <2>1 DEF Leave, Send
  <2>3. After(P, down'[s]) = After(P, q) \ {r}
    BY <1>4, <2>2, AfterPeerLeft
  <2> QED
    BY <1>1, <1>5, <2>1, <2>3
<1>7. CASE HandleJoin(r)
  BY <1>q, <1>6, <1>7 DEF HandleJoin, BeginJoin
<1>8. CASE JoinVerified(r)
  <2>1. sessions' = sessions \cup {r} /\ r \in joining /\ r \notin sessions
    BY <1>2, <1>8 DEF JoinVerified, FinishJoin, Joins
  <2>2. down'[s] = q \o (CASE s = r -> <<JoinedMsg(sessions)>>
                           [] s \in sessions \ {r} -> <<PeerJoinedMsg(r)>>
                           [] OTHER -> <<>>)
    BY <1>q, <1>4, <1>8 DEF JoinVerified, FinishJoin, Send
  <2>3. CASE s = r
    <3>1. down'[s] = q \o <<JoinedMsg(sessions)>>
      BY <2>2, <2>3
    <3>2. After(P, down'[s]) = sessions
      BY <1>3, <1>4, <3>1, AfterJoined
    <3> QED
      BY <2>1, <2>3, <3>2
  <2>4. CASE s # r
    <3>1. s \in sessions /\ down'[s] = q \o <<PeerJoinedMsg(r)>>
      BY <2>1, <2>2, <2>4
    <3>2. After(P, down'[s]) = After(P, q) \cup {r}
      BY <1>4, <3>1, AfterPeerJoined
    <3> QED
      BY <1>1, <1>5, <2>1, <3>1, <3>2
  <2> QED
    BY <2>3, <2>4
<1>9. CASE JoinRefused(r)
  <2>1. sessions' = sessions /\ r \in joining /\ r \notin sessions
    BY <1>2, <1>9 DEF JoinRefused, RejectJoin, Joins
  <2>2. down'[s] = q \o <<>>
    BY <1>q, <1>4, <1>9, <2>1 DEF JoinRefused, RejectJoin, Send
  <2>3. down'[s] = q
    BY <1>4, <2>2
  <2> QED
    BY <1>6, <2>1, <2>3
<1>10. CASE HandleLeave(r)
  BY <1>10, <1>leave DEF HandleLeave, LeaveMsg
<1>11. CASE HandleData(r)
  <2>1. PICK msgs \in Seq(RelayMsg) :
          (\A i \in 1 .. Len(msgs) : Neutral(msgs[i])) /\ down'[s] = q \o msgs
    BY <1>q, <1>2, <1>4, <1>11, DataIsNeutral DEF Types
  <2>2. After(P, down'[s]) = After(P, q)
    BY <1>4, <2>1, KnowsNeutral DEF After
  <2>3. sessions' = sessions
    BY <1>11 DEF HandleData
  <2> QED
    BY <1>6, <2>2, <2>3
<1>12. CASE HandleClose(r)
  <2>1. CASE r \in sessions
    BY <1>12, <1>leave, <2>1 DEF HandleClose, Closed
  <2>2. CASE r \notin sessions
    BY <1>q, <1>6, <1>12, <2>2 DEF HandleClose, Closed
  <2> QED
    BY <2>1, <2>2
<1> QED
  BY <1>7, <1>8, <1>9, <1>10, <1>11, <1>12 DEF RoomStep

\* A client changes what it knows of its peers as the relay's messages say, or ends its connection.
LEMMA AgreesClient ==
  ASSUME IInv, NEW c \in Clients, Agrees(c), NEW d \in Clients, ClientStep(d)
  PROVE  Agrees(c)'
<1>0. PICK s : s = cl[c].sock
  OBVIOUS
<1>1. Types /\ Connection /\ Own /\ Fresh /\ NoSocket \notin sessions
  BY ChannelAssumption DEF IInv, Types
<1>2. sessions' = sessions /\ late' = late
  <2>1. Connect(d) \/ Drop(d) \/ Disconnect(d) \/ Deliver(d) \/ Open(d) => UNCHANGED <<sessions, late>>
    BY DEF Connect, Drop, Disconnect, Deliver, Open
  <2>2. ReconnectTimer(d) \/ OpenFails(d) \/ SendData(d) \/ AckTimeout(d) => UNCHANGED <<sessions, late>>
    BY DEF ReconnectTimer, OpenFails, SendData, AckTimeout, roomVars
  <2> QED
    BY <2>1, <2>2 DEF ClientStep
<1>3. ASSUME cl'[c].sock \notin sessions
      PROVE  Agrees(c)'
  BY <1>2, <1>3 DEF Agrees
<1>4. ASSUME s \in sessions, cl'[c].sock = s, After(cl'[c].peers, down'[s]) = After(cl[c].peers, down[s])
      PROVE  Agrees(c)'
  BY <1>0, <1>2, <1>4 DEF Agrees, PeersAfter, After
<1>5. CASE s \in sessions /\ c # d
  <2>1. cl'[c] = cl[c]
    BY <1>1, <1>5, ClientChanges
  <2>2. s \in Sockets /\ s # cl[d].sock
    BY <1>0, <1>1, <1>5 DEF Own, Types
  <2>3. down'[s] = down[s]
    BY <1>1, <2>2, ClientDown, DeliverDown
  <2> QED
    BY <1>0, <1>4, <1>5, <2>1, <2>3
<1>6. CASE s \notin sessions \/ c = d
  <2> DEFINE x == cl[c]
             y == cl'[c]
  <2>1. x \in FullClient
    BY <1>1 DEF Types
  <2>2. ASSUME NEW z, Set(d, z) PROVE c = d => y = z
    BY <1>1, <2>2 DEF Set, Types
  <2>3. c # d => y = x
    BY <1>1, ClientChanges
  <2>4. CASE s \notin sessions
    <3>1. y.sock = NoSocket \/ y.sock = s \/ y.sock \in fresh
      BY <1>0, <1>1, <2>3, ClientChanges DEF Changes
    <3>2. \A t \in fresh : t \notin sessions
      BY <1>1 DEF Fresh, Untried
    <3> QED
      BY <1>1, <1>3, <2>4, <3>1, <3>2
  <2>5. CASE s \in sessions /\ c = d
    <3>1. x.opened
      BY <1>0, <1>1, <2>5 DEF Fresh, Untried
    <3>2. CASE Connect(c) \/ ReconnectTimer(c)
      <4>1. NewId \in fresh /\ (y = Connecting(x, NewId) \/ y = Reconnecting(x, NewId))
        BY <2>2, <2>5, <3>2 DEF Connect, ReconnectTimer, NewId
      <4>2. y.sock = NewId
        BY <2>1, <4>1 DEF Connecting, Reconnecting, FullClient
      <4>3. NewId \notin sessions
        BY <1>1, <4>1 DEF Fresh, Untried
      <4> QED
        BY <1>3, <4>2, <4>3
    <3>3. CASE Open(c) \/ OpenFails(c)
      BY <3>1, <3>3 DEF Open, OpenFails
    <3>4. CASE Drop(c) \/ Disconnect(c)
      <4>1. y = Lost(x) \/ y = Disconnected(x)
        BY <2>2, <2>5, <3>4 DEF Drop, Disconnect
      <4>2. y.sock = NoSocket
        BY <2>1, <4>1 DEF Lost, Disconnected, FullClient
      <4> QED
        BY <1>1, <1>3, <4>2
    <3>5. CASE SendData(c)
      <4>1. PICK m : y = Tracked(x, m)
        BY <2>2, <2>5, <3>5 DEF SendData
      <4>2. y.sock = s /\ y.peers = x.peers
        BY <1>0, <2>1, <4>1 DEF Tracked, FullClient
      <4> QED
        BY <1>4, <2>5, <3>5, <4>2 DEF SendData, roomVars
    <3>6. CASE AckTimeout(c)
      <4>1. PICK p : y = Retried(x, p) \/ y = Failed(x, p)
        BY <2>2, <2>5, <3>6 DEF AckTimeout
      <4>2. y.sock = s /\ y.peers = x.peers
        BY <1>0, <2>1, <4>1 DEF Retried, Failed, FullClient
      <4> QED
        BY <1>4, <2>5, <3>6, <4>2 DEF AckTimeout, roomVars
    <3>7. CASE Deliver(c)
      <4> DEFINE q == down[s]
      <4>1. q # <<>> /\ q \in Seq(RelayMsg) /\ q[1] = Head(q)
        BY <1>0, <1>1, <3>7, DeliverDown DEF Types
      <4>2. y = Handle(x, q[1])
        BY <1>0, <2>2, <2>5, <3>7, <4>1 DEF Deliver
      <4>3. down'[s] = IF q[1].type = "close" THEN <<>> ELSE Tail(q)
        BY <1>0, <1>1, <3>7, <4>1, DeliverDown DEF Deliver, Types
      <4> HIDE DEF q, x, y
      <4>4. CASE q[1].type = "close"
        <5>1. y = Lost(x)
          BY <4>2, <4>4 DEF Handle
        <5>2. y.sock = NoSocket
          BY <2>1, <5>1 DEF Lost, FullClient
        <5> QED
          BY <1>1, <1>3, <5>2 DEF y
      <4>5. CASE q[1].type # "close"
        <5>1. After(y.peers, down'[s]) = After(x.peers, q) /\ y.sock = x.sock
          BY <2>1, <4>1, <4>2, <4>3, <4>5, AfterNext
        <5> QED
          BY <1>0, <1>4, <2>5, <5>1 DEF x, y, q
      <4> QED
        BY <4>4, <4>5
    <3> QED
      BY <2>5, <3>2, <3>3, <3>4, <3>5, <3>6, <3>7 DEF ClientStep
  <2> QED
    BY <1>6, <2>4, <2>5
<1> QED
  BY <1>5, <1>6

\* An eviction forgets only sessions whose socket has closed, and only when nothing is on its way.
LEMMA AgreesEvict ==
  ASSUME IInv, LateSessions, NEW c \in Clients, Agrees(c), Evict
  PROVE  Agrees(c)'
<1>1. cl' = cl /\ down' = down /\ late' = late /\ sessions' = sessions \cap open
  BY DEF Evict, Hibernate
<1> QED
  BY <1>1 DEF Agrees, PeersAfter, LateSessions

\* However joins, leaves, lost connections and evictions interleave, a client that has joined learns
\* of every session, and keeps none that ended but those registered for a socket that had closed.
THEOREM PeersCorrect == Spec => []PeersAgree
<1> DEFINE AllAgree == LateSessions /\ \A c \in Clients : Agrees(c)
<1>1. Init => AllAgree
  BY DEF Init, EmptyRoom, Agrees, LateSessions
<1>2. IInv /\ AllAgree /\ [Next]_vars => AllAgree'
  <2> SUFFICES ASSUME IInv, AllAgree, [Next]_vars
               PROVE  AllAgree'
    OBVIOUS
  <2>1. LateSessions'
    BY LateStep
  <2>2. ASSUME NEW c \in Clients
        PROVE  Agrees(c)'
    <3>1. CASE UNCHANGED vars
      BY <3>1 DEF Agrees, PeersAfter, vars, roomVars
    <3> QED
      BY <3>1, AgreesRoom, AgreesClient, AgreesEvict DEF Next
  <2> QED
    BY <2>1, <2>2
<1>3. AllAgree => PeersAgree
  BY DEF Agrees, PeersAgree
<1> HIDE DEF AllAgree
<1> QED
  BY <1>1, <1>2, <1>3, Invariance, PTL DEF Spec
=============================================================================
