----------------------------- MODULE ChannelRoom -----------------------------
(***************************************************************************)
(* The relay of a channel (class ChannelRoom of channel-worker, a Durable  *)
(* Object): the sockets of the channel, the sessions that have joined, and *)
(* the delivery of data messages with acks, duplicate suppression and rate *)
(* limiting.  The relay names each connection by a fresh client ID; a      *)
(* socket and its client ID are one value here.                            *)
(*                                                                         *)
(* Replay buffers are left out: a rejoining client has a new client ID, so *)
(* the buffer of the one that joins is always empty (channel-room.ts       *)
(* bufferMessage says so).                                                 *)
(***************************************************************************)
EXTENDS Integers, Sequences

CONSTANTS
  Sockets,     \* client IDs, one per connection, over the whole run
  Everyone     \* the destination of a broadcast

ASSUME RoomAssumption == Everyone \notin Sockets

VARIABLES
  open,       \* sockets the relay has accepted and not seen close
  joining,    \* sockets whose join awaits the verification of its token
  sessions,   \* sockets with a session (sessions and clientSockets)
  lastSeen,   \* lastSeenSeq, 0 for none
  down        \* relay-to-client messages in flight, per socket

roomVars == <<open, joining, sessions, lastSeen, down>>

EmptyRoom ==
  /\ open = {} /\ joining = {} /\ sessions = {}
  /\ lastSeen = [s \in Sockets |-> 0]
  /\ down = [s \in Sockets |-> <<>>]

-----------------------------------------------------------------------------
(* Messages.  `by' and the `seq' of a data message name it over all connections of its sender. *)

JoinedMsg(peers) == [type |-> "joined", peers |-> peers]
PeerJoinedMsg(s) == [type |-> "peer_joined", id |-> s]
PeerLeftMsg(s) == [type |-> "peer_left", id |-> s]
AckMsg(seq) == [type |-> "ack", seq |-> seq]
ErrorMsg(code) == [type |-> "error", code |-> code]
RelayedMsg(s, msg) == [type |-> "data", from |-> s, seq |-> msg.seq]
CloseMsg == [type |-> "close"]    \* the relay's end of the socket is closed

\* What is sent to a socket that is closed at the other end goes nowhere; `live' are the others.
Send(live, msgs) ==
  down' = [s \in Sockets |-> IF s \in live THEN down[s] \o msgs[s] ELSE down[s]]

-----------------------------------------------------------------------------
\* fetch: a WebSocket upgrade is accepted.
Accept(s) == open' = open \cup {s}

\* handleJoin up to validateJwt, which awaits the key set and the signature check.
BeginJoin(s) ==
  /\ joining' = joining \cup {s}
  /\ UNCHANGED <<open, sessions, lastSeen, down>>

\* handleJoin after it: the session is registered, whatever became of the socket meanwhile; it is
\* told its peers, and they are told of it.
JoinLeavesOutNew(live, s) ==   \* mutant: the peers are not told
  /\ s \in joining
  /\ joining' = joining \ {s}
  /\ sessions' = sessions \cup {s}
  /\ Send(live, [t \in Sockets |-> IF t = s THEN <<JoinedMsg(sessions)>> ELSE <<>>])
  /\ UNCHANGED <<open, lastSeen>>

FinishJoin(live, s) ==
  /\ s \in joining
  /\ joining' = joining \ {s}
  /\ sessions' = sessions \cup {s}
  /\ Send(live, [t \in Sockets |-> CASE t = s                -> <<JoinedMsg(sessions)>>
                                     [] t \in sessions \ {s} -> <<PeerJoinedMsg(s)>>
                                     [] OTHER                -> <<>>])
  /\ UNCHANGED <<open, lastSeen>>

\* The token has expired, or is not valid: a fatal error, and the socket is closed.
RejectJoin(live, s) ==
  /\ s \in joining
  /\ joining' = joining \ {s}
  /\ Send(live, [t \in Sockets |-> IF t = s THEN <<ErrorMsg("auth_failed"), CloseMsg>> ELSE <<>>])
  /\ UNCHANGED <<open, sessions, lastSeen>>

\* handleLeave, for a leave message and for a closed socket.
Leave(live, s) ==
  /\ sessions' = sessions \ {s}
  /\ lastSeen' = [lastSeen EXCEPT ![s] = 0]
  /\ Send(live, [t \in Sockets |-> CASE t = s                -> <<CloseMsg>>
                                     [] t \in sessions \ {s} -> <<PeerLeftMsg(s)>>
                                     [] OTHER                -> <<>>])

LeaveMsg(live, s) == s \in sessions /\ Leave(live, s) /\ UNCHANGED <<open, joining>>

\* webSocketClose (and webSocketError): only a socket with a session leaves.
Closed(live, s) ==
  /\ open' = open \ {s}
  /\ UNCHANGED joining
  /\ IF s \in sessions THEN Leave(live, s) ELSE UNCHANGED <<sessions, lastSeen, down>>

-----------------------------------------------------------------------------
(* Data messages. *)

SeenAlways(s, seq) == FALSE   \* mutant: retries are relayed again

Duplicate(s, seq) == seq =< lastSeen[s]

Recipients(s, msg) == IF msg.to = Everyone THEN sessions \ {s} ELSE sessions \cap {msg.to}

\* A targeted JSON message needs its peer; a binary frame to a peer that left is dropped, and acked.
PeerMissing(s, msg) == ~msg.binary /\ msg.to # Everyone /\ msg.to \notin sessions

Reply(live, s, msg) == Send(live, [t \in Sockets |-> IF t = s THEN <<msg>> ELSE <<>>])

\* checkRateLimit: whether the sender's bucket has a token left depends on the time that has passed,
\* so either may happen.  Over the limit the message is refused before its seq is looked at.
RateLimited(live, s) == Reply(live, s, ErrorMsg("rate_limited")) /\ UNCHANGED lastSeen

Retry(live, s, msg) ==
  /\ Duplicate(s, msg.seq)
  /\ Reply(live, s, AckMsg(msg.seq))
  /\ UNCHANGED lastSeen

\* isDuplicate marks the seq as seen before the peer is looked up.
Undeliverable(live, s, msg) ==
  /\ ~Duplicate(s, msg.seq)
  /\ PeerMissing(s, msg)
  /\ lastSeen' = [lastSeen EXCEPT ![s] = msg.seq]
  /\ Reply(live, s, ErrorMsg("peer_not_found"))

Relay(live, s, msg) ==
  /\ ~Duplicate(s, msg.seq)
  /\ ~PeerMissing(s, msg)
  /\ lastSeen' = [lastSeen EXCEPT ![s] = msg.seq]
  /\ Send(live, [t \in Sockets |->
                   (IF t \in Recipients(s, msg) THEN <<RelayedMsg(s, msg)>> ELSE <<>>)
                     \o (IF t = s THEN <<AckMsg(msg.seq)>> ELSE <<>>)])

-----------------------------------------------------------------------------
\* An idle Durable Object is evicted; the next event restores the sessions of the sockets still
\* open from their attachments, and nothing else.
Hibernate ==
  /\ joining = {}
  /\ sessions' = sessions \cap open
  /\ lastSeen' = [s \in Sockets |-> 0]
  /\ UNCHANGED <<open, joining, down>>
=============================================================================
