---------------------------- MODULE ChannelClient ----------------------------
(***************************************************************************)
(* A client of a channel (classes ChannelClient and Connection of the      *)
(* channel package), as a record and operators on it: the connection with  *)
(* its automatic reconnects, the peers, and the messages that wait for an  *)
(* ack.                                                                    *)
(***************************************************************************)
EXTENDS Integers, FiniteSets

CONSTANTS
  NoSocket,      \* no WebSocket
  MaxAttempts,   \* maxReconnectAttempts
  MaxRetries,    \* maxRetries
  MaxPending     \* maxPendingMessages

ASSUME ClientAssumption ==
  /\ MaxAttempts \in Nat /\ MaxRetries \in Nat /\ MaxPending \in Nat \ {0}

NewClient ==
  [state   |-> "disconnected",   \* ChannelClient._state
   sock    |-> NoSocket,         \* Connection.ws, connecting or open
   opened  |-> FALSE,            \* that socket has opened
   timer   |-> FALSE,            \* reconnectTimer is set
   attempt |-> 0,                \* attempts of the backoff since the last open
   peers   |-> {},
   next    |-> 1,                \* nextSeq
   pending |-> {},               \* pendingMessages
   pressed |-> FALSE]            \* backpressureActive

ConnectingOver(x, s) ==   \* mutant: a scheduled reconnect is not cancelled
  [x EXCEPT !.state = "connecting", !.sock = s, !.opened = FALSE, !.attempt = 0]

\* connect(): what is left of the previous connection is closed, its timer cancelled.
Connecting(x, s) ==
  [x EXCEPT !.state = "connecting", !.sock = s, !.opened = FALSE, !.timer = FALSE, !.attempt = 0]

\* Opening again when the reconnect timer fires.
Reconnecting(x, s) == [x EXCEPT !.sock = s, !.timer = FALSE]

Opened(x) == [x EXCEPT !.opened = TRUE, !.attempt = 0]

\* The socket closed, or could not be opened, without disconnect(): a reconnect is scheduled
\* unless the attempts are used up.  Pending messages are kept.
Lost(x) ==
  LET again == x.attempt < MaxAttempts IN
  [x EXCEPT !.sock = NoSocket, !.opened = FALSE, !.peers = {},
            !.timer = again,
            !.attempt = IF again THEN @ + 1 ELSE @,
            !.state = IF again THEN "reconnecting" ELSE "disconnected"]

\* disconnect(): pending messages are dropped; the backpressure flag is not touched.
Disconnected(x) ==
  [x EXCEPT !.state = "disconnected", !.sock = NoSocket, !.opened = FALSE, !.timer = FALSE,
            !.attempt = 0, !.peers = {}, !.pending = {}]

Joined(x, peers) == [x EXCEPT !.state = "connected", !.peers = peers]
PeerJoined(x, id) == [x EXCEPT !.peers = @ \cup {id}]
PeerLeft(x, id) == [x EXCEPT !.peers = @ \ {id}]

-----------------------------------------------------------------------------
(* Delivery tracking. *)

Message(x, to, binary) == [seq |-> x.next, to |-> to, binary |-> binary]

TrackedLate(x, msg) ==   \* mutant: the threshold itself does not pause
  LET pending == x.pending \cup {[msg |-> msg, retries |-> 0]} IN
  [x EXCEPT !.next = @ + 1, !.pending = pending,
            !.pressed = @ \/ Cardinality(pending) > MaxPending]

\* trackPendingMessage: at the threshold the application is told to pause.
Tracked(x, msg) ==
  LET pending == x.pending \cup {[msg |-> msg, retries |-> 0]} IN
  [x EXCEPT !.next = @ + 1, !.pending = pending,
            !.pressed = @ \/ Cardinality(pending) >= MaxPending]

\* handleAck: below 80% of the threshold it may resume. An ack for nothing pending is ignored.
Acked(x, seq) ==
  LET pending == {p \in x.pending : p.msg.seq # seq} IN
  IF pending = x.pending THEN x
  ELSE [x EXCEPT !.pending = pending,
                 !.pressed = @ /\ 10 * Cardinality(pending) >= 8 * MaxPending]

\* checkPendingMessages, for a message whose ackTimeout is over: it is retried, or has failed. The
\* timeouts run in the order of the messages: they are sent, and on a join restarted, in it.
TimedOut(x, p) ==
  /\ p \in x.pending
  /\ \A q \in x.pending : q.msg.seq < p.msg.seq => q.retries > p.retries

RetryUncounted(x, p) == x   \* mutant: retries are not counted

Retried(x, p) == [x EXCEPT !.pending = (@ \ {p}) \cup {[p EXCEPT !.retries = @ + 1]}]

Failed(x, p) == [x EXCEPT !.pending = @ \ {p}]
=============================================================================
