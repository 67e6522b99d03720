---------------------------- MODULE ChannelProps ----------------------------
(***************************************************************************)
(* What a channel promises its clients, and what its documentation says it *)
(* promises and it does not keep.                                          *)
(***************************************************************************)
EXTENDS Channel

ClientMessage == [seq : Nat, to : Sockets \cup {Everyone}, binary : BOOLEAN]

Client ==    \* apart from what is pending
  [state : {"disconnected", "connecting", "connected", "reconnecting"},
   sock : Sockets \cup {NoSocket}, opened : BOOLEAN, timer : BOOLEAN, attempt : Nat,
   peers : SUBSET Sockets, next : Nat, pending : {{}}, pressed : BOOLEAN]

RelayMsg ==
  [type : {"joined"}, peers : SUBSET Sockets]
    \cup [type : {"peer_joined", "peer_left"}, id : Sockets]
    \cup [type : {"ack"}, seq : Nat]
    \cup [type : {"error"}, code : {"auth_failed", "rate_limited", "peer_not_found"}]
    \cup [type : {"data"}, from : Sockets, seq : Nat]
    \cup [type : {"close"}]

\* Types; and a client has one socket or a reconnect scheduled, or neither when it is disconnected:
\* no timer is left that could open a second socket (connect, cleanup).  The sockets the relay
\* knows are sockets given out.
TypeOK ==
  /\ open \subseteq Sockets /\ joining \subseteq Sockets /\ sessions \subseteq Sockets
  /\ lastSeen \in [Sockets -> Nat]
  /\ \A s \in Sockets : \A i \in 1 .. Len(down[s]) : down[s][i] \in RelayMsg
  /\ \A c \in Clients :
       /\ [cl[c] EXCEPT !.pending = {}] \in Client
       /\ ~(cl[c].timer /\ cl[c].sock # NoSocket)
       /\ cl[c].state = "disconnected" <=> ~cl[c].timer /\ cl[c].sock = NoSocket
       /\ \A p \in cl[c].pending : p.msg \in ClientMessage /\ p.retries \in 0 .. MaxRetries
  /\ fresh \cap (open \cup joining \cup sessions) = {}

-----------------------------------------------------------------------------
(* Peers. *)

\* What a message of the relay tells a client of p: that it is there, or that it is not.
Adds(m, p) ==
  \/ m.type = "joined" /\ p \in m.peers
  \/ m.type = "peer_joined" /\ m.id = p

Removes(m, p) ==
  \/ m.type = "joined" /\ p \notin m.peers
  \/ m.type = "peer_left" /\ m.id = p
  \/ m.type = "close"

\* A client with these peers counts p among them once it has handled the messages q: the last of
\* them that tells anything of p says so.
KnowsAfter(peers, q, p) ==
  \/ p \in peers /\ \A i \in 1 .. Len(q) : ~Removes(q[i], p)
  \/ \E i \in 1 .. Len(q) : Adds(q[i], p) /\ \A j \in i + 1 .. Len(q) : ~Removes(q[j], p)

\* The peers of client c once all that is on its way to it has arrived.
PeersAfter(c) == {p \in Sockets : KnowsAfter(cl[c].peers, down[cl[c].sock], p)}

\* However joins, leaves, lost connections and evictions of the relay interleave, a client that has
\* joined learns of every session and keeps none that ended, except sessions that were registered
\* for a socket that had closed already. (handleJoin, handleLeave, handlePeerJoined, handlePeerLeft.)
PeersAgree ==
  \A c \in Clients : cl[c].sock \in sessions =>
    LET s == cl[c].sock IN
    /\ sessions \ {s} \subseteq PeersAfter(c)
    /\ PeersAfter(c) \ sessions \subseteq late

-----------------------------------------------------------------------------
(* Delivery. *)

\* No message of a connection is given to a peer twice, though unacked messages are sent again and
\* the relay may lose its memory between (isDuplicate, PROTOCOL.md: "treated as a retry").
AtMostOnce ==
  \A s \in live :
    down[s] # <<>> /\ Head(down[s]).type = "data"
      => Head(down[s]).seq \notin got[s][Head(down[s]).from]

\* At the threshold of pending messages, and above it, the application has been told to pause.
PausedWhenFull ==
  \A c \in Clients : Cardinality(cl[c].pending) >= MaxPending => cl[c].pressed

\* PROTOCOL.md, Delivery: "The relay ACKs each one after relaying it."  What the sender is told was
\* delivered was passed on to its recipients.
AckedWasRelayed ==
  \A c \in Clients : cl[c].sock # NoSocket =>
    LET q == down[cl[c].sock] IN
    q # <<>> /\ Head(q).type = "ack" /\ (\E p \in cl[c].pending : p.msg.seq = Head(q).seq)
      => [by |-> c, seq |-> Head(q).seq] \in relayed

-----------------------------------------------------------------------------
(* Progress: the timer of the pending messages goes off. Nothing is assumed of the network or of *)
(* the relay. *)
FairSpec == Spec /\ \A c \in Clients : WF_vars(AckTimeout(c))

\* Every message is acked or reported as failed in the end, or dropped by disconnect(), whatever
\* happens to connections, retries and their answers.
Settles == \A c \in Clients : <>[](cl[c].pending = {})
=============================================================================
