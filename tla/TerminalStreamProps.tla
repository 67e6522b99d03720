------------------------ MODULE TerminalStreamProps ------------------------
(***************************************************************************)
(* What a terminal stream promises beyond the invariants of                *)
(* TerminalStream: flow control, exits, progress, and the refinement of    *)
(* TerminalView.                                                           *)
(***************************************************************************)
EXTENDS TerminalStream

-----------------------------------------------------------------------------
(* Flow control. *)

Total(ns) ==
  LET sum[i \in 0 .. Len(ns)] == IF i = 0 THEN 0 ELSE sum[i - 1] + ns[i]
  IN  sum[Len(ns)]

IsState(msg) == msg.type = "state"

\* The bytes of the output frames of q that follow its last state message, if it has one.
Outputs(q) ==
  [i \in 1 .. Len(q) |->
     IF q[i].type = "output" /\ \A j \in i .. Len(q) : ~IsState(q[j]) THEN q[i].n ELSE 0]

FrameBytes(frames) == [i \in 1 .. Len(frames) |-> frames[i].n]

\* The bytes of writes that count under sync, once they are parsed.
Unparsed(writes, sync) ==
  [i \in 1 .. Len(writes) |-> IF writes[i].sync = sync THEN writes[i].n ELSE 0]

\* The bytes reported by the acks among msgs that count under sync.
Acked(msgs, sync) ==
  [i \in 1 .. Len(msgs) |->
     IF msgs[i].type = "ack" /\ msgs[i].sync = sync THEN msgs[i].bytes ELSE 0]

StateOnItsWay(s) == \E i \in 1 .. Len(outbox[s]) : IsState(outbox[s][i])

\* What the window has been given under the current sync, and the session does not know to be parsed.
Received(w) ==
  Total(FrameBytes(xt[w].queued)) + Total(Unparsed(xt[w].writes, xt[w].sync)) + xt[w].unacked
    + Total(Acked(inbox[sock[w]], syncOffset))

\* Where the bytes counted in `unacked' are, for a window w that is streamed to.
BytesOutstanding(w) ==
  Total(Outputs(outbox[sock[w]])) + IF StateOnItsWay(sock[w]) THEN 0 ELSE Received(w)

Streams(w) == streaming /\ xt[w].attached /\ sock[w] # NoSocket /\ sink = sock[w]

AttachOnItsWay(w) == \E i \in 1 .. Len(inbox[sock[w]]) : inbox[sock[w]][i].type = "attach"

\* What is written or acked under an earlier sync can be told from what the current one is about.
Distinct(w) ==
  IF StateOnItsWay(sock[w]) THEN syncOffset \notin xt[w].used
  ELSE ~xt[w].stale /\ ~xt[w].mixed

\* The session never counts more bytes as unacknowledged than are on their way to an ack: in a frame
\* in flight, in the xterm's write queue, parsed but not yet acked, or in an ack in flight. If it did
\* the client could stay paused for good.
NeverOvercounted ==
  \A w \in Windows : Streams(w) /\ ~AttachOnItsWay(w) => unacked =< BytesOutstanding(w)

\* Nor does it count fewer, which would let output outrun the client, as long as the sync is Distinct.
UnackedAccounted ==
  \A w \in Windows :
    Streams(w) /\ ~AttachOnItsWay(w) /\ Distinct(w) => unacked = BytesOutstanding(w)

-----------------------------------------------------------------------------
(* Exits. *)

\* The window about to be told that the shell exited: has it been given all of the output?
ToldOfExit(w) ==
  /\ sock[w] # NoSocket /\ xt[w].attached /\ ~xt[w].awaiting /\ outbox[sock[w]] # <<>>
  /\ Head(outbox[sock[w]]).type = "exit"

HasTail(w) == xt[w].next = produced[xt[w].epoch]

\* A client that was live, or paused and caught up with a final snapshot, sees the end of the
\* output before it is told of the exit. (A panel that was mounted again and waits for its first
\* state may still be told of the exit of the shell its predecessor showed.)
ExitAfterTail ==
  \A w \in Windows :
    ToldOfExit(w) /\ Head(outbox[sock[w]]).synced /\ ~xt[w].mixed => HasTail(w)

-----------------------------------------------------------------------------
(***************************************************************************)
(* Progress.  The server handles what arrives and the emulator parses what *)
(* it is fed; sockets that are up deliver, xterm parses, a dropped socket  *)
(* is replaced after 2 s (WsClient.onclose) and a version check ends.      *)
(* Nothing is assumed of the shell, of drops, or of the user's panels.     *)
(***************************************************************************)
Fairness ==
  /\ WF_vars(SnapshotReady) /\ WF_vars(FinalSnapshotReady) /\ WF_vars(Spawn)
  /\ \A s \in Sockets : WF_vars(ServerStep(s))
  /\ \A w \in Windows :
       WF_vars(Deliver(w)) /\ WF_vars(Parse(w)) /\ WF_vars(Connect(w)) /\ WF_vars(Reattach(w))

FairSpec == Spec /\ Fairness

Current(w) ==
  /\ xt[w].shownEpoch = epoch
  /\ xt[w].shown = end

\* A window whose panel is open and whose connection stays up ends up showing all of the output of
\* the running shell: no pause is for good, no attach stays unanswered.
CatchesUp ==
  \A w \in Windows :
    <>[](/\ sock[w] # NoSocket /\ xt[w].attached /\ ~xt[w].exited
         /\ shell = "running" /\ owner \in {NoSocket, sock[w]}
         => Current(w))

-----------------------------------------------------------------------------
(* What each window shows, in terms of TerminalView: nothing that can be vouched for once bytes of a  *)
(* shell that is gone were written to it, until its next snapshot.                                   *)
ViewOf(x) ==
  IF x.mixed
  THEN [epoch |-> 0, upto |-> 0]
  ELSE [epoch |-> x.shownEpoch, upto |-> IF x.gap \/ x.repeat THEN -1 ELSE x.shown]

View == INSTANCE TerminalView
          WITH written <- produced, view <- [w \in Windows |-> ViewOf(xt[w])]

ShowsPrefixes == View!Spec
=============================================================================
