--------------------------- MODULE TerminalSession ---------------------------
(***************************************************************************)
(* One terminal session of the server (terminal-session.ts): a shell whose *)
(* output is numbered from spawn, kept in the resume ring, parsed by the   *)
(* headless emulator and forwarded to the attached client.  The steps of   *)
(* this module are the methods of TerminalSession up to their next await;  *)
(* TerminalStream puts them under the sockets, the manager and the panels. *)
(*                                                                         *)
(* A snapshot of the emulator stands for the output it has parsed: its     *)
(* write callbacks run in order, so the snapshot asked for when the stream *)
(* was at `offset' shows exactly the bytes before `offset'.                *)
(***************************************************************************)
EXTENDS OutputRing

CONSTANTS
  HighWater,     \* FLOW_HIGH_WATER_BYTES
  LowWater,      \* FLOW_LOW_WATER_BYTES
  Sockets,       \* names of the client connections, over the whole run
  NoSocket       \* no connection

NoOffset == -1

ASSUME SessionAssumption ==
  /\ HighWater \in Nat
  /\ LowWater \in Nat
  /\ NoSocket \notin Sockets

VARIABLES
  shell,        \* "none", "starting" (environment resolving), "running", "exiting"
  epoch,        \* the spawn the session belongs to, 0 before the first
  sink,         \* socket of the attached client, or NoSocket
  streaming,    \* the sink has been synced and receives live output
  syncOffset,   \* offset of the state message the current sync started from
  generation,   \* attachGeneration: invalidates the snapshots in flight
  unacked,      \* bytes forwarded and not acknowledged
  paused,       \* output is not forwarded: the client is too far behind
  snaps,        \* snapshots waiting on the emulator, in the order they were asked for
  exitGen,      \* the generation whose final snapshot the exit waits for, when "exiting"
  outbox        \* server-to-client messages in flight, per socket

sessionVars == <<chunks, start, end, pins, epoch, sink, streaming, syncOffset, generation,
                 unacked, paused, snaps, exitGen>>

-----------------------------------------------------------------------------
(* Messages to a client. *)

StateMsg(mode, offset) == [type |-> "state", mode |-> mode, epoch |-> epoch, offset |-> offset]
\* `epoch' is history here: an output frame carries its offset and no epoch.
OutputMsg(offset, n) == [type |-> "output", epoch |-> epoch, offset |-> offset, n |-> n]
\* `synced' is history: whether the client was being streamed to when the shell's exit was told.
ExitMsg(synced) == [type |-> "exit", synced |-> synced]

\* A sync: the state message, then the bytes from its offset to the end of the stream.
SyncMsgs(mode, offset) ==
  IF end > offset
  THEN <<StateMsg(mode, offset), OutputMsg(offset, end - offset)>>
  ELSE <<StateMsg(mode, offset)>>

\* A socket already closed at the other end takes what is sent to it nowhere; `live' are the others.
Send(live, s, msgs) ==
  outbox' = IF s \in live THEN [outbox EXCEPT ![s] = @ \o msgs] ELSE outbox

-----------------------------------------------------------------------------
(* The constructor: a fresh session, with an empty ring and no client. *)
FreshSession ==
  /\ chunks' = <<>>
  /\ start' = 0
  /\ end' = 0
  /\ pins' = {}
  /\ sink' = NoSocket
  /\ streaming' = FALSE
  /\ syncOffset' = 0
  /\ generation' = 0
  /\ unacked' = 0
  /\ paused' = FALSE
  /\ snaps' = <<>>
  /\ exitGen' = 0

\* goLive after a state at `offset': the bytes that follow it count against the flow-control budget.
GoLive(offset, unackedBefore) ==
  /\ syncOffset' = offset
  /\ unacked' = unackedBefore + (end - offset)
  /\ paused' = (unackedBefore + (end - offset) > HighWater)
  /\ streaming' = TRUE

\* attach() with a point of this epoch the ring still covers: the client keeps its xterm.
CanResumeAnyEpoch(since) == Readable(since.offset)   \* mutant: the spawn is not compared

CanResume(since) == since.epoch = epoch /\ Readable(since.offset)

AttachResume(live, s, since) ==
  /\ CanResume(since)
  /\ generation' = generation + 1
  /\ sink' = s
  /\ GoLive(since.offset, 0)
  /\ Send(live, s, SyncMsgs("resume", since.offset))
  /\ UNCHANGED <<chunks, start, end, pins, snaps>>

\* attach() otherwise, up to the await: syncWithSnapshot pins the ring and asks for a snapshot.
AttachSnapshot(s) ==
  /\ generation' = generation + 1
  /\ sink' = s
  /\ streaming' = FALSE
  /\ unacked' = 0
  /\ paused' = FALSE
  /\ snaps' = Append(snaps, [gen |-> generation + 1, offset |-> end])
  /\ Pin(generation + 1, end)
  /\ UNCHANGED <<syncOffset, outbox>>

Attach(live, s, since) ==
  \/ AttachResume(live, s, since)
  \/ ~CanResume(since) /\ AttachSnapshot(s)

NoSince == [epoch |-> 0, offset |-> NoOffset]

DetachNothing == UNCHANGED <<generation, sink, streaming>>   \* mutant: the session keeps its client

Detach ==
  IF sink = NoSocket THEN UNCHANGED <<generation, sink, streaming>>
  ELSE /\ generation' = generation + 1
       /\ sink' = NoSocket
       /\ streaming' = FALSE

\* onPtyData: the chunk enters the ring and, if the client is live and keeping up, goes to it.
OnPtyData(live, n) ==
  /\ Push(n)
  /\ IF sink # NoSocket /\ streaming /\ ~paused
     THEN /\ Send(live, sink, <<OutputMsg(end, n)>>)
          /\ unacked' = unacked + n
          /\ paused' = (unacked + n > HighWater)
     ELSE UNCHANGED <<outbox, unacked, paused>>

AfterAckRaw(bytes) == unacked - bytes   \* mutant: not kept from going below zero

AfterAck(bytes) == IF unacked > bytes THEN unacked - bytes ELSE 0

\* ack(): one for another sync is ignored; a paused client that caught up is attached afresh.
AckIgnored(sync) == sync # syncOffset /\ UNCHANGED <<sessionVars, outbox>>

AckCounted(sync, bytes) ==
  /\ sync = syncOffset
  /\ ~paused \/ AfterAck(bytes) > LowWater \/ sink = NoSocket
  /\ unacked' = AfterAck(bytes)
  /\ UNCHANGED <<chunks, start, end, pins, epoch, sink, streaming, syncOffset, generation,
                 paused, snaps, exitGen, outbox>>

AckResync(sync, bytes) ==
  /\ sync = syncOffset
  /\ paused /\ AfterAck(bytes) =< LowWater /\ sink # NoSocket
  /\ AttachSnapshot(sink)
  /\ UNCHANGED <<epoch, exitGen>>

AckAllFirst(sync, bytes) ==   \* mutant: attached afresh only once nothing is left to acknowledge
  \/ AckIgnored(sync)
  \/ /\ sync = syncOffset
     /\ ~paused \/ AfterAck(bytes) > 0 \/ sink = NoSocket
     /\ unacked' = AfterAck(bytes)
     /\ UNCHANGED <<chunks, start, end, pins, epoch, sink, streaming, syncOffset, generation,
                    paused, snaps, exitGen, outbox>>
  \/ AfterAck(bytes) = 0 /\ AckResync(sync, bytes)

Ack(sync, bytes) == AckIgnored(sync) \/ AckCounted(sync, bytes) \/ AckResync(sync, bytes)

\* The oldest snapshot is ready. Unless a later attach or a detach made it stale, it goes to the
\* client with the bytes produced meanwhile. Either way its pin is released.
Superseded(snap) == snap.gen # generation

SnapshotMsgs(snap) == IF Superseded(snap) THEN <<>> ELSE SyncMsgs("snapshot", snap.offset)

\* onExited after the final snapshot: whoever is attached is told, after the tail of the output.
ExitFirst(snap) ==   \* mutant: told before
  <<ExitMsg((streaming /\ ~paused) \/ ~Superseded(snap))>> \o SnapshotMsgs(snap)

FinalMsgs(snap) ==
  Append(SnapshotMsgs(snap), ExitMsg((streaming /\ ~paused) \/ ~Superseded(snap)))

FinishSnapshot(live) ==
  LET snap == Head(snaps) IN
  /\ snaps # <<>>
  /\ snaps' = Tail(snaps)
  /\ Unpin(snap.gen)
  /\ Send(live, sink, SnapshotMsgs(snap))
  /\ IF Superseded(snap)
     THEN UNCHANGED <<syncOffset, unacked, paused, streaming>>
     ELSE GoLive(snap.offset, unacked)
  /\ UNCHANGED <<sink, generation>>

\* syncWithSnapshot finds every byte after a snapshot still in the ring, so it never throws.
SnapshotsCovered == \A i \in 1 .. Len(snaps) : Readable(snaps[i].offset)

\* The ring is pinned by the snapshots in flight and by nothing else: each holds a pin of its own
\* until it is delivered or found stale, and none outlives its snapshot (a pin that leaked would
\* keep the ring growing for good).
SnapshotsPinned ==
  /\ pins = {[id |-> snaps[i].gen, offset |-> snaps[i].offset] : i \in 1 .. Len(snaps)}
  /\ \A i, j \in 1 .. Len(snaps) : i < j => snaps[i].gen < snaps[j].gen
  /\ \A i \in 1 .. Len(snaps) : snaps[i].gen =< generation
=============================================================================
