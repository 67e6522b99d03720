---------------------------- MODULE OutputStream ----------------------------
(***************************************************************************)
(* The renderer's half of a terminal: class OutputStream of Terminal.tsx   *)
(* and the xterm it writes to, as a record and operators on it.            *)
(*                                                                         *)
(* What the xterm shows is described by the position in the shell's output *)
(* stream its content ends at (`shown', of epoch `shownEpoch'), and by     *)
(* three flags: bytes before that position are missing (`gap'), some were  *)
(* written twice (`repeat'), or some are of another shell than the one the *)
(* panel was synced with (`mixed').  `used' holds the offsets of the syncs *)
(* under which bytes were written; `stale' says that the current sync has  *)
(* the offset of an earlier one of these, so that what is left of that one *)
(* passes for its own.  All this is history: the code cannot see it.       *)
(***************************************************************************)
EXTENDS Integers, Sequences, FiniteSets

CONSTANT AckBytes      \* output bytes parsed between two acks (ACK_BYTES)

ASSUME AckAssumption == AckBytes \in Nat \ {0}

Unknown == -1          \* nextOffset before the first state

FreshXterm ==
  [attached   |-> FALSE,   \* the panel is mounted and has sent its first attach
   exited     |-> FALSE,   \* terminal_exit was received
   awaiting   |-> FALSE,   \* awaitingState
   epoch      |-> 0,
   next       |-> Unknown, \* nextOffset
   sync       |-> 0,       \* syncOffset
   queued     |-> <<>>,    \* frames received between an attach and its state
   writes     |-> <<>>,    \* output written to xterm and not parsed yet
   unacked    |-> 0,       \* unackedBytes: parsed since the last ack
   shownEpoch |-> 0,
   shown      |-> 0,
   gap        |-> FALSE,
   repeat     |-> FALSE,
   mixed      |-> FALSE,
   used       |-> {},
   stale      |-> FALSE]

ExpectState(x) == [x EXCEPT !.awaiting = TRUE, !.queued = <<>>]

\* The sync point to resume from; epoch 0 stands for none.
Since(x) ==
  IF x.epoch = 0 \/ x.next = Unknown
  THEN [epoch |-> 0, offset |-> Unknown]
  ELSE [epoch |-> x.epoch, offset |-> x.next]

\* writeLive, for each frame of a sequence: xterm gets the bytes, whatever it already shows.
WriteLive(x, frames) ==
  LET n         == Len(frames)
      endsAt(i) == IF i = 0 THEN x.shown ELSE frames[i].offset + frames[i].n
  IN  IF n = 0 THEN x
      ELSE [x EXCEPT
              !.next   = endsAt(n),
              !.shown  = endsAt(n),
              !.gap    = @ \/ \E i \in 1 .. n : frames[i].offset > endsAt(i - 1),
              !.repeat = @ \/ \E i \in 1 .. n : frames[i].offset < endsAt(i - 1),
              !.mixed  = @ \/ \E i \in 1 .. n : frames[i].epoch # x.epoch,
              !.used   = @ \cup {x.sync},
              !.writes = @ \o [i \in 1 .. n |-> [sync |-> x.sync, n |-> frames[i].n]]]

Receive(x, frame) ==
  IF x.awaiting THEN [x EXCEPT !.queued = Append(@, frame)] ELSE WriteLive(x, <<frame>>)

\* A snapshot resets the xterm (RIS) before it is written; a resume leaves it as it is.
Redraw(x, msg) ==
  IF msg.mode = "snapshot"
  THEN [x EXCEPT !.shownEpoch = msg.epoch, !.shown = msg.offset, !.gap = FALSE, !.repeat = FALSE,
                !.mixed = FALSE]
  ELSE x

\* The frames of q from offset on, in order (there is one increasing enumeration of their places).
KeptAll(q, offset) == {q}   \* mutant: queued frames are not compared with the sync point

KeptFrames(q, offset) ==
  LET kept == {i \in 1 .. Len(q) : q[i].offset >= offset}
      n    == Cardinality(kept)
  IN  {[j \in 1 .. n |-> q[place[j]]] :
         place \in {p \in [1 .. n -> kept] : \A i, j \in 1 .. n : i < j => p[i] < p[j]}}

\* applyState: the xterm after the state message and the queued frames that are not older.
ApplyState(x, msg) ==
  {WriteLive([Redraw(x, msg) EXCEPT
                !.epoch = msg.epoch, !.next = msg.offset, !.sync = msg.offset,
                !.awaiting = FALSE, !.unacked = 0, !.queued = <<>>,
                !.stale = msg.offset \in x.used], frames) :
     frames \in KeptFrames(x.queued, msg.offset)}

\* The callback of the oldest write. `due' is what the ack it sends reports, 0 for no ack: writes
\* of an earlier sync are not counted, and acks come in steps of AckBytes.
CountedAny(x) == x.unacked + Head(x.writes).n   \* mutant: writes of an earlier sync count too

CountedLast(x) ==   \* mutant: the count of the writes before is lost
  IF Head(x.writes).sync = x.sync THEN Head(x.writes).n ELSE x.unacked

CountedBytes(x) ==
  IF Head(x.writes).sync = x.sync THEN x.unacked + Head(x.writes).n ELSE x.unacked

AckDue(x) ==
  IF Head(x.writes).sync = x.sync /\ CountedBytes(x) >= AckBytes THEN CountedBytes(x) ELSE 0

Parsed(x) ==
  [x EXCEPT !.writes = Tail(@), !.unacked = IF AckDue(x) > 0 THEN 0 ELSE CountedBytes(x)]
=============================================================================
