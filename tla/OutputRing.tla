----------------------------- MODULE OutputRing -----------------------------
(***************************************************************************)
(* The resume ring of a terminal session (class OutputRing of              *)
(* terminal-session.ts): the recent output of a shell, indexed by absolute *)
(* stream offset.  A byte is represented by its offset, so a chunk is the  *)
(* offset it starts at; it ends where the next chunk starts.               *)
(***************************************************************************)
EXTENDS Integers, Sequences

CONSTANT Capacity      \* bytes kept when nothing is pinned (RESUME_RING_BYTES)

ASSUME CapacityAssumption == Capacity \in Nat

VARIABLES
  chunks,   \* start offsets of the retained chunks, oldest first
  start,    \* offset of the oldest retained byte
  end,      \* offset one past the newest byte
  pins      \* outstanding pins, [id, offset]; an id is never used twice

ringVars == <<chunks, start, end, pins>>

EmptyRing ==
  /\ chunks = <<>>
  /\ start = 0
  /\ end = 0
  /\ pins = {}

(***************************************************************************)
(* May the eviction loop drop chunk i of `all' once it is the oldest?  The *)
(* bytes held are then newEnd - all[i]; the newest chunk stays, and so     *)
(* does a chunk that reaches past a pinned offset.                         *)
(***************************************************************************)
EvictablePinned(all, newEnd, i) ==   \* mutant: the pins are not looked at
  /\ newEnd - all[i] > Capacity
  /\ i < Len(all)

EvictableLate(all, newEnd, i) ==     \* mutant: two chunks are always kept
  /\ newEnd - all[i] > Capacity
  /\ i < Len(all) - 1
  /\ \A p \in pins : all[i + 1] =< p.offset

Evictable(all, newEnd, i) ==
  /\ newEnd - all[i] > Capacity
  /\ i < Len(all)
  /\ \A p \in pins : all[i + 1] =< p.offset

PushStaleStart(n) ==   \* mutant: `start' is read before the oldest chunks are shifted out
  LET all == Append(chunks, end) IN
  \E k \in 1 .. Len(all) :
    /\ \A i \in 1 .. k - 1 : Evictable(all, end + n, i)
    /\ ~Evictable(all, end + n, k)
    /\ chunks' = SubSeq(all, k, Len(all))
    /\ start' = all[1] /\ end' = end + n /\ UNCHANGED pins

\* n bytes are appended, then chunks are evicted oldest-first: k is the first that has to stay.
Push(n) ==
  LET all    == Append(chunks, end)
      newEnd == end + n
  IN  \E k \in 1 .. Len(all) :
        /\ \A i \in 1 .. k - 1 : Evictable(all, newEnd, i)
        /\ ~Evictable(all, newEnd, k)
        /\ chunks' = SubSeq(all, k, Len(all))
        /\ start' = all[k]
        /\ end' = newEnd
        /\ UNCHANGED pins

Pin(id, offset) ==
  /\ pins' = pins \cup {[id |-> id, offset |-> offset]}
  /\ UNCHANGED <<chunks, start, end>>

UnpinNothing(id) == UNCHANGED ringVars   \* mutant: a pin is never released

Unpin(id) ==
  /\ pins' = {p \in pins : p.id # id}
  /\ UNCHANGED <<chunks, start, end>>

\* readFrom(offset) returns bytes exactly when none of them has been evicted.
Readable(offset) == start =< offset /\ offset =< end

-----------------------------------------------------------------------------
RingTypeOK ==
  /\ chunks \in Seq(Nat)
  /\ start \in Nat
  /\ end \in Nat
  /\ \A p \in pins : p.offset \in Nat

\* The chunks are contiguous and non-empty: they start at `start', go up, and end before `end'.
RingShape ==
  /\ IF chunks = <<>> THEN start = 0 /\ end = 0 ELSE start = chunks[1]
  /\ \A i, j \in 1 .. Len(chunks) : i < j => chunks[i] < chunks[j]
  /\ \A i \in 1 .. Len(chunks) : chunks[i] < end

\* Everything from a pinned offset on can still be read, however much was pushed since: the throw
\* "Output at offset ... was evicted while pinned" of syncWithSnapshot is unreachable.
PinnedRetained == \A p \in pins : Readable(p.offset)

\* Nothing is kept for longer than it has to be: once a chunk has been pushed with no pin
\* outstanding the ring is back within its capacity, or down to the newest chunk; and a ring over
\* capacity under pins holds nothing but the chunk of the oldest pin and what follows it.
BackWithinCapacity ==
  [][end' > end =>
       \/ end' - start' =< Capacity
       \/ Len(chunks') = 1
       \/ \E p \in pins' : chunks'[2] > p.offset]_ringVars

=============================================================================
