------------------------ MODULE TerminalScreen_proofs ------------------------
(***************************************************************************)
(* What the screens of a terminal show, for any number of windows and      *)
(* sockets, any ring capacity, flow-control marks, chunk sizes, spawns and *)
(* mounts: exactly what the shell wrote, its end before its exit is told,  *)
(* and never an earlier point again (the refinement of TerminalView).      *)
(* And what the session counts as sent to a screen and not yet parsed:     *)
(* never more than is on its way to an ack, and what is (the last part).   *)
(*                                                                         *)
(* The invariant is about the chain that leads from the shell to a screen: *)
(* the frames the panel has queued, and the messages on their way to it.   *)
(* Each output on its way starts where what comes before it ends; what was *)
(* sent under one spawn goes up; and the session streams only to a client  *)
(* whose chain ends where its output does.                                 *)
(***************************************************************************)
EXTENDS TerminalStreamProps, TerminalStream_proofs, WellFoundedInduction

\* What the shells have written: all the invariant needs to know of the server.
History == [epoch |-> epoch, produced |-> produced, over |-> shell \notin {"running", "exiting"}]

Histories == [epoch : 0 .. MaxEpoch, produced : [1 .. MaxEpoch -> Nat], over : BOOLEAN]

\* Spawn e will write nothing more.
Past(h, e) == e < h.epoch \/ (e = h.epoch /\ h.over)

Later(h, k) ==
  /\ h.epoch =< k.epoch
  /\ \A e \in 1 .. h.epoch :
       /\ h.produced[e] =< k.produced[e]
       /\ Past(h, e) => Past(k, e) /\ k.produced[e] = h.produced[e]

-----------------------------------------------------------------------------
(* Messages: those that have a place in the output of a spawn, and the order they come in. *)

Stamped(m) == m.type \in {"state", "output"}

EndOf(m) == IF m.type = "output" THEN m.offset + m.n ELSE m.offset

Resumes(m) == m.type = "state" /\ m.mode = "resume"

\* It speaks of output that was written.
Written(h, m) ==
  Stamped(m) =>
    /\ m.epoch \in 1 .. h.epoch
    /\ EndOf(m) =< h.produced[m.epoch]
    /\ m.type = "output" => m.n > 0

\* k may come right after m: output where it ends, the exit of a client that was live at the end.
Follows(h, m, k) ==
  /\ k.type = "state" => k.mode = "snapshot"
  /\ k.type = "output" => Stamped(m) /\ k.epoch = m.epoch /\ k.offset = EndOf(m)
  /\ k.type = "exit" /\ k.synced =>
       Stamped(m) /\ Past(h, m.epoch) /\ EndOf(m) = h.produced[m.epoch]

\* m ends before k starts.
Precedes(m, k) ==
  Stamped(m) /\ Stamped(k) => m.epoch < k.epoch \/ (m.epoch = k.epoch /\ EndOf(m) =< k.offset)

Before(m, e, o) == Stamped(m) /\ m.epoch = e => EndOf(m) =< o

-----------------------------------------------------------------------------
(* A panel's xterm x, and the messages q on their way to it. *)

\* Where the screen is, as the state message that would have put it there.
Place(x) == [type |-> "state", mode |-> "snapshot", epoch |-> x.epoch, offset |-> x.next]

HasPlace(x) == ~x.mixed /\ x.next # Unknown

InSync(x) == x.attached /\ ~x.awaiting /\ ~x.mixed

\* x waits for the answer to an attach from this point.
Waits(x, e, o) == x.attached /\ x.awaiting /\ x.queued = <<>> /\ x.epoch = e /\ x.next = o

ScreenOK(h, x) ==
  /\ \A i \in 1 .. Len(x.queued) : Written(h, x.queued[i])
  /\ x.attached /\ ~x.awaiting => x.next # Unknown
  /\ x.next = Unknown => x.shownEpoch = 0 /\ x.shown = 0
  /\ ~x.mixed => ~x.gap /\ ~x.repeat
  /\ HasPlace(x) => /\ x.epoch \in 1 .. h.epoch
                    /\ x.shownEpoch = x.epoch /\ x.shown = x.next
                    /\ x.shown =< h.produced[x.epoch]

StreamOK(h, x, q) ==
  /\ \A i \in 1 .. Len(q) : Written(h, q[i])
  /\ \A i, j \in 1 .. Len(q) : i < j => Precedes(q[i], q[j])
  /\ \A i \in 1 .. Len(x.queued), j \in 1 .. Len(q) : Precedes(x.queued[i], q[j])
  /\ HasPlace(x) => \A j \in 1 .. Len(q) : Precedes(Place(x), q[j])
  /\ \A i \in 2 .. Len(q) : Follows(h, q[i - 1], q[i])
  /\ InSync(x) /\ q # <<>> => Follows(h, Place(x), q[1])
  /\ \A i \in 1 .. Len(q) : Resumes(q[i]) => i = 1 /\ Waits(x, q[i].epoch, q[i].offset)

\* Once q is delivered, x is at offset o of spawn e.
Reaches(x, q, e, o) ==
  IF q = <<>>
  THEN InSync(x) => x.epoch = e /\ x.next = o
  ELSE Stamped(q[Len(q)]) /\ q[Len(q)].epoch = e /\ EndOf(q[Len(q)]) = o

\* Nothing x shows, has queued or will be given of spawn e is past offset o.
AllBefore(x, q, e, o) ==
  /\ \A i \in 1 .. Len(q) : Before(q[i], e, o)
  /\ \A i \in 1 .. Len(x.queued) : Before(x.queued[i], e, o)
  /\ HasPlace(x) => Before(Place(x), e, o)

\* m may be sent after q.
MayFollow(h, x, q, m) ==
  /\ q = <<>> /\ InSync(x) => Follows(h, Place(x), m)
  /\ q # <<>> => Follows(h, q[Len(q)], m)

-----------------------------------------------------------------------------
\* The fields of a message.
LEMMA MsgFields ==
  ASSUME NEW m \in ServerMsg
  PROVE  /\ m.type \in {"state", "output", "exit"}
         /\ Stamped(m) => m.epoch \in Nat /\ m.offset \in Nat /\ EndOf(m) \in Nat
         /\ m.type = "state" => /\ m \in StateType /\ EndOf(m) = m.offset
                                /\ m.mode \in {"resume", "snapshot"}
         /\ m.type = "output" => m \in Frame /\ m.n \in Nat /\ EndOf(m) = m.offset + m.n
<1>1. CASE m \in StateType
  BY <1>1 DEF StateType, Stamped, EndOf, Offsets
<1>2. CASE m \in Frame
  BY <1>2 DEF Frame, Stamped, EndOf, Offsets
<1>3. CASE m \in [type : {"exit"}, synced : BOOLEAN]
  BY <1>3 DEF Stamped
<1> QED
  BY <1>1, <1>2, <1>3 DEF ServerMsg, StateType, Frame

\* The fields of a queued frame.
LEMMA FrameFields ==
  ASSUME NEW m \in Frame
  PROVE  /\ m.type = "output" /\ Stamped(m)
         /\ m.epoch \in Nat /\ m.offset \in Nat /\ m.n \in Nat /\ EndOf(m) = m.offset + m.n
BY DEF Frame, Stamped, EndOf, Offsets

\* applyState writes only queued frames that are not older than the state.
LEMMA KeptFromQueue ==
  ASSUME NEW q \in Seq(Frame), NEW offset, NEW frames \in KeptFrames(q, offset),
         NEW j \in 1 .. Len(frames)
  PROVE  \E i \in 1 .. Len(q) : frames[j] = q[i] /\ q[i].offset >= offset
<1> DEFINE kept == {i \in 1 .. Len(q) : q[i].offset >= offset}
           n    == Cardinality(kept)
<1>1. IsFiniteSet(kept)
  <2>1. IsFiniteSet(1 .. Len(q))
    BY FS_Interval
  <2> QED
    BY <2>1, FS_Subset
<1>2. n \in Nat
  BY <1>1, FS_CardinalityType
<1> HIDE DEF n
<1>3. PICK place \in [1 .. n -> kept] : frames = [k \in 1 .. n |-> q[place[k]]]
  BY DEF KeptFrames, n
<1>4. Len(frames) = n
  BY <1>2, <1>3
<1>5. place[j] \in kept /\ frames[j] = q[place[j]]
  BY <1>3, <1>4
<1> QED
  BY <1>5

\* Writing nothing changes nothing.
LEMMA WriteNothing ==
  ASSUME NEW x, NEW frames \in Seq(Frame), Len(frames) = 0
  PROVE  WriteLive(x, frames) = x
BY DEF WriteLive

\* Output that starts where the screen ends extends it; a frame of another spawn leaves it mixed.
LEMMA WriteOne ==
  ASSUME NEW x \in Xterm, NEW frame \in Frame
  PROVE  LET y == WriteLive(x, <<frame>>) IN
         /\ y.next = frame.offset + frame.n /\ y.shown = frame.offset + frame.n
         /\ y.mixed <=> x.mixed \/ frame.epoch # x.epoch
         /\ y.gap <=> x.gap \/ frame.offset > x.shown
         /\ y.repeat <=> x.repeat \/ frame.offset < x.shown
         /\ y.attached = x.attached /\ y.awaiting = x.awaiting /\ y.queued = x.queued
         /\ y.epoch = x.epoch /\ y.shownEpoch = x.shownEpoch
<1> DEFINE frames == <<frame>>
           n      == Len(frames)
           endsAt(i) == IF i = 0 THEN x.shown ELSE frames[i].offset + frames[i].n
           gap    == x.gap \/ \E i \in 1 .. n : frames[i].offset > endsAt(i - 1)
           repeat == x.repeat \/ \E i \in 1 .. n : frames[i].offset < endsAt(i - 1)
           mixed  == x.mixed \/ \E i \in 1 .. n : frames[i].epoch # x.epoch
           writes == x.writes \o [i \in 1 .. n |-> [sync |-> x.sync, n |-> frames[i].n]]
<1>1. n = 1 /\ frames[1] = frame /\ 1 .. n = {1}
  OBVIOUS
<1>2. WriteLive(x, frames) = [x EXCEPT !.next = endsAt(n), !.shown = endsAt(n),
                                       !.gap = gap, !.repeat = repeat, !.mixed = mixed,
                                       !.used = x.used \cup {x.sync}, !.writes = writes]
  BY <1>1 DEF WriteLive
<1>3. endsAt(n) = frame.offset + frame.n
  BY <1>1
<1>4. gap = (x.gap \/ frame.offset > x.shown) /\ repeat = (x.repeat \/ frame.offset < x.shown)
  BY <1>1
<1>5. mixed = (x.mixed \/ frame.epoch # x.epoch)
  BY <1>1
<1> HIDE DEF gap, repeat, mixed, writes, endsAt, n, frames
<1>6. WriteLive(x, frames) = [x EXCEPT !.next = frame.offset + frame.n,
                                       !.shown = frame.offset + frame.n,
                                       !.gap = gap, !.repeat = repeat, !.mixed = mixed,
                                       !.used = x.used \cup {x.sync}, !.writes = writes]
  BY <1>2, <1>3
<1> QED
  BY <1>4, <1>5, <1>6 DEF Xterm, frames

\* Frames of which one is of another spawn leave the screen mixed, wherever it is.
LEMMA WriteMixed ==
  ASSUME NEW x \in Xterm, NEW frames \in Seq(Frame), NEW k \in 1 .. Len(frames),
         frames[k].epoch # x.epoch
  PROVE  LET y == WriteLive(x, frames) IN
         /\ y.next \in Nat /\ y.mixed
         /\ y.attached = x.attached /\ y.awaiting = x.awaiting /\ y.queued = x.queued
<1> DEFINE n      == Len(frames)
           endsAt(i) == IF i = 0 THEN x.shown ELSE frames[i].offset + frames[i].n
           gap    == x.gap \/ \E i \in 1 .. n : frames[i].offset > endsAt(i - 1)
           repeat == x.repeat \/ \E i \in 1 .. n : frames[i].offset < endsAt(i - 1)
           mixed  == x.mixed \/ \E i \in 1 .. n : frames[i].epoch # x.epoch
           writes == x.writes \o [i \in 1 .. n |-> [sync |-> x.sync, n |-> frames[i].n]]
<1>1. n # 0 /\ n \in 1 .. n
  OBVIOUS
<1>2. WriteLive(x, frames) = [x EXCEPT !.next = endsAt(n), !.shown = endsAt(n),
                                       !.gap = gap, !.repeat = repeat, !.mixed = mixed,
                                       !.used = x.used \cup {x.sync}, !.writes = writes]
  BY <1>1 DEF WriteLive
<1>3. frames[n] \in Frame
  <2> HIDE DEF Frame
  <2> QED
    BY <1>1
<1>4. endsAt(n) \in Nat
  BY <1>1, <1>3 DEF Frame, Offsets
<1>5. mixed = TRUE
  OBVIOUS
<1> HIDE DEF gap, repeat, mixed, writes, endsAt, n
<1> QED
  BY <1>2, <1>4, <1>5 DEF Xterm

-----------------------------------------------------------------------------
(* A message arrives: the panel's handler, one lemma per type of message. *)

\* What the handler of m leaves: a screen that is right, and at the end of m if it is in sync.
Handled(h, x, m, y) ==
  /\ ScreenOK(h, y)
  /\ y.attached = x.attached
  /\ \A i \in 1 .. Len(y.queued) :
       (Stamped(m) /\ y.queued[i] = m) \/ \E j \in 1 .. Len(x.queued) : y.queued[i] = x.queued[j]
  /\ HasPlace(y) =>
       \/ HasPlace(x) /\ y.epoch = x.epoch /\ y.next = x.next
       \/ Stamped(m) /\ y.epoch = m.epoch /\ y.next = EndOf(m)
  /\ InSync(y) =>
       IF Stamped(m)
       THEN y.epoch = m.epoch /\ y.next = EndOf(m)
       ELSE InSync(x) /\ y.epoch = x.epoch /\ y.next = x.next

\* A state message: queued frames of its own spawn are older than it, any other mixes the screen.
LEMMA StateHandled ==
  ASSUME NEW h \in Histories, NEW x \in Xterm, NEW m \in StateType, NEW y \in ApplyState(x, m),
         ScreenOK(h, x), Written(h, m), x.attached,
         \A i \in 1 .. Len(x.queued) : Precedes(x.queued[i], m),
         Resumes(m) => Waits(x, m.epoch, m.offset)
  PROVE  Handled(h, x, m, y)
<1> DEFINE drawn  == Redraw(x, m)
           synced == [drawn EXCEPT
                        !.epoch = m.epoch, !.next = m.offset, !.sync = m.offset,
                        !.awaiting = FALSE, !.unacked = 0, !.queued = <<>>,
                        !.stale = m.offset \in x.used]
<1>1. /\ m.type = "state" /\ m.mode \in {"resume", "snapshot"}
      /\ m.epoch \in Nat /\ m.offset \in Nat /\ Stamped(m) /\ EndOf(m) = m.offset
  BY DEF StateType, Stamped, EndOf, Offsets
<1>2. drawn \in Xterm
  BY <1>1 DEF Redraw, Xterm, Offsets
<1>3. /\ drawn.attached = x.attached /\ drawn.shown \in Nat
      /\ m.mode = "snapshot" => /\ drawn.shownEpoch = m.epoch /\ drawn.shown = m.offset
                                /\ ~drawn.gap /\ ~drawn.repeat /\ ~drawn.mixed
      /\ m.mode # "snapshot" => drawn = x
  BY <1>1, <1>2 DEF Redraw, Xterm, Offsets
<1> HIDE DEF drawn
<1>4. synced \in Xterm
  <2>1. <<>> \in Seq(Frame)
    OBVIOUS
  <2> DEFINE stale == m.offset \in x.used
  <2>2. stale \in BOOLEAN
    OBVIOUS
  <2>3. synced = [drawn EXCEPT !.epoch = m.epoch, !.next = m.offset, !.sync = m.offset,
                               !.awaiting = FALSE, !.unacked = 0, !.queued = <<>>,
                               !.stale = stale]
    OBVIOUS
  <2> HIDE DEF stale, synced
  <2> QED
    BY <1>1, <1>2, <2>1, <2>2, <2>3 DEF Xterm, Offsets
<1>5. /\ synced.epoch = m.epoch /\ synced.next = m.offset /\ ~synced.awaiting
      /\ synced.queued = <<>> /\ synced.attached = x.attached
      /\ synced.shown = drawn.shown /\ synced.shownEpoch = drawn.shownEpoch
      /\ synced.gap = drawn.gap /\ synced.repeat = drawn.repeat /\ synced.mixed = drawn.mixed
  BY <1>2, <1>3 DEF Xterm
<1>6. x.queued \in Seq(Frame)
  BY DEF Xterm
<1>7. PICK frames \in KeptFrames(x.queued, m.offset) : y = WriteLive(synced, frames)
  BY DEF ApplyState, drawn
<1> HIDE DEF synced
<1>8. frames \in Seq(Frame)
  BY <1>6, KeptFramesType
<1>9. m.epoch \in 1 .. h.epoch /\ m.offset =< h.produced[m.epoch]
  BY <1>1 DEF Written
<1>10. CASE Len(frames) = 0
  <2>1. y = synced
    BY <1>7, <1>8, <1>10, WriteNothing
  <2>2. m.mode = "resume" => Waits(x, m.epoch, m.offset)
    BY <1>1 DEF Resumes
  <2>3. ScreenOK(h, y)
    <3>1. CASE m.mode = "snapshot"
      BY <1>1, <1>3, <1>5, <1>9, <2>1, <3>1 DEF ScreenOK, HasPlace, Unknown
    <3>2. CASE m.mode = "resume"
      BY <1>1, <1>3, <1>5, <1>9, <2>1, <2>2, <3>2 DEF ScreenOK, HasPlace, Unknown, Waits
    <3> QED
      BY <1>1, <3>1, <3>2
  <2>4. Len(y.queued) = 0 /\ y.attached = x.attached /\ y.epoch = m.epoch /\ y.next = EndOf(m)
    BY <1>1, <1>5, <2>1
  <2> QED
    BY <1>1, <2>3, <2>4 DEF Handled
<1>11. CASE Len(frames) # 0
  <2>1. 1 \in 1 .. Len(frames)
    BY <1>8, <1>11
  <2>2. PICK i \in 1 .. Len(x.queued) :
          frames[1] = x.queued[i] /\ x.queued[i].offset >= m.offset
    BY <1>6, <2>1, KeptFromQueue
  <2>3. x.queued[i] \in Frame
    <3> HIDE DEF Frame
    <3> QED
      BY <1>6
  <2>4. Precedes(x.queued[i], m) /\ Written(h, x.queued[i])
    BY DEF ScreenOK
  <2>5. frames[1].epoch # m.epoch
    BY <1>1, <2>2, <2>3, <2>4, FrameFields DEF Precedes, Written
  <2>6. /\ y.next \in Nat /\ y.mixed
        /\ y.attached = synced.attached /\ y.awaiting = synced.awaiting
        /\ y.queued = synced.queued
    BY <1>4, <1>5, <1>7, <1>8, <2>1, <2>5, WriteMixed
  <2>7. ~y.awaiting /\ y.attached = x.attached /\ y.next # Unknown /\ Len(y.queued) = 0
    BY <1>5, <2>6 DEF Unknown
  <2>8. ~HasPlace(y) /\ ~InSync(y)
    BY <2>6 DEF HasPlace, InSync
  <2>9. ScreenOK(h, y)
    BY <2>6, <2>7, <2>8 DEF ScreenOK
  <2> QED
    BY <2>7, <2>8, <2>9 DEF Handled
<1> QED
  BY <1>8, <1>10, <1>11

\* An output frame: queued by a panel that waits, written where the screen ends by one in sync.
LEMMA OutputHandled ==
  ASSUME NEW h \in Histories, NEW x \in Xterm, NEW m \in Frame,
         ScreenOK(h, x), Written(h, m), x.attached,
         InSync(x) => m.epoch = x.epoch /\ m.offset = x.next
  PROVE  Handled(h, x, m, Receive(x, m))
<1> DEFINE y == Receive(x, m)
<1>1. /\ m.type = "output" /\ Stamped(m)
      /\ m.epoch \in Nat /\ m.offset \in Nat /\ m.n \in Nat /\ EndOf(m) = m.offset + m.n
  BY FrameFields
<1>2. CASE x.awaiting
  <2>1. y = [x EXCEPT !.queued = Append(x.queued, m)] /\ x.queued \in Seq(Frame)
    BY <1>2 DEF Receive, Xterm
  <2> HIDE DEF y, Frame
  <2>2. Len(y.queued) = Len(x.queued) + 1 /\ Len(x.queued) \in Nat
    BY <2>1 DEF Xterm
  <2>3. \A i \in 1 .. Len(y.queued) :
          y.queued[i] = m \/ (i \in 1 .. Len(x.queued) /\ y.queued[i] = x.queued[i])
    BY <2>1, <2>2 DEF Xterm
  <2>4. /\ y.attached = x.attached /\ y.awaiting = x.awaiting /\ y.epoch = x.epoch
        /\ y.next = x.next /\ y.shown = x.shown /\ y.shownEpoch = x.shownEpoch
        /\ y.gap = x.gap /\ y.repeat = x.repeat /\ y.mixed = x.mixed
    BY <2>1 DEF Xterm
  <2>5. \A i \in 1 .. Len(y.queued) : Written(h, y.queued[i])
    BY <2>3 DEF ScreenOK
  <2>6. ScreenOK(h, y)
    BY <2>4, <2>5 DEF ScreenOK, HasPlace
  <2>7. HasPlace(y) => HasPlace(x) /\ y.epoch = x.epoch /\ y.next = x.next
    BY <2>4 DEF HasPlace
  <2>8. ~InSync(y)
    BY <1>2, <2>4 DEF InSync
  <2>9. Handled(h, x, m, y)
    BY <1>1, <2>3, <2>4, <2>6, <2>7, <2>8 DEF Handled
  <2> QED
    BY <2>9 DEF y
<1>3. CASE ~x.awaiting
  <2>1. y = WriteLive(x, <<m>>)
    BY <1>3 DEF Receive
  <2> HIDE DEF y
  <2>2. /\ y.next = m.offset + m.n /\ y.shown = m.offset + m.n
        /\ y.mixed <=> x.mixed \/ m.epoch # x.epoch
        /\ y.gap <=> x.gap \/ m.offset > x.shown
        /\ y.repeat <=> x.repeat \/ m.offset < x.shown
        /\ y.attached = x.attached /\ y.awaiting = x.awaiting /\ y.queued = x.queued
        /\ y.epoch = x.epoch /\ y.shownEpoch = x.shownEpoch
    BY <2>1, WriteOne
  <2>3. y.next # Unknown
    BY <1>1, <2>2 DEF Unknown
  <2>4. CASE x.mixed
    <3>1. ~HasPlace(y) /\ ~InSync(y)
      BY <2>2, <2>4 DEF HasPlace, InSync
    <3>2. ScreenOK(h, y)
      BY <2>2, <2>3, <2>4, <3>1 DEF ScreenOK
    <3>3. Handled(h, x, m, y)
      BY <2>2, <3>1, <3>2 DEF Handled
    <3> QED
      BY <3>3 DEF y
  <2>5. CASE ~x.mixed
    <3>1. m.epoch = x.epoch /\ m.offset = x.next /\ x.next # Unknown
      BY <1>3, <2>5 DEF InSync, ScreenOK
    <3>2. x.shown = x.next /\ x.shownEpoch = x.epoch /\ ~x.gap /\ ~x.repeat
      BY <2>5, <3>1 DEF ScreenOK, HasPlace
    <3>3. m.epoch \in 1 .. h.epoch /\ m.offset + m.n =< h.produced[m.epoch]
      BY <1>1 DEF Written
    <3>4. ~y.gap /\ ~y.repeat /\ ~y.mixed
      BY <1>1, <2>2, <2>5, <3>1, <3>2
    <3>5. ScreenOK(h, y)
      BY <1>3, <2>2, <2>3, <3>1, <3>2, <3>3, <3>4 DEF ScreenOK, HasPlace
    <3>6. Handled(h, x, m, y)
      BY <1>1, <2>2, <3>1, <3>5 DEF Handled
    <3> QED
      BY <3>6 DEF y
  <2> QED
    BY <2>4, <2>5 DEF Xterm
<1> QED
  BY <1>2, <1>3 DEF Xterm

\* An exit moves nothing on the screen.
LEMMA ExitHandled ==
  ASSUME NEW h \in Histories, NEW x \in Xterm, NEW m, ~Stamped(m), ScreenOK(h, x)
  PROVE  Handled(h, x, m, [x EXCEPT !.exited = TRUE])
<1> DEFINE y == [x EXCEPT !.exited = TRUE]
<1>1. /\ y.attached = x.attached /\ y.awaiting = x.awaiting /\ y.epoch = x.epoch
      /\ y.next = x.next /\ y.shown = x.shown /\ y.shownEpoch = x.shownEpoch /\ y.queued = x.queued
      /\ y.gap = x.gap /\ y.repeat = x.repeat /\ y.mixed = x.mixed
  BY DEF Xterm
<1> HIDE DEF y
<1> QED
  BY <1>1 DEF Handled, ScreenOK, HasPlace, InSync, y

\* The messages of a queue, and those that are left when the first is delivered.
LEMMA TailFields ==
  ASSUME NEW q \in Seq(ServerMsg), q # <<>>
  PROVE  /\ Len(q) \in Nat /\ Len(q) >= 1 /\ q[1] = Head(q) /\ q[1] \in ServerMsg
         /\ Tail(q) \in Seq(ServerMsg)
         /\ Len(Tail(q)) = Len(q) - 1
         /\ \A i \in 1 .. Len(Tail(q)) :
              Tail(q)[i] = q[i + 1] /\ i + 1 \in 2 .. Len(q) /\ i + 1 \in 1 .. Len(q)
<1> HIDE DEF ServerMsg
<1> QED
  OBVIOUS

\* Any message is handled right by a panel it may come to.
LEMMA MessageHandled ==
  ASSUME NEW h \in Histories, NEW x \in Xterm, NEW q \in Seq(ServerMsg), q # <<>>, x.attached,
         ScreenOK(h, x), StreamOK(h, x, q), NEW y \in Handle(x, q[1])
  PROVE  Handled(h, x, q[1], y)
<1> DEFINE m == q[1]
<1>1. 1 \in 1 .. Len(q) /\ m \in ServerMsg
  BY TailFields
<1>2. Written(h, m) /\ \A i \in 1 .. Len(x.queued) : Precedes(x.queued[i], m)
  BY <1>1 DEF StreamOK
<1>3. Resumes(m) => Waits(x, m.epoch, m.offset)
  BY <1>1 DEF StreamOK
<1>4. InSync(x) => Follows(h, Place(x), m)
  BY DEF StreamOK
<1> HIDE DEF m
<1>5. CASE m.type = "state"
  <2>1. y \in ApplyState(x, m) /\ m \in StateType
    BY <1>1, <1>5, MsgFields DEF Handle, m
  <2> QED
    BY <1>2, <1>3, <2>1, StateHandled DEF m
<1>6. CASE m.type = "output"
  <2>1. y = Receive(x, m) /\ m \in Frame
    BY <1>1, <1>6, MsgFields DEF Handle, m
  <2>2. InSync(x) => m.epoch = x.epoch /\ m.offset = x.next
    BY <1>4, <1>6 DEF Follows, Place, EndOf
  <2> QED
    BY <1>2, <2>1, <2>2, OutputHandled DEF m
<1>7. CASE m.type = "exit"
  <2>1. y = [x EXCEPT !.exited = TRUE] /\ ~Stamped(m)
    BY <1>7 DEF Handle, Stamped, m
  <2> QED
    BY <2>1, ExitHandled DEF m
<1> QED
  BY <1>1, <1>5, <1>6, <1>7, MsgFields

\* Once the first message is handled, the others are still in order behind it.
LEMMA RestOK ==
  ASSUME NEW h \in Histories, NEW x \in Xterm, NEW q \in Seq(ServerMsg), q # <<>>,
         StreamOK(h, x, q), NEW y, Handled(h, x, q[1], y)
  PROVE  StreamOK(h, y, Tail(q))
<1> DEFINE m == q[1]
           r == Tail(q)
<1>1. /\ Len(q) \in Nat /\ Len(q) >= 1 /\ 1 \in 1 .. Len(q)
      /\ Len(r) = Len(q) - 1 /\ r \in Seq(ServerMsg)
      /\ \A i \in 1 .. Len(r) : r[i] = q[i + 1] /\ i + 1 \in 2 .. Len(q) /\ i + 1 \in 1 .. Len(q)
  BY TailFields
<1> HIDE DEF m, r
<1>2. \A i \in 1 .. Len(r) : Written(h, r[i])
  BY <1>1 DEF StreamOK
<1>3. \A i, j \in 1 .. Len(r) : i < j => Precedes(r[i], r[j])
  <2> SUFFICES ASSUME NEW i \in 1 .. Len(r), NEW j \in 1 .. Len(r), i < j
               PROVE  Precedes(r[i], r[j])
    OBVIOUS
  <2>1. i + 1 \in 1 .. Len(q) /\ j + 1 \in 1 .. Len(q) /\ i + 1 < j + 1
    BY <1>1
  <2> QED
    BY <1>1, <2>1 DEF StreamOK
<1>4. \A j \in 1 .. Len(r) : Precedes(m, r[j])
  <2> TAKE j \in 1 .. Len(r)
  <2>1. j + 1 \in 1 .. Len(q) /\ 1 < j + 1
    BY <1>1
  <2> QED
    BY <1>1, <2>1 DEF StreamOK, m
<1>5. \A i \in 1 .. Len(y.queued), j \in 1 .. Len(r) : Precedes(y.queued[i], r[j])
  <2> SUFFICES ASSUME NEW i \in 1 .. Len(y.queued), NEW j \in 1 .. Len(r)
               PROVE  Precedes(y.queued[i], r[j])
    OBVIOUS
  <2>1. CASE y.queued[i] = m
    BY <1>4, <2>1
  <2>2. CASE \E k \in 1 .. Len(x.queued) : y.queued[i] = x.queued[k]
    BY <1>1, <2>2 DEF StreamOK
  <2> QED
    BY <2>1, <2>2 DEF Handled, m
<1>6. HasPlace(y) => \A j \in 1 .. Len(r) : Precedes(Place(y), r[j])
  <2> SUFFICES ASSUME HasPlace(y), NEW j \in 1 .. Len(r)
               PROVE  Precedes(Place(y), r[j])
    OBVIOUS
  <2>1. CASE HasPlace(x) /\ y.epoch = x.epoch /\ y.next = x.next
    <3>1. Precedes(Place(x), r[j]) /\ Place(y) = Place(x)
      BY <1>1, <2>1 DEF StreamOK, Place
    <3> QED
      BY <3>1
  <2>2. CASE Stamped(m) /\ y.epoch = m.epoch /\ y.next = EndOf(m)
    <3>1. EndOf(Place(y)) = EndOf(m) /\ Place(y).epoch = m.epoch
      BY <2>2 DEF Place, EndOf
    <3> QED
      BY <1>4, <2>2, <3>1 DEF Precedes
  <2> QED
    BY <2>1, <2>2 DEF Handled, m
<1>7. \A i \in 2 .. Len(r) : Follows(h, r[i - 1], r[i])
  <2> TAKE i \in 2 .. Len(r)
  <2>1. i - 1 \in 1 .. Len(r) /\ i \in 1 .. Len(r) /\ i + 1 \in 2 .. Len(q)
    BY <1>1
  <2>2. r[i - 1] = q[(i + 1) - 1] /\ r[i] = q[i + 1]
    BY <1>1, <2>1
  <2> QED
    BY <2>1, <2>2 DEF StreamOK
<1>8. InSync(y) /\ r # <<>> => Follows(h, Place(y), r[1])
  <2> SUFFICES ASSUME InSync(y), r # <<>>
               PROVE  Follows(h, Place(y), r[1])
    OBVIOUS
  <2>1. 1 \in 1 .. Len(r)
    BY <1>1
  <2>2. r[1] = q[2] /\ 2 \in 2 .. Len(q) /\ 2 - 1 = 1
    BY <1>1, <2>1
  <2>3. Follows(h, m, r[1])
    BY <2>2 DEF StreamOK, m
  <2>4. CASE Stamped(m)
    <3>1. y.epoch = m.epoch /\ y.next = EndOf(m)
      BY <2>4 DEF Handled, m
    <3>2. EndOf(Place(y)) = EndOf(m) /\ Place(y).epoch = m.epoch /\ Stamped(Place(y))
      BY <3>1 DEF Place, EndOf, Stamped
    <3> QED
      BY <2>3, <3>2 DEF Follows
  <2>5. CASE ~Stamped(m)
    BY <2>3, <2>5 DEF Follows
  <2> QED
    BY <2>4, <2>5
<1>9. \A i \in 1 .. Len(r) : ~Resumes(r[i])
  <2> TAKE i \in 1 .. Len(r)
  <2>1. i + 1 \in 1 .. Len(q) /\ i + 1 # 1
    BY <1>1
  <2> QED
    BY <1>1, <2>1 DEF StreamOK
<1>10. StreamOK(h, y, r)
  BY <1>2, <1>3, <1>5, <1>6, <1>7, <1>8, <1>9 DEF StreamOK
<1> QED
  BY <1>10 DEF r

\* A window with no panel loses what is delivered to it.
LEMMA RestOfNobody ==
  ASSUME NEW h \in Histories, NEW x \in Xterm, NEW q \in Seq(ServerMsg), q # <<>>,
         StreamOK(h, x, q), ~x.attached
  PROVE  StreamOK(h, x, Tail(q))
<1> DEFINE r == Tail(q)
<1>1. /\ Len(q) \in Nat /\ Len(q) >= 1
      /\ Len(r) = Len(q) - 1
      /\ \A i \in 1 .. Len(r) : r[i] = q[i + 1] /\ i + 1 \in 2 .. Len(q) /\ i + 1 \in 1 .. Len(q)
  BY TailFields
<1> HIDE DEF r
<1>2. \A i, j \in 1 .. Len(r) : i < j => Precedes(r[i], r[j])
  <2> SUFFICES ASSUME NEW i \in 1 .. Len(r), NEW j \in 1 .. Len(r), i < j
               PROVE  Precedes(r[i], r[j])
    OBVIOUS
  <2>1. i + 1 \in 1 .. Len(q) /\ j + 1 \in 1 .. Len(q) /\ i + 1 < j + 1
    BY <1>1
  <2> QED
    BY <1>1, <2>1 DEF StreamOK
<1>3. \A i \in 2 .. Len(r) : Follows(h, r[i - 1], r[i])
  <2> TAKE i \in 2 .. Len(r)
  <2>1. i - 1 \in 1 .. Len(r) /\ i \in 1 .. Len(r) /\ i + 1 \in 2 .. Len(q)
    BY <1>1
  <2>2. r[i - 1] = q[(i + 1) - 1] /\ r[i] = q[i + 1]
    BY <1>1, <2>1
  <2> QED
    BY <2>1, <2>2 DEF StreamOK
<1>4. \A i \in 1 .. Len(r) : ~Resumes(r[i])
  BY <1>1 DEF StreamOK, Waits
<1>5. ~InSync(x)
  BY DEF InSync
<1>6. StreamOK(h, x, r)
  BY <1>1, <1>2, <1>3, <1>4, <1>5 DEF StreamOK
<1> QED
  BY <1>6 DEF r

\* Where a stream ends is not changed by delivering some of it.
LEMMA RestReaches ==
  ASSUME NEW h, NEW x \in Xterm, NEW q \in Seq(ServerMsg), q # <<>>, NEW e, NEW o,
         Reaches(x, q, e, o), NEW y, Handled(h, x, q[1], y) \/ ~InSync(y)
  PROVE  Reaches(y, Tail(q), e, o)
<1> DEFINE r == Tail(q)
<1>1. /\ Len(q) \in Nat /\ Len(q) >= 1 /\ Len(r) = Len(q) - 1
      /\ \A i \in 1 .. Len(r) : r[i] = q[i + 1]
      /\ r \in Seq(ServerMsg)
  BY TailFields
<1>2. Stamped(q[Len(q)]) /\ q[Len(q)].epoch = e /\ EndOf(q[Len(q)]) = o
  BY DEF Reaches
<1> HIDE DEF r
<1>3. CASE r = <<>>
  <2>1. Len(q) = 1
    BY <1>1, <1>3
  <2>2. InSync(y) => y.epoch = e /\ y.next = o
    BY <1>2, <2>1 DEF Handled
  <2> QED
    BY <1>3, <2>2 DEF Reaches, r
<1>4. CASE r # <<>>
  <2>1. Len(r) \in 1 .. Len(r) /\ r[Len(r)] = q[Len(q)]
    BY <1>1, <1>4
  <2> QED
    BY <1>2, <1>4, <2>1 DEF Reaches, r
<1> QED
  BY <1>3, <1>4

\* Nor does it go past what it stayed below.
LEMMA RestBefore ==
  ASSUME NEW h, NEW x \in Xterm, NEW q \in Seq(ServerMsg), q # <<>>, NEW e, NEW o,
         AllBefore(x, q, e, o), NEW y, Handled(h, x, q[1], y) \/ y = x
  PROVE  AllBefore(y, Tail(q), e, o)
<1> DEFINE r == Tail(q)
<1>1. /\ 1 \in 1 .. Len(q)
      /\ \A i \in 1 .. Len(r) : r[i] = q[i + 1] /\ i + 1 \in 1 .. Len(q)
  BY TailFields
<1> HIDE DEF r
<1>2. \A i \in 1 .. Len(r) : Before(r[i], e, o)
  BY <1>1 DEF AllBefore
<1>3. Before(q[1], e, o)
  BY <1>1 DEF AllBefore
<1>4. \A i \in 1 .. Len(y.queued) : Before(y.queued[i], e, o)
  BY <1>3 DEF AllBefore, Handled
<1>5. HasPlace(y) => Before(Place(y), e, o)
  <2>1. CASE HasPlace(x) /\ y.epoch = x.epoch /\ y.next = x.next
    <3>1. Place(y) = Place(x)
      BY <2>1 DEF Place
    <3> QED
      BY <2>1, <3>1 DEF AllBefore
  <2>2. CASE Stamped(q[1]) /\ y.epoch = q[1].epoch /\ y.next = EndOf(q[1])
    BY <1>3, <2>2 DEF Before, Place, EndOf, Stamped
  <2> QED
    BY <2>1, <2>2 DEF Handled
<1> QED
  BY <1>2, <1>4, <1>5 DEF AllBefore, r

-----------------------------------------------------------------------------
(* A message is sent. *)

\* A queue with one message more.
LEMMA AppendFields ==
  ASSUME NEW q \in Seq(ServerMsg), NEW m \in ServerMsg
  PROVE  /\ Len(q) \in Nat /\ Append(q, m) \in Seq(ServerMsg) /\ Append(q, m) # <<>>
         /\ Len(Append(q, m)) = Len(q) + 1 /\ Append(q, m)[Len(q) + 1] = m
         /\ \A i \in 1 .. Len(q) : Append(q, m)[i] = q[i]
         /\ q = <<>> <=> Len(q) = 0
<1> HIDE DEF ServerMsg
<1> QED
  OBVIOUS

\* A message that may follow the last one, and starts where all others have ended, may be sent.
LEMMA AppendOK ==
  ASSUME NEW h \in Histories, NEW x \in Xterm, NEW q \in Seq(ServerMsg), NEW m \in ServerMsg,
         StreamOK(h, x, q), ScreenOK(h, x), Written(h, m), MayFollow(h, x, q, m),
         Stamped(m) => m.epoch = h.epoch /\ AllBefore(x, q, m.epoch, m.offset),
         Resumes(m) => q = <<>> /\ Waits(x, m.epoch, m.offset)
  PROVE  StreamOK(h, x, Append(q, m))
<1> DEFINE r == Append(q, m)
           n == Len(q)
<1>1. /\ n \in Nat /\ Len(r) = n + 1 /\ r[n + 1] = m /\ r # <<>>
      /\ \A i \in 1 .. n : r[i] = q[i]
      /\ q = <<>> <=> n = 0
  BY AppendFields
<1> HIDE DEF r
<1>2. \A i \in 1 .. Len(r) : i \in 1 .. n \/ i = n + 1
  BY <1>1
<1>3. \A i \in 1 .. Len(r) : Written(h, r[i])
  BY <1>1, <1>2 DEF StreamOK
<1>4. \A k : Written(h, k) /\ (k.epoch = h.epoch => Before(k, h.epoch, m.offset)) => Precedes(k, m)
  <2> SUFFICES ASSUME NEW k, Written(h, k), k.epoch = h.epoch => Before(k, h.epoch, m.offset),
                      Stamped(k), Stamped(m)
               PROVE  k.epoch < m.epoch \/ (k.epoch = m.epoch /\ EndOf(k) =< m.offset)
    BY DEF Precedes
  <2>1. m.epoch = h.epoch /\ k.epoch \in 1 .. h.epoch /\ h.epoch \in Nat
    BY DEF Written, Histories
  <2> QED
    BY <2>1 DEF Before
<1>5. \A i \in 1 .. n : Precedes(q[i], m)
  BY <1>4 DEF StreamOK, AllBefore, Precedes
<1>6. \A i, j \in 1 .. Len(r) : i < j => Precedes(r[i], r[j])
  <2> SUFFICES ASSUME NEW i \in 1 .. Len(r), NEW j \in 1 .. Len(r), i < j
               PROVE  Precedes(r[i], r[j])
    OBVIOUS
  <2>1. i \in 1 .. n
    BY <1>1
  <2>2. CASE j \in 1 .. n
    BY <1>1, <2>1, <2>2 DEF StreamOK
  <2>3. CASE j = n + 1
    BY <1>1, <1>5, <2>1, <2>3
  <2> QED
    BY <1>2, <2>2, <2>3
<1>7. \A i \in 1 .. Len(x.queued) : Precedes(x.queued[i], m)
  BY <1>4 DEF ScreenOK, AllBefore, Precedes
<1>8. \A i \in 1 .. Len(x.queued), j \in 1 .. Len(r) : Precedes(x.queued[i], r[j])
  BY <1>1, <1>2, <1>7 DEF StreamOK
<1>9. HasPlace(x) => Precedes(Place(x), m)
  <2> SUFFICES ASSUME HasPlace(x), Stamped(m)
               PROVE  Precedes(Place(x), m)
    BY DEF Precedes
  <2>1. Written(h, Place(x))
    BY DEF ScreenOK, Written, Place, EndOf
  <2>2. Before(Place(x), m.epoch, m.offset) /\ m.epoch = h.epoch
    BY DEF AllBefore
  <2> QED
    BY <1>4, <2>1, <2>2
<1>10. HasPlace(x) => \A j \in 1 .. Len(r) : Precedes(Place(x), r[j])
  BY <1>1, <1>2, <1>9 DEF StreamOK
<1>11. \A i \in 2 .. Len(r) : Follows(h, r[i - 1], r[i])
  <2> TAKE i \in 2 .. Len(r)
  <2>1. i - 1 \in 1 .. n
    BY <1>1
  <2>2. CASE i \in 2 .. n
    <3>1. i \in 1 .. n
      BY <2>2
    <3> QED
      BY <1>1, <2>1, <2>2, <3>1 DEF StreamOK
  <2>3. CASE i = n + 1
    <3>1. q # <<>> /\ i - 1 = n
      BY <1>1, <2>1, <2>3
    <3> QED
      BY <1>1, <2>1, <2>3, <3>1 DEF MayFollow
  <2> QED
    BY <1>1, <2>2, <2>3
<1>12. InSync(x) => Follows(h, Place(x), r[1])
  <2>1. CASE q = <<>>
    BY <1>1, <2>1 DEF MayFollow
  <2>2. CASE q # <<>>
    <3>1. 1 \in 1 .. n
      BY <1>1, <2>2
    <3> QED
      BY <1>1, <2>2, <3>1 DEF StreamOK
  <2> QED
    BY <2>1, <2>2
<1>13. \A i \in 1 .. Len(r) : Resumes(r[i]) => i = 1 /\ Waits(x, r[i].epoch, r[i].offset)
  BY <1>1, <1>2 DEF StreamOK
<1>14. StreamOK(h, x, r)
  BY <1>3, <1>6, <1>8, <1>10, <1>11, <1>12, <1>13 DEF StreamOK
<1> QED
  BY <1>14 DEF r

\* What a queue ends with, and stays below, with one message more.
LEMMA AppendEnds ==
  ASSUME NEW x, NEW q \in Seq(ServerMsg), NEW m \in ServerMsg
  PROVE  /\ Stamped(m) => Reaches(x, Append(q, m), m.epoch, EndOf(m))
         /\ \A e, o : AllBefore(x, q, e, o) /\ Before(m, e, o) => AllBefore(x, Append(q, m), e, o)
<1> DEFINE r == Append(q, m)
           n == Len(q)
<1>1. /\ n \in Nat /\ Len(r) = n + 1 /\ r[n + 1] = m /\ r # <<>>
      /\ \A i \in 1 .. n : r[i] = q[i]
  BY AppendFields
<1> HIDE DEF r
<1>2. \A i \in 1 .. Len(r) : i \in 1 .. n \/ i = n + 1
  BY <1>1
<1>3. Stamped(m) => Reaches(x, r, m.epoch, EndOf(m))
  BY <1>1 DEF Reaches
<1>4. \A e, o : AllBefore(x, q, e, o) /\ Before(m, e, o) => AllBefore(x, r, e, o)
  BY <1>1, <1>2 DEF AllBefore
<1> QED
  BY <1>3, <1>4 DEF r

\* A snapshot, and the exit of a client that was not live, may follow anything; output only what it
\* continues, the exit of a live client only the end.
LEMMA MayFollowThat ==
  ASSUME NEW h, NEW x, NEW q \in Seq(ServerMsg), NEW m
  PROVE  /\ m.type = "state" /\ m.mode = "snapshot" => MayFollow(h, x, q, m)
         /\ m.type = "exit" /\ ~m.synced => MayFollow(h, x, q, m)
         /\ m.type = "output" /\ Reaches(x, q, m.epoch, m.offset) => MayFollow(h, x, q, m)
         /\ \A e : m.type = "exit" /\ Past(h, e) /\ Reaches(x, q, e, h.produced[e])
                     => MayFollow(h, x, q, m)
<1>1. m.type = "state" /\ m.mode = "snapshot" => MayFollow(h, x, q, m)
  BY DEF MayFollow, Follows
<1>2. m.type = "exit" /\ ~m.synced => MayFollow(h, x, q, m)
  BY DEF MayFollow, Follows
<1>3. ASSUME NEW e, NEW o, Reaches(x, q, e, o)
      PROVE  /\ q = <<>> /\ InSync(x) =>
                  Stamped(Place(x)) /\ Place(x).epoch = e /\ EndOf(Place(x)) = o
             /\ q # <<>> => Stamped(q[Len(q)]) /\ q[Len(q)].epoch = e /\ EndOf(q[Len(q)]) = o
  BY <1>3 DEF Reaches, Place, EndOf, Stamped
<1>4. m.type = "output" /\ Reaches(x, q, m.epoch, m.offset) => MayFollow(h, x, q, m)
  BY <1>3 DEF MayFollow, Follows
<1>5. \A e : m.type = "exit" /\ Past(h, e) /\ Reaches(x, q, e, h.produced[e]) => MayFollow(h, x, q, m)
  BY <1>3 DEF MayFollow, Follows
<1> QED
  BY <1>1, <1>2, <1>4, <1>5

\* Nothing is past the end of what was written.
LEMMA BeforeEnd ==
  ASSUME NEW h \in Histories, NEW x, NEW q, StreamOK(h, x, q), ScreenOK(h, x)
  PROVE  /\ \A e : AllBefore(x, q, e, h.produced[e])
         /\ \A e \in Nat : e > h.epoch => \A o : AllBefore(x, q, e, o)
<1>1. \A k : Written(h, k) => /\ \A e : Before(k, e, h.produced[e])
                              /\ \A e \in Nat : e > h.epoch => \A o : Before(k, e, o)
  BY DEF Written, Before, Histories
<1>2. HasPlace(x) => Written(h, Place(x))
  BY DEF ScreenOK, Written, Place, EndOf
<1> QED
  BY <1>1, <1>2 DEF AllBefore, StreamOK, ScreenOK

\* What was right stays right when the shells go on.
LEMMA LaterOK ==
  ASSUME NEW h \in Histories, NEW k \in Histories, Later(h, k),
         NEW x \in Xterm, NEW q \in Seq(ServerMsg)
  PROVE  /\ ScreenOK(h, x) => ScreenOK(k, x)
         /\ ScreenOK(h, x) /\ StreamOK(h, x, q) => StreamOK(k, x, q)
<1>1. /\ h.epoch \in Nat /\ k.epoch \in Nat /\ h.epoch =< k.epoch /\ k.epoch =< MaxEpoch
      /\ MaxEpoch \in Nat
      /\ \A e \in 1 .. MaxEpoch : h.produced[e] \in Nat /\ k.produced[e] \in Nat
  BY StreamAssumption DEF Histories, Later
<1>2. \A e \in 1 .. h.epoch : /\ e \in 1 .. k.epoch /\ e \in 1 .. MaxEpoch
                              /\ h.produced[e] =< k.produced[e]
                              /\ Past(h, e) => Past(k, e) /\ k.produced[e] = h.produced[e]
  BY <1>1 DEF Later
<1>3. ASSUME NEW m, Stamped(m) => EndOf(m) \in Nat, Written(h, m)
      PROVE  Written(k, m)
  <2> SUFFICES ASSUME Stamped(m)
               PROVE  Written(k, m)
    BY DEF Written
  <2>1. m.epoch \in 1 .. h.epoch /\ EndOf(m) =< h.produced[m.epoch] /\ (m.type = "output" => m.n > 0)
    BY <1>3 DEF Written
  <2>2. EndOf(m) =< k.produced[m.epoch]
    BY <1>1, <1>2, <1>3, <2>1
  <2> QED
    BY <1>2, <2>1, <2>2 DEF Written
<1>4. \A i \in 1 .. Len(x.queued) : EndOf(x.queued[i]) \in Nat
  <2>1. x.queued \in Seq(Frame)
    BY DEF Xterm
  <2>2. \A i \in 1 .. Len(x.queued) : x.queued[i] \in Frame
    <3> HIDE DEF Frame
    <3> QED
      BY <2>1
  <2> QED
    BY <2>2, FrameFields
<1>5. \A i \in 1 .. Len(q) : Stamped(q[i]) => EndOf(q[i]) \in Nat
  <2>1. \A i \in 1 .. Len(q) : q[i] \in ServerMsg
    <3> HIDE DEF ServerMsg
    <3> QED
      OBVIOUS
  <2> QED
    BY <2>1, MsgFields
<1>6. ASSUME ScreenOK(h, x)
      PROVE  ScreenOK(k, x)
  <2>1. \A i \in 1 .. Len(x.queued) : Written(k, x.queued[i])
    BY <1>3, <1>4, <1>6 DEF ScreenOK
  <2>2. HasPlace(x) => x.epoch \in 1 .. k.epoch /\ x.shown =< k.produced[x.epoch]
    <3> SUFFICES ASSUME HasPlace(x)
                 PROVE  x.epoch \in 1 .. k.epoch /\ x.shown =< k.produced[x.epoch]
      OBVIOUS
    <3>1. x.epoch \in 1 .. h.epoch /\ x.shown =< h.produced[x.epoch] /\ x.shown \in Nat
      BY <1>6 DEF ScreenOK, Xterm, Offsets
    <3> QED
      BY <1>1, <1>2, <3>1
  <2> QED
    BY <1>6, <2>1, <2>2 DEF ScreenOK
<1>7. ASSUME StreamOK(h, x, q), NEW m, NEW n, Written(h, m), Follows(h, m, n)
      PROVE  Follows(k, m, n)
  <2>1. Stamped(m) => m.epoch \in 1 .. h.epoch
    BY <1>7 DEF Written
  <2> QED
    BY <1>2, <1>7, <2>1 DEF Follows
<1>8. ASSUME StreamOK(h, x, q), ScreenOK(h, x)
      PROVE  StreamOK(k, x, q)
  <2>1. \A i \in 1 .. Len(q) : Written(k, q[i])
    BY <1>3, <1>5, <1>8 DEF StreamOK
  <2>2. \A i \in 2 .. Len(q) : Follows(k, q[i - 1], q[i])
    <3> TAKE i \in 2 .. Len(q)
    <3>1. i - 1 \in 1 .. Len(q)
      OBVIOUS
    <3>2. Written(h, q[i - 1]) /\ Follows(h, q[i - 1], q[i])
      BY <1>8, <3>1 DEF StreamOK
    <3> QED
      BY <1>7, <1>8, <3>2
  <2>3. InSync(x) /\ q # <<>> => Follows(k, Place(x), q[1])
    <3> SUFFICES ASSUME InSync(x), q # <<>>
                 PROVE  Follows(k, Place(x), q[1])
      OBVIOUS
    <3>1. Written(h, Place(x))
      BY <1>8 DEF ScreenOK, InSync, HasPlace, Written, Place, EndOf
    <3> QED
      BY <1>7, <1>8, <3>1 DEF StreamOK
  <2> QED
    BY <1>8, <2>1, <2>2, <2>3 DEF StreamOK
<1> QED
  BY <1>6, <1>8

\* A sync: its state message, and the output from there to the end of the stream.
LEMMA SyncSent ==
  ASSUME NEW h \in Histories, NEW x \in Xterm, NEW q \in Seq(ServerMsg),
         NEW mode \in {"resume", "snapshot"}, NEW offset \in Nat,
         SnapTypeOK, SessionScalarsOK, epoch >= 1, epoch = h.epoch, end = h.produced[h.epoch],
         offset =< end, StreamOK(h, x, q), ScreenOK(h, x), AllBefore(x, q, epoch, offset),
         mode = "resume" => q = <<>> /\ Waits(x, epoch, offset)
  PROVE  /\ q \o SyncMsgs(mode, offset) \in Seq(ServerMsg)
         /\ StreamOK(h, x, q \o SyncMsgs(mode, offset))
         /\ Reaches(x, q \o SyncMsgs(mode, offset), epoch, end)
<1> DEFINE m == StateMsg(mode, offset)
           k == OutputMsg(offset, end - offset)
           r == Append(q, m)
<1>1. epoch \in Nat /\ end \in Nat
  BY DEF SnapTypeOK, RingTypeOK, SessionScalarsOK
<1>2. /\ m \in ServerMsg /\ m.type = "state" /\ m.mode = mode /\ m.epoch = epoch
      /\ m.offset = offset /\ Stamped(m) /\ EndOf(m) = offset
  BY <1>1 DEF StateMsg, ServerMsg, Stamped, EndOf, Offsets
<1>3. end > offset =>
        /\ k \in ServerMsg /\ k.type = "output" /\ k.epoch = epoch /\ k.offset = offset
        /\ k.n > 0 /\ Stamped(k) /\ EndOf(k) = end
  <2>1. /\ k.type = "output" /\ k.epoch = epoch /\ k.offset = offset /\ k.n = end - offset
        /\ Stamped(k)
    BY DEF OutputMsg, Stamped
  <2>2. EndOf(k) = end
    BY <1>1, <2>1 DEF EndOf
  <2>3. end > offset => end - offset \in Nat /\ end - offset > 0
    BY <1>1
  <2>4. end > offset => k \in ServerMsg
    BY <1>1, <2>3 DEF OutputMsg, ServerMsg, Offsets
  <2> QED
    BY <2>1, <2>2, <2>3, <2>4
<1>4. SyncMsgs(mode, offset) = IF end > offset THEN <<m, k>> ELSE <<m>>
  BY DEF SyncMsgs
<1> HIDE DEF m, k
<1>5. StreamOK(h, x, r) /\ r \in Seq(ServerMsg)
  <2>1. Written(h, m)
    BY <1>1, <1>2 DEF Written
  <2>2. mode = "snapshot" => MayFollow(h, x, q, m)
    BY <1>2, MayFollowThat
  <2>3. mode = "resume" => MayFollow(h, x, q, m)
    BY DEF MayFollow, Waits, InSync
  <2>4. Resumes(m) => q = <<>> /\ Waits(x, m.epoch, m.offset)
    BY <1>2 DEF Resumes
  <2> QED
    BY <1>2, <2>1, <2>2, <2>3, <2>4, AppendOK, AppendFields
<1>6. Reaches(x, r, epoch, offset) /\ AllBefore(x, r, epoch, offset)
  BY <1>2, AppendEnds DEF Before
<1>7. CASE end > offset
  <2>1. q \o SyncMsgs(mode, offset) = Append(r, k)
    <3> HIDE DEF ServerMsg
    <3> QED
      BY <1>2, <1>3, <1>4, <1>7
  <2> HIDE DEF r
  <2>2. Written(h, k)
    BY <1>1, <1>3, <1>7 DEF Written
  <2>3. MayFollow(h, x, r, k)
    BY <1>3, <1>5, <1>6, <1>7, MayFollowThat
  <2>4. ~Resumes(k)
    BY <1>3, <1>7 DEF Resumes
  <2>5. StreamOK(h, x, Append(r, k)) /\ Append(r, k) \in Seq(ServerMsg)
    BY <1>3, <1>5, <1>6, <1>7, <2>2, <2>3, <2>4, AppendOK, AppendFields
  <2>6. Reaches(x, Append(r, k), epoch, end)
    BY <1>3, <1>5, <1>7, AppendEnds
  <2> QED
    BY <2>1, <2>5, <2>6
<1>8. CASE ~(end > offset)
  <2>1. q \o SyncMsgs(mode, offset) = r
    <3> HIDE DEF ServerMsg
    <3> QED
      BY <1>2, <1>4, <1>8
  <2>2. offset = end
    BY <1>1, <1>8
  <2> QED
    BY <1>5, <1>6, <2>1, <2>2
<1> QED
  BY <1>7, <1>8

-----------------------------------------------------------------------------
(* Spawns are numbered, and each has written what the session has numbered. *)

EpochsOK ==
  /\ epoch =< MaxEpoch
  /\ shell \in {"running", "exiting"} => epoch >= 1 /\ produced[epoch] = end
  /\ \A e \in 1 .. MaxEpoch : e > epoch => produced[e] = 0

Alive == shell \in {"running", "exiting"}

\* Only the PTY writes, and only a spawn brings a shell to life.
LEMMA ShellFacts ==
  ASSUME [Next]_vars
  PROVE  \/ PtyData
         \/ Spawn
         \/ /\ UNCHANGED <<epoch, produced>>
            /\ Alive' => Alive /\ end' = end
<1>1. CASE ShellStep
  <2>1. CASE ExitAfterSnapshot
    BY <2>1 DEF ExitAfterSnapshot, AttachSnapshot, Pin, Alive
  <2>2. CASE ExitNow \/ FinalSnapshotReady
    BY <2>2 DEF ExitNow, FinalSnapshotReady, RemoveSession, Alive
  <2>3. CASE SnapshotReady
    BY <2>3 DEF SnapshotReady, FinishSnapshot, Unpin, Alive
  <2> QED
    BY <1>1, <2>1, <2>2, <2>3 DEF ShellStep
<1>2. ASSUME NEW s \in Sockets, ServerStep(s)
      PROVE  UNCHANGED <<epoch, produced>> /\ (Alive' => Alive /\ end' = end)
  <2>1. CASE HandleAttach(s)
    BY <2>1 DEF HandleAttach, Attach, AttachResume, AttachSnapshot, Pin, Alive
  <2>2. CASE HandleDetach(s) \/ HandleClose(s)
    BY <2>2 DEF HandleDetach, HandleClose, Alive
  <2>3. CASE HandleAck(s)
    BY <2>3 DEF HandleAck, Ack, AckIgnored, AckCounted, AckResync, AttachSnapshot, Pin, sessionVars,
                Alive
  <2>4. CASE HandleDestroy(s)
    BY <2>4 DEF HandleDestroy, Alive
  <2> QED
    BY <1>2, <2>1, <2>2, <2>3, <2>4 DEF ServerStep
<1>3. CASE ServerRestart
  BY <1>3 DEF ServerRestart, Alive
<1>4. CASE (\E w \in Windows : WindowStep(w)) \/ UNCHANGED vars
  BY <1>4 DEF WindowStep, Mount, Unmount, Drop, Reload, Connect, Reattach, Deliver, Parse,
              vars, serverVars, sessionVars, Alive
<1> QED
  BY <1>1, <1>2, <1>3, <1>4 DEF Next

\* What the shells have written is well-typed.
LEMMA HistoryType ==
  ASSUME TypeInv, EpochsOK
  PROVE  History \in Histories
BY StreamAssumption DEF TypeInv, SessionScalarsOK, WindowsOK, EpochsOK, History, Histories, Offsets

\* After a step too.
LEMMA HistoryTypeNext ==
  ASSUME TypeInv', EpochsOK'
  PROVE  History' \in Histories
BY StreamAssumption DEF TypeInv, SessionScalarsOK, WindowsOK, EpochsOK, History, Histories, Offsets

\* Spawns go up, what they wrote only grows, and a shell that is gone writes nothing.
LEMMA EpochsStep ==
  ASSUME TypeInv, EpochsOK, [Next]_vars
  PROVE  EpochsOK' /\ Later(History, History')
<1>0. /\ epoch \in Nat /\ epoch =< MaxEpoch /\ MaxEpoch \in Nat /\ end \in Nat
      /\ produced \in [1 .. MaxEpoch -> Nat]
  BY StreamAssumption DEF TypeInv, SessionScalarsOK, WindowsOK, EpochsOK, Offsets, SnapInv, SnapTypeOK,
                          RingTypeOK
<1>1. CASE PtyData
  <2>1. PICK n \in Nat : /\ produced' = [produced EXCEPT ![epoch] = end + n]
                         /\ end' = end + n /\ UNCHANGED <<shell, epoch>> /\ Alive
    BY <1>1, StreamAssumption DEF PtyData, OnPtyData, Push, Alive
  <2>2. epoch \in 1 .. MaxEpoch /\ produced[epoch] = end
    BY <1>0, <2>1 DEF EpochsOK, Alive
  <2>3. /\ produced'[epoch] = end + n
        /\ \A e \in 1 .. MaxEpoch : e # epoch => produced'[e] = produced[e]
    BY <1>0, <2>1, <2>2
  <2>4. EpochsOK'
    BY <1>0, <2>1, <2>2, <2>3 DEF EpochsOK
  <2>5. \A e \in 1 .. epoch : produced[e] =< produced'[e]
    BY <1>0, <2>2, <2>3
  <2>6. ~History.over /\ History.epoch = epoch /\ History.produced = produced
    BY <2>1 DEF History, Alive
  <2>7. /\ History'.epoch = epoch /\ History'.produced = produced'
    BY <2>1 DEF History
  <2>8. Later(History, History')
    BY <1>0, <2>3, <2>5, <2>6, <2>7 DEF Later, Past
  <2> QED
    BY <2>4, <2>8
<1>2. CASE Spawn
  <2>1. /\ epoch' = epoch + 1 /\ epoch < MaxEpoch /\ end' = 0 /\ produced' = produced
    BY <1>2 DEF Spawn
  <2>2. epoch + 1 \in 1 .. MaxEpoch /\ produced[epoch + 1] = 0
    BY <1>0, <2>1 DEF EpochsOK
  <2>3. EpochsOK'
    BY <1>0, <2>1, <2>2 DEF EpochsOK
  <2>4. Later(History, History')
    BY <1>0, <2>1 DEF History, Later, Past
  <2> QED
    BY <2>3, <2>4
<1>3. CASE UNCHANGED <<epoch, produced>> /\ (Alive' => Alive /\ end' = end)
  <2>1. EpochsOK'
    BY <1>3 DEF EpochsOK, Alive
  <2>2. /\ History.epoch = epoch /\ History.produced = produced /\ (History.over <=> ~Alive)
        /\ History'.epoch = epoch /\ History'.produced = produced /\ (History'.over <=> ~Alive')
    BY <1>3 DEF History, Alive
  <2>3. Later(History, History')
    BY <1>0, <1>3, <2>2 DEF Later, Past
  <2> QED
    BY <2>1, <2>3
<1> QED
  BY <1>1, <1>2, <1>3, ShellFacts

-----------------------------------------------------------------------------
(* Sockets: no two windows share one, one that is down carries nothing, and a new one is new to all. *)

SocketsOK ==
  /\ \A w, v \in Windows : sock[w] = sock[v] /\ sock[w] # NoSocket => w = v
  /\ \A s \in Sockets : s \notin live => outbox[s] = <<>>
  /\ \A s \in fresh : inbox[s] = <<>> /\ s \notin clients /\ s \notin live

\* What is sent reaches the queue of its socket, when that is up, and no other.
LEMMA SendFacts ==
  ASSUME NEW s, NEW msgs, TypeInv, Send(live, s, msgs)
  PROVE  /\ live \subseteq Sockets
         /\ \A t \in Sockets : outbox'[t] = IF t = s /\ s \in live THEN outbox[s] \o msgs ELSE outbox[t]
<1>1. live \subseteq Sockets
  BY DEF live, TypeInv, WindowsOK, SocketOrNone
<1>2. outbox \in [Sockets -> Seq(ServerMsg)]
  BY DEF TypeInv, OutboxOK
<1> HIDE DEF ServerMsg
<1>3. \A t \in Sockets : outbox'[t] = IF t = s /\ s \in live THEN outbox[s] \o msgs ELSE outbox[t]
  BY <1>1, <1>2 DEF Send
<1> QED
  BY <1>1, <1>3

\* The shell and the emulator send to the session's client; a starting shell may bind the one waiting.
LEMMA ShellStepFacts ==
  ASSUME TypeInv, ShellStep
  PROVE  /\ UNCHANGED <<inbox, clients, windowVars>>
         /\ sink' \in {sink, pendingSink, NoSocket} /\ pendingSink' \in {pendingSink, NoSocket}
         /\ \A t \in Sockets : t # sink \/ t \notin live => outbox'[t] = outbox[t]
<1>1. CASE PtyData
  <2>1. UNCHANGED outbox \/ \E msgs : Send(live, sink, msgs)
    BY <1>1 DEF PtyData, OnPtyData
  <2> QED
    BY <1>1, <2>1, SendFacts DEF PtyData
<1>2. CASE Spawn
  BY <1>2 DEF Spawn
<1>3. CASE ExitAfterSnapshot
  BY <1>3 DEF ExitAfterSnapshot, AttachSnapshot
<1>4. CASE ExitNow \/ FinalSnapshotReady
  <2>1. \E msgs : Send(live, sink, msgs)
    BY <1>4 DEF ExitNow, FinalSnapshotReady
  <2> QED
    BY <1>4, <2>1, SendFacts DEF ExitNow, FinalSnapshotReady, RemoveSession, FreshSession
<1>5. CASE SnapshotReady
  <2>1. \E msgs : Send(live, sink, msgs)
    BY <1>5 DEF SnapshotReady, FinishSnapshot
  <2> QED
    BY <1>5, <2>1, SendFacts DEF SnapshotReady, FinishSnapshot
<1> QED
  BY <1>1, <1>2, <1>3, <1>4, <1>5 DEF ShellStep

\* A handler takes one message off its queue, and only an attach binds its socket or sends to it.
LEMMA ServerStepFacts ==
  ASSUME NEW s \in Sockets, TypeInv, ServerStep(s)
  PROVE  /\ UNCHANGED windowVars
         /\ clients' \subseteq clients /\ s \in clients
         /\ \A t \in Sockets : t # s => inbox'[t] = inbox[t]
         /\ s \in live => inbox[s] # <<>> /\ inbox'[s] = Tail(inbox[s])
         /\ \A t \in Sockets : outbox'[t] # outbox[t] => t = s /\ s \in live
         /\ \/ HandleAttach(s)
            \/ UNCHANGED outbox /\ sink' \in {sink, NoSocket} /\ pendingSink' \in {pendingSink, NoSocket}
         /\ sink' \in {sink, s, NoSocket} /\ pendingSink' \in {pendingSink, s, NoSocket}
<1>0. inbox \in [Sockets -> Seq(ClientMsg)]
  BY DEF TypeInv, InboxOK
<1> HIDE DEF ClientMsg
<1>1. ASSUME Consume(s)
      PROVE  /\ inbox'[s] = Tail(inbox[s])
             /\ \A t \in Sockets : t # s => inbox'[t] = inbox[t]
  BY <1>0, <1>1 DEF Consume
<1>2. CASE HandleAttach(s)
  <2>1. UNCHANGED outbox \/ \E msgs : Send(live, s, msgs)
    BY <1>2 DEF HandleAttach, Attach, AttachResume, AttachSnapshot
  <2>2. sink' \in {sink, s, NoSocket} /\ pendingSink' \in {pendingSink, s, NoSocket}
    BY <1>2 DEF HandleAttach, Attach, AttachResume, AttachSnapshot
  <2> QED
    BY <1>1, <1>2, <2>1, <2>2, SendFacts DEF HandleAttach, Arrived
<1>3. CASE HandleDetach(s)
  BY <1>1, <1>3 DEF HandleDetach, Arrived, Release, NoRelease, Detach
<1>4. CASE HandleAck(s)
  <2>1. UNCHANGED <<outbox, sink>>
    BY <1>4 DEF HandleAck, Ack, AckIgnored, AckCounted, AckResync, AttachSnapshot, sessionVars
  <2> QED
    BY <1>1, <1>4, <2>1 DEF HandleAck, Arrived
<1>5. CASE HandleDestroy(s)
  BY <1>1, <1>5 DEF HandleDestroy, Arrived, FreshSession
<1>6. CASE HandleClose(s)
  BY <1>0, <1>6 DEF HandleClose, DetachClient, Release, NoRelease, Detach
<1> QED
  BY <1>2, <1>3, <1>4, <1>5, <1>6 DEF ServerStep

\* A window sends on its own socket.
LEMMA ClientSendFacts ==
  ASSUME NEW v \in Windows, NEW msgs, TypeInv, ClientSend(v, msgs)
  PROVE  /\ \A t \in Sockets : t # sock[v] => inbox'[t] = inbox[t]
         /\ sock[v] # NoSocket => sock[v] \in Sockets /\ inbox'[sock[v]] = inbox[sock[v]] \o msgs
<1>1. inbox \in [Sockets -> Seq(ClientMsg)] /\ sock[v] \in SocketOrNone
  BY DEF TypeInv, InboxOK, WindowsOK
<1> HIDE DEF ClientMsg
<1> QED
  BY <1>1, SessionAssumption DEF ClientSend, SocketOrNone

\* A socket that goes down is emptied.
LEMMA CutSocketFacts ==
  ASSUME NEW v \in Windows, TypeInv, CutSocket(v)
  PROVE  /\ \A t \in Sockets : t # sock[v] => inbox'[t] = inbox[t] /\ outbox'[t] = outbox[t]
         /\ sock[v] \in Sockets => outbox'[sock[v]] = <<>>
         /\ sock'[v] = NoSocket /\ \A w \in Windows : w # v => sock'[w] = sock[w]
<1>1. /\ inbox \in [Sockets -> Seq(ClientMsg)] /\ outbox \in [Sockets -> Seq(ServerMsg)]
      /\ sock \in [Windows -> SocketOrNone]
  BY DEF TypeInv, InboxOK, OutboxOK, WindowsOK
<1> HIDE DEF ClientMsg, ServerMsg
<1>2. CASE sock[v] = NoSocket
  BY <1>1, <1>2, SessionAssumption DEF CutSocket
<1>3. CASE sock[v] # NoSocket
  BY <1>1, <1>3 DEF CutSocket
<1> QED
  BY <1>2, <1>3

\* A window's step changes nothing of the others: their sockets and panels are not its own.
LEMMA OtherWindows ==
  ASSUME NEW v \in Windows, NEW w \in Windows, w # v, TypeInv, SocketsOK, WindowStep(v)
  PROVE  /\ sock'[w] = sock[w] /\ xt'[w] = xt[w] /\ checks'[w] = checks[w]
         /\ sock[w] # NoSocket => /\ inbox'[sock[w]] = inbox[sock[w]]
                                  /\ outbox'[sock[w]] = outbox[sock[w]]
<1>1. /\ sock \in [Windows -> SocketOrNone] /\ xt \in [Windows -> Xterm]
      /\ checks \in [Windows -> Nat] /\ fresh \subseteq Sockets
      /\ inbox \in [Sockets -> Seq(ClientMsg)] /\ outbox \in [Sockets -> Seq(ServerMsg)]
  BY DEF TypeInv, WindowsOK, InboxOK, OutboxOK, XtermsOK
<1>2. sock[w] # NoSocket => sock[w] \in Sockets /\ sock[w] # sock[v]
  BY <1>1 DEF SocketsOK, SocketOrNone
<1> HIDE DEF ClientMsg, ServerMsg, Xterm
<1>3. CASE Mount(v) \/ Unmount(v)
  <2>1. \E msgs : ClientSend(v, msgs)
    BY <1>3 DEF Mount, Unmount
  <2> QED
    BY <1>1, <1>2, <1>3, <2>1, ClientSendFacts DEF Mount, Unmount
<1>4. CASE Drop(v) \/ Reload(v)
  BY <1>1, <1>2, <1>4, CutSocketFacts DEF Drop, Reload
<1>5. CASE Connect(v)
  <2>1. PICK s \in fresh : /\ sock' = [sock EXCEPT ![v] = s]
                           /\ inbox' = IF xt[v].attached /\ ~known[v]
                                       THEN [inbox EXCEPT ![s] = <<AttachMsg(NoSince)>>]
                                       ELSE inbox
    BY <1>5 DEF Connect
  <2>2. sock[w] # NoSocket => sock[w] # s
    BY <2>1 DEF SocketsOK, live
  <2> QED
    BY <1>1, <1>2, <1>5, <2>1, <2>2 DEF Connect
<1>6. CASE Reattach(v)
  <2>1. UNCHANGED inbox \/ \E msgs : ClientSend(v, msgs)
    BY <1>6 DEF Reattach
  <2> QED
    BY <1>1, <1>2, <1>6, <2>1, ClientSendFacts DEF Reattach
<1>7. CASE Deliver(v)
  BY <1>1, <1>2, <1>7 DEF Deliver
<1>8. CASE Parse(v)
  <2>1. UNCHANGED inbox \/ \E msgs : ClientSend(v, msgs)
    BY <1>8 DEF Parse
  <2> QED
    BY <1>1, <1>2, <1>8, <2>1, ClientSendFacts DEF Parse
<1> QED
  BY <1>3, <1>4, <1>5, <1>6, <1>7, <1>8, WindowStep(v) DEF WindowStep

\* Messages go only to sockets that are up, and a new socket is one nobody has used.
LEMMA SocketsStep ==
  ASSUME TypeInv, SocketsOK, [Next]_vars
  PROVE  SocketsOK'
<1>1. /\ sock \in [Windows -> SocketOrNone] /\ fresh \subseteq Sockets /\ clients \subseteq Sockets
      /\ inbox \in [Sockets -> Seq(ClientMsg)] /\ outbox \in [Sockets -> Seq(ServerMsg)]
  BY DEF TypeInv, WindowsOK, InboxOK, OutboxOK, OwnershipTypesOK
<1> HIDE DEF ClientMsg, ServerMsg
<1>2. CASE ShellStep
  <2>1. UNCHANGED <<sock, fresh, clients, inbox>> /\ live' = live
    BY <1>2, ShellStepFacts DEF windowVars, live
  <2>2. \A t \in Sockets : t \notin live => outbox'[t] = outbox[t]
    BY <1>2, ShellStepFacts
  <2> QED
    BY <2>1, <2>2 DEF SocketsOK
<1>3. ASSUME NEW s \in Sockets, ServerStep(s)
      PROVE  SocketsOK'
  <2>1. UNCHANGED <<sock, fresh>> /\ live' = live
    BY <1>3, ServerStepFacts DEF windowVars, live
  <2>2. /\ clients' \subseteq clients /\ s \in clients
        /\ \A t \in Sockets : t # s => inbox'[t] = inbox[t]
        /\ \A t \in Sockets : t \notin live => outbox'[t] = outbox[t]
    BY <1>3, ServerStepFacts
  <2>3. \A t \in fresh : t # s /\ t \in Sockets
    BY <1>1, <2>2 DEF SocketsOK
  <2> QED
    BY <2>1, <2>2, <2>3 DEF SocketsOK
<1>4. CASE ServerRestart
  BY <1>1, <1>4 DEF ServerRestart, SocketsOK, live
<1>5. ASSUME NEW v \in Windows, WindowStep(v)
      PROVE  SocketsOK'
  <2>1. sock[v] # NoSocket => sock[v] \in live /\ sock[v] \notin fresh
    BY DEF live, SocketsOK
  <2>2. CASE Mount(v) \/ Unmount(v) \/ Reattach(v) \/ Parse(v)
    <3>1. UNCHANGED <<sock, fresh, clients, outbox>> /\ live' = live
      BY <2>2 DEF Mount, Unmount, Reattach, Parse, serverVars, live
    <3>2. UNCHANGED inbox \/ \E msgs : ClientSend(v, msgs)
      BY <2>2 DEF Mount, Unmount, Reattach, Parse
    <3>3. \A t \in Sockets : t # sock[v] => inbox'[t] = inbox[t]
      BY <3>2, ClientSendFacts
    <3>4. \A t \in fresh : t # sock[v] /\ t \in Sockets
      BY <1>1, <2>1, SessionAssumption
    <3> QED
      BY <3>1, <3>3, <3>4 DEF SocketsOK
  <2>3. CASE Drop(v) \/ Reload(v)
    <3>1. UNCHANGED <<fresh, clients>> /\ CutSocket(v)
      BY <2>3 DEF Drop, Reload, serverVars
    <3>2. live' \subseteq live /\ \A t \in live : t \in live' \/ t = sock[v]
      BY <1>1, <3>1, CutSocketFacts DEF live
    <3>3. \A w, u \in Windows : sock'[w] = sock'[u] /\ sock'[w] # NoSocket => w = u
      BY <3>1, CutSocketFacts DEF SocketsOK
    <3>4. \A t \in Sockets : t \notin live' => outbox'[t] = <<>>
      BY <1>1, <3>1, <3>2, CutSocketFacts DEF SocketsOK
    <3>5. \A t \in fresh : inbox'[t] = <<>>
      BY <1>1, <2>1, <3>1, CutSocketFacts, SessionAssumption DEF SocketsOK
    <3> QED
      BY <3>1, <3>2, <3>3, <3>4, <3>5 DEF SocketsOK
  <2>4. CASE Connect(v)
    <3>1. PICK s \in fresh : /\ sock' = [sock EXCEPT ![v] = s] /\ fresh' = fresh \ {s}
                             /\ clients' = clients \cup {s}
                             /\ inbox' = IF xt[v].attached /\ ~known[v]
                                         THEN [inbox EXCEPT ![s] = <<AttachMsg(NoSince)>>]
                                         ELSE inbox
      BY <2>4 DEF Connect
    <3>2. sock[v] = NoSocket /\ outbox' = outbox
      BY <2>4 DEF Connect
    <3>3. live' = live \cup {s} /\ s \notin live
      BY <1>1, <3>1, <3>2, SessionAssumption DEF live, SocketsOK
    <3>4. \A w, u \in Windows : sock'[w] = sock'[u] /\ sock'[w] # NoSocket => w = u
      BY <1>1, <3>1, <3>3 DEF SocketsOK, live
    <3>5. \A t \in Sockets : t # s => inbox'[t] = inbox[t]
      BY <1>1, <3>1
    <3> QED
      BY <1>1, <3>1, <3>2, <3>3, <3>4, <3>5 DEF SocketsOK
  <2>5. CASE Deliver(v)
    <3>1. UNCHANGED <<sock, fresh, clients, inbox>> /\ live' = live
      BY <2>5 DEF Deliver, serverVars, live
    <3>2. \A t \in Sockets : t # sock[v] => outbox'[t] = outbox[t]
      BY <1>1, <2>5 DEF Deliver
    <3>3. sock[v] \in live
      BY <2>1, <2>5 DEF Deliver
    <3> QED
      BY <3>1, <3>2, <3>3 DEF SocketsOK
  <2> QED
    BY <1>5, <2>2, <2>3, <2>4, <2>5 DEF WindowStep
<1>6. CASE UNCHANGED vars
  BY <1>6 DEF vars, serverVars, sessionVars, windowVars, SocketsOK, live
<1> QED
  BY <1>2, <1>3, <1>4, <1>5, <1>6 DEF Next

-----------------------------------------------------------------------------
(***************************************************************************)
(* Attaches.  A resume is right only if the xterm still is, when it comes, *)
(* where the attach said it was.  So while a version check runs or the     *)
(* attach is on its way, the new socket is quiet: nothing is on its way to *)
(* the window, and the session is not bound to it.                         *)
(***************************************************************************)
Asks(m) == m.type = "attach"

AsksToResume(m) == Asks(m) /\ m.since.epoch # 0

NoneAsks(q) == \A i \in 1 .. Len(q) : ~Asks(q[i])

NoneResumes(q) == \A i \in 1 .. Len(q) : ~AsksToResume(q[i])

\* An attach that asks to resume is the only one, and x waits where it says.
OneResumes(x, q) ==
  \A i \in 1 .. Len(q) : AsksToResume(q[i]) =>
    /\ Waits(x, q[i].since.epoch, q[i].since.offset)
    /\ \A j \in 1 .. Len(q) : Asks(q[j]) => j = i

Quiet(s) == outbox[s] = <<>> /\ sink # s /\ pendingSink # s

SocketAttachOK(w, s) ==
  /\ checks[w] > 0 => NoneAsks(inbox[s])
  /\ OneResumes(xt[w], inbox[s])
  /\ checks[w] > 0 \/ ~NoneResumes(inbox[s]) => Quiet(s)

AttachOK ==
  \A w \in Windows : checks[w] =< 1 /\ (sock[w] # NoSocket => SocketAttachOK(w, sock[w]))

\* Messages that are no attach change nothing about those before them.
LEMMA AsksAppended ==
  ASSUME NEW x, NEW q \in Seq(ClientMsg), NEW msgs \in Seq(ClientMsg), NoneAsks(msgs)
  PROVE  /\ NoneAsks(q) => NoneAsks(q \o msgs)
         /\ NoneResumes(q) => NoneResumes(q \o msgs)
         /\ OneResumes(x, q) => OneResumes(x, q \o msgs)
<1> DEFINE r == q \o msgs
<1>1. /\ \A i \in 1 .. Len(q) : i \in 1 .. Len(r) /\ r[i] = q[i]
      /\ \A i \in 1 .. Len(r) : i \in 1 .. Len(q) \/ ~Asks(r[i])
  <2> HIDE DEF ClientMsg
  <2>1. /\ Len(q) \in Nat /\ Len(msgs) \in Nat /\ Len(r) = Len(q) + Len(msgs)
        /\ \A i \in 1 .. Len(r) : IF i =< Len(q) THEN r[i] = q[i] ELSE r[i] = msgs[i - Len(q)]
    OBVIOUS
  <2> HIDE DEF r
  <2>2. \A i \in 1 .. Len(q) : i \in 1 .. Len(r) /\ r[i] = q[i]
    BY <2>1
  <2>3. \A i \in 1 .. Len(r) : i \in 1 .. Len(q) \/ i - Len(q) \in 1 .. Len(msgs)
    BY <2>1
  <2>4. \A i \in 1 .. Len(r) : i \in 1 .. Len(q) \/ r[i] = msgs[i - Len(q)]
    BY <2>1
  <2>5. \A i \in 1 .. Len(r) : i \in 1 .. Len(q) \/ ~Asks(r[i])
    BY <2>3, <2>4 DEF NoneAsks
  <2> QED
    BY <2>2, <2>5
<1> HIDE DEF r
<1>2. \A i \in 1 .. Len(r) : AsksToResume(r[i]) => Asks(r[i])
  BY DEF AsksToResume
<1>3. NoneAsks(q) => NoneAsks(r)
  BY <1>1 DEF NoneAsks
<1>4. NoneResumes(q) => NoneResumes(r)
  BY <1>1, <1>2 DEF NoneResumes
<1>5. OneResumes(x, q) => OneResumes(x, r)
  BY <1>1, <1>2 DEF OneResumes
<1> QED
  BY <1>3, <1>4, <1>5 DEF r

\* Nor does handling the first message; when it is an attach, none that is left asks to resume.
LEMMA AsksHandled ==
  ASSUME NEW x, NEW q \in Seq(ClientMsg), q # <<>>
  PROVE  /\ NoneAsks(q) => NoneAsks(Tail(q))
         /\ NoneResumes(q) => NoneResumes(Tail(q))
         /\ OneResumes(x, q) => OneResumes(x, Tail(q))
         /\ NoneAsks(q) => ~Asks(Head(q))
         /\ OneResumes(x, q) /\ Asks(Head(q)) => NoneResumes(Tail(q))
         /\ OneResumes(x, q) /\ AsksToResume(Head(q)) =>
              Waits(x, Head(q).since.epoch, Head(q).since.offset)
         /\ NoneResumes(q) => ~AsksToResume(Head(q))
<1> DEFINE r == Tail(q)
<1>1. /\ 1 \in 1 .. Len(q) /\ Head(q) = q[1]
      /\ \A i \in 1 .. Len(r) : i + 1 \in 1 .. Len(q) /\ i + 1 # 1 /\ r[i] = q[i + 1]
      /\ \A i, j \in 1 .. Len(r) : i + 1 = j + 1 => i = j
  <2> HIDE DEF ClientMsg
  <2> QED
    OBVIOUS
<1> HIDE DEF r
<1>2. NoneAsks(q) => NoneAsks(r) /\ ~Asks(Head(q))
  BY <1>1 DEF NoneAsks
<1>3. NoneResumes(q) => NoneResumes(r) /\ ~AsksToResume(Head(q))
  BY <1>1 DEF NoneResumes
<1>4. OneResumes(x, q) => OneResumes(x, r)
  <2> SUFFICES ASSUME OneResumes(x, q), NEW i \in 1 .. Len(r), AsksToResume(r[i])
               PROVE  /\ Waits(x, r[i].since.epoch, r[i].since.offset)
                      /\ \A j \in 1 .. Len(r) : Asks(r[j]) => j = i
    BY DEF OneResumes
  <2> QED
    BY <1>1 DEF OneResumes
<1>5. OneResumes(x, q) /\ Asks(Head(q)) => NoneResumes(r)
  BY <1>1 DEF OneResumes, NoneResumes
<1>6. OneResumes(x, q) /\ AsksToResume(Head(q)) =>
        Waits(x, Head(q).since.epoch, Head(q).since.offset)
  BY <1>1 DEF OneResumes
<1> QED
  BY <1>2, <1>3, <1>4, <1>5, <1>6 DEF r

\* An attach after messages that are none.
LEMMA AskAppended ==
  ASSUME NEW x, NEW q \in Seq(ClientMsg), NEW m \in ClientMsg
  PROVE  /\ NoneResumes(q) /\ ~AsksToResume(m) => NoneResumes(q \o <<m>>)
         /\ NoneAsks(q) /\ (AsksToResume(m) => Waits(x, m.since.epoch, m.since.offset))
              => OneResumes(x, q \o <<m>>)
<1> DEFINE r == q \o <<m>>
<1>1. /\ \A i \in 1 .. Len(r) : (i \in 1 .. Len(q) /\ r[i] = q[i]) \/ (i = Len(q) + 1 /\ r[i] = m)
  <2> HIDE DEF ClientMsg
  <2> QED
    OBVIOUS
<1> HIDE DEF r
<1>2. NoneResumes(q) /\ ~AsksToResume(m) => NoneResumes(r)
  BY <1>1 DEF NoneResumes
<1>3. NoneAsks(q) /\ (AsksToResume(m) => Waits(x, m.since.epoch, m.since.offset)) => OneResumes(x, r)
  BY <1>1 DEF NoneAsks, OneResumes, AsksToResume
<1> QED
  BY <1>2, <1>3 DEF r

\* With no message that asks to resume there is nothing to show of them.
LEMMA NoneIsFine ==
  ASSUME NEW x, NEW q, NoneResumes(q)
  PROVE  OneResumes(x, q)
BY DEF NoneResumes, OneResumes

\* A socket whose queues, binding and panel are left alone stays as it is.
LEMMA AttachKept ==
  ASSUME NEW w \in Windows, NEW s, SocketAttachOK(w, s),
         checks'[w] = checks[w], inbox'[s] = inbox[s], outbox'[s] = outbox[s],
         \A e, o : Waits(xt[w], e, o) => Waits(xt'[w], e, o),
         sink' # s \/ sink' = sink, pendingSink' # s \/ pendingSink' = pendingSink
  PROVE  SocketAttachOK(w, s)'
<1>1. OneResumes(xt'[w], inbox[s])
  BY DEF SocketAttachOK, OneResumes
<1> QED
  BY <1>1 DEF SocketAttachOK, Quiet

\* The server's step on the socket of a window: one message is handled.
LEMMA AttachServerStep ==
  ASSUME NEW w \in Windows, NEW s \in Sockets, sock[w] = s, TypeInv, SocketAttachOK(w, s),
         ServerStep(s)
  PROVE  SocketAttachOK(w, s)'
<1>1. s \in live
  BY SessionAssumption DEF live
<1>2. /\ checks' = checks /\ xt' = xt /\ inbox[s] # <<>> /\ inbox'[s] = Tail(inbox[s])
      /\ \/ HandleAttach(s)
         \/ UNCHANGED outbox /\ sink' \in {sink, NoSocket} /\ pendingSink' \in {pendingSink, NoSocket}
  BY <1>1, ServerStepFacts DEF windowVars
<1>3. inbox[s] \in Seq(ClientMsg) /\ checks[w] \in Nat /\ s # NoSocket
  BY SessionAssumption DEF TypeInv, InboxOK, WindowsOK
<1>4. CASE HandleAttach(s)
  <2>1. Asks(Head(inbox[s]))
    BY <1>4 DEF HandleAttach, Arrived, Asks
  <2>2. ~(checks[w] > 0)
    BY <1>2, <1>3, <2>1, AsksHandled DEF SocketAttachOK
  <2>3. NoneResumes(inbox'[s])
    BY <1>2, <1>3, <2>1, AsksHandled DEF SocketAttachOK
  <2>4. OneResumes(xt'[w], inbox'[s])
    BY <2>3, NoneIsFine
  <2> QED
    BY <1>2, <2>2, <2>3, <2>4 DEF SocketAttachOK
<1>5. CASE UNCHANGED outbox /\ sink' \in {sink, NoSocket} /\ pendingSink' \in {pendingSink, NoSocket}
  <2>1. /\ NoneAsks(inbox[s]) => NoneAsks(inbox'[s])
        /\ NoneResumes(inbox[s]) => NoneResumes(inbox'[s])
        /\ OneResumes(xt'[w], inbox'[s])
    BY <1>2, <1>3, AsksHandled DEF SocketAttachOK
  <2> QED
    BY <1>2, <1>3, <1>5, <2>1 DEF SocketAttachOK, Quiet
<1> QED
  BY <1>2, <1>4, <1>5

\* A window's own step. A new socket is quiet, and what is delivered shows that nobody waits for it.
LEMMA AttachWindowStep ==
  ASSUME NEW w \in Windows, ~Overlap, TypeInv, OwnerInv, SocketsOK, WindowStep(w),
         checks[w] =< 1, sock[w] # NoSocket => SocketAttachOK(w, sock[w])
  PROVE  checks'[w] =< 1 /\ (sock'[w] # NoSocket => SocketAttachOK(w, sock[w])')
<1> DEFINE s == sock[w]
           x == xt[w]
<1>1. /\ sock \in [Windows -> SocketOrNone] /\ xt \in [Windows -> Xterm] /\ x \in Xterm
      /\ checks \in [Windows -> Nat] /\ fresh \subseteq Sockets
      /\ inbox \in [Sockets -> Seq(ClientMsg)] /\ outbox \in [Sockets -> Seq(ServerMsg)]
      /\ s # NoSocket => s \in Sockets /\ inbox[s] \in Seq(ClientMsg) /\ outbox[s] \in Seq(ServerMsg)
  BY DEF TypeInv, WindowsOK, InboxOK, OutboxOK, XtermsOK, SocketOrNone
<1>2. SocketAttachOK(w, s) /\ ~NoneResumes(inbox[s]) => x.attached /\ x.awaiting /\ outbox[s] = <<>>
  BY DEF SocketAttachOK, NoneResumes, OneResumes, Waits, Quiet
<1> HIDE DEF ClientMsg, ServerMsg, Xterm
<1>3. CASE Mount(w)
  <2>1. /\ checks' = checks /\ sock' = sock /\ outbox' = outbox /\ sink' = sink
        /\ pendingSink' = pendingSink
        /\ checks[w] = 0 /\ ~x.attached /\ ClientSend(w, <<AttachMsg(NoSince)>>)
    BY <1>3 DEF Mount, serverVars, sessionVars
  <2>2. ASSUME s # NoSocket
        PROVE  SocketAttachOK(w, s)'
    <3>1. inbox'[s] = inbox[s] \o <<AttachMsg(NoSince)>>
      BY <2>1, <2>2, ClientSendFacts
    <3>2. ~AsksToResume(AttachMsg(NoSince)) /\ AttachMsg(NoSince) \in ClientMsg
      BY DEF AsksToResume, AttachMsg, NoSince, NoOffset, Unknown, ClientMsg
    <3>3. NoneResumes(inbox'[s])
      BY <1>1, <1>2, <2>1, <2>2, <3>1, <3>2, AskAppended
    <3> QED
      BY <2>1, <2>2, <3>3, NoneIsFine DEF SocketAttachOK
  <2> QED
    BY <2>1, <2>2
<1>4. CASE Unmount(w)
  <2>1. /\ checks' = checks /\ sock' = sock /\ outbox' = outbox /\ sink' = sink
        /\ pendingSink' = pendingSink
        /\ ~x.awaiting \/ s = NoSocket
    BY <1>4 DEF Unmount, serverVars, sessionVars
  <2>2. PICK msgs \in Seq(ClientMsg) : ClientSend(w, msgs) /\ NoneAsks(msgs)
    <3>1. PICK closed \in BOOLEAN :
            ClientSend(w, (IF x.exited THEN <<>> ELSE <<[type |-> "detach"]>>)
                          \o (IF closed THEN <<[type |-> "destroy"]>> ELSE <<>>))
      BY <1>4 DEF Unmount
    <3> DEFINE detach  == [type |-> "detach"]
               destroy == [type |-> "destroy"]
               first   == IF x.exited THEN <<>> ELSE <<detach>>
               second  == IF closed THEN <<destroy>> ELSE <<>>
    <3>2. detach \in ClientMsg /\ destroy \in ClientMsg /\ ~Asks(detach) /\ ~Asks(destroy)
      BY DEF ClientMsg, Asks
    <3> HIDE DEF detach, destroy
    <3>3. /\ first \in Seq(ClientMsg) /\ NoneAsks(first)
          /\ second \in Seq(ClientMsg) /\ NoneAsks(second)
      BY <3>2 DEF NoneAsks
    <3> HIDE DEF first, second
    <3>4. first \o second \in Seq(ClientMsg) /\ NoneAsks(first \o second)
      BY <3>3, AsksAppended
    <3>5. ClientSend(w, first \o second)
      BY <3>1 DEF first, second, detach, destroy
    <3> QED
      BY <3>4, <3>5
  <2>3. ASSUME s # NoSocket
        PROVE  SocketAttachOK(w, s)'
    <3>1. inbox'[s] = inbox[s] \o msgs
      BY <2>2, <2>3, ClientSendFacts
    <3>2. NoneResumes(inbox'[s]) /\ (NoneAsks(inbox[s]) => NoneAsks(inbox'[s]))
      BY <1>1, <1>2, <2>1, <2>2, <2>3, <3>1, AsksAppended
    <3> QED
      BY <2>1, <2>3, <3>2, NoneIsFine DEF SocketAttachOK, Quiet
  <2> QED
    BY <2>1, <2>3
<1>5. CASE Drop(w)
  BY <1>5, CutSocketFacts DEF Drop
<1>6. CASE Reload(w)
  BY <1>1, <1>6, CutSocketFacts DEF Reload
<1>7. CASE Connect(w)
  <2>1. PICK t \in fresh :
          /\ sock' = [sock EXCEPT ![w] = t]
          /\ inbox' = IF x.attached /\ ~known[w]
                      THEN [inbox EXCEPT ![t] = <<AttachMsg(NoSince)>>]
                      ELSE inbox
    BY <1>7 DEF Connect
  <2>2. /\ checks' = [checks EXCEPT ![w] = IF known[w] THEN checks[w] + 1 ELSE checks[w]]
        /\ checks[w] = 0 /\ outbox' = outbox /\ sink' = sink /\ pendingSink' = pendingSink
    BY <1>7 DEF Connect, Settled, sessionVars
  <2>3. sock'[w] = t /\ t \in Sockets /\ checks'[w] = IF known[w] THEN 1 ELSE 0
    BY <1>1, <2>1, <2>2
  <2>4. t \notin clients /\ t \notin live /\ inbox[t] = <<>> /\ outbox[t] = <<>>
    BY <1>1, <2>1 DEF SocketsOK
  <2>5. sink # t /\ pendingSink # t
    BY <2>3, <2>4, SessionAssumption DEF OwnerInv, SinkIsOwner
  <2>6. inbox'[t] = <<>> \/ (inbox'[t] = <<AttachMsg(NoSince)>> /\ ~known[w])
    BY <1>1, <2>1, <2>3, <2>4
  <2>7. ~AsksToResume(AttachMsg(NoSince))
    BY DEF AsksToResume, AttachMsg, NoSince
  <2>8. NoneResumes(inbox'[t]) /\ (known[w] => NoneAsks(inbox'[t]))
    BY <2>6, <2>7 DEF NoneResumes, NoneAsks
  <2>9. SocketAttachOK(w, t)'
    BY <2>2, <2>3, <2>4, <2>5, <2>8, NoneIsFine DEF SocketAttachOK, Quiet
  <2> QED
    BY <2>3, <2>9
<1>8. CASE Reattach(w)
  <2>1. /\ checks[w] > 0 /\ checks'[w] = checks[w] - 1
        /\ sock' = sock /\ outbox' = outbox /\ sink' = sink /\ pendingSink' = pendingSink
    BY <1>1, <1>8 DEF Reattach, serverVars, sessionVars
  <2>2. checks'[w] = 0
    BY <1>1, <2>1
  <2>3. ASSUME s # NoSocket, x.attached, ~x.exited
        PROVE  SocketAttachOK(w, s)'
    <3>1. /\ ClientSend(w, <<AttachMsg(Since(x))>>)
          /\ xt'[w] = ExpectState(x)
      BY <1>1, <1>8, <2>3 DEF Reattach
    <3>2. inbox'[s] = inbox[s] \o <<AttachMsg(Since(x))>> /\ AttachMsg(Since(x)) \in ClientMsg
      BY <1>1, <2>3, <3>1, ClientSendFacts, SinceType
    <3>3. AsksToResume(AttachMsg(Since(x))) =>
            Waits(xt'[w], AttachMsg(Since(x)).since.epoch, AttachMsg(Since(x)).since.offset)
      BY <1>1, <2>3, <3>1 DEF AsksToResume, AttachMsg, Since, Waits, ExpectState, Xterm
    <3>4. NoneAsks(inbox[s]) /\ Quiet(s)
      BY <2>1, <2>3 DEF SocketAttachOK
    <3>5. OneResumes(xt'[w], inbox'[s])
      BY <1>1, <2>3, <3>2, <3>3, <3>4, AskAppended
    <3> QED
      BY <2>1, <2>2, <3>4, <3>5 DEF SocketAttachOK, Quiet
  <2>4. ASSUME s # NoSocket, ~(x.attached /\ ~x.exited)
        PROVE  SocketAttachOK(w, s)'
    BY <1>8, <2>1, <2>2, <2>4 DEF Reattach, SocketAttachOK, Quiet
  <2> QED
    BY <2>1, <2>2, <2>3, <2>4
<1>9. CASE Deliver(w)
  <2>1. /\ checks' = checks /\ sock' = sock /\ inbox' = inbox /\ s # NoSocket /\ outbox[s] # <<>>
    BY <1>9 DEF Deliver
  <2>2. ~(checks[w] > 0) /\ NoneResumes(inbox[s])
    BY <2>1 DEF SocketAttachOK, Quiet
  <2> QED
    BY <2>1, <2>2, NoneIsFine DEF SocketAttachOK
<1>10. CASE Parse(w)
  <2>1. /\ checks' = checks /\ sock' = sock /\ outbox' = outbox /\ sink' = sink
        /\ pendingSink' = pendingSink /\ xt'[w] = Parsed(x)
    BY <1>1, <1>10 DEF Parse, serverVars, sessionVars
  <2>2. \A e, o : Waits(x, e, o) <=> Waits(xt'[w], e, o)
    BY <1>1, <2>1 DEF Parsed, Waits, Xterm
  <2>3. ASSUME s # NoSocket
        PROVE  SocketAttachOK(w, s)'
    <3>1. CASE inbox' = inbox
      <4>1. inbox'[s] = inbox[s] /\ outbox'[s] = outbox[s]
        BY <2>1, <3>1
      <4>2. SocketAttachOK(w, s)
        BY <2>3
      <4> QED
        BY <2>1, <2>2, <4>1, <4>2, AttachKept
    <3>2. CASE AckDue(x) > 0
      <4> DEFINE m == [type |-> "ack", sync |-> x.sync, bytes |-> AckDue(x)]
      <4>1. ClientSend(w, <<m>>)
        BY <1>10, <3>2 DEF Parse
      <4>2. <<m>> \in Seq(ClientMsg) /\ NoneAsks(<<m>>)
        <5>1. AckDue(x) \in Nat
          BY <1>1, <1>10, ParsedType DEF Parse
        <5>2. m \in ClientMsg /\ ~Asks(m)
          BY <1>1, <5>1 DEF ClientMsg, Xterm, Asks
        <5> HIDE DEF m
        <5> QED
          BY <5>2 DEF NoneAsks
      <4> HIDE DEF m
      <4>3. inbox'[s] = inbox[s] \o <<m>>
        BY <2>3, <4>1, ClientSendFacts
      <4>4. OneResumes(xt'[w], inbox[s])
        BY <2>2, <2>3 DEF SocketAttachOK, OneResumes
      <4>5. /\ OneResumes(xt'[w], inbox'[s]) /\ (NoneAsks(inbox[s]) => NoneAsks(inbox'[s]))
            /\ NoneResumes(inbox[s]) => NoneResumes(inbox'[s])
        BY <1>1, <2>3, <4>2, <4>3, <4>4, AsksAppended
      <4> QED
        BY <2>1, <2>3, <4>5 DEF SocketAttachOK, Quiet
    <3> QED
      BY <1>10, <3>1, <3>2 DEF Parse
  <2> QED
    BY <2>1, <2>3
<1> QED
  BY <1>3, <1>4, <1>5, <1>6, <1>7, <1>8, <1>9, <1>10 DEF WindowStep

\* Windows change nothing of the session.
LEMMA WindowsLeaveSession ==
  ASSUME NEW v \in Windows, WindowStep(v)
  PROVE  UNCHANGED <<shell, sessionVars, pendingSink, owner, held, produced>>
BY DEF WindowStep, Mount, Unmount, Drop, Reload, Connect, Reattach, Deliver, Parse, serverVars,
       sessionVars

\* With one version check or attach of a window outstanding at a time, each resume that is asked for
\* finds its xterm where it said it was.
LEMMA AttachStep ==
  ASSUME ~Overlap, TypeInv, OwnerInv, SocketsOK, AttachOK, [Next]_vars
  PROVE  AttachOK'
<1> SUFFICES ASSUME NEW w \in Windows
             PROVE  checks'[w] =< 1 /\ (sock'[w] # NoSocket => SocketAttachOK(w, sock[w])')
  BY DEF AttachOK
<1> DEFINE s == sock[w]
<1>1. checks[w] =< 1 /\ (s # NoSocket => SocketAttachOK(w, s))
  BY DEF AttachOK
<1>2. s \in SocketOrNone
  BY DEF TypeInv, WindowsOK
<1>3. CASE ShellStep
  <2>1. /\ UNCHANGED <<inbox, sock, checks, xt>>
        /\ sink' \in {sink, pendingSink, NoSocket} /\ pendingSink' \in {pendingSink, NoSocket}
        /\ \A t \in Sockets : t # sink \/ t \notin live => outbox'[t] = outbox[t]
    BY <1>3, ShellStepFacts DEF windowVars
  <2> QED
    BY <1>1, <1>2, <2>1 DEF SocketAttachOK, Quiet, SocketOrNone
<1>4. ASSUME NEW t \in Sockets, ServerStep(t)
      PROVE  checks'[w] =< 1 /\ (sock'[w] # NoSocket => SocketAttachOK(w, sock[w])')
  <2>1. UNCHANGED <<sock, checks, xt>>
    BY <1>4, ServerStepFacts DEF windowVars
  <2>2. CASE s = t
    BY <1>1, <1>4, <2>1, <2>2, AttachServerStep
  <2>3. CASE s # t /\ s # NoSocket
    <3>1. /\ s \in Sockets /\ inbox'[s] = inbox[s] /\ outbox'[s] = outbox[s]
          /\ sink' \in {sink, t, NoSocket} /\ pendingSink' \in {pendingSink, t, NoSocket}
      BY <1>2, <1>4, <2>3, ServerStepFacts DEF SocketOrNone
    <3> QED
      BY <1>1, <2>1, <2>3, <3>1 DEF SocketAttachOK, Quiet
  <2> QED
    BY <1>1, <2>1, <2>2, <2>3
<1>5. CASE ServerRestart
  BY <1>1, <1>5 DEF ServerRestart
<1>6. CASE WindowStep(w)
  BY <1>1, <1>6, AttachWindowStep
<1>7. ASSUME NEW v \in Windows, v # w, WindowStep(v)
      PROVE  checks'[w] =< 1 /\ (sock'[w] # NoSocket => SocketAttachOK(w, sock[w])')
  <2>1. /\ sock'[w] = sock[w] /\ xt'[w] = xt[w] /\ checks'[w] = checks[w]
        /\ s # NoSocket => inbox'[s] = inbox[s] /\ outbox'[s] = outbox[s]
    BY <1>7, OtherWindows
  <2>2. sink' = sink /\ pendingSink' = pendingSink
    BY <1>7, WindowsLeaveSession DEF sessionVars
  <2> QED
    BY <1>1, <2>1, <2>2 DEF SocketAttachOK, Quiet
<1>8. CASE UNCHANGED vars
  <2>1. UNCHANGED <<inbox, sock, checks, xt, outbox, sink, pendingSink>>
    BY <1>8 DEF vars, serverVars, sessionVars, windowVars
  <2> QED
    BY <1>1, <2>1 DEF SocketAttachOK, Quiet
<1> QED
  BY <1>3, <1>4, <1>5, <1>6, <1>7, <1>8 DEF Next

-----------------------------------------------------------------------------
(* The chains from the session to the screens. *)

\* While the latest snapshot is on its way, the session streams to nobody.
LatestStops == \A i \in 1 .. Len(snaps) : snaps[i].gen = generation => ~streaming

\* What is on its way to w over its socket s: a client that is live will be at the end of the output,
\* and one that waits for a snapshot is given nothing past it before.
ChainOK(w, s) ==
  /\ StreamOK(History, xt[w], outbox[s])
  /\ sink = s /\ streaming /\ ~paused => Reaches(xt[w], outbox[s], epoch, end)
  /\ sink = s => \A i \in 1 .. Len(snaps) : snaps[i].gen = generation =>
                   AllBefore(xt[w], outbox[s], epoch, snaps[i].offset)

\* A window with its screen, and the chain to it over the socket it has.
WindowOK(w) == ScreenOK(History, xt[w]) /\ (sock[w] # NoSocket => ChainOK(w, sock[w]))

ChainsOK == \A w \in Windows : WindowOK(w)

ScreenInv == EpochsOK /\ SocketsOK /\ AttachOK /\ LatestStops /\ ChainsOK

\* All that is known of a state.
ChainInv == TypeInv /\ OwnerInv /\ ScreenInv

\* What is known of the snapshots: their generations go up to the current one.
LEMMA SnapFacts ==
  ASSUME TypeInv
  PROVE  /\ snaps \in Seq([gen : Nat, offset : Nat]) /\ generation \in Nat /\ end \in Nat
         /\ Len(snaps) \in Nat
         /\ \A i \in 1 .. Len(snaps) :
              snaps[i].gen \in Nat /\ snaps[i].gen =< generation
              /\ snaps[i].offset \in Nat /\ snaps[i].offset =< end
         /\ \A i, j \in 1 .. Len(snaps) : i < j => snaps[i].gen < snaps[j].gen
<1> DEFINE Snapshot == [gen : Nat, offset : Nat]
<1>1. snaps \in Seq(Snapshot) /\ generation \in Nat /\ end \in Nat
  BY DEF TypeInv, SnapInv, SnapTypeOK, RingTypeOK
<1>2. \A snap \in Snapshot : snap.gen \in Nat /\ snap.offset \in Nat
  OBVIOUS
<1>3. SnapshotsCovered
  BY SnapInvCovers DEF TypeInv
<1>4. /\ \A i \in 1 .. Len(snaps) : snaps[i].gen =< generation
      /\ \A i, j \in 1 .. Len(snaps) : i < j => snaps[i].gen < snaps[j].gen
  BY DEF TypeInv, SnapInv, SnapshotsPinned
<1> HIDE DEF Snapshot
<1>5. Len(snaps) \in Nat /\ \A i \in 1 .. Len(snaps) : snaps[i] \in Snapshot
  BY <1>1
<1>6. \A i \in 1 .. Len(snaps) : snaps[i].offset =< end
  BY <1>3 DEF SnapshotsCovered, Readable
<1> QED
  BY <1>1, <1>2, <1>4, <1>5, <1>6 DEF Snapshot

\* A snapshot that is asked for stops the stream, and is the only one that counts from then on.
LEMMA AttachSnapshotFacts ==
  ASSUME NEW s, TypeInv, AttachSnapshot(s)
  PROVE  /\ LatestStops' /\ ~streaming' /\ sink' = s /\ outbox' = outbox /\ end' = end
         /\ \A i \in 1 .. Len(snaps') : snaps'[i].gen = generation' => snaps'[i].offset = end
<1> DEFINE Snapshot == [gen : Nat, offset : Nat]
           snap     == [gen |-> generation + 1, offset |-> end]
<1>1. /\ snaps' = Append(snaps, snap) /\ generation' = generation + 1
      /\ ~streaming' /\ sink' = s /\ outbox' = outbox /\ end' = end
  BY DEF AttachSnapshot, Pin
<1>2. snap.gen = generation + 1 /\ snap.offset = end
  OBVIOUS
<1> HIDE DEF snap
<1>3. \A i \in 1 .. Len(snaps') :
        (i \in 1 .. Len(snaps) /\ snaps'[i] = snaps[i]) \/ snaps'[i] = snap
  <2>1. snaps \in Seq(Snapshot)
    BY SnapFacts
  <2> HIDE DEF Snapshot
  <2> QED
    BY <1>1, <2>1
<1>4. \A i \in 1 .. Len(snaps) : snaps[i].gen # generation + 1
  BY SnapFacts
<1>5. \A i \in 1 .. Len(snaps') : snaps'[i].gen = generation' => snaps'[i].offset = end
  BY <1>1, <1>2, <1>3, <1>4
<1> QED
  BY <1>1, <1>5 DEF LatestStops

\* When the oldest snapshot is the one that counts, those behind it do not.
LEMMA OthersSuperseded ==
  ASSUME TypeInv, snaps # <<>>, snaps' = Tail(snaps)
  PROVE  /\ \A i \in 1 .. Len(snaps') : i + 1 \in 1 .. Len(snaps) /\ snaps'[i] = snaps[i + 1]
         /\ ~Superseded(Head(snaps)) => \A i \in 1 .. Len(snaps') : snaps'[i].gen # generation
<1> DEFINE Snapshot == [gen : Nat, offset : Nat]
<1>1. snaps \in Seq(Snapshot)
  BY SnapFacts
<1> HIDE DEF Snapshot
<1>2. /\ 1 \in 1 .. Len(snaps) /\ Head(snaps) = snaps[1]
      /\ \A i \in 1 .. Len(snaps') :
           i + 1 \in 1 .. Len(snaps) /\ 1 < i + 1 /\ snaps'[i] = snaps[i + 1]
  BY <1>1
<1>3. ASSUME NEW i \in 1 .. Len(snaps'), snaps'[i].gen = generation
      PROVE  snaps[1].gen < generation
  <2>1. i + 1 \in 1 .. Len(snaps) /\ 1 < i + 1 /\ snaps[i + 1].gen = generation
    BY <1>2, <1>3
  <2> QED
    BY <1>2, <2>1, SnapFacts
<1>4. generation \in Nat
  BY SnapFacts
<1> QED
  BY <1>2, <1>3, <1>4 DEF Superseded

\* A shell that lives writes the spawn the session counts.
LEMMA AliveFacts ==
  ASSUME TypeInv, EpochsOK
  PROVE  /\ History.epoch = epoch /\ History.produced = produced /\ epoch \in Nat
         /\ Alive => epoch >= 1 /\ History.produced[History.epoch] = end
BY DEF History, EpochsOK, Alive, TypeInv, SessionScalarsOK

\* Nothing on its way to any screen is past the end of the output.
LEMMA ChainBeforeEnd ==
  ASSUME NEW w \in Windows, NEW s, TypeInv, EpochsOK,
         ScreenOK(History, xt[w]), StreamOK(History, xt[w], outbox[s])
  PROVE  /\ Alive => AllBefore(xt[w], outbox[s], epoch, end)
         /\ \A o : AllBefore(xt[w], outbox[s], epoch + 1, o)
<1>1. History \in Histories
  BY HistoryType
<1>2. /\ \A e : AllBefore(xt[w], outbox[s], e, History.produced[e])
      /\ \A e \in Nat : e > History.epoch => \A o : AllBefore(xt[w], outbox[s], e, o)
  BY <1>1, BeforeEnd
<1>3. epoch + 1 \in Nat /\ epoch + 1 > History.epoch
  BY AliveFacts
<1>4. Alive => History.produced[epoch] = end
  BY AliveFacts
<1> QED
  BY <1>2, <1>3, <1>4

\* A window to which nothing is sent, and of which the session expects no more than before.
LEMMA ChainUnsent ==
  ASSUME NEW w \in Windows, NEW s \in Sockets, TypeInv, TypeInv', EpochsOK, EpochsOK',
         Later(History, History'), ScreenOK(History, xt[w]), ChainOK(w, s),
         xt'[w] = xt[w], outbox'[s] = outbox[s],
         sink' = s /\ streaming' /\ ~paused' => Reaches(xt[w], outbox[s], epoch', end'),
         sink' = s => \A i \in 1 .. Len(snaps') : snaps'[i].gen = generation' =>
                        AllBefore(xt[w], outbox[s], epoch', snaps'[i].offset)
  PROVE  ChainOK(w, s)'
<1>1. xt[w] \in Xterm /\ outbox[s] \in Seq(ServerMsg)
  BY DEF TypeInv, XtermsOK, OutboxOK
<1>2. History \in Histories /\ History' \in Histories
  BY HistoryType, HistoryTypeNext
<1>3. StreamOK(History', xt[w], outbox[s])
  BY <1>1, <1>2, LaterOK DEF ChainOK
<1> QED
  BY <1>3 DEF ChainOK

\* A step of the server, seen from window w with its socket s.
Onward(w, s) ==
  /\ TypeInv /\ TypeInv' /\ EpochsOK /\ EpochsOK' /\ Later(History, History')
  /\ LatestStops /\ ScreenOK(History, xt[w]) /\ ChainOK(w, s) /\ sock[w] = s

\* What was right of w before the step still is.
LEMMA OnwardFacts ==
  ASSUME NEW w \in Windows, NEW s \in Sockets, Onward(w, s)
  PROVE  /\ History \in Histories /\ History' \in Histories
         /\ xt[w] \in Xterm /\ outbox[s] \in Seq(ServerMsg) /\ s \in live
         /\ StreamOK(History, xt[w], outbox[s])
         /\ ScreenOK(History', xt[w]) /\ StreamOK(History', xt[w], outbox[s])
<1>1. History \in Histories /\ History' \in Histories
  BY HistoryType, HistoryTypeNext DEF Onward
<1>2. xt[w] \in Xterm /\ outbox[s] \in Seq(ServerMsg)
  BY DEF Onward, TypeInv, XtermsOK, OutboxOK
<1>3. s \in live
  BY SessionAssumption DEF Onward, live
<1>4. ScreenOK(History, xt[w]) /\ StreamOK(History, xt[w], outbox[s]) /\ Later(History, History')
  BY DEF Onward, ChainOK
<1> QED
  BY <1>1, <1>2, <1>3, <1>4, LaterOK

\* The output of the shell goes to the client that is live, at the end of what it has.
LEMMA ChainPtyData ==
  ASSUME NEW w \in Windows, NEW s \in Sockets, Onward(w, s), PtyData
  PROVE  ChainOK(w, s)'
<1> DEFINE x == xt[w]
           q == outbox[s]
<1>1. PICK n \in ChunkSizes : OnPtyData(live, n)
  BY DEF PtyData
<1>2. /\ UNCHANGED <<xt, epoch, sink, streaming, generation, snaps, shell>> /\ Alive
      /\ end' = end + n
  BY <1>1 DEF PtyData, windowVars, OnPtyData, Push, Alive
<1>3. n \in Nat /\ n > 0 /\ end \in Nat /\ epoch \in Nat /\ epoch >= 1
  BY <1>2, StreamAssumption, SnapFacts, AliveFacts DEF Onward
<1>4. /\ TypeInv /\ EpochsOK /\ ScreenOK(History, x) /\ StreamOK(History, x, q) /\ ChainOK(w, s)
      /\ AllBefore(x, q, epoch, end)
  BY <1>2, ChainBeforeEnd DEF Onward, ChainOK
<1>5. CASE sink = s /\ streaming /\ ~paused
  <2> DEFINE m == OutputMsg(end, n)
             h == History'
  <2>1. /\ m \in ServerMsg /\ m.type = "output" /\ m.epoch = epoch /\ m.offset = end /\ m.n = n
        /\ Stamped(m) /\ EndOf(m) = end + n /\ ~Resumes(m)
    BY <1>3 DEF OutputMsg, ServerMsg, Stamped, EndOf, Resumes, Offsets
  <2>2. Alive' /\ h.epoch = epoch /\ h.produced[epoch] = end + n
    BY <1>2 DEF Onward, EpochsOK, History, Alive
  <2>3. Send(live, s, <<m>>)
    BY <1>1, <1>5, SessionAssumption DEF OnPtyData
  <2> HIDE DEF m
  <2>4. outbox'[s] = Append(q, m)
    <3>1. outbox'[s] = q \o <<m>> /\ q \in Seq(ServerMsg)
      BY <1>4, <2>3, SendFacts, OnwardFacts
    <3> HIDE DEF ServerMsg
    <3> QED
      BY <2>1, <3>1
  <2>5. /\ h \in Histories /\ x \in Xterm /\ q \in Seq(ServerMsg)
        /\ ScreenOK(h, x) /\ StreamOK(h, x, q)
    BY OnwardFacts
  <2> HIDE DEF h
  <2>6. Written(h, m)
    BY <1>3, <2>1, <2>2 DEF Written
  <2>7. MayFollow(h, x, q, m)
    BY <1>4, <1>5, <2>1, <2>5, MayFollowThat DEF ChainOK
  <2>8. StreamOK(h, x, Append(q, m))
    BY <1>4, <2>1, <2>2, <2>5, <2>6, <2>7, AppendOK
  <2>9. Reaches(x, Append(q, m), epoch, end + n)
    BY <2>1, <2>5, AppendEnds
  <2>10. \A i \in 1 .. Len(snaps) : snaps[i].gen # generation
    BY <1>5 DEF Onward, LatestStops
  <2> QED
    BY <1>2, <2>4, <2>8, <2>9, <2>10 DEF ChainOK, h
<1>6. CASE ~(sink = s /\ streaming /\ ~paused)
  <2>1. outbox'[s] = q /\ (sink = s /\ streaming => paused' = paused)
    <3>1. CASE sink # NoSocket /\ streaming /\ ~paused
      <4>1. s # sink /\ Send(live, sink, <<OutputMsg(end, n)>>)
        BY <1>1, <1>6, <3>1 DEF OnPtyData
      <4> QED
        BY <1>4, <4>1, SendFacts
    <3>2. CASE ~(sink # NoSocket /\ streaming /\ ~paused)
      BY <1>1, <3>2 DEF OnPtyData
    <3> QED
      BY <3>1, <3>2
  <2>2. xt'[w] = xt[w] /\ Later(History, History') /\ TypeInv' /\ EpochsOK'
    BY <1>2 DEF Onward
  <2> QED
    BY <1>2, <1>4, <1>6, <2>1, <2>2, ChainUnsent DEF ChainOK
<1> QED
  BY <1>5, <1>6

\* A new spawn expects nothing of anyone yet.
LEMMA ChainSpawn ==
  ASSUME NEW w \in Windows, NEW s \in Sockets, Onward(w, s), Spawn
  PROVE  ChainOK(w, s)' /\ LatestStops'
<1>1. /\ UNCHANGED <<xt, outbox>> /\ ~streaming' /\ epoch' = epoch + 1
      /\ snaps' = <<>> \/ snaps' = <<[gen |-> 1, offset |-> 0]>>
  BY DEF Spawn, windowVars
<1>2. \A o : AllBefore(xt[w], outbox[s], epoch + 1, o)
  BY ChainBeforeEnd DEF Onward, ChainOK
<1> QED
  BY <1>1, <1>2, ChainUnsent DEF Onward, LatestStops

\* A snapshot that is asked for is of the output so far, and nothing past that is on its way.
LEMMA ChainAttachSnapshot ==
  ASSUME NEW w \in Windows, NEW s \in Sockets, NEW t, Onward(w, s), Alive,
         AttachSnapshot(t), xt' = xt, epoch' = epoch
  PROVE  ChainOK(w, s)'
<1>1. /\ ~streaming' /\ outbox' = outbox
      /\ \A i \in 1 .. Len(snaps') : snaps'[i].gen = generation' => snaps'[i].offset = end
  BY AttachSnapshotFacts DEF Onward
<1>2. AllBefore(xt[w], outbox[s], epoch, end)
  BY ChainBeforeEnd DEF Onward, ChainOK
<1> QED
  BY <1>1, <1>2, ChainUnsent DEF Onward

\* A session that is gone, or has let its client go, expects nothing of anyone.
LEMMA ChainUnbound ==
  ASSUME NEW w \in Windows, NEW s \in Sockets, Onward(w, s), sink' # s,
         xt'[w] = xt[w], outbox'[s] = outbox[s]
  PROVE  ChainOK(w, s)'
BY ChainUnsent DEF Onward

\* Sending messages one of which is the last is sending the others and then that one.
LEMMA ConcatAppend ==
  ASSUME NEW q \in Seq(ServerMsg), NEW r \in Seq(ServerMsg), NEW m \in ServerMsg
  PROVE  q \o Append(r, m) = Append(q \o r, m)
<1> HIDE DEF ServerMsg
<1>1. <<m>> \in Seq(ServerMsg) /\ q \o r \in Seq(ServerMsg) /\ Append(r, m) = r \o <<m>>
  BY AppendIsConcat
<1>2. Append(q \o r, m) = (q \o r) \o <<m>>
  BY <1>1, AppendIsConcat
<1>3. (q \o r) \o <<m>> = q \o (r \o <<m>>)
  BY <1>1, ConcatAssociative
<1> QED
  BY <1>1, <1>2, <1>3

\* The oldest snapshot, if it still counts, brings its client to the end of the output.
LEMMA SnapshotSent ==
  ASSUME NEW w \in Windows, NEW s \in Sockets, Onward(w, s), Alive, snaps # <<>>, sink = s
  PROVE  LET r == outbox[s] \o SnapshotMsgs(Head(snaps)) IN
         /\ r \in Seq(ServerMsg) /\ StreamOK(History, xt[w], r)
         /\ ~Superseded(Head(snaps)) \/ (streaming /\ ~paused) => Reaches(xt[w], r, epoch, end)
<1> DEFINE snap == Head(snaps)
           q    == outbox[s]
           r    == q \o SnapshotMsgs(snap)
<1>1. q \in Seq(ServerMsg) /\ StreamOK(History, xt[w], q)
  BY OnwardFacts
<1>2. CASE Superseded(snap)
  <2>1. r = q
    <3> HIDE DEF ServerMsg
    <3> QED
      BY <1>1, <1>2 DEF SnapshotMsgs
  <2> HIDE DEF r
  <2>2. streaming /\ ~paused => Reaches(xt[w], q, epoch, end)
    BY DEF Onward, ChainOK
  <2> QED
    BY <1>1, <1>2, <2>1, <2>2 DEF r
<1>3. CASE ~Superseded(snap)
  <2>1. 1 \in 1 .. Len(snaps) /\ snap = snaps[1]
    BY SnapFacts DEF Onward
  <2>2. snap.gen = generation /\ snap.offset \in Nat /\ snap.offset =< end
    BY <1>3, <2>1, SnapFacts DEF Onward, Superseded
  <2>3. AllBefore(xt[w], q, epoch, snap.offset)
    BY <2>1, <2>2 DEF Onward, ChainOK
  <2>4. /\ epoch >= 1 /\ epoch = History.epoch /\ end = History.produced[History.epoch]
    BY AliveFacts DEF Onward
  <2>5. r = q \o SyncMsgs("snapshot", snap.offset)
    BY <1>3 DEF SnapshotMsgs
  <2>6. /\ History \in Histories /\ xt[w] \in Xterm /\ SnapTypeOK /\ SessionScalarsOK
        /\ ScreenOK(History, xt[w])
    BY OnwardFacts DEF Onward, TypeInv, SnapInv
  <2> HIDE DEF snap, q
  <2>7. /\ q \o SyncMsgs("snapshot", snap.offset) \in Seq(ServerMsg)
        /\ StreamOK(History, xt[w], q \o SyncMsgs("snapshot", snap.offset))
        /\ Reaches(xt[w], q \o SyncMsgs("snapshot", snap.offset), epoch, end)
    BY <1>1, <2>2, <2>3, <2>4, <2>6, SyncSent
  <2> QED
    BY <2>5, <2>7 DEF q, snap
<1> QED
  BY <1>2, <1>3

\* The exit, told to a client that was live only when it has all of the output.
LEMMA ExitSent ==
  ASSUME NEW w \in Windows, NEW s \in Sockets, Onward(w, s), NEW r \in Seq(ServerMsg),
         StreamOK(History, xt[w], r), NEW synced \in BOOLEAN,
         synced => Reaches(xt[w], r, epoch, end),
         Alive, ~Alive', UNCHANGED <<epoch, produced>>
  PROVE  StreamOK(History', xt[w], Append(r, ExitMsg(synced)))
<1> DEFINE m == ExitMsg(synced)
           h == History'
           x == xt[w]
<1>1. m \in ServerMsg /\ m.type = "exit" /\ m.synced = synced /\ ~Stamped(m) /\ ~Resumes(m)
  BY DEF ExitMsg, ServerMsg, Stamped, Resumes
<1>2. /\ History \in Histories /\ h \in Histories /\ x \in Xterm /\ ScreenOK(h, x)
      /\ ScreenOK(History, x)
  BY OnwardFacts DEF Onward
<1>3. StreamOK(h, x, r)
  BY <1>2, LaterOK DEF Onward
<1>4. Past(h, epoch) /\ h.produced[epoch] = end
  BY AliveFacts DEF Onward, Past, History, Alive
<1> HIDE DEF m, h
<1>5. MayFollow(h, x, r, m)
  BY <1>1, <1>4, MayFollowThat
<1>6. Written(h, m)
  BY <1>1 DEF Written
<1>7. StreamOK(h, x, Append(r, m))
  BY <1>1, <1>2, <1>3, <1>5, <1>6, AppendOK
<1> QED
  BY <1>7 DEF m, h

\* The shell exits at once, which a client that is live is told after all of the output.
LEMMA ChainExitNow ==
  ASSUME NEW w \in Windows, NEW s \in Sockets, Onward(w, s), ExitNow
  PROVE  ChainOK(w, s)'
<1> DEFINE synced == streaming /\ ~paused
<1>1. /\ Send(live, sink, <<ExitMsg(synced)>>) /\ Alive /\ ~Alive' /\ sink' = NoSocket
      /\ UNCHANGED <<epoch, produced, xt>>
  BY DEF ExitNow, RemoveSession, FreshSession, Alive, windowVars
<1>2. CASE sink = s
  <2>1. synced \in BOOLEAN /\ ExitMsg(synced) \in ServerMsg
    BY ExitMsgType DEF Onward, TypeInv, SessionScalarsOK
  <2>2. outbox[s] \in Seq(ServerMsg) /\ StreamOK(History, xt[w], outbox[s]) /\ s \in live
    BY OnwardFacts
  <2>3. synced => Reaches(xt[w], outbox[s], epoch, end)
    BY <1>2 DEF Onward, ChainOK
  <2> HIDE DEF synced
  <2>4. StreamOK(History', xt[w], Append(outbox[s], ExitMsg(synced)))
    BY <1>1, <2>1, <2>2, <2>3, ExitSent
  <2>5. outbox'[s] = Append(outbox[s], ExitMsg(synced))
    <3>1. outbox'[s] = outbox[s] \o <<ExitMsg(synced)>>
      BY <1>1, <1>2, <2>2, SendFacts DEF Onward
    <3> HIDE DEF ServerMsg
    <3> QED
      BY <2>1, <2>2, <3>1
  <2> QED
    BY <1>1, <2>4, <2>5, SessionAssumption DEF ChainOK
<1>3. CASE sink # s
  <2>1. outbox'[s] = outbox[s]
    BY <1>1, <1>3, SendFacts DEF Onward
  <2> QED
    BY <1>1, <2>1, ChainUnbound, SessionAssumption
<1> QED
  BY <1>2, <1>3

\* So is the client that was behind, after the final snapshot.
LEMMA ChainFinalSnapshot ==
  ASSUME NEW w \in Windows, NEW s \in Sockets, Onward(w, s), FinalSnapshotReady
  PROVE  ChainOK(w, s)'
<1> DEFINE snap   == Head(snaps)
           synced == (streaming /\ ~paused) \/ ~Superseded(snap)
           r      == outbox[s] \o SnapshotMsgs(snap)
<1>1. /\ Send(live, sink, FinalMsgs(snap)) /\ Alive /\ ~Alive' /\ sink' = NoSocket
      /\ snaps # <<>> /\ UNCHANGED <<epoch, produced, xt>>
  BY DEF FinalSnapshotReady, RemoveSession, FreshSession, Alive, windowVars
<1>2. CASE sink = s
  <2>1. synced \in BOOLEAN /\ ExitMsg(synced) \in ServerMsg
    BY ExitMsgType DEF Onward, TypeInv, SessionScalarsOK
  <2>2. /\ r \in Seq(ServerMsg) /\ StreamOK(History, xt[w], r)
        /\ synced => Reaches(xt[w], r, epoch, end)
    BY <1>1, <1>2, SnapshotSent
  <2>3. outbox'[s] = Append(r, ExitMsg(synced))
    <3>1. outbox'[s] = outbox[s] \o FinalMsgs(snap) /\ outbox[s] \in Seq(ServerMsg)
      BY <1>1, <1>2, SendFacts, OnwardFacts DEF Onward
    <3>2. SnapshotMsgs(snap) \in Seq(ServerMsg)
      BY <1>1, SnapshotMsgsType DEF Onward, TypeInv
    <3>3. FinalMsgs(snap) = Append(SnapshotMsgs(snap), ExitMsg(synced))
      BY DEF FinalMsgs
    <3> HIDE DEF ServerMsg, synced, snap
    <3>4. outbox[s] \o Append(SnapshotMsgs(snap), ExitMsg(synced))
            = Append(outbox[s] \o SnapshotMsgs(snap), ExitMsg(synced))
      BY <2>1, <3>1, <3>2, ConcatAppend
    <3> QED
      BY <3>1, <3>3, <3>4
  <2> HIDE DEF synced, r
  <2>4. StreamOK(History', xt[w], Append(r, ExitMsg(synced)))
    BY <1>1, <2>1, <2>2, ExitSent
  <2> QED
    BY <1>1, <2>3, <2>4, SessionAssumption DEF ChainOK
<1>3. CASE sink # s
  <2>1. outbox'[s] = outbox[s]
    BY <1>1, <1>3, SendFacts DEF Onward
  <2> QED
    BY <1>1, <2>1, ChainUnbound, SessionAssumption
<1> QED
  BY <1>2, <1>3

\* A snapshot is ready: it makes its client live, at the end of the output.
LEMMA ChainSnapshotReady ==
  ASSUME NEW w \in Windows, NEW s \in Sockets, Onward(w, s), SnapshotReady
  PROVE  ChainOK(w, s)'
<1> DEFINE snap == Head(snaps)
           r    == outbox[s] \o SnapshotMsgs(snap)
<1>1. /\ Send(live, sink, SnapshotMsgs(snap)) /\ Alive /\ snaps # <<>> /\ snaps' = Tail(snaps)
      /\ UNCHANGED <<shell, epoch, end, produced, xt, sink, generation>>
  BY DEF SnapshotReady, FinishSnapshot, Unpin, Alive, windowVars
<1>2. Superseded(snap) => UNCHANGED <<paused, streaming>>
  BY DEF SnapshotReady, FinishSnapshot
<1>3. /\ \A i \in 1 .. Len(snaps') : i + 1 \in 1 .. Len(snaps) /\ snaps'[i] = snaps[i + 1]
      /\ ~Superseded(snap) => \A i \in 1 .. Len(snaps') : snaps'[i].gen # generation
  BY <1>1, OthersSuperseded DEF Onward
<1>4. CASE sink = s
  <2>1. /\ r \in Seq(ServerMsg) /\ StreamOK(History, xt[w], r)
        /\ ~Superseded(snap) \/ (streaming /\ ~paused) => Reaches(xt[w], r, epoch, end)
    BY <1>1, <1>4, SnapshotSent
  <2>2. outbox'[s] = r
    BY <1>1, <1>4, SendFacts, OnwardFacts DEF Onward
  <2>3. History' = History
    BY <1>1 DEF History
  <2>4. ASSUME NEW i \in 1 .. Len(snaps'), snaps'[i].gen = generation
        PROVE  AllBefore(xt[w], r, epoch, snaps'[i].offset)
    <3>1. Superseded(snap)
      BY <1>3, <2>4
    <3>2. r = outbox[s]
      <4>1. outbox[s] \in Seq(ServerMsg)
        BY OnwardFacts
      <4> HIDE DEF ServerMsg
      <4> QED
        BY <3>1, <4>1 DEF SnapshotMsgs
    <3> HIDE DEF r
    <3> QED
      BY <1>3, <1>4, <2>4, <3>2 DEF Onward, ChainOK
  <2> HIDE DEF r, snap
  <2>5. streaming' /\ ~paused' => Reaches(xt[w], r, epoch, end)
    BY <1>2, <2>1
  <2> QED
    BY <1>1, <2>1, <2>2, <2>3, <2>4, <2>5 DEF ChainOK
<1>5. CASE sink # s
  <2>1. outbox'[s] = outbox[s]
    BY <1>1, <1>5, SendFacts DEF Onward
  <2> QED
    BY <1>1, <1>5, <2>1, ChainUnbound
<1> QED
  BY <1>4, <1>5

\* The server handles an attach: the client resumes where it waits, or a snapshot is asked for.
LEMMA ChainHandleAttach ==
  ASSUME NEW w \in Windows, NEW s \in Sockets, NEW t \in Sockets, Onward(w, s),
         SocketAttachOK(w, s), HandleAttach(t)
  PROVE  ChainOK(w, s)'
<1> DEFINE since == Head(inbox[t]).since
           x     == xt[w]
           q     == outbox[s]
<1>1. /\ Arrived(t, "attach") /\ xt' = xt /\ epoch' = epoch /\ produced' = produced
      /\ \/ Alive /\ shell' = shell /\ AttachResume(live, t, since)
         \/ Alive /\ AttachSnapshot(t)
         \/ UNCHANGED <<outbox, sink, streaming, paused, generation, snaps, end>>
  BY DEF HandleAttach, Attach, Alive, windowVars
<1>2. /\ q \in Seq(ServerMsg) /\ s \in live /\ StreamOK(History, x, q) /\ x \in Xterm
      /\ History \in Histories /\ ScreenOK(History, x)
  BY OnwardFacts DEF Onward
<1>3. CASE Alive /\ shell' = shell /\ AttachResume(live, t, since) /\ s = t
  <2>1. inbox[s] \in Seq(ClientMsg) /\ inbox[s] # <<>> /\ Asks(Head(inbox[s]))
    BY <1>1, <1>3 DEF Onward, TypeInv, InboxOK, Arrived, Asks
  <2>2. /\ since.epoch = epoch /\ since.offset =< end /\ epoch >= 1
        /\ since.offset \in Nat
    <3>1. since \in [epoch : Nat, offset : Offsets \cup {Unknown}]
      BY <1>1, ArrivedSince DEF Onward, TypeInv
    <3>2. since.epoch = epoch /\ start =< since.offset /\ since.offset =< end /\ start \in Nat
      BY <1>3 DEF AttachResume, CanResume, Readable, Onward, TypeInv, SnapInv, SnapTypeOK, RingTypeOK
    <3> QED
      BY <1>3, <3>1, <3>2, AliveFacts DEF Onward, Offsets, Unknown
  <2>3. AsksToResume(Head(inbox[s]))
    BY <1>3, <2>1, <2>2, AliveFacts DEF AsksToResume, Onward
  <2>4. Waits(x, epoch, since.offset) /\ q = <<>>
    <3>1. ~NoneResumes(inbox[s])
      BY <2>1, <2>3, AsksHandled
    <3>2. OneResumes(x, inbox[s]) /\ Quiet(s)
      BY <3>1 DEF SocketAttachOK
    <3> QED
      BY <1>3, <2>1, <2>2, <2>3, <3>2, AsksHandled DEF Quiet
  <2>5. AllBefore(x, q, epoch, since.offset)
    BY <2>2, <2>4 DEF AllBefore, Waits, Before, Place, EndOf
  <2>6. /\ epoch = History.epoch /\ end = History.produced[History.epoch]
        /\ SnapTypeOK /\ SessionScalarsOK
    BY <1>3, AliveFacts DEF Onward, TypeInv, SnapInv
  <2> DEFINE r == q \o SyncMsgs("resume", since.offset)
  <2>7. StreamOK(History, x, r) /\ Reaches(x, r, epoch, end)
    <3> HIDE DEF q, since, x
    <3> QED
      BY <1>2, <2>2, <2>4, <2>5, <2>6, SyncSent
  <2>8. outbox'[s] = r
    BY <1>2, <1>3, SendFacts DEF AttachResume, Onward
  <2>9. History' = History /\ end' = end /\ snaps' = snaps /\ generation' = generation + 1
    BY <1>1, <1>3 DEF History, AttachResume
  <2>10. \A i \in 1 .. Len(snaps) : snaps[i].gen # generation + 1
    BY SnapFacts DEF Onward
  <2> HIDE DEF r
  <2> QED
    BY <1>1, <2>7, <2>8, <2>9, <2>10 DEF ChainOK
<1>4. CASE AttachResume(live, t, since) /\ s # t
  <2>1. outbox'[s] = outbox[s] /\ sink' = t
    BY <1>4, SendFacts DEF AttachResume, Onward
  <2> QED
    BY <1>1, <1>4, <2>1, ChainUnbound
<1>5. CASE Alive /\ AttachSnapshot(t)
  BY <1>1, <1>5, ChainAttachSnapshot
<1>6. CASE UNCHANGED <<outbox, sink, streaming, paused, generation, snaps, end>>
  BY <1>1, <1>6, ChainUnsent DEF Onward, ChainOK
<1> QED
  BY <1>1, <1>3, <1>4, <1>5, <1>6

\* The other handlers send nothing; they let the client go, or ask for a snapshot for one that is behind.
LEMMA ChainServerStep ==
  ASSUME NEW w \in Windows, NEW s \in Sockets, NEW t \in Sockets, Onward(w, s), OwnerInv,
         SocketAttachOK(w, s), ServerStep(t)
  PROVE  ChainOK(w, s)'
<1>1. xt' = xt
  BY ServerStepFacts DEF Onward, windowVars
<1>2. CASE HandleAttach(t)
  BY <1>2, ChainHandleAttach
<1>3. CASE UNCHANGED <<outbox, sink, streaming, paused, generation, snaps, end, epoch>>
  BY <1>1, <1>3, ChainUnsent DEF Onward, ChainOK
<1>4. CASE outbox' = outbox /\ sink' = NoSocket
  BY <1>1, <1>4, ChainUnbound, SessionAssumption
<1>5. CASE HandleDetach(t) \/ HandleClose(t)
  <2>1. /\ UNCHANGED <<outbox, paused, snaps, end, epoch>>
        /\ (sink' = NoSocket \/ UNCHANGED <<sink, streaming, generation>>)
    BY <1>5 DEF HandleDetach, HandleClose, DetachClient, Release, NoRelease, Detach
  <2> QED
    BY <1>3, <1>4, <2>1
<1>6. CASE HandleAck(t)
  <2>1. CASE AttachSnapshot(sink)
    <3>1. sink # NoSocket /\ epoch' = epoch
      BY <1>6, <2>1, SnapFacts
         DEF HandleAck, Ack, AckIgnored, AckCounted, AckResync, sessionVars, AttachSnapshot, Onward
    <3>2. Alive
      BY <3>1 DEF OwnerInv, BoundToShell, Alive
    <3> QED
      BY <1>1, <2>1, <3>1, <3>2, ChainAttachSnapshot
  <2>2. CASE UNCHANGED <<outbox, sink, streaming, paused, generation, snaps, end, epoch>>
    BY <1>3, <2>2
  <2> QED
    BY <1>6, <2>1, <2>2 DEF HandleAck, Ack, AckIgnored, AckCounted, AckResync, sessionVars
<1>7. CASE HandleDestroy(t)
  BY <1>3, <1>4, <1>7 DEF HandleDestroy, FreshSession
<1> QED
  BY <1>2, <1>5, <1>6, <1>7 DEF ServerStep

\* Only snapshots that count stop a stream, and a detach leaves none that does.
LEMMA LatestStopsStep ==
  ASSUME TypeInv, LatestStops, [Next]_vars
  PROVE  LatestStops'
<1>1. CASE UNCHANGED <<snaps, generation, streaming>>
  BY <1>1 DEF LatestStops
<1>2. CASE snaps' = <<>>
  BY <1>2 DEF LatestStops
<1>3. CASE snaps' = snaps /\ generation' = generation + 1
  <2>1. \A i \in 1 .. Len(snaps) : snaps[i].gen # generation + 1
    BY SnapFacts
  <2> QED
    BY <1>3, <2>1 DEF LatestStops
<1>4. ASSUME NEW s, AttachSnapshot(s)
      PROVE  LatestStops'
  BY <1>4, AttachSnapshotFacts
<1>5. CASE ShellStep
  <2>1. CASE PtyData
    BY <1>1, <2>1 DEF PtyData
  <2>2. CASE Spawn
    <3>1. ~streaming'
      BY <2>2 DEF Spawn
    <3> QED
      BY <3>1 DEF LatestStops
  <2>3. CASE ExitAfterSnapshot
    BY <1>4, <2>3 DEF ExitAfterSnapshot
  <2>4. CASE ExitNow \/ FinalSnapshotReady
    BY <1>2, <2>4 DEF ExitNow, FinalSnapshotReady, RemoveSession, FreshSession
  <2>5. CASE SnapshotReady
    <3>1. /\ snaps # <<>> /\ snaps' = Tail(snaps) /\ generation' = generation
          /\ Superseded(Head(snaps)) => streaming' = streaming
      BY <2>5 DEF SnapshotReady, FinishSnapshot
    <3> QED
      BY <3>1, OthersSuperseded DEF LatestStops
  <2> QED
    BY <1>5, <2>1, <2>2, <2>3, <2>4, <2>5 DEF ShellStep
<1>6. ASSUME NEW s \in Sockets, ServerStep(s)
      PROVE  LatestStops'
  <2>1. CASE HandleAttach(s)
    BY <1>1, <1>3, <1>4, <2>1 DEF HandleAttach, Attach, AttachResume
  <2>2. CASE HandleDetach(s) \/ HandleClose(s)
    BY <1>1, <1>3, <2>2 DEF HandleDetach, HandleClose, DetachClient, Release, NoRelease, Detach
  <2>3. CASE HandleAck(s)
    BY <1>1, <1>4, <2>3 DEF HandleAck, Ack, AckIgnored, AckCounted, AckResync, sessionVars
  <2>4. CASE HandleDestroy(s)
    BY <1>1, <1>2, <2>4 DEF HandleDestroy, FreshSession
  <2> QED
    BY <1>6, <2>1, <2>2, <2>3, <2>4 DEF ServerStep
<1>7. CASE ServerRestart
  BY <1>2, <1>7 DEF ServerRestart, FreshSession
<1>8. CASE (\E v \in Windows : WindowStep(v)) \/ UNCHANGED vars
  BY <1>1, <1>8, WindowsLeaveSession DEF vars, serverVars, sessionVars
<1> QED
  BY <1>5, <1>6, <1>7, <1>8 DEF Next

-----------------------------------------------------------------------------
(* The windows' own steps. *)

\* What the panel keeps for xterm's callbacks is no part of what it shows.
LEMMA SameScreen ==
  ASSUME NEW x, NEW y,
         y.attached = x.attached, y.awaiting = x.awaiting, y.epoch = x.epoch, y.next = x.next,
         y.queued = x.queued, y.shown = x.shown, y.shownEpoch = x.shownEpoch,
         y.gap = x.gap, y.repeat = x.repeat, y.mixed = x.mixed
  PROVE  /\ \A h : ScreenOK(h, x) => ScreenOK(h, y)
         /\ \A h, q : StreamOK(h, x, q) => StreamOK(h, y, q)
         /\ \A q, e, o : Reaches(x, q, e, o) => Reaches(y, q, e, o)
         /\ \A q, e, o : AllBefore(x, q, e, o) => AllBefore(y, q, e, o)
<1>1. Place(y) = Place(x)
  BY DEF Place
<1>2. (HasPlace(y) <=> HasPlace(x)) /\ (InSync(y) <=> InSync(x))
  BY DEF HasPlace, InSync
<1>3. \A e, o : Waits(x, e, o) => Waits(y, e, o)
  BY DEF Waits
<1>4. \A h : ScreenOK(h, x) => ScreenOK(h, y)
  BY <1>2 DEF ScreenOK
<1>5. \A h, q : StreamOK(h, x, q) => StreamOK(h, y, q)
  BY <1>1, <1>2, <1>3 DEF StreamOK
<1>6. \A q, e, o : Reaches(x, q, e, o) => Reaches(y, q, e, o)
  BY <1>2 DEF Reaches
<1>7. \A q, e, o : AllBefore(x, q, e, o) => AllBefore(y, q, e, o)
  BY <1>1, <1>2 DEF AllBefore
<1> QED
  BY <1>4, <1>5, <1>6, <1>7

\* A panel that starts from nothing can be given anything but a resume.
LEMMA BlankScreen ==
  ASSUME NEW x, NEW y, y.queued = <<>>, y.next = Unknown, y.shownEpoch = 0, y.shown = 0,
         ~y.gap, ~y.repeat, ~y.mixed, ~y.attached \/ y.awaiting
  PROVE  /\ \A h : ScreenOK(h, y)
         /\ \A h, q : /\ StreamOK(h, x, q)
                      /\ \A e, o : ~Waits(x, e, o)
                      => StreamOK(h, y, q)
         /\ \A q, e, o : Reaches(x, q, e, o) => Reaches(y, q, e, o)
         /\ \A q, e, o : AllBefore(x, q, e, o) => AllBefore(y, q, e, o)
<1>1. ~HasPlace(y) /\ ~InSync(y) /\ Len(y.queued) = 0
  BY DEF HasPlace, InSync
<1>2. \A h : ScreenOK(h, y)
  BY <1>1 DEF ScreenOK
<1>3. \A h, q : StreamOK(h, x, q) /\ (\A e, o : ~Waits(x, e, o)) => StreamOK(h, y, q)
  BY <1>1 DEF StreamOK
<1>4. \A q, e, o : Reaches(x, q, e, o) => Reaches(y, q, e, o)
  BY <1>1 DEF Reaches
<1>5. \A q, e, o : AllBefore(x, q, e, o) => AllBefore(y, q, e, o)
  BY <1>1 DEF AllBefore
<1> QED
  BY <1>2, <1>3, <1>4, <1>5

\* A socket with nothing on its way to a panel that waits.
LEMMA NothingOnItsWay ==
  ASSUME NEW h, NEW x, NEW q \in Seq(ServerMsg), q = <<>>
  PROVE  StreamOK(h, x, q)
BY DEF StreamOK

\* The chain of a window whose panel changes and whose queue does not.
LEMMA ChainMoved ==
  ASSUME NEW w \in Windows, NEW s, ChainOK(w, s),
         UNCHANGED <<shell, sessionVars, produced>>, outbox'[s] = outbox[s],
         StreamOK(History, xt[w], outbox[s]) => StreamOK(History, xt'[w], outbox[s]),
         \A q, e, o : Reaches(xt[w], q, e, o) => Reaches(xt'[w], q, e, o),
         \A q, e, o : AllBefore(xt[w], q, e, o) => AllBefore(xt'[w], q, e, o)
  PROVE  ChainOK(w, s)'
<1>1. UNCHANGED <<epoch, sink, streaming, paused, snaps, generation, end>> /\ History' = History
  BY DEF sessionVars, History
<1> QED
  BY <1>1 DEF ChainOK

\* A message reaches the panel; one that is not there loses it.
LEMMA ChainDeliver ==
  ASSUME NEW w \in Windows, TypeInv, EpochsOK, WindowOK(w), Deliver(w)
  PROVE  WindowOK(w)'
<1> DEFINE s == sock[w]
           x == xt[w]
           q == outbox[s]
           y == xt'[w]
<1>1. /\ s # NoSocket /\ s \in Sockets /\ q # <<>> /\ q \in Seq(ServerMsg) /\ x \in Xterm
      /\ sock' = sock /\ History \in Histories
  BY HistoryType DEF Deliver, TypeInv, WindowsOK, OutboxOK, XtermsOK, SocketOrNone
<1>2. outbox'[s] = Tail(q)
  BY <1>1 DEF Deliver, TypeInv, OutboxOK
<1>3. UNCHANGED <<epoch, sink, streaming, paused, snaps, generation, end>> /\ History' = History
  <2>1. WindowStep(w)
    BY DEF WindowStep
  <2> QED
    BY <2>1, WindowsLeaveSession DEF sessionVars, History
<1>4. ScreenOK(History, x) /\ ChainOK(w, s) /\ StreamOK(History, x, q)
  BY <1>1 DEF WindowOK, ChainOK
<1>5. IF x.attached THEN y \in Handle(x, q[1]) ELSE y = x
  <2>1. q[1] = Head(q)
    BY <1>1, TailFields
  <2> QED
    BY <2>1 DEF Deliver, TypeInv, XtermsOK
<1> HIDE DEF y, q, x, s
<1>6. ScreenOK(History, y) /\ StreamOK(History, y, Tail(q))
      /\ (Handled(History, x, q[1], y) \/ (y = x /\ ~InSync(y)))
  <2>1. CASE x.attached
    BY <1>1, <1>4, <1>5, <2>1, MessageHandled, RestOK DEF Handled
  <2>2. CASE ~x.attached
    BY <1>1, <1>4, <1>5, <2>2, RestOfNobody DEF InSync
  <2> QED
    BY <2>1, <2>2
<1>7. /\ \A e, o : Reaches(x, q, e, o) => Reaches(y, Tail(q), e, o)
      /\ \A e, o : AllBefore(x, q, e, o) => AllBefore(y, Tail(q), e, o)
  BY <1>1, <1>6, RestReaches, RestBefore
<1>8. /\ sink = s /\ streaming /\ ~paused => Reaches(y, Tail(q), epoch, end)
      /\ sink = s => \A i \in 1 .. Len(snaps) : snaps[i].gen = generation =>
                       AllBefore(y, Tail(q), epoch, snaps[i].offset)
  BY <1>4, <1>7 DEF ChainOK, s, x, q
<1>9. ChainOK(w, s)'
  BY <1>1, <1>2, <1>3, <1>6, <1>8 DEF ChainOK, y, s
<1> QED
  BY <1>1, <1>3, <1>6, <1>9 DEF WindowOK, y, s

\* The other steps of a window.
LEMMA ChainWindowStep ==
  ASSUME NEW w \in Windows, ~Overlap, TypeInv, OwnerInv, EpochsOK, SocketsOK, WindowOK(w),
         sock[w] # NoSocket => SocketAttachOK(w, sock[w]), WindowStep(w)
  PROVE  WindowOK(w)'
<1> DEFINE s == sock[w]
           x == xt[w]
           y == xt'[w]
<1>1. /\ sock \in [Windows -> SocketOrNone] /\ xt \in [Windows -> Xterm] /\ x \in Xterm
      /\ fresh \subseteq Sockets /\ outbox \in [Sockets -> Seq(ServerMsg)]
      /\ s # NoSocket => s \in Sockets /\ outbox[s] \in Seq(ServerMsg)
  BY DEF TypeInv, WindowsOK, OutboxOK, XtermsOK, SocketOrNone
<1>2. UNCHANGED <<shell, sessionVars, produced>> /\ History' = History
  BY WindowsLeaveSession DEF sessionVars, History
<1>3. ScreenOK(History, x) /\ (s # NoSocket => ChainOK(w, s))
  BY DEF WindowOK
<1>4. ASSUME sock' = sock, outbox' = outbox, ScreenOK(History, y),
             \A q : StreamOK(History, x, q) => StreamOK(History, y, q),
             \A q, e, o : Reaches(x, q, e, o) => Reaches(y, q, e, o),
             \A q, e, o : AllBefore(x, q, e, o) => AllBefore(y, q, e, o)
      PROVE  WindowOK(w)'
  BY <1>2, <1>3, <1>4, ChainMoved DEF WindowOK
<1>5. ASSUME sock'[w] = NoSocket, ScreenOK(History, y)
      PROVE  WindowOK(w)'
  BY <1>2, <1>5 DEF WindowOK
<1> HIDE DEF ServerMsg, Xterm
<1>6. CASE Mount(w)
  <2>1. sock' = sock /\ outbox' = outbox /\ ~x.attached
        /\ y = ExpectState([FreshXterm EXCEPT !.attached = TRUE])
    BY <1>1, <1>6 DEF Mount
  <2>2. /\ y.queued = <<>> /\ y.next = Unknown /\ y.shownEpoch = 0 /\ y.shown = 0
        /\ ~y.gap /\ ~y.repeat /\ ~y.mixed /\ y.awaiting
    BY <2>1 DEF ExpectState, FreshXterm
  <2>3. \A e, o : ~Waits(x, e, o)
    BY <2>1 DEF Waits
  <2> HIDE DEF y
  <2>4. /\ ScreenOK(History, y)
        /\ \A q : StreamOK(History, x, q) => StreamOK(History, y, q)
        /\ \A q, e, o : Reaches(x, q, e, o) => Reaches(y, q, e, o)
        /\ \A q, e, o : AllBefore(x, q, e, o) => AllBefore(y, q, e, o)
    BY <2>2, <2>3, BlankScreen
  <2> QED
    BY <1>4, <2>1, <2>4 DEF y
<1>7. CASE Unmount(w)
  <2>1. sock' = sock /\ outbox' = outbox /\ y = FreshXterm /\ (~x.awaiting \/ s = NoSocket)
    BY <1>1, <1>7 DEF Unmount
  <2>2. /\ y.queued = <<>> /\ y.next = Unknown /\ y.shownEpoch = 0 /\ y.shown = 0
        /\ ~y.gap /\ ~y.repeat /\ ~y.mixed /\ ~y.attached
    BY <2>1 DEF FreshXterm
  <2>3. x.awaiting \/ \A e, o : ~Waits(x, e, o)
    BY DEF Waits
  <2> HIDE DEF y
  <2>4. /\ ScreenOK(History, y)
        /\ ~x.awaiting => \A q : StreamOK(History, x, q) => StreamOK(History, y, q)
        /\ \A q, e, o : Reaches(x, q, e, o) => Reaches(y, q, e, o)
        /\ \A q, e, o : AllBefore(x, q, e, o) => AllBefore(y, q, e, o)
    BY <2>2, <2>3, BlankScreen
  <2> QED
    BY <1>4, <1>5, <2>1, <2>4 DEF y
<1>8. CASE Drop(w)
  <2>1. sock'[w] = NoSocket /\ xt' = xt
    BY <1>8, CutSocketFacts DEF Drop
  <2> QED
    BY <1>3, <1>5, <2>1
<1>9. CASE Reload(w)
  <2>1. sock'[w] = NoSocket /\ y = FreshXterm
    BY <1>1, <1>9, CutSocketFacts DEF Reload
  <2>2. ScreenOK(History, y)
    BY <2>1, BlankScreen DEF FreshXterm
  <2> QED
    BY <1>5, <2>1, <2>2
<1>10. CASE Connect(w)
  <2>1. PICK t \in fresh : sock' = [sock EXCEPT ![w] = t]
    BY <1>10 DEF Connect
  <2>2. sock'[w] = t /\ t \in Sockets /\ outbox[t] = <<>> /\ t \notin clients
    BY <1>1, <2>1 DEF SocketsOK
  <2>3. outbox' = outbox /\ xt' = xt
    BY <1>10 DEF Connect
  <2>4. sink' # t
    BY <1>2, <2>2, SessionAssumption DEF OwnerInv, SinkIsOwner, sessionVars
  <2>5. StreamOK(History, x, outbox[t])
    BY <1>1, <2>2, NothingOnItsWay
  <2>6. ChainOK(w, t)'
    BY <1>2, <2>3, <2>4, <2>5 DEF ChainOK
  <2> QED
    BY <1>2, <1>3, <2>2, <2>3, <2>6 DEF WindowOK
<1>11. CASE Reattach(w)
  <2>1. checks[w] > 0 /\ sock' = sock /\ outbox' = outbox
    BY <1>11 DEF Reattach
  <2>2. CASE y = ExpectState(x)
    <3>1. /\ y.attached = x.attached /\ y.awaiting /\ y.queued = <<>> /\ y.epoch = x.epoch
          /\ y.next = x.next /\ y.shown = x.shown /\ y.shownEpoch = x.shownEpoch
          /\ y.gap = x.gap /\ y.repeat = x.repeat /\ y.mixed = x.mixed
      BY <1>1, <2>2 DEF ExpectState, Xterm
    <3>2. ScreenOK(History, y)
      BY <1>3, <3>1 DEF ScreenOK, HasPlace
    <3>3. CASE s # NoSocket
      <4>1. Quiet(s)
        BY <2>1, <3>3 DEF SocketAttachOK
      <4>2. StreamOK(History, y, outbox[s]) /\ sink' # s
        BY <1>1, <1>2, <3>3, <4>1, NothingOnItsWay DEF Quiet, sessionVars
      <4>3. ChainOK(w, s)'
        BY <1>2, <2>1, <4>2 DEF ChainOK
      <4> QED
        BY <1>2, <2>1, <3>2, <4>3 DEF WindowOK
    <3> QED
      BY <1>5, <2>1, <3>2, <3>3
  <2>3. CASE xt' = xt
    BY <1>3, <1>4, <2>1, <2>3
  <2> QED
    BY <1>1, <1>11, <2>2, <2>3 DEF Reattach
<1>12. CASE Deliver(w)
  BY <1>12, ChainDeliver
<1>13. CASE Parse(w)
  <2>1. sock' = sock /\ outbox' = outbox /\ y = Parsed(x)
    BY <1>1, <1>13 DEF Parse
  <2>2. /\ y.attached = x.attached /\ y.awaiting = x.awaiting /\ y.epoch = x.epoch
        /\ y.next = x.next /\ y.queued = x.queued /\ y.shown = x.shown
        /\ y.shownEpoch = x.shownEpoch
        /\ y.gap = x.gap /\ y.repeat = x.repeat /\ y.mixed = x.mixed
    BY <1>1, <2>1 DEF Parsed, Xterm
  <2> HIDE DEF y
  <2>3. /\ ScreenOK(History, y)
        /\ \A q : StreamOK(History, x, q) => StreamOK(History, y, q)
        /\ \A q, e, o : Reaches(x, q, e, o) => Reaches(y, q, e, o)
        /\ \A q, e, o : AllBefore(x, q, e, o) => AllBefore(y, q, e, o)
    BY <1>3, <2>2, SameScreen
  <2> QED
    BY <1>4, <2>1, <2>3 DEF y
<1> QED
  BY <1>6, <1>7, <1>8, <1>9, <1>10, <1>11, <1>12, <1>13 DEF WindowStep

\* What the shell and the emulator do, seen from a window that is connected.
LEMMA ChainShellStep ==
  ASSUME NEW w \in Windows, NEW s \in Sockets, Onward(w, s), ShellStep
  PROVE  ChainOK(w, s)'
<1>1. CASE ExitAfterSnapshot
  <2>1. Alive /\ AttachSnapshot(sink) /\ xt' = xt /\ epoch' = epoch
    BY <1>1 DEF ExitAfterSnapshot, Alive, windowVars
  <2> QED
    BY <2>1, ChainAttachSnapshot
<1> QED
  BY <1>1, ChainPtyData, ChainSpawn, ChainExitNow, ChainSnapshotReady, ChainFinalSnapshot
     DEF ShellStep

\* What is shown, and what is on its way, stays right whoever takes a step.
LEMMA ChainsStep ==
  ASSUME ~Overlap, ChainInv, TypeInv', EpochsOK', Later(History, History'), [Next]_vars
  PROVE  ChainsOK'
<1> SUFFICES ASSUME NEW w \in Windows
             PROVE  WindowOK(w)'
  BY DEF ChainsOK
<1>0. PICK s \in SocketOrNone : s = sock[w]
  BY DEF ChainInv, TypeInv, WindowsOK
<1>1. /\ TypeInv /\ OwnerInv /\ EpochsOK /\ SocketsOK /\ LatestStops /\ WindowOK(w)
      /\ s # NoSocket => SocketAttachOK(w, s) /\ s \in Sockets
  BY <1>0 DEF ChainInv, ScreenInv, AttachOK, ChainsOK, SocketOrNone
<1>2. s # NoSocket => Onward(w, s)
  BY <1>0, <1>1 DEF Onward, WindowOK
<1>3. ScreenOK(History', xt[w])
  <2>1. xt[w] \in Xterm /\ <<>> \in Seq(ServerMsg) /\ History \in Histories /\ History' \in Histories
    BY <1>1, HistoryType, HistoryTypeNext DEF TypeInv, XtermsOK
  <2> QED
    BY <1>1, <2>1, LaterOK DEF WindowOK
<1>4. ASSUME sock'[w] = s, xt'[w] = xt[w], s # NoSocket => ChainOK(w, s)'
      PROVE  WindowOK(w)'
  BY <1>3, <1>4 DEF WindowOK
<1>5. CASE ShellStep
  <2>1. sock' = sock /\ xt' = xt
    BY <1>1, <1>5, ShellStepFacts DEF windowVars
  <2>2. s # NoSocket => ChainOK(w, s)'
    BY <1>1, <1>2, <1>5, ChainShellStep
  <2> QED
    BY <1>0, <1>4, <2>1, <2>2
<1>6. ASSUME NEW t \in Sockets, ServerStep(t)
      PROVE  WindowOK(w)'
  <2>1. sock' = sock /\ xt' = xt
    BY <1>1, <1>6, ServerStepFacts DEF windowVars
  <2>2. s # NoSocket => ChainOK(w, s)'
    BY <1>1, <1>2, <1>6, ChainServerStep
  <2> QED
    BY <1>0, <1>4, <2>1, <2>2
<1>7. CASE ServerRestart
  <2>1. sock'[w] = NoSocket /\ xt' = xt
    BY <1>7 DEF ServerRestart
  <2> QED
    BY <1>3, <2>1 DEF WindowOK
<1>8. CASE WindowStep(w)
  BY <1>0, <1>1, <1>8, ChainWindowStep
<1>9. ASSUME NEW v \in Windows, v # w, WindowStep(v)
      PROVE  WindowOK(w)'
  <2>1. sock'[w] = s /\ xt'[w] = xt[w] /\ (s # NoSocket => outbox'[s] = outbox[s])
    BY <1>0, <1>1, <1>9, OtherWindows
  <2>2. UNCHANGED <<shell, sessionVars, produced>>
    BY <1>9, WindowsLeaveSession
  <2>3. s # NoSocket => ChainOK(w, s)'
    BY <1>0, <1>1, <2>1, <2>2, ChainMoved DEF WindowOK
  <2> QED
    BY <1>4, <2>1, <2>3
<1>10. CASE UNCHANGED vars
  <2>1. sock' = sock /\ xt' = xt /\ outbox' = outbox /\ UNCHANGED <<shell, sessionVars, produced>>
    BY <1>10 DEF vars, serverVars, windowVars
  <2>2. s # NoSocket => ChainOK(w, s)'
    BY <1>0, <1>1, <2>1, ChainMoved DEF WindowOK
  <2> QED
    BY <1>0, <1>4, <2>1, <2>2
<1> QED
  BY <1>5, <1>6, <1>7, <1>8, <1>9, <1>10 DEF Next

\* Nothing is shown or sent at first.
LEMMA ChainInvInit == Init => ChainInv
<1> SUFFICES ASSUME Init
             PROVE  ChainInv
  OBVIOUS
<1>1. TypeInv /\ OwnerInv
  BY TypeInvInit, OwnerInvInit
<1>2. EpochsOK
  BY StreamAssumption DEF Init, EpochsOK
<1>3. SocketsOK
  BY DEF Init, SocketsOK, live
<1>4. AttachOK
  BY DEF Init, AttachOK
<1>5. LatestStops
  BY DEF Init, LatestStops
<1>6. ChainsOK
  <2> SUFFICES ASSUME NEW w \in Windows
               PROVE  WindowOK(w)
    BY DEF ChainsOK
  <2>1. sock[w] = NoSocket /\ xt[w] = FreshXterm
    BY DEF Init
  <2>2. ScreenOK(History, xt[w])
    BY <2>1, BlankScreen DEF FreshXterm
  <2> QED
    BY <2>1, <2>2 DEF WindowOK
<1> QED
  BY <1>1, <1>2, <1>3, <1>4, <1>5, <1>6 DEF ChainInv, ScreenInv

\* ChainInv is inductive, with one attach of a window outstanding at a time.
LEMMA ChainInvStep ==
  ASSUME ~Overlap, ChainInv, [Next]_vars
  PROVE  ChainInv' /\ Later(History, History')
<1>1. TypeInv /\ OwnerInv /\ EpochsOK /\ SocketsOK /\ AttachOK /\ LatestStops
  BY DEF ChainInv, ScreenInv
<1>2. TypeInv' /\ OwnerInv'
  BY <1>1, TypeInvStep, OwnerInvStep
<1>3. EpochsOK' /\ Later(History, History')
  BY <1>1, EpochsStep
<1>4. SocketsOK' /\ AttachOK' /\ LatestStops'
  BY <1>1, SocketsStep, AttachStep, LatestStopsStep
<1>5. ChainsOK'
  BY <1>2, <1>3, ChainsStep
<1> QED
  BY <1>2, <1>3, <1>4, <1>5 DEF ChainInv, ScreenInv

\* The whole invariant holds of every state.
LEMMA ChainInvariant ==
  ASSUME ~Overlap
  PROVE  Spec => []ChainInv
<1>1. ChainInv /\ [Next]_vars => ChainInv'
  BY ChainInvStep
<1> QED
  BY <1>1, ChainInvInit, PTL DEF Spec

-----------------------------------------------------------------------------
(* What the screens promise.  Overlap is what TERMINALS.md does not speak of: two attaches of one      *)
(* window outstanding at a time, over one socket, the second asked for from where the first began.   *)

\* Every screen shows exactly what the shell wrote, up to the offset it would resume from: across
\* drops, reconnects, resyncs, takeovers, remounts and respawns nothing is missing and nothing is
\* there twice.
THEOREM ScreensCorrect ==
  ASSUME ~Overlap
  PROVE  Spec => []ScreenExact
<1>1. ChainInv => ScreenExact
  <2> SUFFICES ASSUME ChainInv, NEW w \in Windows, xt[w].attached, ~xt[w].mixed
               PROVE  /\ ~xt[w].gap /\ ~xt[w].repeat
                      /\ xt[w].next # Unknown => /\ xt[w].next = xt[w].shown
                                                 /\ xt[w].epoch = xt[w].shownEpoch
                                                 /\ xt[w].shown =< produced[xt[w].epoch]
    BY DEF ScreenExact
  <2>1. ScreenOK(History, xt[w])
    BY DEF ChainInv, ScreenInv, ChainsOK, WindowOK
  <2> QED
    BY <2>1 DEF ScreenOK, HasPlace, History
<1> QED
  BY <1>1, ChainInvariant, PTL

\* A client that was live, or was given the final snapshot, has all of the output when it is told
\* that the shell exited.
THEOREM ExitsCorrect ==
  ASSUME ~Overlap
  PROVE  Spec => []ExitAfterTail
<1>1. ChainInv => ExitAfterTail
  <2> SUFFICES ASSUME ChainInv, NEW w \in Windows, ToldOfExit(w), Head(outbox[sock[w]]).synced,
                      ~xt[w].mixed
               PROVE  xt[w].next = produced[xt[w].epoch]
    BY DEF ExitAfterTail, HasTail
  <2>1. /\ sock[w] \in Sockets /\ outbox[sock[w]] \in Seq(ServerMsg) /\ outbox[sock[w]] # <<>>
        /\ StreamOK(History, xt[w], outbox[sock[w]]) /\ InSync(xt[w])
        /\ Head(outbox[sock[w]]).type = "exit"
    BY DEF ToldOfExit, InSync, ChainInv, ScreenInv, ChainsOK, WindowOK, ChainOK, TypeInv, WindowsOK,
           OutboxOK, SocketOrNone
  <2>2. Head(outbox[sock[w]]) = outbox[sock[w]][1]
    BY <2>1, TailFields
  <2> QED
    BY <2>1, <2>2 DEF StreamOK, Follows, Place, EndOf, History
<1> QED
  BY <1>1, ChainInvariant, PTL

-----------------------------------------------------------------------------
(* The refinement of TerminalView. *)

\* u may become v, in terms of TerminalView, when the shells have written h.
ShowsNext(h, u, v) ==
  \/ v = View!Blank
  \/ /\ v.epoch \in 1 .. MaxEpoch
     /\ v.upto \in 0 .. h.produced[v.epoch]
     /\ View!Ahead(u, v)

\* What can be vouched for on a screen that is right is a prefix of what a spawn wrote, or nothing.
LEMMA ViewOfScreen ==
  ASSUME NEW h \in Histories, NEW x \in Xterm, ScreenOK(h, x)
  PROVE  /\ HasPlace(x) => /\ ViewOf(x) = [epoch |-> x.epoch, upto |-> x.next]
                           /\ x.epoch \in 1 .. MaxEpoch /\ x.next \in 0 .. h.produced[x.epoch]
         /\ ~HasPlace(x) => ViewOf(x) = View!Blank
<1>1. CASE HasPlace(x)
  <2>1. /\ x.epoch \in 1 .. h.epoch /\ x.shownEpoch = x.epoch /\ x.shown = x.next
        /\ x.shown =< h.produced[x.epoch] /\ ~x.gap /\ ~x.repeat /\ ~x.mixed
    BY <1>1 DEF ScreenOK, HasPlace
  <2>2. h.epoch \in Nat /\ h.epoch =< MaxEpoch /\ x.shown \in Nat
        /\ \A e \in 1 .. MaxEpoch : h.produced[e] \in Nat
    BY StreamAssumption DEF Histories, Xterm, Offsets
  <2>3. x.epoch \in 1 .. MaxEpoch
    BY <2>1, <2>2, StreamAssumption
  <2>4. ViewOf(x) = [epoch |-> x.epoch, upto |-> x.next]
    BY <2>1 DEF ViewOf
  <2> QED
    BY <1>1, <2>1, <2>2, <2>3, <2>4
<1>2. CASE ~HasPlace(x)
  <2>1. CASE x.mixed
    <3>1. ViewOf(x) = [epoch |-> 0, upto |-> 0]
      BY <2>1, Zenon DEF ViewOf
    <3> QED
      BY <1>2, <3>1 DEF View!Blank
  <2>2. CASE ~x.mixed
    <3>1. x.shownEpoch = 0 /\ x.shown = 0 /\ ~x.gap /\ ~x.repeat
      BY <1>2, <2>2 DEF ScreenOK, HasPlace
    <3>2. ViewOf(x) = [epoch |-> x.shownEpoch, upto |-> x.shown]
      BY <2>2, <3>1, Zenon DEF ViewOf
    <3> QED
      BY <1>2, <3>1, <3>2 DEF View!Blank
  <2> QED
    BY <1>2, <2>1, <2>2
<1> QED
  BY <1>1, <1>2

\* A message takes the screen on, to where the message is, or leaves it where it was.
LEMMA ViewHandled ==
  ASSUME NEW h \in Histories, NEW x \in Xterm, NEW y \in Xterm, NEW m \in ServerMsg,
         ScreenOK(h, x), Handled(h, x, m, y), HasPlace(x) => Precedes(Place(x), m)
  PROVE  ViewOf(y) = ViewOf(x) \/ ShowsNext(h, ViewOf(x), ViewOf(y))
<1>1. ScreenOK(h, y)
  BY DEF Handled
<1>2. CASE ~HasPlace(y)
  BY <1>1, <1>2, ViewOfScreen DEF ShowsNext
<1>3. CASE HasPlace(y) /\ HasPlace(x) /\ y.epoch = x.epoch /\ y.next = x.next
  BY <1>1, <1>3, ViewOfScreen
<1>4. CASE HasPlace(y) /\ Stamped(m) /\ y.epoch = m.epoch /\ y.next = EndOf(m)
  <2> DEFINE u == ViewOf(x)
             v == ViewOf(y)
  <2>1. /\ v.epoch = m.epoch /\ v.upto = EndOf(m)
        /\ v.epoch \in 1 .. MaxEpoch /\ v.upto \in 0 .. h.produced[v.epoch]
    BY <1>1, <1>4, ViewOfScreen
  <2>2. CASE HasPlace(x)
    <3>1. u.epoch = x.epoch /\ u.upto = x.next /\ x.epoch \in Nat /\ x.next \in Nat
      <4>1. u = [epoch |-> x.epoch, upto |-> x.next] /\ x.epoch \in 1 .. MaxEpoch
            /\ x.next \in 0 .. h.produced[x.epoch]
        BY <2>2, ViewOfScreen
      <4> QED
        BY <4>1
    <3>2. m.epoch > x.epoch \/ (m.epoch = x.epoch /\ m.offset >= x.next)
      <4>1. Stamped(Place(x)) /\ Place(x).epoch = x.epoch /\ EndOf(Place(x)) = x.next
        BY DEF Place, Stamped, EndOf
      <4>2. x.epoch < m.epoch \/ (x.epoch = m.epoch /\ x.next =< m.offset)
        BY <1>4, <2>2, <4>1 DEF Precedes
      <4> QED
        BY <1>4, <3>1, <4>2, MsgFields
    <3>3. EndOf(m) >= m.offset /\ m.offset \in Nat /\ EndOf(m) \in Nat
      BY <1>4, MsgFields DEF EndOf
    <3>4. View!Ahead(u, v)
      BY <2>1, <3>1, <3>2, <3>3 DEF View!Ahead
    <3> QED
      BY <2>1, <3>4 DEF ShowsNext
  <2>3. CASE ~HasPlace(x)
    <3>1. u.epoch = 0
      BY <2>3, ViewOfScreen DEF View!Blank
    <3>2. View!Ahead(u, v)
      BY <2>1, <3>1, StreamAssumption DEF View!Ahead
    <3> QED
      BY <2>1, <3>2 DEF ShowsNext
  <2> QED
    BY <2>2, <2>3
<1> QED
  BY <1>2, <1>3, <1>4 DEF Handled

\* A window's own step shows what its panel had, more of it, or nothing.
LEMMA ViewWindowStep ==
  ASSUME NEW w \in Windows, ChainInv, TypeInv', WindowStep(w)
  PROVE  ViewOf(xt'[w]) = ViewOf(xt[w]) \/ ShowsNext(History, ViewOf(xt[w]), ViewOf(xt'[w]))
<1> DEFINE x == xt[w]
           y == xt'[w]
<1>1. /\ xt \in [Windows -> Xterm] /\ x \in Xterm /\ y \in Xterm /\ History \in Histories
      /\ ScreenOK(History, x)
  BY HistoryType DEF ChainInv, ScreenInv, ChainsOK, WindowOK, TypeInv, XtermsOK
<1> HIDE DEF Xterm
<1>2. CASE Mount(w)
  <2>1. y = ExpectState([FreshXterm EXCEPT !.attached = TRUE])
    BY <1>1, <1>2 DEF Mount
  <2> QED
    BY <2>1 DEF ExpectState, FreshXterm, ViewOf, View!Blank, ShowsNext
<1>3. CASE Unmount(w) \/ Reload(w)
  <2>1. y = FreshXterm
    BY <1>1, <1>3 DEF Unmount, Reload
  <2> QED
    BY <2>1 DEF FreshXterm, ViewOf, View!Blank, ShowsNext
<1>4. CASE Drop(w) \/ Connect(w)
  BY <1>4 DEF Drop, Connect
<1>5. CASE Reattach(w)
  <2>1. y = x \/ y = ExpectState(x)
    BY <1>1, <1>5 DEF Reattach
  <2>2. ViewOf(ExpectState(x)) = ViewOf(x)
    BY <1>1 DEF ExpectState, ViewOf, Xterm
  <2> QED
    BY <2>1, <2>2
<1>6. CASE Parse(w)
  <2>1. y = Parsed(x)
    BY <1>1, <1>6 DEF Parse
  <2>2. ViewOf(Parsed(x)) = ViewOf(x)
    BY <1>1 DEF Parsed, ViewOf, Xterm
  <2> QED
    BY <2>1, <2>2
<1>7. CASE Deliver(w)
  <2> DEFINE q == outbox[sock[w]]
  <2>1. q \in Seq(ServerMsg) /\ q # <<>> /\ StreamOK(History, x, q)
    BY <1>7 DEF Deliver, ChainInv, ScreenInv, ChainsOK, WindowOK, ChainOK, TypeInv, WindowsOK,
                OutboxOK, SocketOrNone
  <2>2. q[1] = Head(q) /\ q[1] \in ServerMsg /\ 1 \in 1 .. Len(q)
    BY <2>1, TailFields
  <2>3. IF x.attached THEN y \in Handle(x, q[1]) ELSE y = x
    BY <1>1, <1>7, <2>2 DEF Deliver
  <2>4. HasPlace(x) => Precedes(Place(x), q[1])
    BY <2>1, <2>2 DEF StreamOK
  <2> HIDE DEF x, y, q
  <2>5. CASE x.attached
    <3>1. Handled(History, x, q[1], y)
      BY <1>1, <2>1, <2>3, <2>5, MessageHandled
    <3>2. ViewOf(y) = ViewOf(x) \/ ShowsNext(History, ViewOf(x), ViewOf(y))
      BY <1>1, <2>2, <2>4, <3>1, ViewHandled
    <3> QED
      BY <3>2 DEF x, y
  <2>6. CASE ~x.attached
    BY <2>3, <2>6 DEF x, y
  <2> QED
    BY <2>5, <2>6
<1> QED
  BY <1>2, <1>3, <1>4, <1>5, <1>6, <1>7 DEF WindowStep

\* Every step is a step of TerminalView, or changes nothing it speaks of.
LEMMA ViewStep ==
  ASSUME ~Overlap, ChainInv, [Next]_vars
  PROVE  [View!Next]_<<produced, [w \in Windows |-> ViewOf(xt[w])]>>
<1> DEFINE view == [w \in Windows |-> ViewOf(xt[w])]
<1>1. TypeInv /\ TypeInv' /\ EpochsOK /\ SocketsOK
  BY ChainInvStep DEF ChainInv, ScreenInv
<1>2. CASE PtyData
  <2>1. PICK n \in ChunkSizes : produced' = [produced EXCEPT ![epoch] = end + n]
    BY <1>2 DEF PtyData
  <2>2. /\ epoch \in 1 .. MaxEpoch /\ produced[epoch] = end /\ end \in Nat /\ n \in Nat /\ n > 0
        /\ produced \in [1 .. MaxEpoch -> Nat]
    BY <1>1, <1>2, StreamAssumption, SnapFacts
       DEF PtyData, EpochsOK, TypeInv, SessionScalarsOK, WindowsOK, Offsets
  <2>3. produced'[epoch] = end + n /\ produced'[epoch] > produced[epoch] /\ view' = view
    BY <1>2, <2>1, <2>2 DEF PtyData, windowVars
  <2>4. produced' = [produced EXCEPT ![epoch] = produced'[epoch]]
    BY <2>1, <2>3
  <2> HIDE DEF view
  <2>5. \E e \in 1 .. MaxEpoch :
          produced'[e] > produced[e] /\ produced' = [produced EXCEPT ![e] = produced'[e]]
    BY <2>2, <2>3, <2>4
  <2> QED
    BY <2>3, <2>5 DEF View!Next, View!Write, view
<1>3. CASE produced' = produced /\ xt' = xt
  BY <1>3
<1>4. CASE ShellStep /\ ~PtyData
  <2>1. xt' = xt
    BY <1>1, <1>4, ShellStepFacts DEF windowVars
  <2>2. produced' = produced
    BY <1>4 DEF ShellStep, Spawn, ExitAfterSnapshot, ExitNow, SnapshotReady, FinalSnapshotReady
  <2> QED
    BY <1>3, <2>1, <2>2
<1>5. ASSUME NEW s \in Sockets, ServerStep(s)
      PROVE  produced' = produced /\ xt' = xt
  <2>1. xt' = xt
    BY <1>1, <1>5, ServerStepFacts DEF windowVars
  <2>2. produced' = produced
    BY <1>5 DEF ServerStep, HandleAttach, HandleDetach, HandleAck, HandleDestroy, HandleClose
  <2> QED
    BY <2>1, <2>2
<1>6. ASSUME NEW w \in Windows, WindowStep(w)
      PROVE  [View!Next]_<<produced, view>>
  <2>1. produced' = produced
    BY <1>6, WindowsLeaveSession
  <2>2. \A v \in Windows : v # w => xt'[v] = xt[v]
    BY <1>1, <1>6, OtherWindows
  <2>3. ViewOf(xt'[w]) = ViewOf(xt[w]) \/ ShowsNext(History, ViewOf(xt[w]), ViewOf(xt'[w]))
    BY <1>1, <1>6, ViewWindowStep
  <2>4. /\ view' = [view EXCEPT ![w] = ViewOf(xt'[w])]
        /\ view'[w] = ViewOf(xt'[w]) /\ view[w] = ViewOf(xt[w])
    BY <2>2
  <2>5. CASE ViewOf(xt'[w]) = ViewOf(xt[w])
    <3>1. view' = view
      BY <2>2, <2>5
    <3> QED
      BY <2>1, <3>1
  <2> HIDE DEF view
  <2>6. CASE ShowsNext(History, ViewOf(xt[w]), ViewOf(xt'[w]))
    <3>1. /\ view' = [view EXCEPT ![w] = view'[w]]
          /\ \/ view'[w] = View!Blank
             \/ /\ view'[w].epoch \in 1 .. MaxEpoch
                /\ view'[w].upto \in 0 .. produced[view'[w].epoch]
                /\ View!Ahead(view[w], view'[w])
      BY <2>4, <2>6 DEF ShowsNext, History
    <3> QED
      BY <2>1, <3>1 DEF View!Next, View!Show, view
  <2> QED
    BY <2>3, <2>5, <2>6
<1>7. CASE ServerRestart \/ UNCHANGED vars
  BY <1>3, <1>7 DEF ServerRestart, vars, windowVars
<1> QED
  BY <1>2, <1>3, <1>4, <1>5, <1>6, <1>7 DEF Next, ShellStep

\* A window shows a prefix of what some spawn wrote, and never goes back to an older spawn or to an
\* earlier point, except by starting from nothing: the detailed specification implements TerminalView.
THEOREM ViewCorrect ==
  ASSUME ~Overlap
  PROVE  Spec => ShowsPrefixes
<1>1. Init => View!Init
  <2> SUFFICES ASSUME Init
               PROVE  View!Init
    OBVIOUS
  <2>1. \A w \in Windows : ViewOf(xt[w]) = View!Blank
    BY DEF Init, FreshXterm, ViewOf, View!Blank
  <2> QED
    BY <2>1 DEF Init, View!Init
<1>2. ChainInv /\ [Next]_vars => [View!Next]_<<produced, [w \in Windows |-> ViewOf(xt[w])]>>
  BY ViewStep
<1> QED
  BY <1>1, <1>2, ChainInvariant, PTL DEF Spec, ShowsPrefixes, View!Spec

-----------------------------------------------------------------------------
(* Sums.  Total is defined by recursion.  That every sequence of numbers has its sums, and that Total  *)
(* is the last of them, are shown by way of a least counterexample.                                  *)

\* Every number in a set of naturals that is not empty is no smaller than one of them.
LEMMA LeastExists ==
  ASSUME NEW T, T \subseteq Nat, T # {}
  PROVE  \E n \in T : \A m \in T : n =< m
<1> DEFINE R == OpToRel(<, Nat)
<1>1. IsWellFoundedOn(R, Nat)
  BY NatLessThanWellFounded
<1>2. \A m, n \in Nat : m < n => <<m, n>> \in R
  BY DEF OpToRel
<1> HIDE DEF R
<1>3. \E n \in T : \A m \in T : ~ (<<m, n>> \in R)
  BY <1>1, WFMin, Zenon
<1>4. PICK n \in T : \A m \in T : ~ (<<m, n>> \in R)
  BY <1>3
<1>5. ASSUME NEW m \in T PROVE n =< m
  <2>1. m \in Nat /\ n \in Nat /\ ~ (<<m, n>> \in R)
    BY <1>4
  <2>2. ~ (m < n)
    BY <1>2, <2>1
  <2> QED
    BY <2>1, <2>2
<1> QED
  BY <1>5

\* f[i] is the sum of the first i numbers of ns.
Sums(ns, f) ==
  /\ f \in [0 .. Len(ns) -> Nat]
  /\ f[0] = 0
  /\ \A i \in 1 .. Len(ns) : f[i] = f[i - 1] + ns[i]

\* Every sequence has its sums: a shortest beginning without them would get them from the one before.
LEMMA SumsExist ==
  ASSUME NEW ns \in Seq(Nat)
  PROVE  \E f : Sums(ns, f)
<1> DEFINE Upto(k, f) == /\ f \in [0 .. k -> Nat]
                         /\ f[0] = 0
                         /\ \A i \in 1 .. k : f[i] = f[i - 1] + ns[i]
           T == {k \in 0 .. Len(ns) : ~ \E f : Upto(k, f)}
<1>1. \E f : Upto(0, f)
  <2>1. Upto(0, [i \in 0 .. 0 |-> 0])
    OBVIOUS
  <2> QED
    BY <2>1
<1>2. ASSUME NEW k \in 1 .. Len(ns), NEW f, Upto(k - 1, f)
      PROVE  \E g : Upto(k, g)
  <2> DEFINE g == [i \in 0 .. k |-> IF i = k THEN f[k - 1] + ns[k] ELSE f[i]]
  <2>1. /\ f \in [0 .. k - 1 -> Nat] /\ f[0] = 0
        /\ \A i \in 1 .. k - 1 : f[i] = f[i - 1] + ns[i]
    BY <1>2
  <2>2. ns[k] \in Nat /\ k \in Nat /\ k >= 1
    BY <1>2
  <2>3. f[k - 1] \in Nat
    BY <2>1, <2>2
  <2>4. \A i \in 0 .. k : i # k => i \in 0 .. k - 1 /\ f[i] \in Nat
    BY <2>1, <2>2
  <2>5. g \in [0 .. k -> Nat]
    BY <2>2, <2>3, <2>4
  <2>6. g[0] = 0 /\ g[k] = f[k - 1] + ns[k]
    BY <2>1, <2>2
  <2>7. \A i \in 0 .. k - 1 : g[i] = f[i]
    BY <2>2
  <2> HIDE DEF g
  <2>8. ASSUME NEW i \in 1 .. k PROVE g[i] = g[i - 1] + ns[i]
    <3>1. CASE i = k
      <4>1. g[k - 1] = f[k - 1]
        BY <2>2, <2>7
      <4> QED
        BY <2>6, <3>1, <4>1
    <3>2. CASE i # k
      <4>1. i \in 1 .. k - 1 /\ i \in 0 .. k - 1 /\ i - 1 \in 0 .. k - 1
        BY <2>2, <3>2
      <4>2. g[i] = f[i] /\ g[i - 1] = f[i - 1]
        BY <2>7, <4>1
      <4> QED
        BY <2>1, <4>1, <4>2
    <3> QED
      BY <3>1, <3>2
  <2>9. Upto(k, g)
    BY <2>5, <2>6, <2>8
  <2> HIDE DEF Upto
  <2> QED
    BY <2>9
<1> HIDE DEF Upto
<1>3. T = {}
  <2>1. SUFFICES ASSUME T # {} PROVE FALSE
    OBVIOUS
  <2>2. PICK k \in T : \A j \in T : k =< j
    <3>1. T \subseteq Nat
      OBVIOUS
    <3> HIDE DEF T
    <3> QED
      BY <2>1, <3>1, LeastExists
  <2>3. k \in 1 .. Len(ns)
    BY <1>1
  <2>4. k - 1 \in 0 .. Len(ns) /\ k - 1 \notin T
    BY <2>2, <2>3
  <2>5. PICK f : Upto(k - 1, f)
    BY <2>4
  <2>6. \E g : Upto(k, g)
    BY <1>2, <2>3, <2>5
  <2> QED
    BY <2>6
<1>4. PICK f : Upto(Len(ns), f)
  <2>1. Len(ns) \in Nat
    OBVIOUS
  <2>2. Len(ns) \in 0 .. Len(ns)
    BY <2>1
  <2> QED
    BY <1>3, <2>2
<1> QED
  BY <1>4 DEF Upto, Sums

\* Total is the last of the sums.
LEMMA TotalFrom ==
  ASSUME NEW ns \in Seq(Nat), NEW f, Sums(ns, f)
  PROVE  Total(ns) = f[Len(ns)]
<1> DEFINE Rec(g) == g = [i \in 0 .. Len(ns) |-> IF i = 0 THEN 0 ELSE g[i - 1] + ns[i]]
           g == CHOOSE g : Rec(g)
<1>1. f = [i \in 0 .. Len(ns) |-> IF i = 0 THEN 0 ELSE f[i - 1] + ns[i]]
  BY DEF Sums
<1>2. Rec(g)
  <2>1. Rec(f)
    BY <1>1
  <2> HIDE DEF Rec
  <2> QED
    BY <2>1
<1>3. Total(ns) = g[Len(ns)]
  BY DEF Total
<1> HIDE DEF g
<1>4. \A i \in 0 .. Len(ns) : g[i] = IF i = 0 THEN 0 ELSE g[i - 1] + ns[i]
  BY <1>2
<1> HIDE DEF Rec
<1> DEFINE T == {k \in 0 .. Len(ns) : f[k] # g[k]}
<1>5. T = {}
  <2>1. SUFFICES ASSUME T # {} PROVE FALSE
    OBVIOUS
  <2>2. PICK k \in T : \A j \in T : k =< j
    <3>1. T \subseteq Nat
      OBVIOUS
    <3> HIDE DEF T
    <3> QED
      BY <2>1, <3>1, LeastExists
  <2>3. k \in 1 .. Len(ns)
    BY <1>4 DEF Sums
  <2>4. k - 1 \in 0 .. Len(ns) /\ k - 1 \notin T
    BY <2>2, <2>3
  <2> QED
    BY <1>4, <2>3, <2>4 DEF Sums
<1> QED
  BY <1>3, <1>5

\* A sum of numbers is a number.
LEMMA TotalIsNat ==
  ASSUME NEW ns \in Seq(Nat)
  PROVE  Total(ns) \in Nat
<1>1. PICK f : Sums(ns, f)
  BY SumsExist
<1>2. Total(ns) = f[Len(ns)] /\ f \in [0 .. Len(ns) -> Nat]
  BY <1>1, TotalFrom DEF Sums
<1> QED
  BY <1>2

\* Nothing adds up to nothing.
LEMMA TotalOfZeros ==
  ASSUME NEW ns \in Seq(Nat), \A i \in 1 .. Len(ns) : ns[i] = 0
  PROVE  Total(ns) = 0
<1> DEFINE f == [i \in 0 .. Len(ns) |-> 0]
<1>1. Sums(ns, f)
  BY DEF Sums
<1> QED
  BY <1>1, TotalFrom

\* What a number at the end adds to the sum.
LEMMA TotalOfMore ==
  ASSUME NEW ns \in Seq(Nat), NEW ms \in Seq(Nat), Len(ms) = Len(ns) + 1,
         \A i \in 1 .. Len(ns) : ms[i] = ns[i]
  PROVE  Total(ms) = Total(ns) + ms[Len(ms)]
<1>1. PICK f : Sums(ms, f)
  BY SumsExist
<1> DEFINE l == Len(ns)
           g == [i \in 0 .. l |-> f[i]]
<1>2. /\ f \in [0 .. l + 1 -> Nat] /\ f[0] = 0
      /\ \A i \in 1 .. l + 1 : f[i] = f[i - 1] + ms[i]
  BY <1>1 DEF Sums
<1>3. l \in Nat
  OBVIOUS
<1>4. \A i \in 1 .. l : i \in 1 .. l + 1 /\ i \in 0 .. l /\ i - 1 \in 0 .. l
  BY <1>3
<1>5. g \in [0 .. l -> Nat] /\ g[0] = 0 /\ \A i \in 0 .. l : g[i] = f[i]
  BY <1>2, <1>3
<1> HIDE DEF g
<1>6. \A i \in 1 .. l : g[i] = g[i - 1] + ns[i]
  BY <1>2, <1>4, <1>5
<1>7. Sums(ns, g)
  BY <1>5, <1>6 DEF Sums
<1>8. Total(ms) = f[l + 1] /\ Total(ns) = g[l]
  BY <1>1, <1>7, TotalFrom
<1>9. f[l + 1] = f[l] + ms[l + 1]
  <2>1. l + 1 \in 1 .. l + 1 /\ (l + 1) - 1 = l
    BY <1>3
  <2> QED
    BY <1>2, <2>1
<1>10. g[l] = f[l]
  BY <1>3, <1>5
<1> QED
  BY <1>8, <1>9, <1>10

\* What a number at the front adds to the sum.
LEMMA TotalOfRest ==
  ASSUME NEW ns \in Seq(Nat), NEW ms \in Seq(Nat), Len(ms) = Len(ns) + 1,
         \A i \in 1 .. Len(ns) : ms[i + 1] = ns[i]
  PROVE  Total(ms) = ms[1] + Total(ns)
<1>1. PICK f : Sums(ns, f)
  BY SumsExist
<1> DEFINE l == Len(ns)
           h == [i \in 0 .. l + 1 |-> IF i = 0 THEN 0 ELSE ms[1] + f[i - 1]]
<1>2. /\ f \in [0 .. l -> Nat] /\ f[0] = 0
      /\ \A i \in 1 .. l : f[i] = f[i - 1] + ns[i]
  BY <1>1 DEF Sums
<1>3. l \in Nat /\ ms[1] \in Nat
  OBVIOUS
<1>4. ASSUME NEW i \in 1 .. l + 1
      PROVE  i - 1 \in 0 .. l /\ f[i - 1] \in Nat
  <2>1. i - 1 \in 0 .. l
    BY <1>3
  <2> QED
    BY <1>2, <2>1
<1>5. h \in [0 .. l + 1 -> Nat]
  BY <1>3, <1>4
<1>6. h[0] = 0 /\ \A i \in 1 .. l + 1 : h[i] = ms[1] + f[i - 1]
  BY <1>3
<1> HIDE DEF h
<1>7. ASSUME NEW i \in 1 .. l + 1 PROVE h[i] = h[i - 1] + ms[i]
  <2>1. CASE i = 1
    BY <1>2, <1>3, <1>6, <2>1
  <2>2. CASE i # 1
    <3>1. PICK k \in 1 .. l : i = k + 1
      BY <1>3, <2>2
    <3>2. h[k + 1] = ms[1] + f[k]
      BY <1>3, <1>6
    <3>3. h[k] = ms[1] + f[k - 1]
      BY <1>3, <1>6
    <3>4. ms[k + 1] = ns[k] /\ ns[k] \in Nat
      OBVIOUS
    <3>5. f[k] = f[k - 1] + ns[k] /\ f[k - 1] \in Nat
      <4>1. k \in 1 .. l + 1
        BY <1>3
      <4> QED
        BY <1>2, <1>4, <4>1
    <3>6. h[k + 1] = h[k] + ms[k + 1]
      BY <1>3, <3>2, <3>3, <3>4, <3>5
    <3>7. i - 1 = k
      BY <3>1
    <3> QED
      BY <3>1, <3>6, <3>7
  <2> QED
    BY <2>1, <2>2
<1>8. Sums(ms, h)
  BY <1>5, <1>6, <1>7 DEF Sums
<1>9. Total(ms) = h[l + 1] /\ Total(ns) = f[l]
  BY <1>1, <1>8, TotalFrom
<1>10. h[l + 1] = ms[1] + f[l]
  <2>1. l + 1 \in 1 .. l + 1 /\ (l + 1) - 1 = l
    BY <1>3
  <2> QED
    BY <1>6, <2>1
<1> QED
  BY <1>9, <1>10

-----------------------------------------------------------------------------
(* What is counted of the messages on their way to a panel, of the writes of its xterm, and of the    *)
(* acks on their way back.                                                                           *)

NoState(q) == \A i \in 1 .. Len(q) : ~IsState(q[i])

\* The last state message of q, if it has one, has offset o.
LastState(q, o) ==
  \A i \in 1 .. Len(q) :
    IsState(q[i]) /\ (\A j \in i + 1 .. Len(q) : ~IsState(q[j])) => q[i].offset = o

\* The bytes counted of the messages of a queue are numbers.
LEMMA OutputsType ==
  ASSUME NEW q \in Seq(ServerMsg)
  PROVE  Outputs(q) \in Seq(Nat) /\ Len(Outputs(q)) = Len(q)
<1> DEFINE F(i) == IF q[i].type = "output" /\ \A j \in i .. Len(q) : ~IsState(q[j]) THEN q[i].n ELSE 0
<1>1. ASSUME NEW i \in 1 .. Len(q) PROVE F(i) \in Nat
  <2>1. q[i] \in ServerMsg
    <3> HIDE DEF ServerMsg
    <3> QED
      OBVIOUS
  <2> QED
    BY <2>1, MsgFields
<1> HIDE DEF F
<1>2. [i \in 1 .. Len(q) |-> F(i)] \in Seq(Nat) /\ Len([i \in 1 .. Len(q) |-> F(i)]) = Len(q)
  BY <1>1
<1>3. Outputs(q) = [i \in 1 .. Len(q) |-> F(i)]
  BY DEF Outputs, F
<1> QED
  BY <1>2, <1>3

\* So are the bytes counted of the writes.
LEMMA UnparsedType ==
  ASSUME NEW ws \in Seq(Write), NEW o
  PROVE  Unparsed(ws, o) \in Seq(Nat) /\ Len(Unparsed(ws, o)) = Len(ws)
<1> DEFINE F(i) == IF ws[i].sync = o THEN ws[i].n ELSE 0
<1>1. ASSUME NEW i \in 1 .. Len(ws) PROVE F(i) \in Nat
  <2>1. ws[i] \in Write
    <3> HIDE DEF Write
    <3> QED
      OBVIOUS
  <2> QED
    BY <2>1 DEF Write
<1> HIDE DEF F
<1>2. [i \in 1 .. Len(ws) |-> F(i)] \in Seq(Nat) /\ Len([i \in 1 .. Len(ws) |-> F(i)]) = Len(ws)
  BY <1>1
<1>3. Unparsed(ws, o) = [i \in 1 .. Len(ws) |-> F(i)]
  BY DEF Unparsed, F
<1> QED
  BY <1>2, <1>3

\* The fields of an ack.
LEMMA AckFields ==
  ASSUME NEW m \in ClientMsg, m.type = "ack"
  PROVE  m.sync \in Nat /\ m.bytes \in Nat
BY DEF ClientMsg, Offsets

\* And those counted of the acks.
LEMMA AckedType ==
  ASSUME NEW r \in Seq(ClientMsg), NEW o
  PROVE  Acked(r, o) \in Seq(Nat) /\ Len(Acked(r, o)) = Len(r)
<1> DEFINE F(i) == IF r[i].type = "ack" /\ r[i].sync = o THEN r[i].bytes ELSE 0
<1>1. ASSUME NEW i \in 1 .. Len(r) PROVE F(i) \in Nat
  <2>1. r[i] \in ClientMsg
    <3> HIDE DEF ClientMsg
    <3> QED
      OBVIOUS
  <2> QED
    BY <2>1, AckFields
<1> HIDE DEF F
<1>2. [i \in 1 .. Len(r) |-> F(i)] \in Seq(Nat) /\ Len([i \in 1 .. Len(r) |-> F(i)]) = Len(r)
  BY <1>1
<1>3. Acked(r, o) = [i \in 1 .. Len(r) |-> F(i)]
  BY DEF Acked, F
<1> QED
  BY <1>2, <1>3

\* A message behind a queue: a state takes what came before it out of the count.
LEMMA OutputsMore ==
  ASSUME NEW q \in Seq(ServerMsg), NEW m \in ServerMsg
  PROVE  Total(Outputs(Append(q, m))) =
           (IF IsState(m) THEN 0 ELSE Total(Outputs(q))) + (IF m.type = "output" THEN m.n ELSE 0)
<1> DEFINE r == Append(q, m)
<1>1. /\ Len(q) \in Nat /\ r \in Seq(ServerMsg) /\ Len(r) = Len(q) + 1 /\ r[Len(r)] = m
      /\ \A i \in 1 .. Len(q) : r[i] = q[i]
  <2> HIDE DEF ServerMsg
  <2> QED
    OBVIOUS
<1> HIDE DEF r
<1>2. /\ Outputs(q) \in Seq(Nat) /\ Len(Outputs(q)) = Len(q)
      /\ Outputs(r) \in Seq(Nat) /\ Len(Outputs(r)) = Len(q) + 1
  BY <1>1, OutputsType
<1>3. \A i \in 1 .. Len(q) : Outputs(q)[i] =
         IF q[i].type = "output" /\ \A j \in i .. Len(q) : ~IsState(q[j]) THEN q[i].n ELSE 0
  BY DEF Outputs
<1>4. \A i \in 1 .. Len(q) + 1 : Outputs(r)[i] =
         IF r[i].type = "output" /\ \A j \in i .. Len(q) + 1 : ~IsState(r[j]) THEN r[i].n ELSE 0
  BY <1>1 DEF Outputs
<1>5. Outputs(r)[Len(q) + 1] = IF m.type = "output" THEN m.n ELSE 0
  BY <1>1, <1>4 DEF IsState
<1>6. CASE IsState(m)
  <2>1. \A i \in 1 .. Len(q) + 1 : Outputs(r)[i] = 0
    BY <1>1, <1>4, <1>6 DEF IsState
  <2> QED
    BY <1>2, <1>6, <2>1, TotalOfZeros DEF IsState, r
<1>7. CASE ~IsState(m)
  <2>1. ASSUME NEW i \in 1 .. Len(q) PROVE Outputs(r)[i] = Outputs(q)[i]
    <3>1. (\A j \in i .. Len(q) + 1 : ~IsState(r[j])) <=> \A j \in i .. Len(q) : ~IsState(q[j])
      BY <1>1, <1>7
    <3> QED
      BY <1>1, <1>3, <1>4, <3>1
  <2>2. Total(Outputs(r)) = Total(Outputs(q)) + Outputs(r)[Len(q) + 1]
    BY <1>2, <2>1, TotalOfMore
  <2> QED
    BY <1>5, <1>7, <2>2 DEF r
<1> QED
  BY <1>6, <1>7

\* The head of a queue counts if it is output that no state follows.
LEMMA OutputsRest ==
  ASSUME NEW q \in Seq(ServerMsg), q # <<>>
  PROVE  Total(Outputs(q)) =
           (IF q[1].type = "output" /\ NoState(q) THEN q[1].n ELSE 0) + Total(Outputs(Tail(q)))
<1> DEFINE r == Tail(q)
<1>1. /\ Len(q) \in Nat /\ r \in Seq(ServerMsg) /\ Len(q) = Len(r) + 1 /\ Len(r) \in Nat
      /\ \A i \in 1 .. Len(r) : r[i] = q[i + 1]
  BY TailFields
<1> HIDE DEF r
<1>2. /\ Outputs(q) \in Seq(Nat) /\ Len(Outputs(q)) = Len(r) + 1
      /\ Outputs(r) \in Seq(Nat) /\ Len(Outputs(r)) = Len(r)
  BY <1>1, OutputsType
<1>3. \A i \in 1 .. Len(r) : Outputs(r)[i] =
         IF r[i].type = "output" /\ \A j \in i .. Len(r) : ~IsState(r[j]) THEN r[i].n ELSE 0
  BY DEF Outputs
<1>4. \A i \in 1 .. Len(r) + 1 : Outputs(q)[i] =
         IF q[i].type = "output" /\ \A j \in i .. Len(r) + 1 : ~IsState(q[j]) THEN q[i].n ELSE 0
  BY <1>1 DEF Outputs
<1>5. ASSUME NEW i \in 1 .. Len(r) PROVE Outputs(q)[i + 1] = Outputs(r)[i]
  <2>1. i + 1 \in 1 .. Len(r) + 1
    BY <1>1
  <2>2. (\A j \in i + 1 .. Len(r) + 1 : ~IsState(q[j])) <=> \A j \in i .. Len(r) : ~IsState(r[j])
    <3>1. \A j \in i .. Len(r) : j + 1 \in i + 1 .. Len(r) + 1 /\ r[j] = q[j + 1]
      BY <1>1
    <3>2. \A k \in i + 1 .. Len(r) + 1 : k - 1 \in i .. Len(r) /\ r[k - 1] = q[(k - 1) + 1]
                                         /\ (k - 1) + 1 = k
      BY <1>1
    <3> QED
      BY <3>1, <3>2
  <2>3. r[i] = q[i + 1]
    BY <1>1
  <2> QED
    BY <1>3, <1>4, <2>1, <2>2, <2>3
<1>6. Outputs(q)[1] = IF q[1].type = "output" /\ NoState(q) THEN q[1].n ELSE 0
  <2>1. 1 \in 1 .. Len(r) + 1
    BY <1>1
  <2> QED
    BY <1>1, <1>4, <2>1 DEF NoState
<1>7. Total(Outputs(q)) = Outputs(q)[1] + Total(Outputs(r))
  BY <1>2, <1>5, TotalOfRest
<1> QED
  BY <1>6, <1>7 DEF r

\* The oldest write is parsed.
LEMMA UnparsedRest ==
  ASSUME NEW ws \in Seq(Write), ws # <<>>, NEW o
  PROVE  Total(Unparsed(ws, o)) =
           (IF ws[1].sync = o THEN ws[1].n ELSE 0) + Total(Unparsed(Tail(ws), o))
<1> DEFINE r == Tail(ws)
<1>1. /\ r \in Seq(Write) /\ Len(ws) = Len(r) + 1 /\ Len(r) \in Nat
      /\ \A i \in 1 .. Len(r) : r[i] = ws[i + 1] /\ i + 1 \in 1 .. Len(ws)
  <2> HIDE DEF Write
  <2> QED
    OBVIOUS
<1> HIDE DEF r
<1>2. /\ Unparsed(ws, o) \in Seq(Nat) /\ Len(Unparsed(ws, o)) = Len(r) + 1
      /\ Unparsed(r, o) \in Seq(Nat) /\ Len(Unparsed(r, o)) = Len(r)
  BY <1>1, UnparsedType
<1>3. /\ \A i \in 1 .. Len(r) : Unparsed(r, o)[i] = IF r[i].sync = o THEN r[i].n ELSE 0
      /\ \A i \in 1 .. Len(ws) : Unparsed(ws, o)[i] = IF ws[i].sync = o THEN ws[i].n ELSE 0
  BY DEF Unparsed
<1>4. \A i \in 1 .. Len(r) : Unparsed(ws, o)[i + 1] = Unparsed(r, o)[i]
  BY <1>1, <1>3
<1>5. Total(Unparsed(ws, o)) = Unparsed(ws, o)[1] + Total(Unparsed(r, o))
  BY <1>2, <1>4, TotalOfRest
<1>6. 1 \in 1 .. Len(ws)
  BY <1>1
<1> QED
  BY <1>3, <1>5, <1>6 DEF r

\* A write behind the others.
LEMMA UnparsedMore ==
  ASSUME NEW ws \in Seq(Write), NEW w \in Write
  PROVE  Total(Unparsed(Append(ws, w), w.sync)) = Total(Unparsed(ws, w.sync)) + w.n
<1> DEFINE r == Append(ws, w)
           o == w.sync
<1>1. /\ r \in Seq(Write) /\ Len(r) = Len(ws) + 1 /\ Len(ws) \in Nat
      /\ \A i \in 1 .. Len(ws) : r[i] = ws[i] /\ i \in 1 .. Len(r)
      /\ r[Len(r)] = w /\ Len(r) \in 1 .. Len(r)
  <2> HIDE DEF Write
  <2> QED
    OBVIOUS
<1> HIDE DEF r
<1>2. /\ Unparsed(ws, o) \in Seq(Nat) /\ Len(Unparsed(ws, o)) = Len(ws)
      /\ Unparsed(r, o) \in Seq(Nat) /\ Len(Unparsed(r, o)) = Len(ws) + 1
  BY <1>1, UnparsedType
<1>3. /\ \A i \in 1 .. Len(r) : Unparsed(r, o)[i] = IF r[i].sync = o THEN r[i].n ELSE 0
      /\ \A i \in 1 .. Len(ws) : Unparsed(ws, o)[i] = IF ws[i].sync = o THEN ws[i].n ELSE 0
  BY DEF Unparsed
<1>4. \A i \in 1 .. Len(ws) : Unparsed(r, o)[i] = Unparsed(ws, o)[i]
  BY <1>1, <1>3
<1>5. Total(Unparsed(r, o)) = Total(Unparsed(ws, o)) + Unparsed(r, o)[Len(ws) + 1]
  BY <1>2, <1>4, TotalOfMore
<1> QED
  BY <1>1, <1>3, <1>5 DEF r

\* Nothing counts of what was written under other syncs only.
LEMMA UnparsedOthers ==
  ASSUME NEW ws \in Seq(Write), NEW o, \A i \in 1 .. Len(ws) : ws[i].sync # o
  PROVE  Total(Unparsed(ws, o)) = 0
<1>1. \A i \in 1 .. Len(ws) : Unparsed(ws, o)[i] = 0
  BY DEF Unparsed
<1> QED
  BY <1>1, UnparsedType, TotalOfZeros

\* The oldest message of a client is handled.
LEMMA AckedRest ==
  ASSUME NEW r \in Seq(ClientMsg), r # <<>>, NEW o
  PROVE  Total(Acked(r, o)) =
           (IF r[1].type = "ack" /\ r[1].sync = o THEN r[1].bytes ELSE 0) + Total(Acked(Tail(r), o))
<1> DEFINE t == Tail(r)
<1>1. /\ t \in Seq(ClientMsg) /\ Len(r) = Len(t) + 1 /\ Len(t) \in Nat
      /\ \A i \in 1 .. Len(t) : t[i] = r[i + 1] /\ i + 1 \in 1 .. Len(r)
  <2> HIDE DEF ClientMsg
  <2> QED
    OBVIOUS
<1> HIDE DEF t
<1>2. /\ Acked(r, o) \in Seq(Nat) /\ Len(Acked(r, o)) = Len(t) + 1
      /\ Acked(t, o) \in Seq(Nat) /\ Len(Acked(t, o)) = Len(t)
  BY <1>1, AckedType
<1>3. /\ \A i \in 1 .. Len(t) : Acked(t, o)[i] =
           IF t[i].type = "ack" /\ t[i].sync = o THEN t[i].bytes ELSE 0
      /\ \A i \in 1 .. Len(r) : Acked(r, o)[i] =
           IF r[i].type = "ack" /\ r[i].sync = o THEN r[i].bytes ELSE 0
  BY DEF Acked
<1>4. \A i \in 1 .. Len(t) : Acked(r, o)[i + 1] = Acked(t, o)[i]
  BY <1>1, <1>3
<1>5. Total(Acked(r, o)) = Acked(r, o)[1] + Total(Acked(t, o))
  BY <1>2, <1>4, TotalOfRest
<1>6. 1 \in 1 .. Len(r)
  BY <1>1
<1> QED
  BY <1>3, <1>5, <1>6 DEF t

\* An ack behind the others.
LEMMA AckedMore ==
  ASSUME NEW r \in Seq(ClientMsg), NEW m \in ClientMsg, m.type = "ack"
  PROVE  Total(Acked(Append(r, m), m.sync)) = Total(Acked(r, m.sync)) + m.bytes
<1> DEFINE t == Append(r, m)
           o == m.sync
<1>1. /\ t \in Seq(ClientMsg) /\ Len(t) = Len(r) + 1 /\ Len(r) \in Nat
      /\ \A i \in 1 .. Len(r) : t[i] = r[i] /\ i \in 1 .. Len(t)
      /\ t[Len(t)] = m /\ Len(t) \in 1 .. Len(t)
  <2> HIDE DEF ClientMsg
  <2> QED
    OBVIOUS
<1> HIDE DEF t
<1>2. /\ Acked(r, o) \in Seq(Nat) /\ Len(Acked(r, o)) = Len(r)
      /\ Acked(t, o) \in Seq(Nat) /\ Len(Acked(t, o)) = Len(r) + 1
  BY <1>1, AckedType
<1>3. /\ \A i \in 1 .. Len(t) : Acked(t, o)[i] =
           IF t[i].type = "ack" /\ t[i].sync = o THEN t[i].bytes ELSE 0
      /\ \A i \in 1 .. Len(r) : Acked(r, o)[i] =
           IF r[i].type = "ack" /\ r[i].sync = o THEN r[i].bytes ELSE 0
  BY DEF Acked
<1>4. \A i \in 1 .. Len(r) : Acked(t, o)[i] = Acked(r, o)[i]
  BY <1>1, <1>3
<1>5. Total(Acked(t, o)) = Total(Acked(r, o)) + Acked(t, o)[Len(r) + 1]
  BY <1>2, <1>4, TotalOfMore
<1> QED
  BY <1>1, <1>3, <1>5 DEF t

\* Nothing counts of acks of other syncs.
LEMMA AckedOthers ==
  ASSUME NEW r \in Seq(ClientMsg), NEW o,
         \A i \in 1 .. Len(r) : r[i].type = "ack" => r[i].sync # o
  PROVE  Total(Acked(r, o)) = 0
<1>1. \A i \in 1 .. Len(r) : Acked(r, o)[i] = 0
  BY DEF Acked
<1> QED
  BY <1>1, AckedType, TotalOfZeros

\* The states among the messages of a queue, when one more is sent.
LEMMA StatesMore ==
  ASSUME NEW q \in Seq(ServerMsg), NEW m \in ServerMsg
  PROVE  LET r == Append(q, m) IN
         /\ ~IsState(m) => /\ NoState(r) <=> NoState(q)
                           /\ \A o : LastState(q, o) => LastState(r, o)
         /\ IsState(m) => ~NoState(r) /\ LastState(r, m.offset)
<1> DEFINE r == Append(q, m)
<1>1. /\ Len(q) \in Nat /\ Len(r) = Len(q) + 1 /\ r[Len(q) + 1] = m
      /\ \A i \in 1 .. Len(q) : r[i] = q[i] /\ i \in 1 .. Len(r)
      /\ Len(q) + 1 \in 1 .. Len(r) /\ \A i \in 1 .. Len(r) : i \in 1 .. Len(q) \/ i = Len(q) + 1
  <2> HIDE DEF ServerMsg
  <2> QED
    OBVIOUS
<1> HIDE DEF r
<1>2. ASSUME ~IsState(m) PROVE NoState(r) <=> NoState(q)
  BY <1>1, <1>2 DEF NoState
<1>3. ASSUME ~IsState(m), NEW o, LastState(q, o) PROVE LastState(r, o)
  <2>1. ASSUME NEW i \in 1 .. Len(r), IsState(r[i]), \A j \in i + 1 .. Len(r) : ~IsState(r[j])
        PROVE  r[i].offset = o
    <3>1. i \in 1 .. Len(q) /\ r[i] = q[i]
      BY <1>1, <1>3, <2>1
    <3>2. \A j \in i + 1 .. Len(q) : j \in i + 1 .. Len(r) /\ j \in 1 .. Len(q)
      BY <1>1, <3>1
    <3>3. \A j \in i + 1 .. Len(q) : ~IsState(q[j])
      BY <1>1, <2>1, <3>2
    <3> QED
      BY <1>3, <2>1, <3>1, <3>3 DEF LastState
  <2> QED
    BY <2>1 DEF LastState
<1>4. ASSUME IsState(m) PROVE ~NoState(r) /\ LastState(r, m.offset)
  <2>1. ~NoState(r)
    BY <1>1, <1>4 DEF NoState
  <2>2. ASSUME NEW i \in 1 .. Len(r), \A j \in i + 1 .. Len(r) : ~IsState(r[j])
        PROVE  r[i] = m
    <3>1. i \in 1 .. Len(q) => Len(q) + 1 \in i + 1 .. Len(r)
      BY <1>1
    <3> QED
      BY <1>1, <1>4, <2>2, <3>1
  <2> QED
    BY <2>1, <2>2 DEF LastState
<1> QED
  BY <1>2, <1>3, <1>4 DEF r

\* And when the first of them is delivered.
LEMMA StatesRest ==
  ASSUME NEW q \in Seq(ServerMsg), q # <<>>
  PROVE  /\ NoState(q) <=> ~IsState(q[1]) /\ NoState(Tail(q))
         /\ \A o : LastState(q, o) => LastState(Tail(q), o)
         /\ \A o : LastState(q, o) /\ IsState(q[1]) /\ NoState(Tail(q)) => q[1].offset = o
<1> DEFINE r == Tail(q)
<1>1. /\ Len(r) \in Nat /\ Len(q) = Len(r) + 1
      /\ \A i \in 1 .. Len(r) : r[i] = q[i + 1] /\ i + 1 \in 1 .. Len(q)
  BY TailFields
<1> HIDE DEF r
<1>2. \A i \in 2 .. Len(q) : i - 1 \in 1 .. Len(r) /\ r[i - 1] = q[i]
  <2>1. ASSUME NEW i \in 2 .. Len(q) PROVE i - 1 \in 1 .. Len(r) /\ r[i - 1] = q[i]
    <3>1. i - 1 \in 1 .. Len(r) /\ (i - 1) + 1 = i
      BY <1>1
    <3> QED
      BY <1>1, <3>1
  <2> QED
    BY <2>1
<1>3. 1 \in 1 .. Len(q) /\ \A i \in 1 .. Len(q) : i = 1 \/ i \in 2 .. Len(q)
  BY <1>1
<1>4. NoState(q) <=> ~IsState(q[1]) /\ NoState(r)
  <2>1. ASSUME NoState(q) PROVE ~IsState(q[1]) /\ NoState(r)
    BY <1>1, <1>3, <2>1 DEF NoState
  <2>2. ASSUME ~IsState(q[1]), NoState(r) PROVE NoState(q)
    <3>1. \A i \in 2 .. Len(q) : ~IsState(q[i])
      BY <1>2, <2>2 DEF NoState
    <3> QED
      BY <1>3, <2>2, <3>1 DEF NoState
  <2> QED
    BY <2>1, <2>2
<1>5. ASSUME NEW o, LastState(q, o) PROVE LastState(r, o)
  <2>1. ASSUME NEW i \in 1 .. Len(r), IsState(r[i]), \A j \in i + 1 .. Len(r) : ~IsState(r[j])
        PROVE  r[i].offset = o
    <3>1. i + 1 \in 1 .. Len(q) /\ r[i] = q[i + 1]
      BY <1>1
    <3>2. ASSUME NEW j \in (i + 1) + 1 .. Len(q) PROVE ~IsState(q[j])
      <4>1. j \in 2 .. Len(q) /\ j - 1 \in i + 1 .. Len(r)
        BY <1>1
      <4> QED
        BY <1>2, <2>1, <4>1
    <3> QED
      BY <1>5, <2>1, <3>1, <3>2 DEF LastState
  <2> QED
    BY <2>1 DEF LastState
<1>6. ASSUME NEW o, LastState(q, o), IsState(q[1]), NoState(r) PROVE q[1].offset = o
  <2>1. \A j \in 1 + 1 .. Len(q) : ~IsState(q[j])
    BY <1>2, <1>6 DEF NoState
  <2> QED
    BY <1>3, <1>6, <2>1 DEF LastState
<1> QED
  BY <1>4, <1>5, <1>6 DEF r

-----------------------------------------------------------------------------
\* What is counted of a panel's xterm.
LEMMA XtermCounts ==
  ASSUME NEW x \in Xterm
  PROVE  /\ x.writes \in Seq(Write) /\ x.queued \in Seq(Frame) /\ x.unacked \in Nat /\ x.sync \in Nat
         /\ x.used \subseteq Nat
BY DEF Xterm, Write, Offsets

\* Each write of y is one of x, or is under the sync o.
WritesFrom(x, y, o) ==
  \A i \in 1 .. Len(y.writes) :
    \/ \E j \in 1 .. Len(x.writes) : y.writes[i] = x.writes[j]
    \/ y.writes[i].sync = o /\ o \in y.used

Wrote(x, y) ==
  /\ y.attached = x.attached /\ y.awaiting = x.awaiting /\ y.queued = x.queued
  /\ y.sync = x.sync /\ y.unacked = x.unacked /\ y.stale = x.stale
  /\ x.used \subseteq y.used /\ WritesFrom(x, y, x.sync)

\* Writing output leaves what is counted alone, and adds writes of the current sync.
LEMMA WriteKeeps ==
  ASSUME NEW x \in Xterm, NEW frames \in Seq(Frame)
  PROVE  Wrote(x, WriteLive(x, frames))
<1> DEFINE y      == WriteLive(x, frames)
           n      == Len(frames)
           endsAt(i) == IF i = 0 THEN x.shown ELSE frames[i].offset + frames[i].n
           gap    == x.gap \/ \E i \in 1 .. n : frames[i].offset > endsAt(i - 1)
           repeat == x.repeat \/ \E i \in 1 .. n : frames[i].offset < endsAt(i - 1)
           mixed  == x.mixed \/ \E i \in 1 .. n : frames[i].epoch # x.epoch
           new    == [i \in 1 .. n |-> [sync |-> x.sync, n |-> frames[i].n]]
           writes == x.writes \o new
<1>1. CASE n = 0
  <2>1. y = x
    BY <1>1, WriteNothing
  <2> HIDE DEF y
  <2>2. Wrote(x, y)
    BY <2>1 DEF Wrote, WritesFrom
  <2> QED
    BY <2>2 DEF y
<1>2. CASE n # 0
  <2>1. WriteLive(x, frames) = [x EXCEPT !.next = endsAt(n), !.shown = endsAt(n),
                                         !.gap = gap, !.repeat = repeat, !.mixed = mixed,
                                         !.used = x.used \cup {x.sync}, !.writes = writes]
    BY <1>2 DEF WriteLive
  <2>2. ASSUME NEW i \in 1 .. Len(writes)
        PROVE  (\E j \in 1 .. Len(x.writes) : writes[i] = x.writes[j]) \/ writes[i].sync = x.sync
    <3>1. x.writes \in Seq(Write) /\ n \in Nat
      BY XtermCounts
    <3>2. Len(new) = n /\ \A j \in 1 .. n : new[j].sync = x.sync
      BY <3>1
    <3>3. new \in Seq(Write)
      <4>1. ASSUME NEW j \in 1 .. n PROVE [sync |-> x.sync, n |-> frames[j].n] \in Write
        <5>1. frames[j] \in Frame
          <6> HIDE DEF Frame
          <6> QED
            OBVIOUS
        <5> QED
          BY <5>1, XtermCounts, FrameFields DEF Write, Offsets
      <4> HIDE DEF Write
      <4> QED
        BY <3>1, <4>1
    <3> HIDE DEF new, n, Write
    <3>4. /\ Len(writes) = Len(x.writes) + n /\ Len(x.writes) \in Nat
          /\ writes[i] = IF i =< Len(x.writes) THEN x.writes[i] ELSE new[i - Len(x.writes)]
      <4>1. Len(new) = n
        BY <3>2
      <4>2. Len(writes) = Len(x.writes) + Len(new)
        BY <3>1, <3>3
      <4>3. writes[i] = IF i =< Len(x.writes) THEN x.writes[i] ELSE new[i - Len(x.writes)]
        BY <3>1, <3>3
      <4> QED
        BY <3>1, <4>1, <4>2, <4>3
    <3>5. CASE i =< Len(x.writes)
      BY <3>4, <3>5
    <3>6. CASE i > Len(x.writes)
      <4>1. i - Len(x.writes) \in 1 .. n
        BY <3>1, <3>4, <3>6
      <4> QED
        BY <3>2, <3>4, <3>6, <4>1
    <3> QED
      BY <3>4, <3>5, <3>6
  <2> HIDE DEF gap, repeat, mixed, writes, endsAt, n
  <2>4. /\ y.attached = x.attached /\ y.awaiting = x.awaiting /\ y.queued = x.queued
        /\ y.sync = x.sync /\ y.unacked = x.unacked /\ y.stale = x.stale
        /\ y.used = x.used \cup {x.sync} /\ y.writes = writes
    BY <2>1 DEF Xterm
  <2> HIDE DEF y
  <2>5. Wrote(x, y)
    BY <2>2, <2>4 DEF Wrote, WritesFrom
  <2> QED
    BY <2>5 DEF y
<1> QED
  BY <1>1, <1>2

\* One frame is one more write.
LEMMA WriteOneCounts ==
  ASSUME NEW x \in Xterm, NEW m \in Frame
  PROVE  WriteLive(x, <<m>>).writes = Append(x.writes, [sync |-> x.sync, n |-> m.n])
<1> DEFINE frames == <<m>>
           n      == Len(frames)
           endsAt(i) == IF i = 0 THEN x.shown ELSE frames[i].offset + frames[i].n
           gap    == x.gap \/ \E i \in 1 .. n : frames[i].offset > endsAt(i - 1)
           repeat == x.repeat \/ \E i \in 1 .. n : frames[i].offset < endsAt(i - 1)
           mixed  == x.mixed \/ \E i \in 1 .. n : frames[i].epoch # x.epoch
           new    == [i \in 1 .. n |-> [sync |-> x.sync, n |-> frames[i].n]]
           writes == x.writes \o new
<1>1. n = 1 /\ frames[1] = m
  OBVIOUS
<1>2. WriteLive(x, frames) = [x EXCEPT !.next = endsAt(n), !.shown = endsAt(n),
                                       !.gap = gap, !.repeat = repeat, !.mixed = mixed,
                                       !.used = x.used \cup {x.sync}, !.writes = writes]
  BY <1>1 DEF WriteLive
<1>3. writes = Append(x.writes, [sync |-> x.sync, n |-> m.n])
  <2>1. x.writes \in Seq(Write) /\ m.n \in Nat /\ x.sync \in Nat
    BY XtermCounts, FrameFields
  <2> DEFINE one == [sync |-> x.sync, n |-> m.n]
  <2>2. new = <<one>>
    BY <1>1
  <2>3. one \in Write
    BY <2>1 DEF Write, Offsets
  <2> HIDE DEF new, one, Write
  <2>4. x.writes \o <<one>> = Append(x.writes, one)
    BY <2>1, <2>3
  <2> QED
    BY <2>2, <2>4 DEF one
<1> HIDE DEF gap, repeat, mixed, writes, endsAt, n, frames
<1>4. WriteLive(x, frames).writes = writes
  BY <1>2 DEF Xterm
<1> QED
  BY <1>3, <1>4 DEF frames

\* A state message starts the count afresh, under its offset.
LEMMA ApplyCounts ==
  ASSUME NEW x \in Xterm, NEW m \in StateType, NEW y \in ApplyState(x, m)
  PROVE  /\ y.attached = x.attached /\ ~y.awaiting /\ y.queued = <<>>
         /\ y.sync = m.offset /\ y.unacked = 0 /\ (y.stale <=> m.offset \in x.used)
         /\ x.used \subseteq y.used /\ WritesFrom(x, y, m.offset)
<1> DEFINE drawn  == Redraw(x, m)
           stale  == m.offset \in x.used
           synced == [drawn EXCEPT
                        !.epoch = m.epoch, !.next = m.offset, !.sync = m.offset,
                        !.awaiting = FALSE, !.unacked = 0, !.queued = <<>>,
                        !.stale = stale]
<1>1. m.mode \in {"resume", "snapshot"} /\ m.epoch \in Nat /\ m.offset \in Nat
  BY DEF StateType, Offsets
<1>2. /\ drawn \in Xterm /\ drawn.attached = x.attached /\ drawn.used = x.used
      /\ drawn.writes = x.writes
  BY <1>1 DEF Redraw, Xterm, Offsets
<1>3. x.queued \in Seq(Frame) /\ stale \in BOOLEAN /\ <<>> \in Seq(Frame)
  BY DEF Xterm
<1>4. PICK frames \in KeptFrames(x.queued, m.offset) : y = WriteLive(synced, frames)
  BY DEF ApplyState
<1>5. frames \in Seq(Frame)
  BY <1>3, KeptFramesType
<1> HIDE DEF drawn, stale
<1>6. /\ synced \in Xterm /\ synced.attached = x.attached /\ ~synced.awaiting
      /\ synced.queued = <<>> /\ synced.sync = m.offset /\ synced.unacked = 0
      /\ synced.stale = stale /\ synced.used = x.used /\ synced.writes = x.writes
  BY <1>1, <1>2, <1>3 DEF Xterm, Offsets
<1> HIDE DEF synced
<1>7. Wrote(synced, y)
  BY <1>4, <1>5, <1>6, WriteKeeps
<1>8. y.stale <=> m.offset \in x.used
  BY <1>6, <1>7 DEF Wrote, stale
<1>9. WritesFrom(x, y, m.offset)
  BY <1>6, <1>7 DEF Wrote, WritesFrom
<1> QED
  BY <1>6, <1>7, <1>8, <1>9 DEF Wrote

\* The queued frames a state message lets through are of another spawn, so they leave the screen mixed.
LEMMA ApplyUnmixed ==
  ASSUME NEW h \in Histories, NEW x \in Xterm, NEW m \in StateType, NEW y \in ApplyState(x, m),
         ScreenOK(h, x), \A i \in 1 .. Len(x.queued) : Precedes(x.queued[i], m), ~y.mixed
  PROVE  y.writes = x.writes
<1> DEFINE drawn  == Redraw(x, m)
           stale  == m.offset \in x.used
           synced == [drawn EXCEPT
                        !.epoch = m.epoch, !.next = m.offset, !.sync = m.offset,
                        !.awaiting = FALSE, !.unacked = 0, !.queued = <<>>,
                        !.stale = stale]
<1>1. m.mode \in {"resume", "snapshot"} /\ m.epoch \in Nat /\ m.offset \in Nat
      /\ Stamped(m) /\ EndOf(m) = m.offset
  BY DEF StateType, Offsets, Stamped, EndOf
<1>2. drawn \in Xterm /\ drawn.writes = x.writes
  BY <1>1 DEF Redraw, Xterm, Offsets
<1>3. x.queued \in Seq(Frame) /\ stale \in BOOLEAN /\ <<>> \in Seq(Frame)
  BY DEF Xterm
<1>4. PICK frames \in KeptFrames(x.queued, m.offset) : y = WriteLive(synced, frames)
  BY DEF ApplyState
<1>5. frames \in Seq(Frame)
  BY <1>3, KeptFramesType
<1> HIDE DEF drawn, stale
<1>6. synced \in Xterm /\ synced.writes = x.writes /\ synced.epoch = m.epoch
  BY <1>1, <1>2, <1>3 DEF Xterm, Offsets
<1> HIDE DEF synced
<1>7. CASE Len(frames) # 0
  <2>1. 1 \in 1 .. Len(frames)
    BY <1>5, <1>7
  <2>2. PICK i \in 1 .. Len(x.queued) :
          frames[1] = x.queued[i] /\ x.queued[i].offset >= m.offset
    BY <1>3, <2>1, KeptFromQueue
  <2>3. x.queued[i] \in Frame
    <3> HIDE DEF Frame
    <3> QED
      BY <1>3
  <2>4. Precedes(x.queued[i], m) /\ Written(h, x.queued[i])
    BY DEF ScreenOK
  <2>5. frames[1].epoch # m.epoch
    BY <1>1, <2>2, <2>3, <2>4, FrameFields DEF Precedes, Written
  <2>6. y.mixed
    BY <1>4, <1>5, <1>6, <2>1, <2>5, WriteMixed
  <2> QED
    BY <2>6
<1>8. CASE Len(frames) = 0
  BY <1>4, <1>5, <1>6, <1>8, WriteNothing
<1> QED
  BY <1>5, <1>7, <1>8

-----------------------------------------------------------------------------
(* The account of one window: what it may not be missing, as each end of its two queues moves.        *)

\* The panel and the session are under the same sync, once the states on their way are delivered.
InStep(x, q, o) ==
  IF NoState(q) THEN ~x.awaiting /\ x.queued = <<>> /\ x.sync = o ELSE LastState(q, o)

\* Where the bytes of sync o are that were sent to x and of which no ack was handled.
Away(x, q, r, o) ==
  Total(Outputs(q))
    + IF NoState(q) THEN Total(Unparsed(x.writes, o)) + x.unacked + Total(Acked(r, o)) ELSE 0

\* Sync o can be told from the earlier ones.
Tellable(x, q, o) ==
  ~Overlap /\ IF NoState(q) THEN ~x.stale /\ ~x.mixed ELSE o \notin x.used

CountOK(x, q, r, o, u) ==
  /\ InStep(x, q, o)
  /\ u =< Away(x, q, r, o)
  /\ Tellable(x, q, o) => u = Away(x, q, r, o)

\* What is parsed and not acked, or not parsed, was written under a sync that was used.
WritesUsed(x) ==
  /\ \A i \in 1 .. Len(x.writes) : x.writes[i].sync \in x.used
  /\ x.unacked > 0 => x.sync \in x.used

\* So is what was acked since the last attach.
AcksUsed(x, r) ==
  \A i \in 1 .. Len(r) :
    r[i].type = "ack" /\ (\A j \in i + 1 .. Len(r) : ~Asks(r[j])) => r[i].sync \in x.used

\* The parts of what is away are numbers, and so is their sum.
LEMMA AwayType ==
  ASSUME NEW x \in Xterm, NEW q \in Seq(ServerMsg), NEW r \in Seq(ClientMsg), NEW o
  PROVE  /\ Total(Outputs(q)) \in Nat /\ Total(Unparsed(x.writes, o)) \in Nat
         /\ Total(Acked(r, o)) \in Nat /\ x.unacked \in Nat
         /\ Away(x, q, r, o) \in Nat
<1>1. /\ Total(Outputs(q)) \in Nat /\ Total(Unparsed(x.writes, o)) \in Nat
      /\ Total(Acked(r, o)) \in Nat /\ x.unacked \in Nat
  BY XtermCounts, OutputsType, UnparsedType, AckedType, TotalIsNat
<1> QED
  BY <1>1 DEF Away

\* Output is sent: it is on its way.
LEMMA CountSent ==
  ASSUME NEW x \in Xterm, NEW q \in Seq(ServerMsg), NEW r \in Seq(ClientMsg), NEW o, NEW u \in Nat,
         NEW m \in Frame, CountOK(x, q, r, o, u)
  PROVE  CountOK(x, Append(q, m), r, o, u + m.n)
<1>1. m \in ServerMsg /\ m.type = "output" /\ m.n \in Nat /\ ~IsState(m)
  BY DEF Frame, ServerMsg, IsState
<1>2. /\ NoState(Append(q, m)) <=> NoState(q)
      /\ \A p : LastState(q, p) => LastState(Append(q, m), p)
  BY <1>1, StatesMore
<1>3. Total(Outputs(Append(q, m))) = Total(Outputs(q)) + m.n
  BY <1>1, OutputsMore
<1>4. Away(x, Append(q, m), r, o) = Away(x, q, r, o) + m.n
  <2>1. /\ Total(Outputs(q)) \in Nat /\ Total(Unparsed(x.writes, o)) \in Nat
        /\ Total(Acked(r, o)) \in Nat /\ x.unacked \in Nat
    BY AwayType
  <2> DEFINE given == Total(Unparsed(x.writes, o)) + x.unacked + Total(Acked(r, o))
  <2>2. given \in Nat
    BY <2>1
  <2>3. Away(x, q, r, o) = Total(Outputs(q)) + IF NoState(q) THEN given ELSE 0
    BY DEF Away
  <2>4. Away(x, Append(q, m), r, o) = Total(Outputs(Append(q, m))) + IF NoState(q) THEN given ELSE 0
    BY <1>2 DEF Away
  <2> HIDE DEF given
  <2> QED
    BY <1>1, <1>3, <2>1, <2>2, <2>3, <2>4
<1>5. InStep(x, Append(q, m), o)
  BY <1>2 DEF CountOK, InStep
<1>6. Tellable(x, Append(q, m), o) => Tellable(x, q, o)
  BY <1>2 DEF Tellable
<1> QED
  BY <1>1, <1>4, <1>5, <1>6, AwayType DEF CountOK

\* A sync is sent: the count is of the bytes that follow the state message.
LEMMA CountSynced ==
  ASSUME TypeInv, NEW x \in Xterm, NEW q \in Seq(ServerMsg), NEW r \in Seq(ClientMsg),
         NEW mode \in {"resume", "snapshot"}, NEW offset \in Nat, offset =< end
  PROVE  CountOK(x, q \o SyncMsgs(mode, offset), r, offset, end - offset)
<1> DEFINE m == StateMsg(mode, offset)
           k == OutputMsg(offset, end - offset)
           p == Append(q, m)
<1>1. epoch \in Nat /\ end \in Nat
  BY DEF TypeInv, SessionScalarsOK, SnapInv, SnapTypeOK, RingTypeOK
<1>2. m \in ServerMsg /\ IsState(m) /\ m.offset = offset /\ m.type # "output"
  BY <1>1 DEF StateMsg, ServerMsg, IsState, Offsets
<1>3. k \in Frame /\ k.n = end - offset
  BY <1>1 DEF OutputMsg, Frame, Offsets
<1> HIDE DEF m, k
<1>4. p \in Seq(ServerMsg)
  BY <1>2, AppendFields
<1>5. Total(Outputs(p)) = 0 /\ ~NoState(p) /\ LastState(p, offset)
  BY <1>2, OutputsMore, StatesMore
<1> HIDE DEF p
<1>6. CountOK(x, p, r, offset, 0)
  BY <1>5 DEF CountOK, InStep, Away
<1>7. CASE end > offset
  <2>1. k \in ServerMsg
    BY <1>3 DEF Frame, ServerMsg
  <2>2. SyncMsgs(mode, offset) = <<m, k>>
    BY <1>7 DEF SyncMsgs, m, k
  <2>3. q \o <<m, k>> = Append(p, k)
    <3> HIDE DEF ServerMsg
    <3> QED
      BY <1>2, <2>1 DEF p
  <2>4. CountOK(x, Append(p, k), r, offset, 0 + k.n)
    BY <1>3, <1>4, <1>6, CountSent
  <2>5. 0 + k.n = end - offset
    BY <1>1, <1>3
  <2> QED
    BY <2>2, <2>3, <2>4, <2>5, Zenon
<1>8. CASE end = offset
  <2>1. SyncMsgs(mode, offset) = <<m>>
    BY <1>1, <1>8 DEF SyncMsgs, m
  <2>2. q \o <<m>> = p
    <3> HIDE DEF ServerMsg
    <3> QED
      BY <1>2 DEF p
  <2>3. end - offset = 0
    BY <1>1, <1>8
  <2> QED
    BY <1>6, <2>1, <2>2, <2>3, Zenon
<1> QED
  BY <1>1, <1>7, <1>8

\* The first message of a queue, and the others behind it.
LEMMA ClientTail ==
  ASSUME NEW r \in Seq(ClientMsg), r # <<>>
  PROVE  /\ Len(r) \in Nat /\ 1 \in 1 .. Len(r) /\ r[1] = Head(r) /\ r[1] \in ClientMsg
         /\ Tail(r) \in Seq(ClientMsg) /\ Len(r) = Len(Tail(r)) + 1
         /\ \A i \in 1 .. Len(Tail(r)) : Tail(r)[i] = r[i + 1] /\ i + 1 \in 1 .. Len(r)
<1> HIDE DEF ClientMsg
<1> QED
  OBVIOUS

\* What a client sent is handled: an ack of the current sync takes its bytes off the count.
LEMMA CountHandled ==
  ASSUME NEW x \in Xterm, NEW q \in Seq(ServerMsg), NEW r \in Seq(ClientMsg), NEW o, NEW u \in Nat,
         CountOK(x, q, r, o, u), r # <<>>, AcksUsed(x, r), NoneAsks(Tail(r))
  PROVE  /\ ~(r[1].type = "ack" /\ r[1].sync = o) => CountOK(x, q, Tail(r), o, u)
         /\ r[1].type = "ack" /\ r[1].sync = o =>
              CountOK(x, q, Tail(r), o, IF u > r[1].bytes THEN u - r[1].bytes ELSE 0)
<1>1. /\ Len(r) \in Nat /\ 1 \in 1 .. Len(r) /\ r[1] \in ClientMsg /\ Tail(r) \in Seq(ClientMsg)
      /\ Len(r) = Len(Tail(r)) + 1
      /\ \A i \in 1 .. Len(Tail(r)) : Tail(r)[i] = r[i + 1]
  BY ClientTail
<1>2. Total(Acked(r, o)) =
        (IF r[1].type = "ack" /\ r[1].sync = o THEN r[1].bytes ELSE 0) + Total(Acked(Tail(r), o))
  BY AckedRest
<1>3. /\ Away(x, q, r, o) \in Nat /\ Away(x, q, Tail(r), o) \in Nat
      /\ Total(Outputs(q)) \in Nat /\ Total(Unparsed(x.writes, o)) \in Nat /\ x.unacked \in Nat
      /\ Total(Acked(r, o)) \in Nat /\ Total(Acked(Tail(r), o)) \in Nat
  BY <1>1, AwayType
<1>4. CASE ~(r[1].type = "ack" /\ r[1].sync = o)
  <2>1. Away(x, q, Tail(r), o) = Away(x, q, r, o)
    BY <1>2, <1>3, <1>4 DEF Away
  <2> QED
    BY <1>4, <2>1 DEF CountOK
<1>5. CASE r[1].type = "ack" /\ r[1].sync = o
  <2> DEFINE b == r[1].bytes
             v == IF u > b THEN u - b ELSE 0
  <2>1. b \in Nat
    BY <1>1, <1>5, AckFields
  <2>2. CASE NoState(q)
    <3>1. Away(x, q, r, o) = Away(x, q, Tail(r), o) + b
      <4> DEFINE given == Total(Outputs(q)) + Total(Unparsed(x.writes, o)) + x.unacked
      <4>1. given \in Nat
        BY <1>3
      <4>2. Away(x, q, r, o) = given + Total(Acked(r, o))
            /\ Away(x, q, Tail(r), o) = given + Total(Acked(Tail(r), o))
        BY <1>3, <2>2 DEF Away
      <4>3. Total(Acked(r, o)) = b + Total(Acked(Tail(r), o))
        BY <1>2, <1>5
      <4> HIDE DEF given, b
      <4> QED
        BY <1>3, <2>1, <4>1, <4>2, <4>3
    <3> HIDE DEF b
    <3>2. v =< Away(x, q, Tail(r), o)
      BY <1>3, <2>1, <3>1 DEF CountOK
    <3>3. Tellable(x, q, o) => v = Away(x, q, Tail(r), o)
      BY <1>3, <2>1, <3>1 DEF CountOK
    <3>4. CountOK(x, q, Tail(r), o, v)
      BY <3>2, <3>3 DEF CountOK
    <3> QED
      BY <1>5, <3>4 DEF b
  <2>3. CASE ~NoState(q)
    <3>1. Away(x, q, Tail(r), o) = Away(x, q, r, o)
      BY <2>3 DEF Away
    <3>2. o \in x.used
      <4>1. \A j \in 1 + 1 .. Len(r) : ~Asks(r[j])
        <5>1. ASSUME NEW j \in 1 + 1 .. Len(r) PROVE ~Asks(r[j])
          <6>1. j - 1 \in 1 .. Len(Tail(r)) /\ (j - 1) + 1 = j
            BY <1>1
          <6>2. Tail(r)[j - 1] = r[j]
            BY <1>1, <6>1
          <6> QED
            BY <6>1, <6>2 DEF NoneAsks
        <5> QED
          BY <5>1
      <4> QED
        BY <1>1, <1>5, <4>1 DEF AcksUsed
    <3>3. ~Tellable(x, q, o)
      BY <2>3, <3>2 DEF Tellable
    <3>4. v =< Away(x, q, Tail(r), o)
      BY <1>3, <2>1, <3>1 DEF CountOK
    <3> HIDE DEF b, v
    <3>5. CountOK(x, q, Tail(r), o, v)
      BY <3>3, <3>4 DEF CountOK
    <3> QED
      BY <1>5, <3>5 DEF b, v
  <2> QED
    BY <2>2, <2>3
<1> QED
  BY <1>4, <1>5

\* The oldest write is parsed, and may be acked.
LEMMA CountParsed ==
  ASSUME NEW x \in Xterm, NEW q \in Seq(ServerMsg), NEW r \in Seq(ClientMsg), NEW o, NEW u \in Nat,
         CountOK(x, q, r, o, u), x.writes # <<>>, NEW k \in Seq(ClientMsg),
         k = IF AckDue(x) > 0
             THEN Append(r, [type |-> "ack", sync |-> x.sync, bytes |-> AckDue(x)]) ELSE r
  PROVE  CountOK(Parsed(x), q, k, o, u)
<1> DEFINE y == Parsed(x)
           m == [type |-> "ack", sync |-> x.sync, bytes |-> AckDue(x)]
<1>1. /\ x.writes \in Seq(Write) /\ x.unacked \in Nat /\ x.sync \in Nat
      /\ x.writes[1] = Head(x.writes) /\ x.writes[1].n \in Nat
  <2>1. x.writes \in Seq(Write) /\ x.unacked \in Nat /\ x.sync \in Nat
    BY XtermCounts
  <2>2. x.writes[1] = Head(x.writes) /\ x.writes[1] \in Write
    <3> HIDE DEF Write
    <3> QED
      BY <2>1
  <2> QED
    BY <2>1, <2>2 DEF Write
<1>2. y \in Xterm /\ AckDue(x) \in Nat
  BY ParsedType
<1>3. /\ y.writes = Tail(x.writes) /\ y.awaiting = x.awaiting /\ y.queued = x.queued
      /\ y.sync = x.sync /\ y.used = x.used /\ y.stale = x.stale /\ y.mixed = x.mixed
      /\ y.unacked = IF AckDue(x) > 0 THEN 0 ELSE CountedBytes(x)
  BY DEF Parsed, Xterm
<1>4. AckDue(x) > 0 => m \in ClientMsg /\ AckDue(x) = CountedBytes(x) /\ x.writes[1].sync = x.sync
  BY <1>1, <1>2 DEF ClientMsg, AckDue, Offsets
<1> HIDE DEF y
<1>5. InStep(y, q, o)
  BY <1>3 DEF CountOK, InStep
<1>6. Tellable(y, q, o) <=> Tellable(x, q, o)
  BY <1>3 DEF Tellable
<1>7. Away(y, q, k, o) = Away(x, q, r, o)
  <2>1. CASE ~NoState(q)
    BY <2>1 DEF Away
  <2>2. CASE NoState(q)
    <3>1. x.sync = o
      BY <2>2 DEF CountOK, InStep
    <3>2. Total(Unparsed(x.writes, o)) =
            (IF x.writes[1].sync = o THEN x.writes[1].n ELSE 0) + Total(Unparsed(y.writes, o))
      BY <1>1, <1>3, UnparsedRest
    <3>3. CountedBytes(x) = x.unacked + (IF x.writes[1].sync = o THEN x.writes[1].n ELSE 0)
      BY <1>1, <3>1 DEF CountedBytes
    <3>4. /\ Total(Unparsed(x.writes, o)) \in Nat /\ Total(Unparsed(y.writes, o)) \in Nat
          /\ Total(Acked(r, o)) \in Nat /\ Total(Acked(k, o)) \in Nat /\ Total(Outputs(q)) \in Nat
      BY <1>2, AwayType
    <3> DEFINE before == Total(Unparsed(x.writes, o))
               after  == Total(Unparsed(y.writes, o))
               acked  == Total(Acked(r, o))
               acks   == Total(Acked(k, o))
               n      == IF x.writes[1].sync = o THEN x.writes[1].n ELSE 0
    <3>5. /\ before \in Nat /\ after \in Nat /\ acked \in Nat /\ acks \in Nat /\ n \in Nat
          /\ before = n + after /\ CountedBytes(x) = x.unacked + n
      BY <1>1, <3>2, <3>3, <3>4
    <3>6. AckDue(x) > 0 => acks = acked + AckDue(x)
      <4>1. CASE AckDue(x) > 0
        <5>1. m \in ClientMsg /\ m.type = "ack" /\ m.sync = o /\ m.bytes = AckDue(x)
          BY <1>4, <3>1, <4>1
        <5>2. k = Append(r, m)
          BY <4>1
        <5> HIDE DEF m
        <5> QED
          BY <5>1, <5>2, AckedMore
      <4> QED
        BY <4>1
    <3>7. ~(AckDue(x) > 0) => acks = acked
      OBVIOUS
    <3> HIDE DEF before, after, acked, acks, n
    <3>8. after + y.unacked + acks = before + x.unacked + acked
      <4>1. CASE AckDue(x) > 0
        <5>1. y.unacked = 0 /\ AckDue(x) = CountedBytes(x)
          BY <1>3, <1>4, <4>1
        <5>2. acks = acked + AckDue(x)
          BY <3>6, <4>1
        <5>3. AckDue(x) = x.unacked + n
          BY <3>5, <5>1
        <5>4. acks = acked + (x.unacked + n)
          BY <5>2, <5>3, Zenon
        <5> QED
          BY <1>1, <3>5, <5>1, <5>4
      <4>2. CASE ~(AckDue(x) > 0)
        <5>1. y.unacked = CountedBytes(x)
          BY <1>3, <4>2
        <5> QED
          BY <1>1, <3>5, <3>7, <4>2, <5>1
      <4> QED
        BY <4>1, <4>2
    <3>9. Away(y, q, k, o) = Total(Outputs(q)) + (after + y.unacked + acks)
          /\ Away(x, q, r, o) = Total(Outputs(q)) + (before + x.unacked + acked)
      BY <2>2 DEF Away, before, after, acked, acks
    <3> QED
      BY <3>8, <3>9
  <2> QED
    BY <2>1, <2>2
<1>8. CountOK(y, q, k, o, u)
  BY <1>5, <1>6, <1>7 DEF CountOK
<1> QED
  BY <1>8 DEF y

\* The panel handles a message: what was counted on its way is counted in the xterm.
LEMMA CountDelivered ==
  ASSUME NEW x \in Xterm, NEW q \in Seq(ServerMsg), NEW r \in Seq(ClientMsg), NEW o, NEW u \in Nat,
         CountOK(x, q, r, o, u), WritesUsed(x), AcksUsed(x, r), NoneAsks(r),
         q # <<>>, NEW y \in Handle(x, q[1]),
         ~Overlap /\ IsState(q[1]) /\ ~y.mixed => y.writes = x.writes
  PROVE  CountOK(y, Tail(q), r, o, u)
<1> DEFINE m == q[1]
           t == Tail(q)
<1>1. /\ m \in ServerMsg /\ t \in Seq(ServerMsg)
      /\ NoState(q) <=> ~IsState(m) /\ NoState(t)
      /\ \A p : LastState(q, p) => LastState(t, p)
      /\ \A p : LastState(q, p) /\ IsState(m) /\ NoState(t) => m.offset = p
      /\ Total(Outputs(q)) = (IF m.type = "output" /\ NoState(q) THEN m.n ELSE 0) + Total(Outputs(t))
  BY TailFields, StatesRest, OutputsRest
<1>2. y \in Xterm
  BY <1>1, HandleType
<1>3. m.type \in {"state", "output", "exit"}
  BY <1>1, MsgFields
<1>4. /\ Total(Outputs(q)) \in Nat /\ Total(Outputs(t)) \in Nat /\ Total(Acked(r, o)) \in Nat
      /\ Total(Unparsed(x.writes, o)) \in Nat /\ x.unacked \in Nat
      /\ Total(Unparsed(y.writes, o)) \in Nat /\ y.unacked \in Nat
  BY <1>1, <1>2, AwayType
<1> HIDE DEF m, t
<1>5. ASSUME ~IsState(m), x.used \subseteq y.used, y.mixed = x.mixed \/ y.mixed, y.stale = x.stale
      PROVE  Tellable(y, t, o) => Tellable(x, q, o)
  BY <1>1, <1>5 DEF Tellable
<1>6. CASE m.type = "exit"
  <2>1. y = [x EXCEPT !.exited = TRUE] /\ ~IsState(m)
    BY <1>6 DEF Handle, IsState, m
  <2>2. /\ y.awaiting = x.awaiting /\ y.queued = x.queued /\ y.sync = x.sync /\ y.used = x.used
        /\ y.stale = x.stale /\ y.mixed = x.mixed /\ y.writes = x.writes /\ y.unacked = x.unacked
    BY <2>1 DEF Xterm
  <2>3. Total(Outputs(t)) = Total(Outputs(q))
    BY <1>1, <1>4, <1>6
  <2>4. Away(y, t, r, o) = Away(x, q, r, o)
    BY <1>1, <2>1, <2>2, <2>3 DEF Away
  <2>5. InStep(y, t, o)
    BY <1>1, <2>1, <2>2 DEF CountOK, InStep
  <2> QED
    BY <1>1, <2>1, <2>2, <2>4, <2>5 DEF CountOK, Tellable, t
<1>7. CASE m.type = "output"
  <2>1. m \in Frame /\ y = Receive(x, m) /\ ~IsState(m) /\ m.n \in Nat
    BY <1>1, <1>7, MsgFields DEF Handle, IsState, m
  <2>2. CASE x.awaiting
    <3>1. ~NoState(q) /\ ~NoState(t) /\ LastState(t, o)
      BY <1>1, <2>1, <2>2 DEF CountOK, InStep
    <3>2. y.used = x.used
      BY <2>1, <2>2 DEF Receive, Xterm
    <3>3. Away(y, t, r, o) = Away(x, q, r, o)
      BY <1>1, <1>4, <3>1 DEF Away
    <3> QED
      BY <3>1, <3>2, <3>3 DEF CountOK, InStep, Tellable, t
  <2>3. CASE ~x.awaiting
    <3>1. y = WriteLive(x, <<m>>)
      BY <2>1, <2>3 DEF Receive
    <3>2. <<m>> \in Seq(Frame)
      <4> HIDE DEF Frame
      <4> QED
        BY <2>1
    <3>3. Wrote(x, y)
      BY <3>1, <3>2, WriteKeeps
    <3>4. x.mixed => y.mixed
      BY <2>1, <3>1, WriteOne
    <3>5. CASE ~NoState(q)
      <4>1. ~NoState(t) /\ LastState(t, o)
        BY <1>1, <2>1, <3>5 DEF CountOK, InStep
      <4>2. Away(y, t, r, o) = Away(x, q, r, o)
        BY <1>1, <1>4, <3>5, <4>1 DEF Away
      <4>3. Tellable(y, t, o) => Tellable(x, q, o)
        BY <3>3, <3>5, <4>1 DEF Wrote, Tellable
      <4> QED
        BY <4>1, <4>2, <4>3 DEF CountOK, InStep, t
    <3>6. CASE NoState(q)
      <4>1. /\ x.queued = <<>> /\ x.sync = o /\ NoState(t)
        BY <1>1, <3>6 DEF CountOK, InStep
      <4>2. /\ y.queued = <<>> /\ y.sync = o /\ ~y.awaiting /\ y.unacked = x.unacked
            /\ y.stale = x.stale
        BY <2>3, <3>3, <4>1 DEF Wrote
      <4> DEFINE w == [sync |-> x.sync, n |-> m.n]
      <4>3. w \in Write /\ w.sync = o /\ w.n = m.n
        BY <2>1, <4>1, XtermCounts DEF Write, Offsets
      <4>4. y.writes = Append(x.writes, w)
        BY <2>1, <3>1, WriteOneCounts
      <4> HIDE DEF w
      <4>5. Total(Unparsed(y.writes, o)) = Total(Unparsed(x.writes, o)) + m.n
        BY <4>3, <4>4, UnparsedMore, XtermCounts
      <4>6. Total(Outputs(q)) = m.n + Total(Outputs(t))
        BY <1>1, <1>7, <3>6
      <4> DEFINE before == Total(Unparsed(x.writes, o))
                 after  == Total(Unparsed(y.writes, o))
                 acked  == Total(Acked(r, o))
                 sent   == Total(Outputs(q))
                 rest   == Total(Outputs(t))
      <4>7. /\ before \in Nat /\ after \in Nat /\ acked \in Nat /\ sent \in Nat /\ rest \in Nat
            /\ after = before + m.n /\ sent = m.n + rest
        BY <1>4, <4>5, <4>6
      <4>8. /\ Away(x, q, r, o) = sent + (before + x.unacked + acked)
            /\ Away(y, t, r, o) = rest + (after + y.unacked + acked)
        BY <3>6, <4>1 DEF Away
      <4> HIDE DEF before, after, acked, sent, rest
      <4>9. Away(y, t, r, o) = Away(x, q, r, o)
        <5>1. m.n \in Nat /\ x.unacked \in Nat /\ y.unacked = x.unacked
          BY <1>4, <2>1, <4>2
        <5>2. before \in Nat /\ acked \in Nat /\ rest \in Nat
          BY <4>7
        <5>3. Away(x, q, r, o) = (m.n + rest) + (before + x.unacked + acked)
          BY <4>7, <4>8
        <5>4. Away(y, t, r, o) = rest + ((before + m.n) + x.unacked + acked)
          BY <4>7, <4>8, <5>1
        <5>5. \A n, k \in Nat : (n + rest) + (before + k + acked) = rest + ((before + n) + k + acked)
          BY <5>2
        <5> QED
          BY <5>1, <5>3, <5>4, <5>5, Zenon
      <4>10. Tellable(y, t, o) => Tellable(x, q, o)
        BY <3>4, <3>6, <4>1, <4>2 DEF Tellable
      <4> QED
        BY <4>1, <4>2, <4>9, <4>10 DEF CountOK, InStep, t
    <3> QED
      BY <3>5, <3>6
  <2> QED
    BY <2>2, <2>3
<1>8. CASE m.type = "state"
  <2>1. m \in StateType /\ y \in ApplyState(x, m) /\ IsState(m) /\ ~NoState(q)
    BY <1>1, <1>8, MsgFields DEF Handle, IsState, m
  <2>2. /\ ~y.awaiting /\ y.queued = <<>> /\ y.sync = m.offset /\ y.unacked = 0
        /\ (y.stale <=> m.offset \in x.used) /\ x.used \subseteq y.used
    BY <2>1, ApplyCounts
  <2>3. Total(Outputs(t)) = Total(Outputs(q)) /\ Away(x, q, r, o) = Total(Outputs(q))
    BY <1>1, <1>4, <1>8, <2>1 DEF Away
  <2>4. LastState(q, o)
    BY <2>1 DEF CountOK, InStep
  <2>5. CASE ~NoState(t)
    <3>1. Away(y, t, r, o) = Away(x, q, r, o)
      BY <1>4, <2>3, <2>5 DEF Away
    <3>2. Tellable(y, t, o) => Tellable(x, q, o)
      BY <2>1, <2>2, <2>5 DEF Tellable
    <3> QED
      BY <1>1, <2>4, <2>5, <3>1, <3>2 DEF CountOK, InStep, t
  <2>6. CASE NoState(t)
    <3>1. m.offset = o
      BY <1>1, <2>1, <2>4, <2>6
    <3>2. u =< Total(Outputs(t))
      BY <2>3 DEF CountOK
    <3>3. Away(y, t, r, o)
            = Total(Outputs(t)) + (Total(Unparsed(y.writes, o)) + 0 + Total(Acked(r, o)))
      BY <2>2, <2>6 DEF Away
    <3>4. u =< Away(y, t, r, o)
      BY <1>4, <3>2, <3>3
    <3>5. ASSUME Tellable(y, t, o) PROVE u = Away(y, t, r, o)
      <4>1. ~Overlap /\ o \notin x.used /\ ~y.mixed
        BY <2>2, <2>6, <3>1, <3>5 DEF Tellable
      <4>2. u = Total(Outputs(t))
        BY <2>1, <2>3, <4>1 DEF CountOK, Tellable
      <4>3. y.writes = x.writes
        BY <2>1, <4>1 DEF m
      <4>4. Total(Unparsed(x.writes, o)) = 0
        <5>1. \A i \in 1 .. Len(x.writes) : x.writes[i].sync # o
          BY <4>1 DEF WritesUsed
        <5> QED
          BY <5>1, UnparsedOthers, XtermCounts
      <4>5. Total(Acked(r, o)) = 0
        <5>1. Len(r) \in Nat
          <6> HIDE DEF ClientMsg
          <6> QED
            OBVIOUS
        <5>2. ASSUME NEW i \in 1 .. Len(r), r[i].type = "ack" PROVE r[i].sync # o
          <6>1. \A j \in i + 1 .. Len(r) : j \in 1 .. Len(r)
            BY <5>1
          <6>2. \A j \in i + 1 .. Len(r) : ~Asks(r[j])
            BY <6>1 DEF NoneAsks
          <6> QED
            BY <4>1, <5>2, <6>2 DEF AcksUsed
        <5> QED
          BY <5>2, AckedOthers
      <4> QED
        BY <1>4, <3>3, <4>2, <4>3, <4>4, <4>5
    <3>6. InStep(y, t, o)
      BY <2>2, <2>6, <3>1 DEF InStep
    <3> QED
      BY <3>4, <3>5, <3>6 DEF CountOK, t
  <2> QED
    BY <2>5, <2>6
<1> QED
  BY <1>3, <1>6, <1>7, <1>8

-----------------------------------------------------------------------------
\* A message handled: what is written counts as used.
LEMMA UsedHandled ==
  ASSUME NEW x \in Xterm, NEW m \in ServerMsg, NEW y \in Handle(x, m), WritesUsed(x)
  PROVE  WritesUsed(y) /\ x.used \subseteq y.used /\ y.attached = x.attached
<1>1. m.type \in {"state", "output", "exit"}
  BY MsgFields
<1>2. CASE m.type = "exit"
  <2>1. y = [x EXCEPT !.exited = TRUE]
    BY <1>2 DEF Handle
  <2>2. /\ y.writes = x.writes /\ y.unacked = x.unacked /\ y.sync = x.sync /\ y.used = x.used
        /\ y.attached = x.attached
    BY <2>1 DEF Xterm
  <2> QED
    BY <2>2 DEF WritesUsed
<1>3. CASE m.type = "output"
  <2>1. m \in Frame /\ y = Receive(x, m)
    BY <1>3, MsgFields DEF Handle
  <2>2. CASE x.awaiting
    <3>1. /\ y.writes = x.writes /\ y.unacked = x.unacked /\ y.sync = x.sync /\ y.used = x.used
          /\ y.attached = x.attached
      BY <2>1, <2>2 DEF Receive, Xterm
    <3> QED
      BY <3>1 DEF WritesUsed
  <2>3. CASE ~x.awaiting
    <3>1. <<m>> \in Seq(Frame) /\ y = WriteLive(x, <<m>>)
      <4> HIDE DEF Frame
      <4> QED
        BY <2>1, <2>3 DEF Receive
    <3>2. Wrote(x, y)
      BY <3>1, WriteKeeps
    <3> QED
      BY <3>2 DEF Wrote, WritesFrom, WritesUsed
  <2> QED
    BY <2>2, <2>3
<1>4. CASE m.type = "state"
  <2>1. m \in StateType /\ y \in ApplyState(x, m)
    BY <1>4, MsgFields DEF Handle
  <2>2. /\ y.unacked = 0 /\ x.used \subseteq y.used /\ WritesFrom(x, y, m.offset)
        /\ y.attached = x.attached
    BY <2>1, ApplyCounts
  <2> QED
    BY <2>2 DEF WritesFrom, WritesUsed
<1> QED
  BY <1>1, <1>2, <1>3, <1>4

\* A write parsed: the ack it may send is of a sync that was used.
LEMMA UsedParsed ==
  ASSUME NEW x \in Xterm, x.writes # <<>>, WritesUsed(x)
  PROVE  /\ WritesUsed(Parsed(x)) /\ Parsed(x).used = x.used /\ Parsed(x).attached = x.attached
         /\ AckDue(x) > 0 => x.sync \in x.used
<1> DEFINE y == Parsed(x)
<1>1. /\ y.writes = Tail(x.writes) /\ y.sync = x.sync /\ y.used = x.used /\ y.attached = x.attached
      /\ y.unacked = IF AckDue(x) > 0 THEN 0 ELSE CountedBytes(x)
  BY DEF Parsed, Xterm
<1>2. x.writes \in Seq(Write) /\ x.unacked \in Nat
  BY XtermCounts
<1> HIDE DEF y
<1>3. /\ 1 \in 1 .. Len(x.writes) /\ x.writes[1] = Head(x.writes)
      /\ \A i \in 1 .. Len(y.writes) : y.writes[i] = x.writes[i + 1] /\ i + 1 \in 1 .. Len(x.writes)
  <2> HIDE DEF Write
  <2> QED
    BY <1>1, <1>2
<1>4. Head(x.writes).sync = x.sync => x.sync \in x.used
  BY <1>3 DEF WritesUsed
<1>5. y.unacked > 0 => y.sync \in y.used
  BY <1>1, <1>4 DEF WritesUsed, CountedBytes
<1>6. \A i \in 1 .. Len(y.writes) : y.writes[i].sync \in y.used
  BY <1>1, <1>3 DEF WritesUsed
<1>7. AckDue(x) > 0 => x.sync \in x.used
  BY <1>4 DEF AckDue
<1> QED
  BY <1>1, <1>5, <1>6, <1>7 DEF WritesUsed, y

\* A panel that was never given anything.
LEMMA UsedFresh ==
  ASSUME NEW x, x.writes = <<>>, x.unacked = 0
  PROVE  WritesUsed(x)
BY DEF WritesUsed

\* Acks are handled in order, and stay of syncs that were used.
LEMMA AcksRest ==
  ASSUME NEW x, NEW r \in Seq(ClientMsg), r # <<>>, AcksUsed(x, r)
  PROVE  AcksUsed(x, Tail(r))
<1> DEFINE t == Tail(r)
<1>1. /\ Len(r) = Len(t) + 1 /\ Len(t) \in Nat
      /\ \A i \in 1 .. Len(t) : t[i] = r[i + 1] /\ i + 1 \in 1 .. Len(r)
  <2> HIDE DEF ClientMsg
  <2> QED
    OBVIOUS
<1> HIDE DEF t
<1>2. ASSUME NEW i \in 1 .. Len(t), t[i].type = "ack", \A j \in i + 1 .. Len(t) : ~Asks(t[j])
      PROVE  t[i].sync \in x.used
  <2>1. ASSUME NEW j \in (i + 1) + 1 .. Len(r) PROVE ~Asks(r[j])
    <3>1. j - 1 \in i + 1 .. Len(t) /\ j - 1 \in 1 .. Len(t) /\ (j - 1) + 1 = j
      BY <1>1
    <3>2. t[j - 1] = r[j]
      BY <1>1, <3>1
    <3> QED
      BY <1>2, <3>1, <3>2
  <2> QED
    BY <1>1, <1>2, <2>1 DEF AcksUsed
<1> QED
  BY <1>2 DEF AcksUsed, t

\* Before an attach they need not be.
LEMMA AcksBeforeAttach ==
  ASSUME NEW x, NEW r \in Seq(ClientMsg), NEW since, AttachMsg(since) \in ClientMsg
  PROVE  AcksUsed(x, r \o <<AttachMsg(since)>>) /\ ~NoneAsks(r \o <<AttachMsg(since)>>)
<1> DEFINE m == AttachMsg(since)
           t == r \o <<m>>
<1>1. Asks(m) /\ m.type # "ack"
  BY DEF Asks, AttachMsg
<1>2. m \in ClientMsg
  OBVIOUS
<1> HIDE DEF m
<1>3. /\ Len(t) = Len(r) + 1 /\ Len(r) \in Nat /\ t[Len(t)] = m /\ Len(t) \in 1 .. Len(t)
  <2> HIDE DEF ClientMsg
  <2> QED
    BY <1>2
<1> HIDE DEF t
<1>4. \A i \in 1 .. Len(t) : i = Len(t) \/ Len(t) \in i + 1 .. Len(t)
  BY <1>3
<1>5. AcksUsed(x, t)
  BY <1>1, <1>3, <1>4 DEF AcksUsed
<1>6. ~NoneAsks(t)
  BY <1>1, <1>3 DEF NoneAsks
<1> QED
  BY <1>5, <1>6 DEF t, m

\* An ack of a used sync behind the others.
LEMMA AcksMore ==
  ASSUME NEW x, NEW r \in Seq(ClientMsg), AcksUsed(x, r), NEW m \in ClientMsg,
         m.type = "ack", m.sync \in x.used
  PROVE  AcksUsed(x, r \o <<m>>) /\ (NoneAsks(r \o <<m>>) => NoneAsks(r)) /\ r \o <<m>> = Append(r, m)
<1> DEFINE t == r \o <<m>>
<1>1. /\ Len(t) = Len(r) + 1 /\ Len(r) \in Nat /\ t[Len(t)] = m /\ t = Append(r, m)
      /\ \A i \in 1 .. Len(r) : t[i] = r[i] /\ i \in 1 .. Len(t)
      /\ \A i \in 1 .. Len(t) : i = Len(t) \/ i \in 1 .. Len(r)
  <2> HIDE DEF ClientMsg
  <2> QED
    OBVIOUS
<1> HIDE DEF t
<1>2. ASSUME NEW i \in 1 .. Len(t), t[i].type = "ack", \A j \in i + 1 .. Len(t) : ~Asks(t[j])
      PROVE  t[i].sync \in x.used
  <2>1. CASE i = Len(t)
    BY <1>1, <2>1
  <2>2. CASE i \in 1 .. Len(r)
    <3>1. \A j \in i + 1 .. Len(r) : j \in i + 1 .. Len(t) /\ j \in 1 .. Len(r)
      BY <1>1, <2>2
    <3>2. \A j \in i + 1 .. Len(r) : ~Asks(r[j])
      BY <1>1, <1>2, <3>1
    <3> QED
      BY <1>1, <1>2, <2>2, <3>2 DEF AcksUsed
  <2> QED
    BY <1>1, <2>1, <2>2
<1>3. NoneAsks(t) => NoneAsks(r)
  BY <1>1 DEF NoneAsks
<1> QED
  BY <1>1, <1>2, <1>3 DEF AcksUsed, t

-----------------------------------------------------------------------------
(***************************************************************************)
(* The account of all of them.  The session's `unacked` is the bytes that  *)
(* are on their way to an ack of the current sync: counted in the frames   *)
(* behind the last state message, or, when none is on its way, in the      *)
(* frames, the xterm's writes, what is parsed, and the acks.  Bytes of an  *)
(* earlier sync with the same offset can only add to those on their way,   *)
(* so the count is never too high; it is exact when the offset of the sync *)
(* was not used before.  No environment assumption is needed but for that  *)
(* the screen itself is right (ChainInv).                                  *)
(***************************************************************************)

\* A client that waits for its state has nothing to acknowledge.
IdleAtZero == sink # NoSocket /\ ~streaming => unacked = 0

UsedOK(w) ==
  /\ WritesUsed(xt[w])
  /\ sock[w] # NoSocket /\ xt[w].attached => AcksUsed(xt[w], inbox[sock[w]])

CountsOK(w) ==
  Streams(w) /\ NoneAsks(inbox[sock[w]]) =>
    CountOK(xt[w], outbox[sock[w]], inbox[sock[w]], syncOffset, unacked)

FlowInv == IdleAtZero /\ \A w \in Windows : UsedOK(w) /\ CountsOK(w)

\* No environment assumption, but for what is said of screens.
AccountInv ==
  /\ TypeInv /\ OwnerInv /\ SocketsOK /\ LatestStops /\ FlowInv
  /\ ~Overlap => ChainInv

\* A window, its socket, and what is on it.
LEMMA WindowTypes ==
  ASSUME NEW w \in Windows, TypeInv
  PROVE  /\ xt[w] \in Xterm /\ unacked \in Nat /\ end \in Nat
         /\ sock[w] # NoSocket => /\ sock[w] \in Sockets /\ sock[w] \in live
                                  /\ outbox[sock[w]] \in Seq(ServerMsg)
                                  /\ inbox[sock[w]] \in Seq(ClientMsg)
<1>1. /\ xt \in [Windows -> Xterm] /\ sock \in [Windows -> SocketOrNone]
      /\ outbox \in [Sockets -> Seq(ServerMsg)] /\ inbox \in [Sockets -> Seq(ClientMsg)]
      /\ unacked \in Nat /\ end \in Nat
  BY DEF TypeInv, XtermsOK, WindowsOK, OutboxOK, InboxOK, SessionScalarsOK, SnapInv, SnapTypeOK,
         RingTypeOK
<1> HIDE DEF Xterm, ServerMsg, ClientMsg
<1> QED
  BY <1>1 DEF SocketOrNone, live

\* An attach starts the count at zero, or at what it sends at once.
LEMMA IdleAtZeroStep ==
  ASSUME TypeInv, IdleAtZero, [Next]_vars
  PROVE  IdleAtZero'
<1>1. CASE UNCHANGED <<sink, streaming, unacked>>
  BY <1>1 DEF IdleAtZero
<1>2. CASE sink' = NoSocket \/ streaming' \/ unacked' = 0
  BY <1>2 DEF IdleAtZero
<1>3. CASE ShellStep
  <2>1. CASE PtyData
    BY <1>1, <1>2, <2>1 DEF PtyData, OnPtyData, IdleAtZero
  <2>2. CASE Spawn
    BY <1>2, <2>2 DEF Spawn
  <2>3. CASE ExitAfterSnapshot
    BY <1>2, <2>3 DEF ExitAfterSnapshot, AttachSnapshot
  <2>4. CASE ExitNow \/ FinalSnapshotReady
    BY <1>2, <2>4 DEF ExitNow, FinalSnapshotReady, RemoveSession, FreshSession
  <2>5. CASE SnapshotReady
    BY <1>1, <1>2, <2>5 DEF SnapshotReady, FinishSnapshot, GoLive
  <2> QED
    BY <1>3, <2>1, <2>2, <2>3, <2>4, <2>5 DEF ShellStep
<1>4. ASSUME NEW s \in Sockets, ServerStep(s)
      PROVE  IdleAtZero'
  <2>1. CASE HandleAttach(s)
    BY <1>1, <1>2, <2>1 DEF HandleAttach, Attach, AttachResume, AttachSnapshot, GoLive
  <2>2. CASE HandleDetach(s) \/ HandleClose(s)
    BY <1>1, <1>2, <2>2 DEF HandleDetach, HandleClose, DetachClient, Release, NoRelease, Detach
  <2>3. CASE HandleAck(s)
    <3>1. CASE UNCHANGED sessionVars
      BY <1>1, <3>1 DEF sessionVars
    <3>2. ASSUME AckCounted(Head(inbox[s]).sync, Head(inbox[s]).bytes)
          PROVE  IdleAtZero'
      <4>1. Head(inbox[s]).bytes \in Nat
        BY <2>3, ArrivedAck DEF HandleAck, TypeInv
      <4>2. UNCHANGED <<sink, streaming>> /\ (unacked = 0 => unacked' = 0)
        BY <3>2, <4>1 DEF AckCounted, AfterAck
      <4> QED
        BY <4>2 DEF IdleAtZero
    <3>3. ASSUME AckResync(Head(inbox[s]).sync, Head(inbox[s]).bytes)
          PROVE  IdleAtZero'
      BY <1>2, <3>3 DEF AckResync, AttachSnapshot
    <3> QED
      BY <2>3, <3>1, <3>2, <3>3 DEF HandleAck, Ack, AckIgnored
  <2>4. CASE HandleDestroy(s)
    BY <1>1, <1>2, <2>4 DEF HandleDestroy, FreshSession
  <2> QED
    BY <1>4, <2>1, <2>2, <2>3, <2>4 DEF ServerStep
<1>5. CASE ServerRestart
  BY <1>2, <1>5 DEF ServerRestart, FreshSession
<1>6. CASE (\E v \in Windows : WindowStep(v)) \/ UNCHANGED vars
  BY <1>1, <1>6, WindowsLeaveSession DEF vars, serverVars, sessionVars
<1> QED
  BY <1>3, <1>4, <1>5, <1>6 DEF Next

\* The server only takes messages off a window's queue.
LEMMA UsedServerStep ==
  ASSUME NEW w \in Windows, NEW s \in Sockets, TypeInv, UsedOK(w), ServerStep(s)
  PROVE  UsedOK(w)'
<1>1. /\ UNCHANGED <<sock, xt>>
      /\ \A t \in Sockets : t # s => inbox'[t] = inbox[t]
      /\ s \in live => inbox[s] # <<>> /\ inbox'[s] = Tail(inbox[s])
  BY ServerStepFacts DEF windowVars
<1>2. ASSUME sock[w] # NoSocket, xt[w].attached
      PROVE  AcksUsed(xt[w], inbox'[sock[w]])
  <2>1. AcksUsed(xt[w], inbox[sock[w]]) /\ sock[w] \in Sockets /\ sock[w] \in live
        /\ inbox[sock[w]] \in Seq(ClientMsg)
    BY <1>2, WindowTypes DEF UsedOK
  <2>2. CASE sock[w] # s
    BY <1>1, <2>1, <2>2
  <2>3. CASE sock[w] = s
    BY <1>1, <2>1, <2>3, AcksRest
  <2> QED
    BY <2>2, <2>3
<1> QED
  BY <1>1, <1>2 DEF UsedOK

\* The window acks what was written to its xterm; a new panel attaches first.
LEMMA UsedWindowStep ==
  ASSUME NEW w \in Windows, TypeInv, SocketsOK, UsedOK(w), WindowStep(w)
  PROVE  UsedOK(w)'
<1> DEFINE x == xt[w]
           s == sock[w]
<1>1. /\ xt \in [Windows -> Xterm] /\ sock \in [Windows -> SocketOrNone] /\ x \in Xterm
      /\ fresh \subseteq Sockets /\ inbox \in [Sockets -> Seq(ClientMsg)]
      /\ s # NoSocket => s \in Sockets /\ inbox[s] \in Seq(ClientMsg) /\ outbox[s] \in Seq(ServerMsg)
  BY WindowTypes DEF TypeInv, XtermsOK, WindowsOK, InboxOK
<1>2. /\ s # NoSocket /\ x.attached => AcksUsed(x, inbox[s])
      /\ WritesUsed(x)
  BY DEF UsedOK
<1> HIDE DEF Xterm, ServerMsg, ClientMsg
<1>3. ASSUME NEW since, ClientSend(w, <<AttachMsg(since)>>), AttachMsg(since) \in ClientMsg,
             sock' = sock, WritesUsed(xt'[w])
      PROVE  UsedOK(w)'
  <2>1. s # NoSocket => inbox'[s] = inbox[s] \o <<AttachMsg(since)>>
    BY <1>3, ClientSendFacts
  <2>2. s # NoSocket => AcksUsed(xt'[w], inbox'[s])
    BY <1>1, <1>3, <2>1, AcksBeforeAttach
  <2> QED
    BY <1>3, <2>2 DEF UsedOK
<1>4. CASE Mount(w)
  <2>1. /\ ClientSend(w, <<AttachMsg(NoSince)>>) /\ sock' = sock
        /\ xt'[w] = ExpectState([FreshXterm EXCEPT !.attached = TRUE])
    BY <1>1, <1>4 DEF Mount
  <2>2. xt'[w].writes = <<>> /\ xt'[w].unacked = 0
    BY <2>1 DEF ExpectState, FreshXterm
  <2>3. AttachMsg(NoSince) \in ClientMsg
    BY <1>1, SinceType
  <2> QED
    BY <1>3, <2>1, <2>2, <2>3, UsedFresh
<1>5. CASE Unmount(w) \/ Reload(w)
  <2>1. xt'[w] = FreshXterm
    BY <1>1, <1>5 DEF Unmount, Reload
  <2>2. xt'[w].writes = <<>> /\ xt'[w].unacked = 0 /\ ~xt'[w].attached
    BY <2>1 DEF FreshXterm
  <2> QED
    BY <2>2, UsedFresh DEF UsedOK
<1>6. CASE Drop(w)
  <2>1. sock'[w] = NoSocket /\ xt' = xt
    BY <1>6, CutSocketFacts DEF Drop
  <2> QED
    BY <1>2, <2>1 DEF UsedOK
<1>7. CASE Connect(w)
  <2>1. PICK t \in fresh : /\ sock' = [sock EXCEPT ![w] = t]
                           /\ inbox' = IF xt[w].attached /\ ~known[w]
                                       THEN [inbox EXCEPT ![t] = <<AttachMsg(NoSince)>>]
                                       ELSE inbox
    BY <1>7 DEF Connect
  <2>2. sock'[w] = t /\ t \in Sockets /\ inbox[t] = <<>> /\ xt' = xt
    BY <1>1, <1>7, <2>1 DEF SocketsOK, Connect
  <2>3. AttachMsg(NoSince).type # "ack"
    BY DEF AttachMsg
  <2>4. inbox'[t] = <<>> \/ inbox'[t] = <<AttachMsg(NoSince)>>
    BY <1>1, <2>1, <2>2
  <2>5. \A i \in 1 .. Len(inbox'[t]) : inbox'[t][i].type # "ack"
    BY <2>3, <2>4
  <2>6. AcksUsed(xt'[w], inbox'[t])
    BY <2>5 DEF AcksUsed
  <2> QED
    BY <1>2, <2>2, <2>6 DEF UsedOK
<1>8. CASE Reattach(w)
  <2>1. CASE xt[w].attached /\ ~xt[w].exited
    <3>1. /\ ClientSend(w, <<AttachMsg(Since(xt[w]))>>) /\ sock' = sock
          /\ xt'[w] = ExpectState(x)
      BY <1>1, <1>8, <2>1 DEF Reattach
    <3>2. /\ xt'[w].writes = x.writes /\ xt'[w].unacked = x.unacked /\ xt'[w].sync = x.sync
          /\ xt'[w].used = x.used
      BY <1>1, <3>1 DEF ExpectState, Xterm
    <3>3. WritesUsed(xt'[w])
      BY <1>2, <3>2 DEF WritesUsed
    <3>4. AttachMsg(Since(xt[w])) \in ClientMsg
      BY <1>1, SinceType
    <3> QED
      BY <1>3, <3>1, <3>3, <3>4
  <2>2. CASE ~(xt[w].attached /\ ~xt[w].exited)
    BY <1>8, <2>2 DEF Reattach, UsedOK
  <2> QED
    BY <2>1, <2>2
<1>9. CASE Deliver(w)
  <2>1. /\ s # NoSocket /\ outbox[s] # <<>> /\ UNCHANGED <<inbox, sock>>
        /\ IF x.attached THEN xt'[w] \in Handle(x, Head(outbox[s])) ELSE xt'[w] = x
    BY <1>1, <1>9 DEF Deliver
  <2>2. Head(outbox[s]) \in ServerMsg
    BY <1>1, <2>1
  <2>3. CASE x.attached
    <3>1. WritesUsed(xt'[w]) /\ x.used \subseteq xt'[w].used /\ AcksUsed(x, inbox[s])
      BY <1>1, <1>2, <2>1, <2>2, <2>3, UsedHandled
    <3>2. AcksUsed(xt'[w], inbox[s])
      BY <3>1 DEF AcksUsed
    <3> QED
      BY <2>1, <3>1, <3>2 DEF UsedOK
  <2>4. CASE ~x.attached
    BY <1>2, <2>1, <2>4 DEF UsedOK
  <2> QED
    BY <2>3, <2>4
<1>10. CASE Parse(w)
  <2>1. /\ x.writes # <<>> /\ sock' = sock /\ xt'[w] = Parsed(x)
        /\ IF AckDue(x) > 0
           THEN ClientSend(w, <<[type |-> "ack", sync |-> x.sync, bytes |-> AckDue(x)]>>)
           ELSE UNCHANGED inbox
    BY <1>1, <1>10 DEF Parse
  <2>2. /\ WritesUsed(xt'[w]) /\ xt'[w].used = x.used /\ xt'[w].attached = x.attached
        /\ AckDue(x) > 0 => x.sync \in x.used
        /\ AckDue(x) \in Nat /\ x.sync \in Nat
    BY <1>1, <1>2, <2>1, UsedParsed, ParsedType, XtermCounts
  <2>3. ASSUME s # NoSocket, x.attached PROVE AcksUsed(x, inbox'[s])
    <3>1. CASE AckDue(x) > 0
      <4> DEFINE m == [type |-> "ack", sync |-> x.sync, bytes |-> AckDue(x)]
      <4>1. m \in ClientMsg /\ m.type = "ack" /\ m.sync \in x.used
        BY <2>2, <3>1 DEF ClientMsg, Offsets
      <4>2. ClientSend(w, <<m>>)
        BY <2>1, <3>1
      <4> HIDE DEF m
      <4>3. inbox'[s] = inbox[s] \o <<m>>
        BY <2>3, <4>2, ClientSendFacts
      <4> QED
        BY <1>1, <1>2, <2>3, <4>1, <4>3, AcksMore
    <3>2. CASE ~(AckDue(x) > 0)
      BY <1>2, <2>1, <2>3, <3>2
    <3> QED
      BY <3>1, <3>2
  <2> QED
    BY <2>1, <2>2, <2>3 DEF UsedOK, AcksUsed
<1> QED
  BY <1>4, <1>5, <1>6, <1>7, <1>8, <1>9, <1>10 DEF WindowStep

\* A window whose socket, panel, queues and count stay keeps its account.
LEMMA CountsKept ==
  ASSUME NEW w \in Windows, CountsOK(w), sock'[w] = sock[w], xt'[w] = xt[w],
         sock[w] # NoSocket => /\ inbox'[sock[w]] = inbox[sock[w]]
                               /\ outbox'[sock[w]] = outbox[sock[w]],
         Streams(w)' => Streams(w) /\ syncOffset' = syncOffset /\ unacked' = unacked
  PROVE  CountsOK(w)'
<1> SUFFICES ASSUME Streams(w)', NoneAsks(inbox'[sock'[w]])
             PROVE  CountOK(xt'[w], outbox'[sock'[w]], inbox'[sock'[w]], syncOffset', unacked')
  BY DEF CountsOK
<1>1. Streams(w) /\ sock[w] # NoSocket /\ syncOffset' = syncOffset /\ unacked' = unacked
  BY DEF Streams
<1>2. CountOK(xt[w], outbox[sock[w]], inbox[sock[w]], syncOffset, unacked)
  BY <1>1 DEF CountsOK
<1> QED
  BY <1>1, <1>2

\* What the shell, or a snapshot that is ready, sends is counted.
LEMMA CountsShellStep ==
  ASSUME NEW w \in Windows, TypeInv, LatestStops, IdleAtZero, CountsOK(w), ShellStep
  PROVE  CountsOK(w)'
<1> DEFINE s == sock[w]
           x == xt[w]
           q == outbox[s]
           r == inbox[s]
<1>1. sock' = sock /\ xt' = xt /\ inbox' = inbox
  BY ShellStepFacts DEF windowVars
<1> SUFFICES ASSUME Streams(w)', NoneAsks(r)
             PROVE  CountOK(x, outbox'[s], r, syncOffset', unacked')
  BY <1>1 DEF CountsOK
<1>2. streaming' /\ x.attached /\ s # NoSocket /\ sink' = s
  BY <1>1 DEF Streams
<1>3. /\ s \in Sockets /\ s \in live /\ x \in Xterm /\ q \in Seq(ServerMsg) /\ r \in Seq(ClientMsg)
      /\ unacked \in Nat /\ end \in Nat
  BY <1>2, WindowTypes
<1>4. Streams(w) => CountOK(x, q, r, syncOffset, unacked)
  BY DEF CountsOK
<1>5. (sink = s /\ streaming) <=> Streams(w)
  BY <1>2 DEF Streams
<1> HIDE DEF x, s, q, r
<1>6. CASE PtyData
  <2>1. PICK n \in ChunkSizes : OnPtyData(live, n)
    BY <1>6 DEF PtyData
  <2>2. /\ UNCHANGED <<sink, streaming, syncOffset>> /\ n \in Nat /\ epoch \in Nat
    BY <1>6, StreamAssumption DEF PtyData, TypeInv, SessionScalarsOK
  <2>3. CountOK(x, q, r, syncOffset, unacked)
    BY <1>2, <1>4, <1>5, <2>2
  <2>4. CASE sink # NoSocket /\ streaming /\ ~paused
    <3> DEFINE m == OutputMsg(end, n)
    <3>1. Send(live, sink, <<m>>) /\ unacked' = unacked + n
      BY <2>1, <2>4 DEF OnPtyData
    <3>2. m \in Frame /\ m.n = n /\ m \in ServerMsg
      BY <1>3, <2>2 DEF OutputMsg, Frame, ServerMsg, Offsets
    <3> HIDE DEF m
    <3>3. outbox'[s] = outbox[s] \o <<m>>
      BY <1>2, <1>3, <2>2, <3>1, SendFacts
    <3>4. outbox'[s] = Append(q, m)
      <4> HIDE DEF ServerMsg
      <4> QED
        BY <1>3, <3>2, <3>3 DEF q
    <3>5. CountOK(x, Append(q, m), r, syncOffset, unacked + m.n)
      BY <1>3, <2>3, <3>2, CountSent
    <3>6. unacked + m.n = unacked' /\ syncOffset' = syncOffset
      BY <2>2, <3>1, <3>2
    <3> QED
      BY <3>4, <3>5, <3>6, Zenon
  <2>5. CASE ~(sink # NoSocket /\ streaming /\ ~paused)
    <3>1. UNCHANGED <<outbox, unacked>>
      BY <2>1, <2>5 DEF OnPtyData
    <3> QED
      BY <2>2, <2>3, <3>1 DEF q
  <2> QED
    BY <2>4, <2>5
<1>7. CASE Spawn
  BY <1>2, <1>7 DEF Spawn
<1>8. CASE ExitAfterSnapshot
  BY <1>2, <1>8 DEF ExitAfterSnapshot, AttachSnapshot
<1>9. CASE ExitNow \/ FinalSnapshotReady
  BY <1>2, <1>9 DEF ExitNow, FinalSnapshotReady, RemoveSession, FreshSession
<1>10. CASE SnapshotReady
  <2> DEFINE snap == Head(snaps)
  <2>1. /\ snaps # <<>> /\ Send(live, sink, SnapshotMsgs(snap)) /\ sink' = sink
        /\ IF Superseded(snap)
           THEN UNCHANGED <<syncOffset, unacked, paused, streaming>>
           ELSE GoLive(snap.offset, unacked)
    BY <1>10 DEF SnapshotReady, FinishSnapshot
  <2>2. outbox'[s] = outbox[s] \o SnapshotMsgs(snap)
    BY <1>2, <1>3, <2>1, SendFacts
  <2>3. 1 \in 1 .. Len(snaps) /\ snaps[1] = snap /\ snap.offset \in Nat /\ snap.offset =< end
    <3>1. snaps \in Seq([gen : Nat, offset : Nat])
      BY SnapFacts
    <3>2. 1 \in 1 .. Len(snaps) /\ snaps[1] = snap
      BY <2>1, <3>1
    <3> QED
      BY <3>2, SnapFacts
  <2> HIDE DEF snap
  <2>4. CASE Superseded(snap)
    <3>1. SnapshotMsgs(snap) = <<>> /\ UNCHANGED <<syncOffset, unacked, streaming, sink>>
      BY <2>1, <2>4 DEF SnapshotMsgs
    <3>2. outbox'[s] = q
      <4> HIDE DEF ServerMsg
      <4> QED
        BY <1>3, <2>2, <3>1 DEF q
    <3>3. CountOK(x, q, r, syncOffset, unacked)
      BY <1>2, <1>4, <1>5, <3>1
    <3> QED
      BY <3>1, <3>2, <3>3
  <2>5. CASE ~Superseded(snap)
    <3>1. SnapshotMsgs(snap) = SyncMsgs("snapshot", snap.offset)
      BY <2>5 DEF SnapshotMsgs
    <3>2. ~streaming
      BY <2>3, <2>5 DEF LatestStops, Superseded
    <3>3. unacked = 0
      BY <1>2, <2>1, <3>2 DEF IdleAtZero
    <3>4. syncOffset' = snap.offset /\ unacked' = unacked + (end - snap.offset)
      BY <2>1, <2>5 DEF GoLive
    <3>5. unacked' = end - snap.offset
      BY <1>3, <2>3, <3>3, <3>4
    <3>6. CountOK(x, q \o SyncMsgs("snapshot", snap.offset), r, snap.offset, end - snap.offset)
      BY <1>3, <2>3, CountSynced
    <3>7. outbox'[s] = q \o SyncMsgs("snapshot", snap.offset)
      BY <2>2, <3>1 DEF q
    <3> QED
      BY <3>4, <3>5, <3>6, <3>7, Zenon
  <2> QED
    BY <2>4, <2>5
<1> QED
  BY <1>6, <1>7, <1>8, <1>9, <1>10 DEF ShellStep

\* A message handled takes its bytes off the count of its own window only.
LEMMA CountsServerStep ==
  ASSUME NEW w \in Windows, NEW t \in Sockets, TypeInv, OwnerInv, UsedOK(w), CountsOK(w), ServerStep(t)
  PROVE  CountsOK(w)'
<1> DEFINE s == sock[w]
           x == xt[w]
           q == outbox[s]
           r == inbox[s]
<1>1. /\ sock' = sock /\ xt' = xt
      /\ \A u \in Sockets : u # t => inbox'[u] = inbox[u]
      /\ t \in live => inbox[t] # <<>> /\ inbox'[t] = Tail(inbox[t])
      /\ \A u \in Sockets : outbox'[u] # outbox[u] => u = t
      /\ HandleAttach(t) \/ UNCHANGED outbox
  BY ServerStepFacts DEF windowVars
<1> SUFFICES ASSUME Streams(w)', NoneAsks(inbox'[s])
             PROVE  CountOK(x, outbox'[s], inbox'[s], syncOffset', unacked')
  BY <1>1 DEF CountsOK
<1>2. streaming' /\ x.attached /\ s # NoSocket /\ sink' = s
  BY <1>1 DEF Streams
<1>3. /\ s \in Sockets /\ s \in live /\ x \in Xterm /\ q \in Seq(ServerMsg) /\ r \in Seq(ClientMsg)
      /\ unacked \in Nat /\ end \in Nat
  BY <1>2, WindowTypes
<1>4. Streams(w) /\ NoneAsks(r) => CountOK(x, q, r, syncOffset, unacked)
  BY DEF CountsOK
<1>5. (sink = s /\ streaming) <=> Streams(w)
  BY <1>2 DEF Streams
<1>6. AcksUsed(x, r)
  BY <1>2 DEF UsedOK
<1>7. sink = s => owner = s /\ shell \in {"running", "exiting"}
  BY <1>2 DEF OwnerInv, SinkIsOwner, BoundToShell
<1> HIDE DEF x, s, q, r
<1>8. CASE t # s
  <2>1. inbox'[s] = r /\ outbox'[s] = q
    BY <1>1, <1>3, <1>8 DEF r, q
  <2>2. ASSUME UNCHANGED <<sink, streaming, syncOffset, unacked>>
        PROVE  CountOK(x, outbox'[s], inbox'[s], syncOffset', unacked')
    <3>1. NoneAsks(r)
      BY <2>1
    <3>2. CountOK(x, q, r, syncOffset, unacked)
      BY <1>2, <1>4, <1>5, <2>2, <3>1
    <3> QED
      BY <2>1, <2>2, <3>2
  <2>3. CASE HandleAttach(t)
    <3>1. sink' # t /\ streaming'
      BY <1>2, <1>8
    <3>2. ~(shell \in {"running", "exiting"} /\ Attach(live, t, Head(inbox[t]).since))
      BY <3>1 DEF Attach, AttachResume, AttachSnapshot
    <3>3. UNCHANGED <<sink, streaming, syncOffset, unacked>>
      BY <2>3, <3>2 DEF HandleAttach
    <3> QED
      BY <2>2, <3>3
  <2>4. CASE HandleDetach(t) \/ HandleClose(t)
    <3>1. UNCHANGED <<sink, streaming, syncOffset, unacked>>
      BY <1>2, <2>4 DEF HandleDetach, HandleClose, DetachClient, Release, NoRelease, Detach
    <3> QED
      BY <2>2, <3>1
  <2>5. CASE HandleAck(t)
    <3>1. sink' = sink
      BY <2>5 DEF HandleAck, Ack, AckIgnored, AckCounted, AckResync, AttachSnapshot, sessionVars
    <3>2. owner # t
      BY <1>2, <1>7, <1>8, <3>1
    <3>3. UNCHANGED <<sink, streaming, syncOffset, unacked>>
      BY <2>5, <3>2 DEF HandleAck, FromOwner, sessionVars
    <3> QED
      BY <2>2, <3>3
  <2>6. CASE HandleDestroy(t)
    <3>1. UNCHANGED <<sink, streaming, syncOffset, unacked>>
      BY <1>2, <2>6 DEF HandleDestroy, FreshSession
    <3> QED
      BY <2>2, <3>1
  <2> QED
    BY <2>3, <2>4, <2>5, <2>6 DEF ServerStep
<1>9. CASE t = s
  <2>1. r # <<>> /\ inbox'[s] = Tail(r) /\ r[1] = Head(r)
    BY <1>1, <1>3, <1>9, ClientTail DEF r
  <2>2. Tail(r) \in Seq(ClientMsg)
    BY <1>3, <2>1, ClientTail
  <2>3. CASE HandleAttach(s)
    <3>1. shell \in {"running", "exiting"}
      <4>1. ~(shell \in {"none", "starting"} /\ sink' = sink)
        BY <1>2, <1>7
      <4> QED
        BY <2>3, <4>1 DEF HandleAttach
    <3> DEFINE since == Head(inbox[s]).since
    <3>2. Attach(live, s, since)
      BY <2>3, <3>1 DEF HandleAttach
    <3>3. AttachResume(live, s, since)
      BY <1>2, <3>2 DEF Attach, AttachSnapshot
    <3> DEFINE o == since.offset
    <3>4. since \in [epoch : Nat, offset : Offsets \cup {Unknown}]
      BY <1>3, <2>3, ArrivedSince DEF HandleAttach, TypeInv
    <3>5. o \in Nat /\ o =< end
      <4>1. start =< o /\ o =< end
        BY <3>3 DEF AttachResume, CanResume, Readable
      <4>2. start \in Nat
        BY DEF TypeInv, SnapInv, SnapTypeOK, RingTypeOK
      <4> QED
        BY <3>4, <4>1, <4>2 DEF Offsets, Unknown
    <3>6. syncOffset' = o /\ unacked' = 0 + (end - o) /\ Send(live, s, SyncMsgs("resume", o))
      BY <3>3 DEF AttachResume, GoLive
    <3> HIDE DEF o, since
    <3>7. outbox'[s] = q \o SyncMsgs("resume", o)
      BY <1>3, <3>6, SendFacts DEF q
    <3>8. CountOK(x, q \o SyncMsgs("resume", o), Tail(r), o, end - o)
      BY <1>3, <2>2, <3>5, CountSynced
    <3>9. unacked' = end - o
      BY <1>3, <3>5, <3>6
    <3> QED
      BY <2>1, <3>6, <3>7, <3>8, <3>9, Zenon
  <2>4. CASE HandleDetach(s)
    <3>1. sink = s
      BY <1>2, <2>4 DEF HandleDetach, Release, NoRelease, Detach
    <3> QED
      BY <1>2, <1>7, <2>4, <3>1 DEF HandleDetach, FromOwner, Release, Detach
  <2>5. CASE HandleDestroy(s)
    <3>1. sink = s
      BY <1>2, <2>5 DEF HandleDestroy, FreshSession
    <3> QED
      BY <1>2, <1>7, <2>5, <3>1 DEF HandleDestroy, FreshSession
  <2>6. CASE HandleAck(s)
    <3>1. sink = s /\ UNCHANGED outbox
      BY <1>2, <2>6 DEF HandleAck, Ack, AckIgnored, AckCounted, AckResync, AttachSnapshot, sessionVars
    <3> DEFINE sync  == Head(inbox[s]).sync
               bytes == Head(inbox[s]).bytes
    <3>2. Ack(sync, bytes) /\ Arrived(s, "ack")
      BY <1>7, <2>6, <3>1 DEF HandleAck, FromOwner
    <3>3. ~AckResync(sync, bytes)
      BY <1>2 DEF AckResync, AttachSnapshot
    <3>4. r[1].type = "ack" /\ r[1].sync = sync /\ r[1].bytes = bytes
      BY <2>1, <3>2 DEF Arrived, r
    <3>5. NoneAsks(r)
      <4>1. ~Asks(r[1])
        BY <3>4 DEF Asks
      <4>2. /\ Len(r) = Len(Tail(r)) + 1 /\ Len(r) \in Nat
            /\ \A i \in 1 .. Len(Tail(r)) : Tail(r)[i] = r[i + 1]
        BY <1>3, <2>1, ClientTail
      <4>3. ASSUME NEW i \in 1 .. Len(r), i # 1 PROVE ~Asks(r[i])
        <5>1. i - 1 \in 1 .. Len(Tail(r)) /\ (i - 1) + 1 = i
          BY <4>2, <4>3
        <5>2. Tail(r)[i - 1] = r[i]
          BY <4>2, <5>1
        <5> QED
          BY <2>1, <5>1, <5>2 DEF NoneAsks
      <4> QED
        BY <4>1, <4>3 DEF NoneAsks
    <3> HIDE DEF sync, bytes
    <3>6. streaming' = streaming
      BY <3>2, <3>3 DEF Ack, AckIgnored, AckCounted, sessionVars
    <3>7. CountOK(x, q, r, syncOffset, unacked)
      BY <1>2, <1>4, <1>5, <3>1, <3>5, <3>6
    <3>8. NoneAsks(Tail(r))
      BY <2>1
    <3>9. outbox'[s] = q
      BY <3>1 DEF q
    <3>10. CASE AckIgnored(sync)
      <4>1. sync # syncOffset /\ UNCHANGED <<syncOffset, unacked>>
        BY <3>10 DEF AckIgnored, sessionVars
      <4>2. CountOK(x, q, Tail(r), syncOffset, unacked)
        BY <1>3, <1>6, <2>1, <3>4, <3>7, <3>8, <4>1, CountHandled
      <4> QED
        BY <2>1, <3>9, <4>1, <4>2
    <3>11. CASE AckCounted(sync, bytes)
      <4>1. sync = syncOffset /\ syncOffset' = syncOffset /\ unacked' = AfterAck(bytes)
        BY <3>11 DEF AckCounted
      <4>2. AfterAck(bytes) = IF unacked > r[1].bytes THEN unacked - r[1].bytes ELSE 0
        BY <3>4 DEF AfterAck
      <4>3. CountOK(x, q, Tail(r), syncOffset,
                    IF unacked > r[1].bytes THEN unacked - r[1].bytes ELSE 0)
        BY <1>3, <1>6, <2>1, <3>4, <3>7, <3>8, <4>1, CountHandled
      <4> QED
        BY <2>1, <3>9, <4>1, <4>2, <4>3, Zenon
    <3> QED
      BY <3>2, <3>3, <3>10, <3>11 DEF Ack
  <2> QED
    BY <1>3, <1>9, <2>3, <2>4, <2>5, <2>6 DEF ServerStep, HandleClose
<1> QED
  BY <1>8, <1>9

\* What a window is given, writes, parses and acks stays accounted for; its attach starts afresh.
LEMMA CountsWindowStep ==
  ASSUME NEW w \in Windows, TypeInv, OwnerInv, SocketsOK, UsedOK(w), CountsOK(w),
         ~Overlap => ChainInv, WindowStep(w)
  PROVE  CountsOK(w)'
<1> DEFINE x == xt[w]
           s == sock[w]
           q == outbox[s]
           r == inbox[s]
<1>1. /\ xt \in [Windows -> Xterm] /\ sock \in [Windows -> SocketOrNone] /\ fresh \subseteq Sockets
      /\ x \in Xterm /\ unacked \in Nat
      /\ s # NoSocket => s \in Sockets /\ q \in Seq(ServerMsg) /\ r \in Seq(ClientMsg)
  BY WindowTypes DEF TypeInv, XtermsOK, WindowsOK
<1>2. UNCHANGED <<sink, streaming, syncOffset, unacked>>
  BY WindowsLeaveSession DEF sessionVars
<1> HIDE DEF Xterm, ServerMsg, ClientMsg
<1>3. ASSUME NEW since, ClientSend(w, <<AttachMsg(since)>>), AttachMsg(since) \in ClientMsg,
             sock' = sock
      PROVE  CountsOK(w)'
  <2>1. s # NoSocket => inbox'[s] = r \o <<AttachMsg(since)>>
    BY <1>3, ClientSendFacts
  <2>2. s # NoSocket => ~NoneAsks(inbox'[s])
    BY <1>1, <1>3, <2>1, AcksBeforeAttach
  <2> QED
    BY <1>3, <2>2 DEF CountsOK, Streams
<1>4. CASE Mount(w)
  <2>1. ClientSend(w, <<AttachMsg(NoSince)>>) /\ sock' = sock
    BY <1>4 DEF Mount
  <2>2. AttachMsg(NoSince) \in ClientMsg
    BY <1>1, SinceType
  <2> QED
    BY <1>3, <2>1, <2>2
<1>5. CASE Unmount(w) \/ Reload(w)
  <2>1. xt'[w] = FreshXterm
    BY <1>1, <1>5 DEF Unmount, Reload
  <2>2. ~xt'[w].attached
    BY <2>1 DEF FreshXterm
  <2> QED
    BY <2>2 DEF CountsOK, Streams
<1>6. CASE Drop(w)
  <2>1. sock'[w] = NoSocket
    BY <1>6, CutSocketFacts DEF Drop
  <2> QED
    BY <2>1 DEF CountsOK, Streams
<1>7. CASE Connect(w)
  <2>1. PICK t \in fresh : sock' = [sock EXCEPT ![w] = t]
    BY <1>7 DEF Connect
  <2>2. sock'[w] = t /\ t \notin clients
    BY <1>1, <2>1 DEF SocketsOK
  <2>3. sink = NoSocket \/ sink \in clients
    BY DEF OwnerInv, SinkIsOwner
  <2> QED
    BY <1>2, <2>2, <2>3 DEF CountsOK, Streams
<1>8. CASE Reattach(w)
  <2>1. CASE xt[w].attached /\ ~xt[w].exited
    <3>1. ClientSend(w, <<AttachMsg(Since(xt[w]))>>) /\ sock' = sock
      BY <1>8, <2>1 DEF Reattach
    <3>2. AttachMsg(Since(xt[w])) \in ClientMsg
      BY <1>1, SinceType
    <3> QED
      BY <1>3, <3>1, <3>2
  <2>2. CASE ~(xt[w].attached /\ ~xt[w].exited)
    <3>1. UNCHANGED <<xt, inbox, outbox, sock>>
      BY <1>8, <2>2 DEF Reattach
    <3>2. Streams(w)' => Streams(w)
      BY <1>2, <3>1 DEF Streams
    <3> QED
      BY <1>2, <3>1, <3>2, CountsKept
  <2> QED
    BY <2>1, <2>2
<1>9. CASE Deliver(w) \/ Parse(w)
  <2> SUFFICES ASSUME Streams(w)', NoneAsks(inbox'[sock'[w]])
               PROVE  CountOK(xt'[w], outbox'[sock'[w]], inbox'[sock'[w]], syncOffset', unacked')
    BY DEF CountsOK
  <2>1. sock' = sock /\ s # NoSocket /\ xt'[w].attached /\ sink = s /\ streaming
    BY <1>2, <1>9 DEF Deliver, Parse, Streams
  <2>2. WritesUsed(x) /\ (x.attached => AcksUsed(x, r))
    BY <2>1 DEF UsedOK
  <2>3. x.attached /\ NoneAsks(r) => CountOK(x, q, r, syncOffset, unacked)
    BY <2>1 DEF CountsOK, Streams
  <2>4. CASE Deliver(w)
    <3> DEFINE y == xt'[w]
    <3>1. /\ q # <<>> /\ inbox' = inbox /\ outbox'[s] = Tail(q)
          /\ IF x.attached THEN y \in Handle(x, Head(q)) ELSE y = x
      <4>1. outbox \in [Sockets -> Seq(ServerMsg)]
        BY DEF TypeInv, OutboxOK
      <4> QED
        BY <1>1, <2>1, <2>4, <4>1 DEF Deliver
    <3>2. x.attached /\ y \in Handle(x, q[1]) /\ q[1] \in ServerMsg
      BY <1>1, <2>1, <3>1, TailFields
    <3>3. ASSUME ~Overlap, IsState(q[1]), ~y.mixed
          PROVE  y.writes = x.writes
      <4>1. TypeInv /\ EpochsOK /\ ScreenOK(History, x) /\ StreamOK(History, x, q)
        BY <2>1, <3>3 DEF ChainInv, ScreenInv, ChainsOK, WindowOK, ChainOK
      <4>2. History \in Histories
        BY <4>1, HistoryType
      <4>3. q[1] \in StateType
        BY <3>2, <3>3, MsgFields DEF IsState
      <4>4. y \in ApplyState(x, q[1])
        BY <3>2, <3>3 DEF Handle, IsState
      <4>5. 1 \in 1 .. Len(q)
        BY <1>1, <2>1, <3>1, TailFields
      <4>6. \A i \in 1 .. Len(x.queued) : Precedes(x.queued[i], q[1])
        BY <4>1, <4>5 DEF StreamOK
      <4> QED
        BY <1>1, <3>3, <4>1, <4>2, <4>3, <4>4, <4>6, ApplyUnmixed
    <3> HIDE DEF x, q, r, s, y
    <3>4. NoneAsks(r)
      BY <2>1, <3>1 DEF r, s
    <3>5. CountOK(x, q, r, syncOffset, unacked)
      BY <2>3, <3>2, <3>4
    <3>6. CountOK(y, Tail(q), r, syncOffset, unacked)
      BY <1>1, <2>1, <2>2, <3>1, <3>2, <3>3, <3>4, <3>5, CountDelivered
    <3>7. xt'[w] = y /\ outbox'[sock'[w]] = Tail(q) /\ inbox'[sock'[w]] = r
      BY <2>1, <3>1 DEF y, q, r, s
    <3> QED
      BY <1>2, <3>6, <3>7
  <2>5. CASE Parse(w)
    <3> DEFINE m == [type |-> "ack", sync |-> x.sync, bytes |-> AckDue(x)]
    <3>1. /\ x.writes # <<>> /\ outbox' = outbox /\ xt'[w] = Parsed(x)
          /\ IF AckDue(x) > 0 THEN ClientSend(w, <<m>>) ELSE UNCHANGED inbox
      BY <1>1, <2>5 DEF Parse
    <3>2. /\ x.attached /\ AckDue(x) \in Nat /\ x.sync \in Nat
          /\ AckDue(x) > 0 => x.sync \in x.used
      BY <1>1, <2>1, <2>2, <3>1, UsedParsed, ParsedType, XtermCounts
    <3>3. inbox'[s] \in Seq(ClientMsg)
          /\ inbox'[s] = (IF AckDue(x) > 0 THEN Append(r, m) ELSE r)
          /\ (NoneAsks(inbox'[s]) => NoneAsks(r))
      <4>1. CASE AckDue(x) > 0
        <5>1. m \in ClientMsg /\ m.type = "ack" /\ m.sync \in x.used
          BY <3>2, <4>1 DEF ClientMsg, Offsets
        <5>2. ClientSend(w, <<m>>)
          BY <3>1, <4>1
        <5> HIDE DEF m
        <5>3. inbox'[s] = r \o <<m>>
          BY <2>1, <5>2, ClientSendFacts
        <5>4. r \o <<m>> = Append(r, m) /\ (NoneAsks(r \o <<m>>) => NoneAsks(r))
          BY <1>1, <2>1, <2>2, <3>2, <5>1, AcksMore
        <5> QED
          BY <1>1, <2>1, <4>1, <5>1, <5>3, <5>4
      <4>2. CASE ~(AckDue(x) > 0)
        BY <1>1, <2>1, <3>1, <4>2
      <4> QED
        BY <4>1, <4>2
    <3> HIDE DEF x, q, r, s
    <3>4. CountOK(x, q, r, syncOffset, unacked)
      BY <2>1, <2>3, <3>2, <3>3 DEF s
    <3>5. CountOK(Parsed(x), q, inbox'[s], syncOffset, unacked)
      BY <1>1, <2>1, <3>1, <3>3, <3>4, CountParsed
    <3>6. xt'[w] = Parsed(x) /\ outbox'[sock'[w]] = q /\ inbox'[sock'[w]] = inbox'[s]
      BY <2>1, <3>1 DEF q, s
    <3> QED
      BY <1>2, <3>5, <3>6
  <2> QED
    BY <1>9, <2>4, <2>5
<1> QED
  BY <1>4, <1>5, <1>6, <1>7, <1>8, <1>9 DEF WindowStep

\* No step disturbs the account of a window.
LEMMA WindowFlowStep ==
  ASSUME NEW w \in Windows, AccountInv, [Next]_vars
  PROVE  UsedOK(w)' /\ CountsOK(w)'
<1>1. /\ TypeInv /\ OwnerInv /\ SocketsOK /\ LatestStops /\ IdleAtZero /\ UsedOK(w) /\ CountsOK(w)
      /\ ~Overlap => ChainInv
  BY DEF AccountInv, FlowInv
<1>2. CASE ShellStep
  <2>1. UNCHANGED <<sock, xt, inbox>>
    BY <1>1, <1>2, ShellStepFacts DEF windowVars
  <2> QED
    BY <1>1, <1>2, <2>1, CountsShellStep DEF UsedOK
<1>3. CASE \E s \in Sockets : ServerStep(s)
  BY <1>1, <1>3, UsedServerStep, CountsServerStep
<1>4. CASE ServerRestart
  <2>1. sock'[w] = NoSocket /\ xt' = xt
    BY <1>4 DEF ServerRestart
  <2> QED
    BY <1>1, <2>1 DEF UsedOK, CountsOK, Streams
<1>5. CASE WindowStep(w)
  BY <1>1, <1>5, UsedWindowStep, CountsWindowStep
<1>6. ASSUME NEW v \in Windows, v # w, WindowStep(v)
      PROVE  UsedOK(w)' /\ CountsOK(w)'
  <2>1. /\ sock'[w] = sock[w] /\ xt'[w] = xt[w]
        /\ sock[w] # NoSocket => /\ inbox'[sock[w]] = inbox[sock[w]]
                                 /\ outbox'[sock[w]] = outbox[sock[w]]
    BY <1>1, <1>6, OtherWindows
  <2>2. UNCHANGED <<sink, streaming, syncOffset, unacked>>
    BY <1>6, WindowsLeaveSession DEF sessionVars
  <2>3. Streams(w)' => Streams(w)
    BY <2>1, <2>2 DEF Streams
  <2>4. CountsOK(w)'
    BY <1>1, <2>1, <2>2, <2>3, CountsKept
  <2> QED
    BY <1>1, <2>1, <2>4 DEF UsedOK
<1>7. CASE UNCHANGED vars
  <2>1. UNCHANGED <<sock, xt, inbox, outbox, sink, streaming, syncOffset, unacked>>
    BY <1>7 DEF vars, serverVars, sessionVars, windowVars
  <2> QED
    BY <1>1, <2>1 DEF UsedOK, CountsOK, Streams
<1> QED
  BY <1>2, <1>3, <1>4, <1>5, <1>6, <1>7 DEF Next

\* Nothing is counted, and nothing on its way, at first.
LEMMA AccountInvInit == Init => AccountInv
<1> SUFFICES ASSUME Init
             PROVE  AccountInv
  OBVIOUS
<1>1. ChainInv
  BY ChainInvInit
<1>2. TypeInv /\ OwnerInv /\ SocketsOK /\ LatestStops
  BY <1>1 DEF ChainInv, ScreenInv
<1>3. sink = NoSocket
  BY DEF Init
<1>4. ASSUME NEW w \in Windows
      PROVE  UsedOK(w) /\ CountsOK(w)
  <2>1. sock[w] = NoSocket /\ xt[w] = FreshXterm
    BY DEF Init
  <2>2. xt[w].writes = <<>> /\ xt[w].unacked = 0
    BY <2>1 DEF FreshXterm
  <2> QED
    BY <2>1, <2>2, UsedFresh DEF UsedOK, CountsOK, Streams
<1> QED
  BY <1>1, <1>2, <1>3, <1>4 DEF AccountInv, FlowInv, IdleAtZero

\* AccountInv is inductive.
LEMMA AccountInvStep ==
  ASSUME AccountInv, [Next]_vars
  PROVE  AccountInv'
<1>1. /\ TypeInv /\ OwnerInv /\ SocketsOK /\ LatestStops /\ IdleAtZero
      /\ ~Overlap => ChainInv
  BY DEF AccountInv, FlowInv
<1>2. TypeInv' /\ OwnerInv' /\ SocketsOK' /\ LatestStops' /\ IdleAtZero'
  BY <1>1, TypeInvStep, OwnerInvStep, SocketsStep, LatestStopsStep, IdleAtZeroStep
<1>3. ~Overlap => ChainInv'
  BY <1>1, ChainInvStep
<1>4. \A w \in Windows : UsedOK(w)' /\ CountsOK(w)'
  BY WindowFlowStep
<1> QED
  BY <1>2, <1>3, <1>4 DEF AccountInv, FlowInv

\* What the invariant says of a window that is streamed to is what the properties say.
LEMMA CountsMean ==
  ASSUME NEW w \in Windows, TypeInv, CountsOK(w), Streams(w), ~AttachOnItsWay(w)
  PROVE  /\ unacked =< BytesOutstanding(w)
         /\ ~Overlap /\ Distinct(w) => unacked = BytesOutstanding(w)
<1> DEFINE s == sock[w]
           x == xt[w]
           q == outbox[s]
           r == inbox[s]
           o == syncOffset
<1>1. /\ x \in Xterm /\ unacked \in Nat /\ q \in Seq(ServerMsg) /\ r \in Seq(ClientMsg)
  BY WindowTypes DEF Streams
<1>2. NoneAsks(r)
  BY DEF AttachOnItsWay, NoneAsks, Asks
<1>3. CountOK(x, q, r, o, unacked)
  BY <1>2 DEF CountsOK
<1>4. StateOnItsWay(s) <=> ~NoState(q)
  BY DEF StateOnItsWay, NoState
<1>5. /\ Total(Outputs(q)) \in Nat /\ Total(Unparsed(x.writes, o)) \in Nat
      /\ Total(Acked(r, o)) \in Nat /\ x.unacked \in Nat
  BY <1>1, AwayType
<1>6. Away(x, q, r, o) = BytesOutstanding(w)
  <2>1. CASE NoState(q)
    <3>1. x.queued = <<>> /\ x.sync = o
      BY <1>3, <2>1 DEF CountOK, InStep
    <3>2. Total(FrameBytes(x.queued)) = 0
      <4>1. FrameBytes(x.queued) \in Seq(Nat) /\ \A i \in 1 .. Len(FrameBytes(x.queued)) : FrameBytes(x.queued)[i] = 0
        BY <3>1 DEF FrameBytes
      <4> QED
        BY <4>1, TotalOfZeros
    <3>3. Received(w) = 0 + Total(Unparsed(x.writes, o)) + x.unacked + Total(Acked(r, o))
      BY <3>1, <3>2 DEF Received
    <3>4. BytesOutstanding(w) = Total(Outputs(q)) + Received(w)
      BY <1>4, <2>1 DEF BytesOutstanding
    <3>5. Away(x, q, r, o) = Total(Outputs(q)) + (Total(Unparsed(x.writes, o)) + x.unacked + Total(Acked(r, o)))
      BY <2>1 DEF Away
    <3> HIDE DEF x, q, r, o, s
    <3> QED
      BY <1>5, <3>3, <3>4, <3>5
  <2>2. CASE ~NoState(q)
    BY <1>4, <2>2 DEF Away, BytesOutstanding
  <2> QED
    BY <2>1, <2>2
<1>7. ~Overlap /\ Distinct(w) => Tellable(x, q, o)
  BY <1>4 DEF Distinct, Tellable
<1> QED
  BY <1>3, <1>6, <1>7 DEF CountOK

\* AccountInv holds of every state.
LEMMA AccountInvariant == Spec => []AccountInv
<1>1. AccountInv /\ [Next]_vars => AccountInv'
  BY AccountInvStep
<1> QED
  BY <1>1, AccountInvInit, PTL DEF Spec

\* No byte is counted that is not on its way to an ack, whatever is assumed of attaches.
THEOREM CountNeverTooHigh == Spec => []NeverOvercounted
<1>1. AccountInv => NeverOvercounted
  BY CountsMean DEF AccountInv, FlowInv, NeverOvercounted
<1> QED
  BY <1>1, AccountInvariant, PTL

\* Every byte on its way to an ack is counted, of a sync that can be told from the earlier ones.
THEOREM AccountsCorrect ==
  ASSUME ~Overlap
  PROVE  Spec => []UnackedAccounted
<1>1. AccountInv => UnackedAccounted
  BY CountsMean DEF AccountInv, FlowInv, UnackedAccounted
<1> QED
  BY <1>1, AccountInvariant, PTL
=============================================================================
