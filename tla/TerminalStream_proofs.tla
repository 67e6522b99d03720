------------------------ MODULE TerminalStream_proofs ------------------------
(***************************************************************************)
(* Theorems about a terminal and its clients, for any number of sockets    *)
(* and windows, any ring capacity and any flow-control marks: the resume   *)
(* ring, ownership, the snapshots in flight, exits, types, and who is sent *)
(* anything.  What the screens show is in TerminalScreen_proofs.           *)
(***************************************************************************)
EXTENDS TerminalStream, TLAPS, FiniteSetTheorems, SequenceTheorems

(***************************************************************************)
(* The resume ring.  That a pinned byte is never evicted needs the shape   *)
(* of the ring: its chunks go up, from its start and to its end.           *)
(***************************************************************************)
\* A ring of the right shape covers its own end: a snapshot asked for now can be pinned.
LEMMA EndIsReadable ==
  ASSUME RingTypeOK, RingShape
  PROVE  Readable(end)
<1>1. CASE chunks = <<>>
  BY <1>1 DEF RingTypeOK, RingShape, Readable
<1>2. CASE chunks # <<>>
  <2>1. 1 \in 1 .. Len(chunks) /\ start = chunks[1]
    BY <1>2 DEF RingTypeOK, RingShape
  <2>2. start < end
    BY <2>1 DEF RingShape
  <2> QED
    BY <2>2 DEF RingTypeOK, Readable
<1> QED
  BY <1>1, <1>2

\* The chunks with the new one appended are still contiguous, and end before the new end.
LEMMA AppendedShape ==
  ASSUME NEW n \in Nat \ {0}, RingTypeOK, RingShape
  PROVE  LET all == Append(chunks, end) IN
         /\ all \in Seq(Nat)
         /\ Len(all) = Len(chunks) + 1
         /\ \A i, j \in 1 .. Len(all) : i < j => all[i] < all[j]
         /\ \A i \in 1 .. Len(all) : all[i] =< end /\ all[i] < end + n
<1> DEFINE all == Append(chunks, end)
<1>1. /\ all \in Seq(Nat)
      /\ Len(all) = Len(chunks) + 1
      /\ all[Len(chunks) + 1] = end
      /\ \A i \in 1 .. Len(chunks) : all[i] = chunks[i]
  BY DEF RingTypeOK
<1>2. \A i \in 1 .. Len(all) : all[i] =< end /\ all[i] < end + n
  <2> SUFFICES ASSUME NEW i \in 1 .. Len(all)
               PROVE  all[i] =< end /\ all[i] < end + n
    OBVIOUS
  <2>1. i \in 1 .. Len(chunks) \/ i = Len(chunks) + 1
    BY <1>1 DEF RingTypeOK
  <2>2. all[i] \in Nat
    BY <1>1
  <2>3. all[i] =< end
    BY <1>1, <2>1, <2>2 DEF RingTypeOK, RingShape
  <2> QED
    BY <2>2, <2>3 DEF RingTypeOK
<1>3. \A i, j \in 1 .. Len(all) : i < j => all[i] < all[j]
  <2> SUFFICES ASSUME NEW i \in 1 .. Len(all), NEW j \in 1 .. Len(all), i < j
               PROVE  all[i] < all[j]
    OBVIOUS
  <2>1. i \in 1 .. Len(chunks) /\ all[i] = chunks[i]
    BY <1>1 DEF RingTypeOK
  <2>2. CASE j \in 1 .. Len(chunks)
    BY <1>1, <2>1, <2>2 DEF RingShape
  <2>3. CASE j = Len(chunks) + 1
    BY <1>1, <2>1, <2>3 DEF RingShape
  <2> QED
    BY <1>1, <2>2, <2>3 DEF RingTypeOK
<1> QED
  BY <1>1, <1>2, <1>3

LEMMA PushKeepsRing ==
  ASSUME NEW n \in Nat \ {0}, RingTypeOK, RingShape, PinnedRetained, Push(n)
  PROVE  RingTypeOK' /\ RingShape' /\ PinnedRetained'
<1> DEFINE all == Append(chunks, end)
<1>1. PICK k \in 1 .. Len(all) :
        /\ \A i \in 1 .. k - 1 : Evictable(all, end + n, i)
        /\ chunks' = SubSeq(all, k, Len(all))
        /\ start' = all[k]
        /\ end' = end + n
        /\ pins' = pins
  BY DEF Push
<1>2. /\ all \in Seq(Nat)
      /\ Len(all) = Len(chunks) + 1
      /\ \A i, j \in 1 .. Len(all) : i < j => all[i] < all[j]
      /\ \A i \in 1 .. Len(all) : all[i] =< end /\ all[i] < end + n
  BY AppendedShape
<1> HIDE DEF all
<1>3. /\ chunks' \in Seq(Nat)
      /\ Len(chunks') = Len(all) - k + 1
      /\ \A i \in 1 .. Len(chunks') : chunks'[i] = all[i + k - 1] /\ i + k - 1 \in 1 .. Len(all)
  BY <1>1, <1>2
<1>4. RingTypeOK'
  BY <1>1, <1>2, <1>3 DEF RingTypeOK
<1>5. RingShape'
  <2>1. 1 \in 1 .. Len(chunks') /\ chunks' # <<>>
    <3>1. Len(chunks') >= 1 /\ Len(chunks') \in Nat
      BY <1>1, <1>2, <1>3
    <3> QED
      BY <1>3, <3>1
  <2>2. start' = chunks'[1]
    BY <1>1, <1>2, <1>3, <2>1
  <2>3. \A i, j \in 1 .. Len(chunks') : i < j => chunks'[i] < chunks'[j]
    <3> SUFFICES ASSUME NEW i \in 1 .. Len(chunks'), NEW j \in 1 .. Len(chunks'), i < j
                 PROVE  chunks'[i] < chunks'[j]
      OBVIOUS
    <3>1. i + k - 1 < j + k - 1
      BY <1>1
    <3> QED
      BY <1>2, <1>3, <3>1
  <2>4. \A i \in 1 .. Len(chunks') : chunks'[i] < end'
    BY <1>1, <1>2, <1>3
  <2> QED
    BY <2>1, <2>2, <2>3, <2>4 DEF RingShape
<1>6. PinnedRetained'
  <2> SUFFICES ASSUME NEW p \in pins
               PROVE  all[k] =< p.offset /\ p.offset =< end + n
    BY <1>1 DEF PinnedRetained, Readable
  <2>1. p.offset \in Nat /\ start =< p.offset /\ p.offset =< end
    BY DEF RingTypeOK, PinnedRetained, Readable
  <2>2. CASE k = 1
    <3>1. all[1] = start
      <4>1. CASE chunks = <<>>
        BY <4>1 DEF all, RingShape, RingTypeOK
      <4>2. CASE chunks # <<>>
        BY <4>2 DEF all, RingShape, RingTypeOK
      <4> QED
        BY <4>1, <4>2
    <3> QED
      BY <2>1, <2>2, <3>1 DEF RingTypeOK
  <2>3. CASE k > 1
    <3>1. Evictable(all, end + n, k - 1)
      BY <1>1, <2>3
    <3>2. all[k] =< p.offset
      BY <1>1, <3>1 DEF Evictable
    <3> QED
      BY <2>1, <3>2 DEF RingTypeOK
  <2> QED
    BY <1>1, <2>2, <2>3
<1> QED
  BY <1>4, <1>5, <1>6

LEMMA PinKeepsRing ==
  ASSUME NEW id, RingTypeOK, RingShape, PinnedRetained, Pin(id, end)
  PROVE  RingTypeOK' /\ RingShape' /\ PinnedRetained'
<1>1. Readable(end)
  BY EndIsReadable
<1> QED
  BY <1>1 DEF RingTypeOK, RingShape, PinnedRetained, Readable, Pin

LEMMA UnpinKeepsRing ==
  ASSUME NEW id, RingTypeOK, RingShape, PinnedRetained, Unpin(id)
  PROVE  RingTypeOK' /\ RingShape' /\ PinnedRetained'
BY DEF RingTypeOK, RingShape, PinnedRetained, Readable, Unpin

-----------------------------------------------------------------------------
(***************************************************************************)
(* Ownership.  SinkIsOwner is not inductive: a shell that exits forgets    *)
(* its owner and an attach to a starting shell moves the ownership, so it  *)
(* takes the first two parts of BindingOK (a session that does not exist   *)
(* has no client, and only a starting one keeps one waiting).              *)
(***************************************************************************)
BoundToShell ==
  /\ sink # NoSocket => shell \in {"running", "exiting"}
  /\ pendingSink # NoSocket => shell = "starting"

OwnerInv == SinkIsOwner /\ BoundToShell

\* Steps that leave all of those alone, or detach nobody and only let the server know one more socket.
LEMMA OwnerInvKept ==
  ASSUME OwnerInv,
         UNCHANGED <<shell, sink, pendingSink, owner, held>>,
         clients \subseteq clients'
  PROVE  OwnerInv'
BY DEF OwnerInv, SinkIsOwner, BoundToShell

\* The steps of the shell and of the emulator keep the client of a session its owner.
LEMMA OwnerShellStep ==
  ASSUME OwnerInv, ShellStep
  PROVE  OwnerInv'
<1>1. CASE PtyData
  BY <1>1, OwnerInvKept DEF PtyData
<1>2. CASE Spawn
  BY <1>2 DEF Spawn, OwnerInv, SinkIsOwner, BoundToShell
<1>3. CASE ExitAfterSnapshot
  BY <1>3 DEF ExitAfterSnapshot, AttachSnapshot, OwnerInv, SinkIsOwner, BoundToShell
<1>4. CASE ExitNow
  BY <1>4 DEF ExitNow, RemoveSession, FreshSession, OwnerInv, SinkIsOwner, BoundToShell
<1>5. CASE SnapshotReady
  BY <1>5, OwnerInvKept DEF SnapshotReady, FinishSnapshot
<1>6. CASE FinalSnapshotReady
  BY <1>6 DEF FinalSnapshotReady, RemoveSession, FreshSession, OwnerInv, SinkIsOwner, BoundToShell
<1> QED
  BY <1>1, <1>2, <1>3, <1>4, <1>5, <1>6 DEF ShellStep

\* So do the handlers of the messages of any socket, and of its end.
LEMMA OwnerServerStep ==
  ASSUME NEW s \in Sockets, OwnerInv, ServerStep(s)
  PROVE  OwnerInv'
<1>0. s # NoSocket
  BY SessionAssumption
<1>1. CASE HandleAttach(s)
  BY <1>0, <1>1 DEF HandleAttach, Arrived, Attach, AttachResume, AttachSnapshot, OwnerInv,
                    SinkIsOwner, BoundToShell
<1>2. CASE HandleDetach(s)
  BY <1>0, <1>2 DEF HandleDetach, FromOwner, Release, NoRelease, Detach, OwnerInv, SinkIsOwner, BoundToShell
<1>3. CASE HandleAck(s)
  <2>1. UNCHANGED sink
    BY <1>3 DEF HandleAck, Ack, AckIgnored, AckCounted, AckResync, AttachSnapshot, sessionVars
  <2> QED
    BY <1>3, <2>1, OwnerInvKept DEF HandleAck
<1>4. CASE HandleDestroy(s)
  BY <1>0, <1>4 DEF HandleDestroy, FreshSession, OwnerInv, SinkIsOwner, BoundToShell
<1>5. CASE HandleClose(s)
  BY <1>0, <1>5 DEF HandleClose, DetachClient, Release, NoRelease, Detach, OwnerInv, SinkIsOwner, BoundToShell
<1> QED
  BY <1>1, <1>2, <1>3, <1>4, <1>5 DEF ServerStep

\* A window only changes what the server knows of it by connecting.
LEMMA OwnerWindowStep ==
  ASSUME NEW w \in Windows, OwnerInv, WindowStep(w)
  PROVE  OwnerInv'
<1>1. CASE Connect(w)
  BY <1>1, OwnerInvKept DEF Connect, sessionVars
<1>2. CASE Mount(w) \/ Unmount(w) \/ Drop(w) \/ Reload(w) \/ Reattach(w) \/ Deliver(w) \/ Parse(w)
  <2>1. UNCHANGED serverVars
    BY <1>2 DEF Mount, Unmount, Drop, Reload, Reattach, Deliver, Parse
  <2> QED
    BY <2>1, OwnerInvKept DEF serverVars, sessionVars
<1> QED
  BY <1>1, <1>2 DEF WindowStep

\* A terminal starts with no owner.
LEMMA OwnerInvInit == Init => OwnerInv
BY DEF Init, OwnerInv, SinkIsOwner, BoundToShell

\* OwnerInv is inductive.
LEMMA OwnerInvStep ==
  ASSUME OwnerInv, [Next]_vars
  PROVE  OwnerInv'
<1>1. CASE ShellStep
  BY <1>1, OwnerShellStep
<1>2. CASE \E s \in Sockets : ServerStep(s)
  BY <1>2, OwnerServerStep
<1>3. CASE ServerRestart
  BY <1>3 DEF ServerRestart, FreshSession, OwnerInv, SinkIsOwner, BoundToShell
<1>4. CASE \E w \in Windows : WindowStep(w)
  BY <1>4, OwnerWindowStep
<1>5. CASE UNCHANGED vars
  BY <1>5, OwnerInvKept DEF vars, serverVars, sessionVars
<1> QED
  BY <1>1, <1>2, <1>3, <1>4, <1>5 DEF Next

\* Whatever the sockets, the panels and the shell do, the client a session streams to is the one
\* socket that owns the terminal, and the server still knows it (server.ts terminal_attach,
\* terminal_detach, terminal_destroy, detachClientTerminals; TerminalManager.spawn onExit).
THEOREM OwnershipCorrect == Spec => []SinkIsOwner
<1>1. OwnerInv => SinkIsOwner
  BY DEF OwnerInv
<1> QED
  BY <1>1, OwnerInvInit, OwnerInvStep, PTL DEF Spec

-----------------------------------------------------------------------------
(***************************************************************************)
(* The ring under the session.  That a pinned byte is never evicted needs  *)
(* the shape of the ring, and that every snapshot in flight still has its  *)
(* own pin needs that no two of them share a generation: they are numbered *)
(* upwards, and none is above attachGeneration.                            *)
(***************************************************************************)
SnapTypeOK ==
  /\ RingTypeOK
  /\ generation \in Nat
  /\ snaps \in Seq([gen : Nat, offset : Nat])

SnapInv == SnapTypeOK /\ RingShape /\ PinnedRetained /\ SnapshotsPinned

PinOf(snap) == [id |-> snap.gen, offset |-> snap.offset]

\* Generations are numbers.
LEMMA GenIsNat ==
  ASSUME SnapInv
  PROVE  \A i \in 1 .. Len(snaps) : snaps[i].gen \in Nat
<1> DEFINE Snapshot == [gen : Nat, offset : Nat]
<1>1. snaps \in Seq(Snapshot)
  BY DEF SnapInv, SnapTypeOK
<1>2. \A snap \in Snapshot : snap.gen \in Nat
  OBVIOUS
<1> HIDE DEF Snapshot
<1>3. \A i \in 1 .. Len(snaps) : snaps[i] \in Snapshot
  BY <1>1
<1> QED
  BY <1>2, <1>3

\* Only the ring, the snapshots and the generation matter to SnapInv, and the latter may grow.
LEMMA SnapInvKept ==
  ASSUME SnapInv, UNCHANGED <<chunks, start, end, pins, snaps>>,
         generation' \in Nat, generation' >= generation
  PROVE  SnapInv'
<1>1. SnapTypeOK' /\ RingShape' /\ PinnedRetained'
  BY DEF SnapInv, SnapTypeOK, RingTypeOK, RingShape, PinnedRetained, Readable
<1>2. \A i \in 1 .. Len(snaps) : snaps[i].gen \in Nat
  BY GenIsNat
<1>3. SnapshotsPinned'
  BY <1>2 DEF SnapInv, SnapTypeOK, SnapshotsPinned
<1> QED
  BY <1>1, <1>3 DEF SnapInv

\* A spawn, an exit, a destroy or a crash leaves an empty ring and no snapshot.
LEMMA SnapInvFresh ==
  ASSUME chunks' = <<>>, start' = 0, end' = 0, pins' = {}, snaps' = <<>>, generation' = 0
  PROVE  SnapInv'
BY DEF SnapInv, SnapTypeOK, RingTypeOK, RingShape, PinnedRetained, SnapshotsPinned

\* attach() pins the ring under a generation that no snapshot in flight has.
LEMMA SnapInvAttach ==
  ASSUME NEW s, SnapInv, AttachSnapshot(s)
  PROVE  SnapInv'
<1> DEFINE snap == [gen |-> generation + 1, offset |-> end]
<1>1. Pin(generation + 1, end)
  BY DEF AttachSnapshot
<1>2. RingTypeOK' /\ RingShape' /\ PinnedRetained'
  BY <1>1, PinKeepsRing DEF SnapInv, SnapTypeOK
<1>3. /\ snaps' = Append(snaps, snap)
      /\ generation' = generation + 1
      /\ pins' = pins \cup {PinOf(snap)}
  BY <1>1 DEF AttachSnapshot, Pin, PinOf
<1>4. snap \in [gen : Nat, offset : Nat] /\ snaps \in Seq([gen : Nat, offset : Nat])
  BY DEF SnapInv, SnapTypeOK, RingTypeOK
<1>5. SnapTypeOK'
  BY <1>2, <1>3, <1>4 DEF SnapInv, SnapTypeOK
<1> HIDE DEF snap
<1>6. /\ Len(snaps') = Len(snaps) + 1
      /\ snaps'[Len(snaps) + 1] = snap
      /\ \A i \in 1 .. Len(snaps) : snaps'[i] = snaps[i]
      /\ 1 .. Len(snaps') = (1 .. Len(snaps)) \cup {Len(snaps) + 1}
  BY <1>3, <1>4
<1>7. snap.gen = generation + 1 /\ generation \in Nat
  BY DEF snap, SnapInv, SnapTypeOK
<1>8. \A i \in 1 .. Len(snaps) : snaps[i].gen \in Nat /\ snaps[i].gen =< generation
  BY GenIsNat DEF SnapInv, SnapshotsPinned
<1>9. SnapshotsPinned'
  <2>1. pins' = {PinOf(snaps'[i]) : i \in 1 .. Len(snaps')}
    <3>1. pins = {PinOf(snaps[i]) : i \in 1 .. Len(snaps)}
      BY DEF SnapInv, SnapshotsPinned, PinOf
    <3> QED
      BY <1>3, <1>6, <3>1
  <2>2. \A i, j \in 1 .. Len(snaps') : i < j => snaps'[i].gen < snaps'[j].gen
    <3> SUFFICES ASSUME NEW i \in 1 .. Len(snaps'), NEW j \in 1 .. Len(snaps'), i < j
                 PROVE  snaps'[i].gen < snaps'[j].gen
      OBVIOUS
    <3>1. i \in 1 .. Len(snaps)
      BY <1>4, <1>6
    <3>2. CASE j \in 1 .. Len(snaps)
      BY <1>6, <3>1, <3>2 DEF SnapInv, SnapshotsPinned
    <3>3. CASE j = Len(snaps) + 1
      BY <1>6, <1>7, <1>8, <3>1, <3>3
    <3> QED
      BY <1>6, <3>2, <3>3
  <2>3. \A i \in 1 .. Len(snaps') : snaps'[i].gen =< generation'
    BY <1>3, <1>6, <1>7, <1>8
  <2> QED
    BY <2>1, <2>2, <2>3 DEF SnapshotsPinned, PinOf
<1> QED
  BY <1>2, <1>5, <1>9 DEF SnapInv

\* The oldest snapshot takes its own pin with it and no other.
LEMMA SnapInvFinish ==
  ASSUME NEW up, SnapInv, FinishSnapshot(up)
  PROVE  SnapInv'
<1>1. /\ snaps # <<>>
      /\ snaps' = Tail(snaps)
      /\ Unpin(Head(snaps).gen)
      /\ pins' = {p \in pins : p.id # snaps[1].gen}
      /\ generation' = generation
  BY DEF FinishSnapshot, Unpin
<1>2. RingTypeOK' /\ RingShape' /\ PinnedRetained'
  BY <1>1, UnpinKeepsRing DEF SnapInv, SnapTypeOK
<1>3. snaps \in Seq([gen : Nat, offset : Nat])
  BY DEF SnapInv, SnapTypeOK
<1>4. SnapTypeOK'
  BY <1>1, <1>2, <1>3 DEF SnapInv, SnapTypeOK
<1>5. /\ Len(snaps') = Len(snaps) - 1
      /\ Len(snaps) \in Nat /\ Len(snaps) > 0
      /\ \A i \in 1 .. Len(snaps') : snaps'[i] = snaps[i + 1] /\ i + 1 \in 1 .. Len(snaps)
  BY <1>1, <1>3
<1>6. \A i \in 2 .. Len(snaps) : snaps[i].gen # snaps[1].gen
  <2> SUFFICES ASSUME NEW i \in 2 .. Len(snaps)
               PROVE  snaps[i].gen # snaps[1].gen
    OBVIOUS
  <2>1. 1 \in 1 .. Len(snaps) /\ i \in 1 .. Len(snaps) /\ 1 < i
    BY <1>5
  <2>2. snaps[1].gen < snaps[i].gen
    BY <2>1 DEF SnapInv, SnapshotsPinned
  <2> QED
    BY <2>1, <2>2, GenIsNat
<1>7. SnapshotsPinned'
  <2>1. pins' = {PinOf(snaps'[i]) : i \in 1 .. Len(snaps')}
    <3>1. pins = {PinOf(snaps[i]) : i \in 1 .. Len(snaps)}
      BY DEF SnapInv, SnapshotsPinned, PinOf
    <3>2. ASSUME NEW p \in pins'
          PROVE  p \in {PinOf(snaps'[i]) : i \in 1 .. Len(snaps')}
      <4>1. PICK i \in 1 .. Len(snaps) : p = PinOf(snaps[i])
        BY <1>1, <3>1
      <4>2. i # 1
        BY <1>1, <4>1 DEF PinOf
      <4>3. i - 1 \in 1 .. Len(snaps') /\ snaps'[i - 1] = snaps[i]
        BY <1>5, <4>2
      <4> QED
        BY <4>1, <4>3
    <3>3. ASSUME NEW i \in 1 .. Len(snaps')
          PROVE  PinOf(snaps'[i]) \in pins'
      <4>1. PinOf(snaps'[i]) \in pins /\ i + 1 \in 2 .. Len(snaps)
        BY <1>5, <3>1
      <4>2. PinOf(snaps'[i]).id # snaps[1].gen
        BY <1>5, <1>6, <4>1 DEF PinOf
      <4> QED
        BY <1>1, <4>1, <4>2
    <3> QED
      BY <3>2, <3>3
  <2>2. \A i, j \in 1 .. Len(snaps') : i < j => snaps'[i].gen < snaps'[j].gen
    <3> SUFFICES ASSUME NEW i \in 1 .. Len(snaps'), NEW j \in 1 .. Len(snaps'), i < j
                 PROVE  snaps'[i].gen < snaps'[j].gen
      OBVIOUS
    <3>1. i + 1 < j + 1
      OBVIOUS
    <3> QED
      BY <1>5, <3>1 DEF SnapInv, SnapshotsPinned
  <2>3. \A i \in 1 .. Len(snaps') : snaps'[i].gen =< generation'
    BY <1>1, <1>5 DEF SnapInv, SnapshotsPinned
  <2> QED
    BY <2>1, <2>2, <2>3 DEF SnapshotsPinned, PinOf
<1> QED
  BY <1>2, <1>4, <1>7 DEF SnapInv

-----------------------------------------------------------------------------
\* New output never evicts what a snapshot in flight will need.
LEMMA SnapInvPush ==
  ASSUME NEW up, NEW n \in Nat \ {0}, SnapInv, OnPtyData(up, n), UNCHANGED <<snaps, generation>>
  PROVE  SnapInv'
<1>1. Push(n) /\ pins' = pins
  BY DEF OnPtyData, Push
<1>2. RingTypeOK' /\ RingShape' /\ PinnedRetained'
  BY <1>1, PushKeepsRing DEF SnapInv, SnapTypeOK
<1>3. SnapTypeOK' /\ SnapshotsPinned'
  BY <1>1, <1>2 DEF SnapInv, SnapTypeOK, SnapshotsPinned
<1> QED
  BY <1>2, <1>3 DEF SnapInv

\* attach(), whatever sync point the client gives.
LEMMA SnapInvAnyAttach ==
  ASSUME NEW up, NEW s, NEW since, SnapInv, Attach(up, s, since)
  PROVE  SnapInv'
<1>1. CASE AttachResume(up, s, since)
  <2>1. UNCHANGED <<chunks, start, end, pins, snaps>> /\ generation' = generation + 1
    BY <1>1 DEF AttachResume
  <2> QED
    BY <2>1, SnapInvKept DEF SnapInv, SnapTypeOK
<1>2. CASE AttachSnapshot(s)
  BY <1>2, SnapInvAttach
<1> QED
  BY <1>1, <1>2 DEF Attach

\* The steps of the shell and of the emulator.
LEMMA SnapInvShellStep ==
  ASSUME SnapInv, ShellStep
  PROVE  SnapInv'
<1>1. CASE PtyData
  BY <1>1, SnapInvPush, StreamAssumption DEF PtyData
<1>2. CASE Spawn
  <2>1. CASE pendingSink = NoSocket
    BY <1>2, <2>1, SnapInvFresh DEF Spawn
  <2>2. CASE pendingSink # NoSocket
    <3> DEFINE first == [gen |-> 1, offset |-> 0]
    <3>1. /\ chunks' = <<>> /\ start' = 0 /\ end' = 0
          /\ generation' = 1 /\ snaps' = <<first>> /\ pins' = {PinOf(first)}
      BY <1>2, <2>2 DEF Spawn, PinOf
    <3>2. first \in [gen : Nat, offset : Nat] /\ first.gen = 1
      OBVIOUS
    <3>3. /\ RingTypeOK' /\ RingShape' /\ PinnedRetained'
      BY <3>1 DEF RingTypeOK, RingShape, PinnedRetained, Readable, PinOf
    <3>4. SnapTypeOK'
      BY <3>1, <3>2, <3>3 DEF SnapTypeOK
    <3> HIDE DEF first
    <3>5. Len(snaps') = 1 /\ snaps'[1] = first /\ 1 .. 1 = {1}
      BY <3>1
    <3>6. SnapshotsPinned'
      BY <3>1, <3>2, <3>5 DEF SnapshotsPinned, PinOf
    <3> QED
      BY <3>3, <3>4, <3>6 DEF SnapInv
  <2> QED
    BY <2>1, <2>2
<1>3. CASE ExitAfterSnapshot
  BY <1>3, SnapInvAttach DEF ExitAfterSnapshot
<1>4. CASE ExitNow \/ FinalSnapshotReady
  BY <1>4, SnapInvFresh DEF ExitNow, FinalSnapshotReady, RemoveSession, FreshSession
<1>5. CASE SnapshotReady
  BY <1>5, SnapInvFinish DEF SnapshotReady
<1> QED
  BY <1>1, <1>2, <1>3, <1>4, <1>5 DEF ShellStep

\* The handlers of the messages of any socket, and of its end.
LEMMA SnapInvServerStep ==
  ASSUME NEW s \in Sockets, SnapInv, ServerStep(s)
  PROVE  SnapInv'
<1>0. generation \in Nat
  BY DEF SnapInv, SnapTypeOK
<1>1. CASE HandleAttach(s)
  <2>1. CASE Attach(live, s, Head(inbox[s]).since)
    BY <2>1, SnapInvAnyAttach
  <2>2. CASE UNCHANGED <<chunks, start, end, pins, snaps, generation>>
    BY <1>0, <2>2, SnapInvKept
  <2> QED
    BY <1>1, <2>1, <2>2 DEF HandleAttach
<1>2. CASE HandleDetach(s) \/ HandleClose(s)
  <2>1. /\ UNCHANGED <<chunks, start, end, pins, snaps>>
        /\ generation' \in {generation, generation + 1}
    BY <1>2 DEF HandleDetach, HandleClose, DetachClient, Release, NoRelease, Detach
  <2> QED
    BY <1>0, <2>1, SnapInvKept
<1>3. CASE HandleAck(s)
  <2>1. CASE AttachSnapshot(sink)
    BY <2>1, SnapInvAttach
  <2>2. CASE UNCHANGED <<chunks, start, end, pins, snaps, generation>>
    BY <1>0, <2>2, SnapInvKept
  <2> QED
    BY <1>3, <2>1, <2>2 DEF HandleAck, Ack, AckIgnored, AckCounted, AckResync, sessionVars
<1>4. CASE HandleDestroy(s)
  <2>1. CASE FreshSession
    BY <2>1, SnapInvFresh DEF FreshSession
  <2>2. CASE UNCHANGED <<chunks, start, end, pins, snaps, generation>>
    BY <1>0, <2>2, SnapInvKept
  <2> QED
    BY <1>4, <2>1, <2>2 DEF HandleDestroy
<1> QED
  BY <1>1, <1>2, <1>3, <1>4 DEF ServerStep

\* SnapInv is inductive.
LEMMA SnapInvStep ==
  ASSUME SnapInv, [Next]_vars
  PROVE  SnapInv'
<1>0. generation \in Nat
  BY DEF SnapInv, SnapTypeOK
<1>1. CASE ShellStep
  BY <1>1, SnapInvShellStep
<1>2. CASE \E s \in Sockets : ServerStep(s)
  BY <1>2, SnapInvServerStep
<1>3. CASE ServerRestart
  BY <1>3, SnapInvFresh DEF ServerRestart, FreshSession
<1>4. CASE (\E w \in Windows : WindowStep(w)) \/ UNCHANGED vars
  <2>1. UNCHANGED sessionVars
    BY <1>4 DEF WindowStep, Mount, Unmount, Drop, Reload, Connect, Reattach, Deliver, Parse,
                vars, serverVars
  <2> QED
    BY <1>0, <2>1, SnapInvKept DEF sessionVars
<1> QED
  BY <1>1, <1>2, <1>3, <1>4 DEF Next

\* A session starts with an empty ring and no snapshot.
LEMMA SnapInvInit == Init => SnapInv
BY DEF Init, EmptyRing, SnapInv, SnapTypeOK, RingTypeOK, RingShape, PinnedRetained, SnapshotsPinned

\* Every pin of the ring belongs to one snapshot in flight and every snapshot in flight has one: none
\* leaks and none is released early (TerminalSession.syncWithSnapshot's try and finally).
THEOREM PinsCorrect == Spec => []SnapshotsPinned
<1>1. SnapInv => SnapshotsPinned
  BY DEF SnapInv
<1> QED
  BY <1>1, SnapInvInit, SnapInvStep, PTL DEF Spec

\* The ring under a session is always well formed: whatever was pushed, pinned and evicted, its chunks
\* go up from `start' to `end' (OutputRing.push against pin and unpin).
THEOREM RingCorrect == Spec => []RingShape
<1>1. SnapInv => RingShape
  BY DEF SnapInv
<1> QED
  BY <1>1, SnapInvInit, SnapInvStep, PTL DEF Spec

\* The eviction loop of push stops only when it has to.
LEMMA PushGivesBack ==
  ASSUME NEW n \in Nat \ {0}, RingTypeOK, RingShape, Push(n)
  PROVE  \/ end' - start' =< Capacity
         \/ Len(chunks') = 1
         \/ \E p \in pins' : chunks'[2] > p.offset
<1> DEFINE all == Append(chunks, end)
<1>1. PICK k \in 1 .. Len(all) :
        /\ ~Evictable(all, end + n, k)
        /\ chunks' = SubSeq(all, k, Len(all))
        /\ start' = all[k] /\ end' = end + n /\ pins' = pins
  BY DEF Push
<1>2. all \in Seq(Nat) /\ \A i \in 1 .. Len(all) : all[i] < end + n
  BY AppendedShape
<1> HIDE DEF all
<1>3. CASE k = Len(all)
  BY <1>1, <1>2, <1>3
<1>4. CASE k < Len(all)
  <2>1. chunks'[2] = all[k + 1]
    BY <1>1, <1>2, <1>4
  <2>2. \/ end + n - all[k] =< Capacity
        \/ \E p \in pins : ~(all[k + 1] =< p.offset)
    BY <1>1, <1>2, <1>4, CapacityAssumption DEF Evictable, RingTypeOK
  <2>3. all[k + 1] \in Nat /\ \A p \in pins : p.offset \in Nat
    BY <1>2, <1>4 DEF RingTypeOK
  <2>4. CASE end + n - all[k] =< Capacity
    BY <1>1, <1>2, <2>4 DEF RingTypeOK
  <2>5. CASE \E p \in pins : ~(all[k + 1] =< p.offset)
    <3>1. PICK p \in pins : ~(all[k + 1] =< p.offset)
      BY <2>5
    <3>2. all[k + 1] > p.offset
      BY <2>3, <3>1
    <3> QED
      BY <1>1, <2>1, <3>2
  <2> QED
    BY <2>2, <2>4, <2>5
<1> QED
  BY <1>1, <1>2, <1>3, <1>4

\* Only output of the shell moves the end of the ring up.
LEMMA OnlyOutputPushes ==
  ASSUME SnapInv, Next, end' > end
  PROVE  \E n \in ChunkSizes : Push(n)
<1>0. end \in Nat
  BY DEF SnapInv, SnapTypeOK, RingTypeOK
<1>1. CASE ShellStep
  <2>1. CASE PtyData
    BY <2>1 DEF PtyData, OnPtyData
  <2>2. CASE Spawn
    BY <1>0, <2>2 DEF Spawn
  <2>3. CASE ExitAfterSnapshot
    BY <1>0, <2>3 DEF ExitAfterSnapshot, AttachSnapshot, Pin
  <2>4. CASE ExitNow \/ FinalSnapshotReady
    BY <1>0, <2>4 DEF ExitNow, FinalSnapshotReady, RemoveSession, FreshSession
  <2>5. CASE SnapshotReady
    BY <1>0, <2>5 DEF SnapshotReady, FinishSnapshot, Unpin
  <2> QED
    BY <1>1, <2>1, <2>2, <2>3, <2>4, <2>5 DEF ShellStep
<1>2. CASE \E s \in Sockets : ServerStep(s)
  BY <1>0, <1>2 DEF ServerStep, HandleAttach, Attach, AttachResume, AttachSnapshot, Pin, HandleDetach,
       HandleAck, Ack, AckIgnored, AckCounted, AckResync, sessionVars, HandleDestroy, FreshSession,
       HandleClose
<1>3. CASE ServerRestart
  BY <1>0, <1>3 DEF ServerRestart, FreshSession
<1>4. CASE \E w \in Windows : WindowStep(w)
  BY <1>0, <1>4 DEF WindowStep, Mount, Unmount, Drop, Reload, Connect, Reattach, Deliver, Parse,
       serverVars, sessionVars
<1> QED
  BY <1>1, <1>2, <1>3, <1>4 DEF Next

\* The ring gives memory back: after each chunk it is within its capacity again, down to the newest
\* chunk, or held by a pin (OutputRing.push).
THEOREM RingGivesBack == Spec => BackWithinCapacity
<1> DEFINE Back == \/ end' - start' =< Capacity
                   \/ Len(chunks') = 1
                   \/ \E p \in pins' : chunks'[2] > p.offset
<1>1. SnapInv /\ [Next]_vars => [end' > end => Back]_ringVars
  <2> SUFFICES ASSUME SnapInv, [Next]_vars, end' > end
               PROVE  Back
    OBVIOUS
  <2>1. end \in Nat
    BY DEF SnapInv, SnapTypeOK, RingTypeOK
  <2>2. Next
    BY <2>1 DEF vars, serverVars, sessionVars
  <2>3. PICK n \in ChunkSizes : Push(n)
    BY <2>2, OnlyOutputPushes
  <2>4. n \in Nat \ {0}
    BY StreamAssumption
  <2> QED
    BY <2>3, <2>4, PushGivesBack DEF SnapInv, SnapTypeOK
<1> QED
  BY <1>1, SnapInvInit, SnapInvStep, PTL DEF Spec, BackWithinCapacity

\* A pinned byte is a readable one, and each snapshot has its pin.
LEMMA SnapInvCovers ==
  ASSUME SnapInv
  PROVE  SnapshotsCovered
<1> SUFFICES ASSUME NEW i \in 1 .. Len(snaps)
             PROVE  Readable(snaps[i].offset)
  BY DEF SnapshotsCovered
<1>1. PinOf(snaps[i]) \in pins
  BY DEF SnapInv, SnapshotsPinned, PinOf
<1>2. Readable(PinOf(snaps[i]).offset)
  BY <1>1 DEF SnapInv, PinnedRetained
<1> QED
  BY <1>2 DEF PinOf

\* However much output arrives while snapshots are being produced, and whoever attaches, detaches or
\* exits meanwhile, the bytes that follow each snapshot are still in the ring when it is ready: the
\* error "evicted while pinned" of syncWithSnapshot is never thrown.
THEOREM SnapshotsCorrect == Spec => []SnapshotsCovered
BY SnapInvInit, SnapInvStep, SnapInvCovers, PTL DEF Spec

-----------------------------------------------------------------------------
(***************************************************************************)
(* Exits.  A shell that exited while its client was behind waits for a     *)
(* snapshot; the snapshots are finished in order and none is dropped, so   *)
(* that one stays in line until its turn.                                  *)
(***************************************************************************)
ExitAwaited == shell = "exiting" => \E i \in 1 .. Len(snaps) : snaps[i].gen = exitGen

ExitInv == SnapInv /\ OwnerInv /\ ExitAwaited

\* Another attach only adds a snapshot to the line.
LEMMA ExitAwaitedAttach ==
  ASSUME NEW s, SnapInv, ExitAwaited, AttachSnapshot(s), UNCHANGED <<shell, exitGen>>
  PROVE  ExitAwaited'
<1> DEFINE snap == [gen |-> generation + 1, offset |-> end]
<1>1. /\ snaps' = Append(snaps, snap)
      /\ snaps \in Seq([gen : Nat, offset : Nat])
  BY DEF AttachSnapshot, SnapInv, SnapTypeOK
<1> HIDE DEF snap
<1>2. /\ Len(snaps') = Len(snaps) + 1 /\ Len(snaps) \in Nat
      /\ \A i \in 1 .. Len(snaps) : snaps'[i] = snaps[i]
  BY <1>1
<1>3. \A i \in 1 .. Len(snaps) : i \in 1 .. Len(snaps')
  BY <1>2
<1> QED
  BY <1>2, <1>3 DEF ExitAwaited

\* A snapshot that is not the final one leaves the final one in line.
LEMMA ExitAwaitedFinish ==
  ASSUME SnapInv, ExitAwaited, SnapshotReady
  PROVE  ExitAwaited'
<1> SUFFICES ASSUME shell = "exiting"
             PROVE  \E i \in 1 .. Len(snaps') : snaps'[i].gen = exitGen
  BY DEF ExitAwaited, SnapshotReady
<1>1. /\ snaps # <<>> /\ snaps' = Tail(snaps) /\ snaps[1].gen # exitGen
      /\ snaps \in Seq([gen : Nat, offset : Nat])
  BY DEF SnapshotReady, FinishSnapshot, SnapInv, SnapTypeOK
<1>2. PICK i \in 1 .. Len(snaps) : snaps[i].gen = exitGen
  BY DEF ExitAwaited
<1>3. i # 1
  BY <1>1, <1>2
<1>4. i - 1 \in 1 .. Len(snaps') /\ snaps'[i - 1] = snaps[i]
  BY <1>1, <1>3
<1> QED
  BY <1>2, <1>4

\* ExitAwaited is kept by every step, given the two invariants above.
LEMMA ExitAwaitedStep ==
  ASSUME ExitInv, [Next]_vars
  PROVE  ExitAwaited'
<1> USE DEF ExitInv
<1>1. CASE ShellStep
  <2>1. CASE SnapshotReady
    BY <2>1, ExitAwaitedFinish
  <2>2. CASE ExitAfterSnapshot
    <3> DEFINE snap == [gen |-> generation + 1, offset |-> end]
    <3>1. /\ snaps' = Append(snaps, snap) /\ exitGen' = generation + 1
          /\ snaps \in Seq([gen : Nat, offset : Nat])
      BY <2>2 DEF ExitAfterSnapshot, AttachSnapshot, SnapInv, SnapTypeOK
    <3>2. snap.gen = exitGen'
      BY <3>1
    <3> HIDE DEF snap
    <3>3. Len(snaps') \in 1 .. Len(snaps') /\ snaps'[Len(snaps')] = snap
      BY <3>1
    <3> QED
      BY <3>2, <3>3 DEF ExitAwaited
  <2>3. CASE PtyData \/ Spawn \/ ExitNow \/ FinalSnapshotReady
    BY <2>3 DEF PtyData, OnPtyData, Spawn, ExitNow, FinalSnapshotReady, RemoveSession, ExitAwaited
  <2> QED
    BY <1>1, <2>1, <2>2, <2>3 DEF ShellStep
<1>2. ASSUME NEW s \in Sockets, ServerStep(s)
      PROVE  ExitAwaited'
  <2>1. CASE HandleAttach(s)
    <3>1. CASE AttachSnapshot(s) /\ UNCHANGED <<shell, exitGen>>
      BY <3>1, ExitAwaitedAttach
    <3>2. CASE UNCHANGED <<snaps, shell, exitGen>>
      BY <3>2 DEF ExitAwaited
    <3>3. CASE shell' = "starting"
      BY <3>3 DEF ExitAwaited
    <3> QED
      BY <2>1, <3>1, <3>2, <3>3 DEF HandleAttach, Attach, AttachResume
  <2>2. CASE HandleAck(s)
    <3>1. CASE AttachSnapshot(sink) /\ UNCHANGED <<shell, exitGen>>
      BY <3>1, ExitAwaitedAttach
    <3>2. CASE UNCHANGED <<snaps, shell, exitGen>>
      BY <3>2 DEF ExitAwaited
    <3> QED
      BY <2>2, <3>1, <3>2 DEF HandleAck, Ack, AckIgnored, AckCounted, AckResync, sessionVars
  <2>3. CASE HandleDetach(s) \/ HandleClose(s) \/ HandleDestroy(s)
    BY <2>3 DEF HandleDetach, HandleClose, HandleDestroy, ExitAwaited
  <2> QED
    BY <1>2, <2>1, <2>2, <2>3 DEF ServerStep
<1>3. CASE ServerRestart
  BY <1>3 DEF ServerRestart, ExitAwaited
<1>4. CASE (\E w \in Windows : WindowStep(w)) \/ UNCHANGED vars
  <2>1. UNCHANGED <<shell, snaps, exitGen>>
    BY <1>4 DEF WindowStep, Mount, Unmount, Drop, Reload, Connect, Reattach, Deliver, Parse,
                vars, serverVars, sessionVars
  <2> QED
    BY <2>1 DEF ExitAwaited
<1> QED
  BY <1>1, <1>2, <1>3, <1>4 DEF Next

\* A client waits only for a shell that starts and is bound only to one that exists, and the exit of
\* a shell always has its final snapshot in line, whoever attaches or detaches while it waits
\* (TerminalManager.attach and start, TerminalSession.onExited).
THEOREM BindingCorrect == Spec => []BindingOK
<1>1. Init => ExitInv
  BY OwnerInvInit, SnapInvInit DEF Init, ExitInv, ExitAwaited
<1>2. ExitInv /\ [Next]_vars => ExitInv'
  BY OwnerInvStep, SnapInvStep, ExitAwaitedStep DEF ExitInv
<1>3. ExitInv => BindingOK
  BY DEF ExitInv, OwnerInv, BoundToShell, ExitAwaited, BindingOK
<1> QED
  BY <1>1, <1>2, <1>3, PTL DEF Spec

-----------------------------------------------------------------------------
(***************************************************************************)
(* Types.  The type invariant is proved with SnapInv, which gives the      *)
(* types of the ring and of the snapshots.                                 *)
(***************************************************************************)
(* The xterm of a window. *)

Write == [sync : Offsets, n : Nat]

\* The queue filter of applyState returns frames of the queue.
LEMMA KeptFramesType ==
  ASSUME NEW q \in Seq(Frame), NEW offset, NEW frames \in KeptFrames(q, offset)
  PROVE  frames \in Seq(Frame)
<1> DEFINE kept == {i \in 1 .. Len(q) : q[i].offset >= offset}
           n    == Cardinality(kept)
<1>1. IsFiniteSet(kept)
  <2>1. IsFiniteSet(1 .. Len(q))
    BY FS_Interval
  <2> QED
    BY <2>1, FS_Subset
<1>2. n \in Nat
  BY <1>1, FS_CardinalityType
<1> HIDE DEF n
<1>3. PICK place \in [1 .. n -> kept] : frames = [j \in 1 .. n |-> q[place[j]]]
  BY DEF KeptFrames, n
<1> HIDE DEF Frame
<1>4. \A j \in 1 .. n : q[place[j]] \in Frame
  BY <1>3
<1> QED
  BY <1>2, <1>3, <1>4

\* A panel mounts with a well-typed xterm.
LEMMA FreshXtermType == FreshXterm \in Xterm
BY DEF FreshXterm, Xterm, Offsets, Unknown, Frame

\* expectState only empties the queue.
LEMMA ExpectStateType ==
  ASSUME NEW x \in Xterm
  PROVE  ExpectState(x) \in Xterm
<1>1. <<>> \in Seq(Frame)
  OBVIOUS
<1> QED
  BY <1>1 DEF ExpectState, Xterm

\* Writing frames to an xterm moves it to a definite offset.
LEMMA WriteLiveType ==
  ASSUME NEW x \in Xterm, NEW frames \in Seq(Frame)
  PROVE  WriteLive(x, frames) \in Xterm
<1> DEFINE n         == Len(frames)
           endsAt(i) == IF i = 0 THEN x.shown ELSE frames[i].offset + frames[i].n
           gap       == x.gap \/ \E i \in 1 .. n : frames[i].offset > endsAt(i - 1)
           repeat    == x.repeat \/ \E i \in 1 .. n : frames[i].offset < endsAt(i - 1)
           mixed     == x.mixed \/ \E i \in 1 .. n : frames[i].epoch # x.epoch
           writes    == x.writes \o [i \in 1 .. n |-> [sync |-> x.sync, n |-> frames[i].n]]
<1>1. CASE n = 0
  BY <1>1 DEF WriteLive
<1>2. CASE n # 0
  <2>1. \A i \in 1 .. n : frames[i] \in Frame
    BY DEF Offsets
  <2>2. \A i \in 1 .. n : frames[i].offset \in Nat /\ frames[i].n \in Nat
    BY <2>1 DEF Frame, Offsets
  <2>3. n \in 1 .. n
    BY <1>2
  <2>4. endsAt(n) \in Nat
    BY <2>2, <2>3
  <2>5. x.sync \in Offsets /\ x.writes \in Seq(Write)
    BY DEF Xterm, Write
  <2>6. \A i \in 1 .. n : [sync |-> x.sync, n |-> frames[i].n] \in Write
    BY <2>2, <2>5 DEF Write
  <2>7. writes \in Seq(Write)
    <3> HIDE DEF Write
    <3>1. [i \in 1 .. n |-> [sync |-> x.sync, n |-> frames[i].n]] \in Seq(Write)
      BY <2>6
    <3> QED
      BY <2>5, <3>1
  <2>8. gap \in BOOLEAN /\ repeat \in BOOLEAN /\ mixed \in BOOLEAN
    BY DEF Xterm
  <2>9. WriteLive(x, frames) = [x EXCEPT !.next = endsAt(n), !.shown = endsAt(n),
                                         !.gap = gap, !.repeat = repeat, !.mixed = mixed,
                                         !.used = x.used \cup {x.sync}, !.writes = writes]
    BY <1>2 DEF WriteLive
  <2>10. x.used \cup {x.sync} \in SUBSET Offsets
    BY DEF Xterm
  <2> HIDE DEF gap, repeat, mixed, writes, endsAt, n
  <2> QED
    BY <2>4, <2>7, <2>8, <2>9, <2>10 DEF Xterm, Offsets, Write
<1> QED
  BY <1>1, <1>2

\* One frame received is queued, or written.
LEMMA ReceiveType ==
  ASSUME NEW x \in Xterm, NEW frame \in Frame
  PROVE  Receive(x, frame) \in Xterm
<1>1. CASE x.awaiting
  <2>1. x.queued \in Seq(Frame)
    BY DEF Xterm
  <2>2. Append(x.queued, frame) \in Seq(Frame)
    <3> HIDE DEF Frame
    <3> QED
      BY <2>1
  <2>3. Receive(x, frame) = [x EXCEPT !.queued = Append(x.queued, frame)]
    BY <1>1 DEF Receive
  <2> QED
    BY <2>2, <2>3 DEF Xterm
<1>2. CASE ~x.awaiting
  <2>1. <<frame>> \in Seq(Frame)
    <3> HIDE DEF Frame
    <3> QED
      OBVIOUS
  <2> QED
    BY <1>2, <2>1, WriteLiveType DEF Receive
<1> QED
  BY <1>1, <1>2

StateType == [type : {"state"}, mode : {"resume", "snapshot"}, epoch : Nat, offset : Offsets]

\* A state message moves the xterm to its sync point and writes what the queue still has for it.
LEMMA ApplyStateType ==
  ASSUME NEW x \in Xterm, NEW msg \in StateType, NEW y \in ApplyState(x, msg)
  PROVE  y \in Xterm
<1> DEFINE drawn  == Redraw(x, msg)
           synced == [drawn EXCEPT
                        !.epoch = msg.epoch, !.next = msg.offset, !.sync = msg.offset,
                        !.awaiting = FALSE, !.unacked = 0, !.queued = <<>>,
                        !.stale = msg.offset \in x.used]
<1>1. msg.epoch \in Nat /\ msg.offset \in Offsets
  BY DEF StateType
<1>2. drawn \in Xterm
  BY <1>1 DEF Redraw, Xterm
<1> HIDE DEF drawn
<1>3. synced \in Xterm
  <2>1. <<>> \in Seq(Frame)
    OBVIOUS
  <2> DEFINE stale == msg.offset \in x.used
  <2>2. stale \in BOOLEAN
    OBVIOUS
  <2>3. synced = [drawn EXCEPT !.epoch = msg.epoch, !.next = msg.offset, !.sync = msg.offset,
                               !.awaiting = FALSE, !.unacked = 0, !.queued = <<>>,
                               !.stale = stale]
    OBVIOUS
  <2> HIDE DEF stale, synced
  <2> QED
    BY <1>1, <1>2, <2>1, <2>2, <2>3 DEF Xterm
<1>4. x.queued \in Seq(Frame)
  BY DEF Xterm
<1>5. PICK frames \in KeptFrames(x.queued, msg.offset) : y = WriteLive(synced, frames)
  BY DEF ApplyState, drawn
<1> HIDE DEF synced
<1>6. frames \in Seq(Frame)
  BY <1>4, KeptFramesType
<1> QED
  BY <1>3, <1>5, <1>6, WriteLiveType

\* The callback of a write counts its bytes and may report them.
LEMMA ParsedType ==
  ASSUME NEW x \in Xterm, x.writes # <<>>
  PROVE  Parsed(x) \in Xterm /\ AckDue(x) \in Nat
<1>1. x.writes \in Seq(Write) /\ x.unacked \in Nat
  BY DEF Xterm, Write
<1>2. Head(x.writes) \in Write /\ Tail(x.writes) \in Seq(Write)
  <2> HIDE DEF Write
  <2> QED
    BY <1>1
<1>3. CountedBytes(x) \in Nat
  BY <1>1, <1>2 DEF CountedBytes, Write
<1>4. AckDue(x) \in Nat
  BY <1>3 DEF AckDue
<1>5. Parsed(x) \in Xterm
  BY <1>1, <1>2, <1>3 DEF Parsed, Xterm, Write
<1> QED
  BY <1>4, <1>5

\* Whatever the server sends leaves the xterm well-typed.
LEMMA HandleType ==
  ASSUME NEW x \in Xterm, NEW msg \in ServerMsg, NEW y \in Handle(x, msg)
  PROVE  y \in Xterm
<1>1. CASE msg \in StateType
  <2>1. msg.type = "state"
    BY <1>1 DEF StateType
  <2> QED
    BY <1>1, <2>1, ApplyStateType DEF Handle
<1>2. CASE msg \in Frame
  <2>1. msg.type = "output"
    BY <1>2 DEF Frame
  <2> QED
    BY <1>2, <2>1, ReceiveType DEF Handle
<1>3. CASE msg \in [type : {"exit"}, synced : BOOLEAN]
  <2>1. y = [x EXCEPT !.exited = TRUE]
    BY <1>3 DEF Handle
  <2> QED
    BY <2>1 DEF Xterm
<1> QED
  BY <1>1, <1>2, <1>3 DEF ServerMsg, StateType, Frame

\* The sync point a window gives with an attach.
LEMMA SinceType ==
  ASSUME NEW x \in Xterm
  PROVE  AttachMsg(Since(x)) \in ClientMsg /\ AttachMsg(NoSince) \in ClientMsg
BY DEF AttachMsg, Since, NoSince, NoOffset, Unknown, ClientMsg, Xterm, Offsets

-----------------------------------------------------------------------------
(* The parts of the type invariant: everything but the ring and the snapshots, which SnapInv has. *)

SessionScalarsOK ==
  /\ shell \in {"none", "starting", "running", "exiting"}
  /\ epoch \in Nat
  /\ sink \in SocketOrNone
  /\ streaming \in BOOLEAN
  /\ syncOffset \in Offsets
  /\ unacked \in Nat
  /\ paused \in BOOLEAN
  /\ exitGen \in Nat

OwnershipTypesOK ==
  /\ pendingSink \in SocketOrNone
  /\ owner \in SocketOrNone
  /\ held \subseteq Sockets
  /\ clients \subseteq Sockets

WindowsOK ==
  /\ sock \in [Windows -> SocketOrNone]
  /\ fresh \subseteq Sockets
  /\ known \in [Windows -> BOOLEAN]
  /\ checks \in [Windows -> Nat]
  /\ mounts \in Nat
  /\ produced \in [1 .. MaxEpoch -> Offsets]

OutboxOK == outbox \in [Sockets -> Seq(ServerMsg)]
InboxOK == inbox \in [Sockets -> Seq(ClientMsg)]
XtermsOK == xt \in [Windows -> Xterm]

TypeInv == SnapInv /\ SessionScalarsOK /\ OwnershipTypesOK /\ WindowsOK /\ OutboxOK /\ InboxOK /\ XtermsOK

\* Together they are TypeOK.
LEMMA TypeInvIsTypeOK == TypeInv => TypeOK
<1> SUFFICES ASSUME TypeInv
             PROVE  TypeOK
  OBVIOUS
<1>1. SessionTypeOK
  BY DEF TypeInv, SessionTypeOK, SnapInv, SnapTypeOK, SessionScalarsOK, OutboxOK, Offsets
<1> QED
  BY <1>1 DEF TypeInv, TypeOK, OwnershipTypesOK, WindowsOK, InboxOK, XtermsOK

-----------------------------------------------------------------------------
(* Messages. *)

\* The oldest message from a socket is one a client sends.
LEMMA ArrivedType ==
  ASSUME NEW s \in Sockets, NEW type, InboxOK, Arrived(s, type)
  PROVE  Head(inbox[s]) \in ClientMsg /\ Head(inbox[s]).type = type
<1> HIDE DEF ClientMsg
<1>1. inbox[s] \in Seq(ClientMsg) /\ inbox[s] # <<>>
  BY DEF InboxOK, Arrived
<1> QED
  BY <1>1 DEF Arrived

\* The sync point of an attach that has arrived.
LEMMA ArrivedSince ==
  ASSUME NEW s \in Sockets, InboxOK, Arrived(s, "attach")
  PROVE  Head(inbox[s]).since \in [epoch : Nat, offset : Offsets \cup {Unknown}]
BY ArrivedType DEF ClientMsg

\* What an ack that has arrived reports.
LEMMA ArrivedAck ==
  ASSUME NEW s \in Sockets, InboxOK, Arrived(s, "ack")
  PROVE  Head(inbox[s]).bytes \in Nat
BY ArrivedType DEF ClientMsg

\* Handling a message takes it off its queue.
LEMMA ConsumeType ==
  ASSUME NEW s \in Sockets, NEW type, InboxOK, Arrived(s, type), Consume(s)
  PROVE  InboxOK'
<1> HIDE DEF ClientMsg
<1>1. inbox[s] \in Seq(ClientMsg) /\ inbox[s] # <<>>
  BY DEF InboxOK, Arrived
<1>2. Tail(inbox[s]) \in Seq(ClientMsg)
  BY <1>1
<1> QED
  BY <1>2 DEF Consume, InboxOK

\* Sending appends to the queue of a socket that is up.
LEMMA SendType ==
  ASSUME NEW s, NEW msgs \in Seq(ServerMsg), OutboxOK, WindowsOK, Send(live, s, msgs)
  PROVE  OutboxOK'
<1> HIDE DEF ServerMsg
<1>1. CASE s \in live
  <2>1. s \in Sockets
    BY <1>1 DEF live, WindowsOK, SocketOrNone
  <2>2. outbox[s] \in Seq(ServerMsg)
    BY <2>1 DEF OutboxOK
  <2>3. outbox[s] \o msgs \in Seq(ServerMsg)
    BY <2>2
  <2> QED
    BY <1>1, <2>3 DEF Send, OutboxOK
<1>2. CASE s \notin live
  BY <1>2 DEF Send, OutboxOK
<1> QED
  BY <1>1, <1>2

\* A sync is one or two messages.
LEMMA SyncMsgsType ==
  ASSUME SnapTypeOK, SessionScalarsOK, NEW mode \in {"resume", "snapshot"}, NEW offset \in Nat
  PROVE  SyncMsgs(mode, offset) \in Seq(ServerMsg)
<1>1. StateMsg(mode, offset) \in ServerMsg
  BY DEF StateMsg, ServerMsg, SessionScalarsOK, Offsets
<1>2. end > offset => OutputMsg(offset, end - offset) \in ServerMsg
  BY DEF OutputMsg, ServerMsg, SnapTypeOK, RingTypeOK, SessionScalarsOK, Offsets
<1> HIDE DEF ServerMsg
<1> QED
  BY <1>1, <1>2 DEF SyncMsgs

\* What a window sends goes on the socket it has open.
LEMMA ClientSendType ==
  ASSUME NEW w \in Windows, NEW msgs \in Seq(ClientMsg), InboxOK, WindowsOK, ClientSend(w, msgs)
  PROVE  InboxOK'
<1> HIDE DEF ClientMsg
<1>1. CASE sock[w] = NoSocket
  BY <1>1 DEF ClientSend, InboxOK
<1>2. CASE sock[w] # NoSocket
  <2>1. sock[w] \in Sockets
    BY <1>2 DEF WindowsOK, SocketOrNone
  <2>2. inbox[sock[w]] \in Seq(ClientMsg)
    BY <2>1 DEF InboxOK
  <2>3. inbox[sock[w]] \o msgs \in Seq(ClientMsg)
    BY <2>2
  <2> QED
    BY <1>2, <2>3 DEF ClientSend, InboxOK
<1> QED
  BY <1>1, <1>2

\* A socket that goes down loses what was sent to it and a tail of what was sent on it.
LEMMA CutSocketType ==
  ASSUME NEW w \in Windows, InboxOK, OutboxOK, WindowsOK, CutSocket(w)
  PROVE  InboxOK' /\ OutboxOK' /\ sock' \in [Windows -> SocketOrNone]
<1>1. CASE sock[w] = NoSocket
  BY <1>1 DEF CutSocket, InboxOK, OutboxOK, WindowsOK
<1>2. CASE sock[w] # NoSocket
  <2>1. sock[w] \in Sockets
    BY <1>2 DEF WindowsOK, SocketOrNone
  <2>2. inbox[sock[w]] \in Seq(ClientMsg)
    BY <2>1 DEF InboxOK
  <2>3. PICK k \in 0 .. Len(inbox[sock[w]]) :
          inbox' = [inbox EXCEPT ![sock[w]] = SubSeq(inbox[sock[w]], 1, k)]
    BY <1>2 DEF CutSocket
  <2>4. InboxOK'
    <3> HIDE DEF ClientMsg
    <3>1. SubSeq(inbox[sock[w]], 1, k) \in Seq(ClientMsg)
      BY <2>2
    <3> QED
      BY <2>3, <3>1 DEF InboxOK
  <2>5. OutboxOK'
    <3> HIDE DEF ServerMsg
    <3>1. <<>> \in Seq(ServerMsg)
      OBVIOUS
    <3> QED
      BY <1>2, <3>1 DEF CutSocket, OutboxOK
  <2>6. sock' \in [Windows -> SocketOrNone]
    BY <1>2 DEF CutSocket, WindowsOK, SocketOrNone
  <2> QED
    BY <2>4, <2>5, <2>6
<1> QED
  BY <1>1, <1>2

-----------------------------------------------------------------------------
(* The scalars of the session, one step per action. *)

\* goLive counts the bytes from its offset to the end of the stream.
LEMMA GoLiveType ==
  ASSUME NEW offset \in Nat, NEW before \in Nat, end \in Nat, offset =< end, GoLive(offset, before)
  PROVE  /\ syncOffset' \in Offsets
         /\ unacked' \in Nat
         /\ paused' \in BOOLEAN
         /\ streaming' \in BOOLEAN
BY DEF GoLive, Offsets

\* A snapshot goes live from an offset the ring still covers.
LEMMA FinishSnapshotType ==
  ASSUME NEW up, SnapInv, SessionScalarsOK, FinishSnapshot(up)
  PROVE  /\ syncOffset' \in Offsets
         /\ unacked' \in Nat
         /\ paused' \in BOOLEAN
         /\ streaming' \in BOOLEAN
<1>1. CASE Superseded(Head(snaps))
  BY <1>1 DEF FinishSnapshot, SessionScalarsOK
<1>2. CASE ~Superseded(Head(snaps))
  <2>1. snaps # <<>> /\ GoLive(Head(snaps).offset, unacked)
    BY <1>2 DEF FinishSnapshot
  <2>2. SnapshotsCovered /\ end \in Nat
    BY SnapInvCovers DEF SnapInv, SnapTypeOK, RingTypeOK
  <2>3. Head(snaps).offset \in Nat /\ Head(snaps).offset =< end
    <3> DEFINE Snapshot == [gen : Nat, offset : Nat]
    <3>1. snaps \in Seq(Snapshot)
      BY DEF SnapInv, SnapTypeOK
    <3>2. \A snap \in Snapshot : snap.offset \in Nat
      OBVIOUS
    <3> HIDE DEF Snapshot
    <3>3. Head(snaps) = snaps[1] /\ snaps[1] \in Snapshot /\ 1 \in 1 .. Len(snaps)
      BY <2>1, <3>1
    <3> QED
      BY <2>2, <3>2, <3>3 DEF SnapshotsCovered, Readable
  <2> QED
    BY <2>1, <2>2, <2>3, GoLiveType DEF SessionScalarsOK
<1> QED
  BY <1>1, <1>2

\* attach() keeps the types whatever sync point it is given.
LEMMA AttachType ==
  ASSUME NEW up, NEW s \in Sockets, NEW since \in [epoch : Nat, offset : Offsets \cup {Unknown}],
         SnapInv, SessionScalarsOK, Attach(up, s, since), UNCHANGED <<shell, epoch, exitGen>>
  PROVE  SessionScalarsOK'
<1>1. CASE AttachResume(up, s, since)
  <2>1. since.offset \in Nat /\ since.offset =< end /\ end \in Nat
    BY <1>1 DEF AttachResume, CanResume, Readable, SnapInv, SnapTypeOK, RingTypeOK, Offsets, Unknown
  <2>2. GoLive(since.offset, 0) /\ sink' = s
    BY <1>1 DEF AttachResume
  <2> QED
    BY <2>1, <2>2, GoLiveType DEF SessionScalarsOK, SocketOrNone
<1>2. CASE AttachSnapshot(s)
  BY <1>2 DEF AttachSnapshot, SessionScalarsOK, SocketOrNone
<1> QED
  BY <1>1, <1>2 DEF Attach

\* The steps of the shell and of the emulator.
LEMMA ScalarsShellStep ==
  ASSUME SnapInv, SessionScalarsOK, OwnershipTypesOK, ShellStep
  PROVE  SessionScalarsOK' /\ OwnershipTypesOK'
<1>1. CASE PtyData
  <2>1. PICK n \in Nat : OnPtyData(live, n)
    BY <1>1, StreamAssumption DEF PtyData
  <2>2. unacked' \in Nat /\ paused' \in BOOLEAN
    BY <2>1 DEF OnPtyData, SessionScalarsOK
  <2>3. UNCHANGED <<shell, epoch, sink, streaming, syncOffset, exitGen, pendingSink, owner, held,
                    clients>>
    BY <1>1 DEF PtyData
  <2> QED
    BY <2>2, <2>3 DEF SessionScalarsOK, OwnershipTypesOK
<1>2. CASE Spawn
  <2>1. /\ shell' = "running" /\ epoch' = epoch + 1 /\ sink' = pendingSink
        /\ streaming' = FALSE /\ syncOffset' = 0 /\ unacked' = 0 /\ paused' = FALSE /\ exitGen' = 0
    BY <1>2 DEF Spawn
  <2>2. SessionScalarsOK'
    <3>1. epoch' \in Nat /\ 0 \in Nat
      BY <2>1 DEF SessionScalarsOK
    <3> QED
      BY <2>1, <3>1, Zenon DEF SessionScalarsOK, OwnershipTypesOK, Offsets
  <2>3. OwnershipTypesOK'
    BY <1>2 DEF Spawn, OwnershipTypesOK, SocketOrNone
  <2> QED
    BY <2>2, <2>3
<1>3. CASE ExitAfterSnapshot
  <2>1. /\ shell' = "exiting" /\ exitGen' = generation + 1 /\ generation \in Nat
        /\ streaming' = FALSE /\ unacked' = 0 /\ paused' = FALSE
        /\ UNCHANGED <<sink, syncOffset, epoch, pendingSink, owner, held, clients>>
    BY <1>3 DEF ExitAfterSnapshot, AttachSnapshot, SnapInv, SnapTypeOK
  <2>2. exitGen' \in Nat /\ 0 \in Nat
    BY <2>1
  <2> QED
    BY <2>1, <2>2, Zenon DEF SessionScalarsOK, OwnershipTypesOK
<1>4. CASE ExitNow \/ FinalSnapshotReady
  <2>1. shell' = "none" /\ FreshSession /\ owner' = NoSocket /\ held' = held \ {owner}
        /\ UNCHANGED <<epoch, pendingSink, clients>>
    BY <1>4 DEF ExitNow, FinalSnapshotReady, RemoveSession
  <2> QED
    BY <2>1 DEF FreshSession, SessionScalarsOK, OwnershipTypesOK, Offsets, SocketOrNone
<1>5. CASE SnapshotReady
  <2>1. FinishSnapshot(live)
        /\ UNCHANGED <<shell, epoch, sink, exitGen, pendingSink, owner, held, clients>>
    BY <1>5 DEF SnapshotReady, FinishSnapshot
  <2> QED
    BY <2>1, FinishSnapshotType DEF SessionScalarsOK, OwnershipTypesOK
<1> QED
  BY <1>1, <1>2, <1>3, <1>4, <1>5 DEF ShellStep

\* The handlers of the messages of a socket, and of its end.
LEMMA ScalarsServerStep ==
  ASSUME NEW s \in Sockets, SnapInv, SessionScalarsOK, OwnershipTypesOK, InboxOK, ServerStep(s)
  PROVE  SessionScalarsOK' /\ OwnershipTypesOK'
<1>1. CASE HandleAttach(s)
  <2>1. OwnershipTypesOK'
    BY <1>1 DEF HandleAttach, OwnershipTypesOK, SocketOrNone
  <2>2. CASE Attach(live, s, Head(inbox[s]).since) /\ UNCHANGED <<shell, epoch, exitGen>>
    BY <1>1, <2>1, <2>2, ArrivedSince, AttachType DEF HandleAttach
  <2>3. CASE shell' = "starting"
             /\ UNCHANGED <<epoch, sink, streaming, syncOffset, unacked, paused, exitGen>>
    BY <2>1, <2>3 DEF SessionScalarsOK
  <2> QED
    BY <1>1, <2>2, <2>3 DEF HandleAttach
<1>2. CASE HandleDetach(s) \/ HandleClose(s)
  BY <1>2 DEF HandleDetach, HandleClose, DetachClient, Release, NoRelease, Detach, SessionScalarsOK, OwnershipTypesOK, SocketOrNone
<1>3. CASE HandleAck(s)
  <2>1. UNCHANGED <<shell, pendingSink, owner, held, clients, epoch, exitGen>>
    BY <1>3 DEF HandleAck, Ack, AckIgnored, AckCounted, AckResync, sessionVars
  <2>2. CASE UNCHANGED sessionVars
    BY <2>1, <2>2 DEF sessionVars, SessionScalarsOK, OwnershipTypesOK
  <2>3. CASE AckCounted(Head(inbox[s]).sync, Head(inbox[s]).bytes)
    <3>1. Head(inbox[s]).bytes \in Nat
      BY <1>3, ArrivedAck DEF HandleAck
    <3>2. AfterAck(Head(inbox[s]).bytes) \in Nat
      BY <3>1 DEF AfterAck, SessionScalarsOK
    <3> QED
      BY <2>1, <2>3, <3>2 DEF AckCounted, SessionScalarsOK, OwnershipTypesOK
  <2>4. CASE AttachSnapshot(sink)
    BY <2>1, <2>4 DEF AttachSnapshot, SessionScalarsOK, OwnershipTypesOK
  <2> QED
    BY <1>3, <2>2, <2>3, <2>4 DEF HandleAck, Ack, AckIgnored, AckResync
<1>4. CASE HandleDestroy(s)
  <2>1. OwnershipTypesOK'
    BY <1>4 DEF HandleDestroy, OwnershipTypesOK, SocketOrNone
  <2>2. CASE shell' = "none" /\ FreshSession /\ UNCHANGED epoch
    BY <2>1, <2>2 DEF FreshSession, SessionScalarsOK, Offsets, SocketOrNone
  <2>3. CASE UNCHANGED <<shell, epoch, sink, streaming, syncOffset, unacked, paused, exitGen>>
    BY <2>1, <2>3 DEF SessionScalarsOK
  <2> QED
    BY <1>4, <2>2, <2>3 DEF HandleDestroy
<1> QED
  BY <1>1, <1>2, <1>3, <1>4 DEF ServerStep

-----------------------------------------------------------------------------
(* The queues. *)

\* A snapshot is delivered as a sync, or not at all.
LEMMA SnapshotMsgsType ==
  ASSUME SnapInv, SessionScalarsOK, snaps # <<>>
  PROVE  SnapshotMsgs(Head(snaps)) \in Seq(ServerMsg)
<1>1. Head(snaps).offset \in Nat
  <2> DEFINE Snapshot == [gen : Nat, offset : Nat]
  <2>1. snaps \in Seq(Snapshot)
    BY DEF SnapInv, SnapTypeOK
  <2>2. \A snap \in Snapshot : snap.offset \in Nat
    OBVIOUS
  <2> HIDE DEF Snapshot
  <2>3. Head(snaps) \in Snapshot
    BY <2>1
  <2> QED
    BY <2>2, <2>3
<1>2. SyncMsgs("snapshot", Head(snaps).offset) \in Seq(ServerMsg)
  BY <1>1, SyncMsgsType DEF SnapInv
<1> HIDE DEF ServerMsg
<1> QED
  BY <1>2 DEF SnapshotMsgs

\* The message of an exit.
LEMMA ExitMsgType ==
  ASSUME NEW synced \in BOOLEAN
  PROVE  ExitMsg(synced) \in ServerMsg
BY DEF ExitMsg, ServerMsg

\* What the shell and the emulator cause to be sent.
LEMMA OutboxShellStep ==
  ASSUME SnapInv, SessionScalarsOK, WindowsOK, OutboxOK, ShellStep
  PROVE  OutboxOK'
<1>1. CASE PtyData
  <2>1. PICK n \in Nat : OnPtyData(live, n)
    BY <1>1, StreamAssumption DEF PtyData
  <2>2. CASE UNCHANGED outbox
    BY <2>2 DEF OutboxOK
  <2>3. CASE Send(live, sink, <<OutputMsg(end, n)>>)
    <3>1. OutputMsg(end, n) \in ServerMsg
      BY DEF OutputMsg, ServerMsg, Offsets, SnapInv, SnapTypeOK, RingTypeOK, SessionScalarsOK
    <3>2. <<OutputMsg(end, n)>> \in Seq(ServerMsg)
      <4> HIDE DEF ServerMsg
      <4> QED
        BY <3>1
    <3> QED
      BY <2>3, <3>2, SendType
  <2> QED
    BY <2>1, <2>2, <2>3 DEF OnPtyData
<1>2. CASE Spawn \/ ExitAfterSnapshot
  BY <1>2 DEF Spawn, ExitAfterSnapshot, AttachSnapshot, OutboxOK
<1>3. CASE ExitNow
  <2>1. ExitMsg(streaming /\ ~paused) \in ServerMsg
    BY ExitMsgType
  <2>2. <<ExitMsg(streaming /\ ~paused)>> \in Seq(ServerMsg)
    <3> HIDE DEF ServerMsg
    <3> QED
      BY <2>1
  <2> QED
    BY <1>3, <2>2, SendType DEF ExitNow
<1>4. CASE SnapshotReady
  BY <1>4, SnapshotMsgsType, SendType DEF SnapshotReady, FinishSnapshot
<1>5. CASE FinalSnapshotReady
  <2> DEFINE synced == (streaming /\ ~paused) \/ ~Superseded(Head(snaps))
             msgs   == Append(SnapshotMsgs(Head(snaps)), ExitMsg(synced))
  <2>1. synced \in BOOLEAN
    OBVIOUS
  <2>2. ExitMsg(synced) \in ServerMsg /\ SnapshotMsgs(Head(snaps)) \in Seq(ServerMsg)
    BY <1>5, <2>1, ExitMsgType, SnapshotMsgsType DEF FinalSnapshotReady
  <2> HIDE DEF synced
  <2>3. msgs \in Seq(ServerMsg)
    <3> HIDE DEF ServerMsg
    <3> QED
      BY <2>2
  <2>4. Send(live, sink, msgs)
    BY <1>5 DEF FinalSnapshotReady, FinalMsgs, synced
  <2> QED
    BY <2>3, <2>4, SendType
<1> QED
  BY <1>1, <1>2, <1>3, <1>4, <1>5 DEF ShellStep

\* What the handlers take from a socket and send.
LEMMA QueuesServerStep ==
  ASSUME NEW s \in Sockets, SnapInv, SessionScalarsOK, WindowsOK, OutboxOK, InboxOK, ServerStep(s)
  PROVE  OutboxOK' /\ InboxOK'
<1>1. InboxOK'
  <2>1. CASE HandleAttach(s) \/ HandleDetach(s) \/ HandleAck(s) \/ HandleDestroy(s)
    BY <2>1, ConsumeType DEF HandleAttach, HandleDetach, HandleAck, HandleDestroy
  <2>2. CASE HandleClose(s)
    <3> HIDE DEF ClientMsg
    <3>1. <<>> \in Seq(ClientMsg)
      OBVIOUS
    <3> QED
      BY <2>2, <3>1 DEF HandleClose, InboxOK
  <2> QED
    BY <2>1, <2>2 DEF ServerStep
<1>2. OutboxOK'
  <2>1. CASE UNCHANGED outbox
    BY <2>1 DEF OutboxOK
  <2>2. CASE HandleAttach(s) /\ AttachResume(live, s, Head(inbox[s]).since)
    <3> DEFINE since == Head(inbox[s]).since
    <3>1. since \in [epoch : Nat, offset : Offsets \cup {Unknown}]
      BY <2>2, ArrivedSince DEF HandleAttach
    <3>2. since.offset \in Nat
      BY <2>2, <3>1 DEF AttachResume, CanResume, Readable, SnapInv, SnapTypeOK, RingTypeOK,
                        Offsets, Unknown
    <3> QED
      BY <2>2, <3>2, SyncMsgsType, SendType DEF AttachResume, SnapInv
  <2>3. CASE HandleAttach(s) /\ ~AttachResume(live, s, Head(inbox[s]).since)
    BY <2>1, <2>3 DEF HandleAttach, Attach, AttachSnapshot
  <2>4. CASE HandleAck(s)
    BY <2>1, <2>4 DEF HandleAck, Ack, AckIgnored, AckCounted, AckResync, AttachSnapshot
  <2>5. CASE HandleDetach(s) \/ HandleDestroy(s) \/ HandleClose(s)
    BY <2>1, <2>5 DEF HandleDetach, HandleDestroy, HandleClose
  <2> QED
    BY <2>2, <2>3, <2>4, <2>5 DEF ServerStep
<1> QED
  BY <1>1, <1>2

-----------------------------------------------------------------------------
(* The windows. *)

\* The steps of a window, one at a time.
LEMMA WindowStepTypes ==
  ASSUME NEW w \in Windows, WindowsOK, OutboxOK, InboxOK, XtermsOK, WindowStep(w)
  PROVE  WindowsOK' /\ OutboxOK' /\ InboxOK' /\ XtermsOK'
<1>0. xt[w] \in Xterm
  BY DEF XtermsOK
<1>1. CASE Mount(w)
  <2>1. <<AttachMsg(NoSince)>> \in Seq(ClientMsg)
    <3>1. AttachMsg(NoSince) \in ClientMsg
      BY <1>0, SinceType
    <3> HIDE DEF ClientMsg
    <3> QED
      BY <3>1
  <2>2. InboxOK'
    BY <1>1, <2>1, ClientSendType DEF Mount
  <2>3. ExpectState([FreshXterm EXCEPT !.attached = TRUE]) \in Xterm
    <3>1. [FreshXterm EXCEPT !.attached = TRUE] \in Xterm
      BY FreshXtermType DEF Xterm
    <3> QED
      BY <3>1, ExpectStateType
  <2>4. XtermsOK'
    BY <1>1, <2>3 DEF Mount, XtermsOK
  <2>5. WindowsOK' /\ OutboxOK'
    BY <1>1 DEF Mount, WindowsOK, OutboxOK
  <2> QED
    BY <2>2, <2>4, <2>5
<1>2. CASE Unmount(w)
  <2>1. InboxOK'
    <3>1. PICK closed \in BOOLEAN :
            ClientSend(w, (IF xt[w].exited THEN <<>> ELSE <<[type |-> "detach"]>>)
                          \o (IF closed THEN <<[type |-> "destroy"]>> ELSE <<>>))
      BY <1>2 DEF Unmount
    <3>2. [type |-> "detach"] \in ClientMsg /\ [type |-> "destroy"] \in ClientMsg
      BY DEF ClientMsg
    <3> DEFINE first  == IF xt[w].exited THEN <<>> ELSE <<[type |-> "detach"]>>
               second == IF closed THEN <<[type |-> "destroy"]>> ELSE <<>>
    <3>3. first \in Seq(ClientMsg) /\ second \in Seq(ClientMsg)
      <4> HIDE DEF ClientMsg
      <4> QED
        BY <3>2
    <3>4. first \o second \in Seq(ClientMsg)
      <4> HIDE DEF ClientMsg, first, second
      <4> QED
        BY <3>3
    <3> QED
      BY <3>1, <3>4, ClientSendType
  <2>2. XtermsOK'
    BY <1>2, FreshXtermType DEF Unmount, XtermsOK
  <2>3. WindowsOK' /\ OutboxOK'
    BY <1>2 DEF Unmount, WindowsOK, OutboxOK
  <2> QED
    BY <2>1, <2>2, <2>3
<1>3. CASE Drop(w)
  BY <1>3, CutSocketType DEF Drop, WindowsOK, XtermsOK
<1>4. CASE Reload(w)
  <2>1. InboxOK' /\ OutboxOK' /\ sock' \in [Windows -> SocketOrNone]
    BY <1>4, CutSocketType DEF Reload
  <2>2. XtermsOK'
    BY <1>4, FreshXtermType DEF Reload, XtermsOK
  <2>3. WindowsOK'
    BY <1>4, <2>1 DEF Reload, WindowsOK
  <2> QED
    BY <2>1, <2>2, <2>3
<1>5. CASE Connect(w)
  <2>1. PICK s \in fresh :
          /\ sock' = [sock EXCEPT ![w] = s]
          /\ fresh' = fresh \ {s}
          /\ inbox' = IF xt[w].attached /\ ~known[w]
                      THEN [inbox EXCEPT ![s] = <<AttachMsg(NoSince)>>] ELSE inbox
    BY <1>5 DEF Connect
  <2>2. s \in Sockets
    BY DEF WindowsOK
  <2>3. <<AttachMsg(NoSince)>> \in Seq(ClientMsg)
    <3>1. AttachMsg(NoSince) \in ClientMsg
      BY <1>0, SinceType
    <3> HIDE DEF ClientMsg
    <3> QED
      BY <3>1
  <2>4. InboxOK'
    BY <2>1, <2>3 DEF InboxOK
  <2>5. WindowsOK'
    BY <1>5, <2>1, <2>2 DEF Connect, WindowsOK, SocketOrNone
  <2>6. OutboxOK' /\ XtermsOK'
    BY <1>5 DEF Connect, OutboxOK, XtermsOK
  <2> QED
    BY <2>4, <2>5, <2>6
<1>6. CASE Reattach(w)
  <2>1. InboxOK'
    <3>1. CASE UNCHANGED inbox
      BY <3>1 DEF InboxOK
    <3>2. CASE ClientSend(w, <<AttachMsg(Since(xt[w]))>>)
      <4>1. AttachMsg(Since(xt[w])) \in ClientMsg
        BY <1>0, SinceType
      <4>2. <<AttachMsg(Since(xt[w]))>> \in Seq(ClientMsg)
        <5> HIDE DEF ClientMsg
        <5> QED
          BY <4>1
      <4> QED
        BY <3>2, <4>2, ClientSendType
    <3> QED
      BY <1>6, <3>1, <3>2 DEF Reattach
  <2>2. XtermsOK'
    BY <1>0, <1>6, ExpectStateType DEF Reattach, XtermsOK
  <2>3. WindowsOK' /\ OutboxOK'
    BY <1>6 DEF Reattach, WindowsOK, OutboxOK
  <2> QED
    BY <2>1, <2>2, <2>3
<1>7. CASE Deliver(w)
  <2>1. sock[w] \in Sockets /\ outbox[sock[w]] # <<>>
    BY <1>7 DEF Deliver, WindowsOK, SocketOrNone
  <2>2. Head(outbox[sock[w]]) \in ServerMsg /\ Tail(outbox[sock[w]]) \in Seq(ServerMsg)
    <3> HIDE DEF ServerMsg
    <3>1. outbox[sock[w]] \in Seq(ServerMsg)
      BY <2>1 DEF OutboxOK
    <3> QED
      BY <2>1, <3>1
  <2>3. OutboxOK'
    BY <1>7, <2>2 DEF Deliver, OutboxOK
  <2>4. XtermsOK'
    <3>1. CASE UNCHANGED xt
      BY <3>1 DEF XtermsOK
    <3>2. ASSUME NEW x \in Handle(xt[w], Head(outbox[sock[w]])), xt' = [xt EXCEPT ![w] = x]
          PROVE  XtermsOK'
      <4>1. x \in Xterm
        BY <1>0, <2>2, HandleType
      <4> QED
        BY <3>2, <4>1 DEF XtermsOK
    <3> QED
      BY <1>7, <3>1, <3>2 DEF Deliver
  <2>5. WindowsOK' /\ InboxOK'
    BY <1>7 DEF Deliver, WindowsOK, InboxOK
  <2> QED
    BY <2>3, <2>4, <2>5
<1>8. CASE Parse(w)
  <2>1. Parsed(xt[w]) \in Xterm /\ AckDue(xt[w]) \in Nat /\ xt[w].sync \in Offsets
    <3>1. xt[w].sync \in Offsets
      BY <1>0 DEF Xterm
    <3> QED
      BY <1>0, <1>8, <3>1, ParsedType DEF Parse
  <2>2. XtermsOK'
    BY <1>8, <2>1 DEF Parse, XtermsOK
  <2>3. InboxOK'
    <3> DEFINE ack == [type |-> "ack", sync |-> xt[w].sync, bytes |-> AckDue(xt[w])]
    <3>1. CASE UNCHANGED inbox
      BY <3>1 DEF InboxOK
    <3>2. CASE ClientSend(w, <<ack>>)
      <4>1. ack \in ClientMsg
        BY <2>1 DEF ClientMsg
      <4> HIDE DEF ack
      <4>2. <<ack>> \in Seq(ClientMsg)
        <5> HIDE DEF ClientMsg
        <5> QED
          BY <4>1
      <4> QED
        BY <3>2, <4>2, ClientSendType
    <3> QED
      BY <1>8, <3>1, <3>2 DEF Parse
  <2>4. WindowsOK' /\ OutboxOK'
    BY <1>8 DEF Parse, WindowsOK, OutboxOK
  <2> QED
    BY <2>2, <2>3, <2>4
<1> QED
  BY <1>1, <1>2, <1>3, <1>4, <1>5, <1>6, <1>7, <1>8 DEF WindowStep

-----------------------------------------------------------------------------
\* The initial state is well-typed.
LEMMA TypeInvInit == Init => TypeInv
<1> SUFFICES ASSUME Init
             PROVE  TypeInv
  OBVIOUS
<1>1. SnapInv
  BY SnapInvInit
<1>2. SessionScalarsOK /\ OwnershipTypesOK
  BY DEF Init, SessionScalarsOK, OwnershipTypesOK, SocketOrNone, Offsets
<1>3. WindowsOK
  BY DEF Init, WindowsOK, SocketOrNone, Offsets
<1>4. OutboxOK /\ InboxOK
  <2> HIDE DEF ServerMsg, ClientMsg
  <2>1. <<>> \in Seq(ServerMsg) /\ <<>> \in Seq(ClientMsg)
    OBVIOUS
  <2> QED
    BY <2>1 DEF Init, OutboxOK, InboxOK
<1>5. XtermsOK
  BY FreshXtermType DEF Init, XtermsOK
<1> QED
  BY <1>1, <1>2, <1>3, <1>4, <1>5 DEF TypeInv

\* TypeInv is inductive.
LEMMA TypeInvStep ==
  ASSUME TypeInv, [Next]_vars
  PROVE  TypeInv'
<1> USE DEF TypeInv
<1>0. SnapInv'
  BY SnapInvStep
<1>1. CASE ShellStep
  <2>1. SessionScalarsOK' /\ OwnershipTypesOK'
    BY <1>1, ScalarsShellStep
  <2>2. OutboxOK'
    BY <1>1, OutboxShellStep
  <2>3. InboxOK' /\ XtermsOK'
    BY <1>1 DEF ShellStep, PtyData, Spawn, ExitAfterSnapshot, ExitNow, SnapshotReady,
                FinalSnapshotReady, windowVars, InboxOK, XtermsOK
  <2>4. WindowsOK'
    <3>1. UNCHANGED <<sock, fresh, known, checks, mounts>>
      BY <1>1 DEF ShellStep, PtyData, Spawn, ExitAfterSnapshot, ExitNow, SnapshotReady,
                  FinalSnapshotReady, windowVars
    <3>2. produced' \in [1 .. MaxEpoch -> Offsets]
      <4>1. CASE PtyData
        <5>1. PICK n \in Nat : produced' = [produced EXCEPT ![epoch] = end + n]
          BY <4>1, StreamAssumption DEF PtyData
        <5>2. end + n \in Offsets
          BY DEF Offsets, SnapInv, SnapTypeOK, RingTypeOK
        <5> QED
          BY <5>1, <5>2 DEF WindowsOK
      <4>2. CASE UNCHANGED produced
        BY <4>2 DEF WindowsOK
      <4> QED
        BY <1>1, <4>1, <4>2 DEF ShellStep, Spawn, ExitAfterSnapshot, ExitNow, SnapshotReady,
                                FinalSnapshotReady
    <3> QED
      BY <3>1, <3>2 DEF WindowsOK
  <2> QED
    BY <1>0, <2>1, <2>2, <2>3, <2>4
<1>2. ASSUME NEW s \in Sockets, ServerStep(s)
      PROVE  TypeInv'
  <2>1. SessionScalarsOK' /\ OwnershipTypesOK'
    BY <1>2, ScalarsServerStep
  <2>2. OutboxOK' /\ InboxOK'
    BY <1>2, QueuesServerStep
  <2>3. UNCHANGED <<windowVars, produced>>
    BY <1>2 DEF ServerStep, HandleAttach, HandleDetach, HandleAck, HandleDestroy, HandleClose
  <2>4. WindowsOK' /\ XtermsOK'
    BY <2>3 DEF windowVars, WindowsOK, XtermsOK
  <2> QED
    BY <1>0, <2>1, <2>2, <2>4
<1>3. CASE ServerRestart
  <2>1. SessionScalarsOK' /\ OwnershipTypesOK'
    BY <1>3 DEF ServerRestart, FreshSession, SessionScalarsOK, OwnershipTypesOK, SocketOrNone, Offsets
  <2>2. OutboxOK' /\ InboxOK'
    <3> HIDE DEF ServerMsg, ClientMsg
    <3>1. <<>> \in Seq(ServerMsg) /\ <<>> \in Seq(ClientMsg)
      OBVIOUS
    <3> QED
      BY <1>3, <3>1 DEF ServerRestart, OutboxOK, InboxOK
  <2>3. WindowsOK' /\ XtermsOK'
    BY <1>3 DEF ServerRestart, WindowsOK, XtermsOK, SocketOrNone
  <2> QED
    BY <1>0, <2>1, <2>2, <2>3
<1>4. ASSUME NEW w \in Windows, WindowStep(w)
      PROVE  TypeInv'
  <2>1. WindowsOK' /\ OutboxOK' /\ InboxOK' /\ XtermsOK'
    BY <1>4, WindowStepTypes
  <2>2. UNCHANGED <<shell, sessionVars, pendingSink, owner, held>>
    BY <1>4 DEF WindowStep, Mount, Unmount, Drop, Reload, Connect, Reattach, Deliver, Parse,
                serverVars
  <2>3. clients' \subseteq Sockets
    BY <1>4 DEF WindowStep, Mount, Unmount, Drop, Reload, Connect, Reattach, Deliver, Parse,
                serverVars, OwnershipTypesOK, WindowsOK
  <2>4. SessionScalarsOK' /\ OwnershipTypesOK'
    BY <2>2, <2>3 DEF sessionVars, SessionScalarsOK, OwnershipTypesOK
  <2> QED
    BY <1>0, <2>1, <2>4
<1>5. CASE UNCHANGED vars
  <2>1. UNCHANGED <<shell, sessionVars, pendingSink, owner, held, clients, windowVars, inbox, outbox,
                    produced>>
    BY <1>5 DEF vars, serverVars
  <2> QED
    BY <1>0, <2>1 DEF sessionVars, windowVars, SessionScalarsOK, OwnershipTypesOK, WindowsOK,
                      OutboxOK, InboxOK, XtermsOK
<1> QED
  BY <1>1, <1>2, <1>3, <1>4, <1>5 DEF Next

\* Every variable keeps its type in every reachable state; in particular no offset is ever negative
\* and unacked never drops below zero.
THEOREM TypeCorrect == Spec => []TypeOK
BY TypeInvInit, TypeInvStep, TypeInvIsTypeOK, PTL DEF Spec

-----------------------------------------------------------------------------
(***************************************************************************)
(* Who is sent what.  Queues only grow by Send, to the session's client,   *)
(* which is the owner, or to the socket whose attach is being handled,     *)
(* which becomes the owner.                                                *)
(***************************************************************************)
SentTo(s) == \A t \in Sockets : Len(outbox'[t]) > Len(outbox[t]) => t = s

NothingSent == \A t \in Sockets : ~(Len(outbox'[t]) > Len(outbox[t]))

\* A queue is a sequence, so its length is a number.
LEMMA OutboxLen ==
  ASSUME OutboxOK, NEW t \in Sockets
  PROVE  Len(outbox[t]) \in Nat
<1> HIDE DEF ServerMsg
<1>1. outbox[t] \in Seq(ServerMsg)
  BY DEF OutboxOK
<1> QED
  BY <1>1

\* Send grows one queue at most.
LEMMA SendOnlyTo ==
  ASSUME NEW s, NEW msgs, NEW up, OutboxOK, Send(up, s, msgs)
  PROVE  SentTo(s)
<1> SUFFICES ASSUME NEW t \in Sockets, t # s
             PROVE  ~(Len(outbox'[t]) > Len(outbox[t]))
  BY DEF SentTo
<1>1. outbox'[t] = outbox[t]
  BY DEF Send, OutboxOK
<1> QED
  BY <1>1, OutboxLen

\* A step that leaves the queues alone sends nothing.
LEMMA SilentStep ==
  ASSUME OutboxOK, UNCHANGED outbox
  PROVE  NothingSent
BY OutboxLen DEF NothingSent

\* The windows take from the queues, or lose them.
LEMMA WindowsSendNothing ==
  ASSUME NEW w \in Windows, OutboxOK, WindowsOK, WindowStep(w)
  PROVE  NothingSent
<1> HIDE DEF ServerMsg
<1>1. CASE Mount(w) \/ Unmount(w) \/ Connect(w) \/ Reattach(w) \/ Parse(w)
  BY <1>1, SilentStep DEF Mount, Unmount, Connect, Reattach, Parse
<1>2. CASE Drop(w) \/ Reload(w)
  <2>1. outbox' = [outbox EXCEPT ![sock[w]] = <<>>] \/ outbox' = outbox
    BY <1>2 DEF Drop, Reload, CutSocket
  <2>2. \A t \in Sockets : outbox'[t] = outbox[t] \/ outbox'[t] = <<>>
    BY <2>1 DEF OutboxOK
  <2> QED
    BY <2>2, OutboxLen DEF NothingSent
<1>3. CASE Deliver(w)
  <2>1. outbox' = [outbox EXCEPT ![sock[w]] = Tail(@)] /\ outbox[sock[w]] # <<>>
    BY <1>3 DEF Deliver
  <2> SUFFICES ASSUME NEW t \in Sockets
               PROVE  ~(Len(outbox'[t]) > Len(outbox[t]))
    BY DEF NothingSent
  <2>2. outbox[t] \in Seq(ServerMsg)
    BY DEF OutboxOK
  <2>3. CASE t = sock[w]
    <3>1. outbox'[t] = Tail(outbox[t]) /\ outbox[t] # <<>>
      BY <2>1, <2>3 DEF OutboxOK
    <3> QED
      BY <2>2, <3>1
  <2>4. CASE t # sock[w]
    <3>1. outbox'[t] = outbox[t]
      BY <2>1, <2>4 DEF OutboxOK
    <3> QED
      BY <3>1, OutboxLen
  <2> QED
    BY <2>3, <2>4
<1> QED
  BY <1>1, <1>2, <1>3 DEF WindowStep

Recipient == IF owner' = NoSocket THEN owner ELSE owner'

\* Only the owner of the terminal, or the socket just taking it over, is sent anything of it: a window
\* that lost the terminal gets no further output, no late snapshot and no exit (TerminalSession's
\* sink against server.ts terminalOwners).
THEOREM DeliveryCorrect == Spec => OnlyOwnerIsSent
<1> DEFINE Inv == TypeInv /\ OwnerInv
<1>1. Init => Inv
  BY TypeInvInit, OwnerInvInit
<1>2. Inv /\ [Next]_vars => Inv'
  BY TypeInvStep, OwnerInvStep
<1>3. Inv /\ [Next]_vars
        => [\A s \in Sockets : Len(outbox'[s]) > Len(outbox[s])
              => s = IF owner' = NoSocket THEN owner ELSE owner']_vars
  <2> SUFFICES ASSUME TypeInv, OwnerInv, Next
               PROVE  NothingSent \/ SentTo(Recipient)
    BY DEF NothingSent, SentTo, Recipient
  <2> USE DEF TypeInv
  <2>0. ASSUME SentTo(sink), owner' \in {owner, NoSocket}
        PROVE  NothingSent \/ SentTo(Recipient)
    <3>1. CASE sink = NoSocket
      BY <2>0, <3>1, SessionAssumption DEF SentTo, NothingSent
    <3>2. CASE sink # NoSocket
      BY <2>0, <3>2 DEF OwnerInv, SinkIsOwner, Recipient
    <3> QED
      BY <3>1, <3>2
  <2>1. CASE ShellStep
    <3>1. SentTo(sink) \/ NothingSent
      BY <2>1, SendOnlyTo, SilentStep
         DEF ShellStep, PtyData, OnPtyData, Spawn, ExitAfterSnapshot, AttachSnapshot, ExitNow,
             SnapshotReady, FinishSnapshot, FinalSnapshotReady
    <3>2. owner' \in {owner, NoSocket}
      BY <2>1 DEF ShellStep, PtyData, Spawn, ExitAfterSnapshot, ExitNow, SnapshotReady,
                  FinalSnapshotReady, RemoveSession
    <3> QED
      BY <2>0, <3>1, <3>2
  <2>2. ASSUME NEW s \in Sockets, ServerStep(s)
        PROVE  NothingSent \/ SentTo(Recipient)
    <3>1. CASE HandleAttach(s)
      <4>1. owner' = s /\ s # NoSocket
        BY <3>1, SessionAssumption DEF HandleAttach
      <4>2. SentTo(s) \/ NothingSent
        BY <3>1, SendOnlyTo, SilentStep DEF HandleAttach, Attach, AttachResume, AttachSnapshot
      <4> QED
        BY <4>1, <4>2 DEF Recipient
    <3>2. CASE HandleDetach(s) \/ HandleAck(s) \/ HandleDestroy(s) \/ HandleClose(s)
      BY <3>2, SilentStep DEF HandleDetach, HandleAck, Ack, AckIgnored, AckCounted, AckResync,
                              AttachSnapshot, HandleDestroy, HandleClose
    <3> QED
      BY <2>2, <3>1, <3>2 DEF ServerStep
  <2>3. CASE ServerRestart
    <3>1. \A t \in Sockets : outbox'[t] = <<>>
      BY <2>3 DEF ServerRestart
    <3> QED
      BY <3>1, OutboxLen DEF NothingSent
  <2>4. CASE \E w \in Windows : WindowStep(w)
    BY <2>4, WindowsSendNothing
  <2> QED
    BY <2>1, <2>2, <2>3, <2>4 DEF Next
<1> QED
  BY <1>1, <1>2, <1>3, PTL DEF Spec, OnlyOwnerIsSent
=============================================================================
