--------------------------- MODULE TerminalStream ---------------------------
(***************************************************************************)
(* One terminal from the shell to the screens that show it: the session    *)
(* (TerminalSession), the manager that spawns it and the sockets that own  *)
(* it (server.ts), and the terminal panel of each window (OutputStream and *)
(* the WsClient of client.ts).                                             *)
(*                                                                         *)
(* A socket is a pair of FIFO channels with a name of its own.  The two    *)
(* ends notice its end at different times, so a window may have a new      *)
(* socket, and an attach on it, before the server handles the close of the *)
(* old one.                                                                *)
(***************************************************************************)
EXTENDS TerminalSession, OutputStream

CONSTANTS
  Windows,            \* windows with a panel for this terminal
  ChunkSizes,         \* sizes of the chunks the PTY delivers
  MaxOut,             \* bound: bytes a spawn produces
  MaxEpoch,           \* bound: spawns of the shell
  MaxMounts,          \* bound: panel mounts, over all windows
  Overlap             \* may a window attach again on a socket while an earlier attach of its
                      \* own, or the version check of a reconnect, is still outstanding?

ASSUME StreamAssumption ==
  /\ ChunkSizes \subseteq Nat \ {0}
  /\ MaxOut \in Nat /\ MaxEpoch \in Nat /\ MaxMounts \in Nat
  /\ Overlap \in BOOLEAN

VARIABLES
  pendingSink,   \* the client a starting shell will be bound to, or NoSocket
  owner,         \* terminalOwners: the socket that owns the terminal, or NoSocket
  held,          \* sockets whose ClientState.terminals has the terminal
  clients,       \* sockets the server has not seen close
  inbox,         \* client-to-server messages in flight, per socket
  sock,          \* each window's open socket, or NoSocket
  fresh,         \* sockets not used yet
  known,         \* WsClient.wasConnected, per window
  checks,        \* version checks in flight, per window
  xt,            \* each window's panel and its xterm
  mounts,        \* panel mounts so far
  produced       \* history: bytes each spawn has produced

serverVars == <<shell, sessionVars, pendingSink, owner, held, clients>>
windowVars == <<sock, fresh, known, checks, xt, mounts>>
vars == <<serverVars, windowVars, inbox, outbox, produced>>

live == {sock[w] : w \in Windows} \ {NoSocket}

Init ==
  /\ EmptyRing
  /\ shell = "none" /\ epoch = 0
  /\ sink = NoSocket /\ streaming = FALSE /\ syncOffset = 0 /\ generation = 0
  /\ unacked = 0 /\ paused = FALSE /\ snaps = <<>> /\ exitGen = 0
  /\ outbox = [s \in Sockets |-> <<>>]
  /\ inbox = [s \in Sockets |-> <<>>]
  /\ pendingSink = NoSocket /\ owner = NoSocket /\ held = {} /\ clients = {}
  /\ sock = [w \in Windows |-> NoSocket]
  /\ fresh = Sockets
  /\ known = [w \in Windows |-> FALSE]
  /\ checks = [w \in Windows |-> 0]
  /\ xt = [w \in Windows |-> FreshXterm]
  /\ mounts = 0
  /\ produced = [e \in 1 .. MaxEpoch |-> 0]

-----------------------------------------------------------------------------
(* The shell. *)

PtyData ==
  /\ shell \in {"running", "exiting"}
  /\ \E n \in ChunkSizes :
       /\ end + n =< MaxOut
       /\ OnPtyData(live, n)
       /\ produced' = [produced EXCEPT ![epoch] = end + n]
  /\ UNCHANGED <<shell, epoch, sink, streaming, syncOffset, generation, snaps, exitGen,
                 pendingSink, owner, held, clients, inbox, windowVars>>

\* The environment of a starting shell is ready: the manager spawns it and binds the latest client.
Spawn ==
  /\ shell = "starting" /\ epoch < MaxEpoch
  /\ shell' = "running" /\ epoch' = epoch + 1
  /\ chunks' = <<>> /\ start' = 0 /\ end' = 0
  /\ syncOffset' = 0 /\ streaming' = FALSE /\ unacked' = 0 /\ paused' = FALSE /\ exitGen' = 0
  /\ sink' = pendingSink /\ pendingSink' = NoSocket
  /\ IF pendingSink = NoSocket
     THEN generation' = 0 /\ pins' = {} /\ snaps' = <<>>
     ELSE /\ generation' = 1
          /\ pins' = {[id |-> 1, offset |-> 0]}
          /\ snaps' = <<[gen |-> 1, offset |-> 0]>>
  /\ UNCHANGED <<owner, held, clients, inbox, outbox, produced, windowVars>>

\* The manager's onExit and the server's hook: the session and its ownership are gone.
RemoveSession ==
  /\ shell' = "none"
  /\ FreshSession
  /\ owner' = NoSocket
  /\ held' = held \ {owner}
  /\ UNCHANGED <<epoch, pendingSink, clients>>

ExitAfterEarlierSnapshot ==   \* mutant: the generation is read before the attach moves it on
  /\ shell = "running" /\ sink # NoSocket /\ paused
  /\ shell' = "exiting" /\ exitGen' = generation
  /\ AttachSnapshot(sink)
  /\ UNCHANGED <<epoch, pendingSink, owner, held, clients, inbox, produced, windowVars>>

\* onExited with a client that is behind: it is attached afresh first, for the tail of the output.
ExitAfterSnapshot ==
  /\ shell = "running" /\ sink # NoSocket /\ paused
  /\ shell' = "exiting" /\ exitGen' = generation + 1
  /\ AttachSnapshot(sink)
  /\ UNCHANGED <<epoch, pendingSink, owner, held, clients, inbox, produced, windowVars>>

ExitNow ==
  /\ shell = "running" /\ ~(sink # NoSocket /\ paused)
  /\ Send(live, sink, <<ExitMsg(streaming /\ ~paused)>>)
  /\ RemoveSession
  /\ UNCHANGED <<inbox, produced, windowVars>>

SnapshotReady ==
  /\ snaps # <<>>
  /\ \/ shell = "running"
     \/ shell = "exiting" /\ Head(snaps).gen # exitGen
  /\ FinishSnapshot(live)
  /\ UNCHANGED <<shell, epoch, exitGen, pendingSink, owner, held, clients, inbox, produced,
                 windowVars>>

\* The final snapshot is ready, or was superseded: onExited goes on to tell whoever is attached.
FinalSnapshotReady ==
  /\ shell = "exiting" /\ snaps # <<>> /\ Head(snaps).gen = exitGen
  /\ Send(live, sink, FinalMsgs(Head(snaps)))
  /\ RemoveSession
  /\ UNCHANGED <<inbox, produced, windowVars>>

-----------------------------------------------------------------------------
(* The server's message handlers. *)

Consume(s) == inbox' = [inbox EXCEPT ![s] = Tail(@)]

Arrived(s, type) == s \in clients /\ inbox[s] # <<>> /\ Head(inbox[s]).type = type

FromAnyone(s) == TRUE   \* mutant: ownership is not checked

FromOwner(s) == owner = s

\* The terminal is detached from its owner s, which is forgotten.
Release(s) ==
  /\ Detach
  /\ pendingSink' = NoSocket
  /\ held' = held \ {s}
  /\ owner' = NoSocket

NoRelease == UNCHANGED <<generation, sink, streaming, pendingSink, held, owner>>

\* terminal_attach: ownership is taken, then a running session binds the client at once, and a
\* starting one when it has spawned, unless a later attach or a detach comes first.
HandleAttach(s) ==
  /\ Arrived(s, "attach")
  /\ Consume(s)
  /\ held' = (held \ {owner}) \cup {s}
  /\ owner' = s
  /\ \/ /\ shell \in {"running", "exiting"}
        /\ Attach(live, s, Head(inbox[s]).since)
        /\ UNCHANGED <<shell, pendingSink>>
     \/ /\ shell \in {"none", "starting"}
        /\ shell' = "starting"
        /\ pendingSink' = s
        /\ UNCHANGED <<chunks, start, end, pins, sink, streaming, syncOffset, generation,
                       unacked, paused, snaps, outbox>>
  /\ UNCHANGED <<epoch, exitGen, clients, produced, windowVars>>

\* terminal_detach counts only from the owner.
HandleDetach(s) ==
  /\ Arrived(s, "detach")
  /\ Consume(s)
  /\ IF FromOwner(s) THEN Release(s) ELSE NoRelease
  /\ UNCHANGED <<shell, chunks, start, end, pins, epoch, syncOffset, unacked, paused, snaps,
                 exitGen, clients, outbox, produced, windowVars>>

HandleAck(s) ==
  /\ Arrived(s, "ack")
  /\ Consume(s)
  /\ IF FromOwner(s) /\ shell \in {"running", "exiting"}
     THEN Ack(Head(inbox[s]).sync, Head(inbox[s]).bytes)
     ELSE UNCHANGED <<sessionVars, outbox>>
  /\ UNCHANGED <<shell, pendingSink, owner, held, clients, produced, windowVars>>

\* terminal_destroy: from the owner, or for a terminal nobody owns.
HandleDestroy(s) ==
  /\ Arrived(s, "destroy")
  /\ Consume(s)
  /\ IF owner \in {NoSocket, s}
     THEN /\ shell' = "none"
          /\ FreshSession
          /\ held' = held \ {s}
          /\ owner' = NoSocket
     ELSE UNCHANGED <<shell, chunks, start, end, pins, sink, streaming, syncOffset, generation,
                      unacked, paused, snaps, exitGen, held, owner>>
  /\ pendingSink' = IF owner \in {NoSocket, s} THEN NoSocket ELSE pendingSink
  /\ UNCHANGED <<epoch, clients, outbox, produced, windowVars>>

\* detachClientTerminals: only what the client still holds is detached.
DetachClient(s) == IF s \in held THEN Release(s) ELSE NoRelease

\* The server sees a socket close. What had not arrived on it is lost.
HandleClose(s) ==
  /\ s \in clients /\ s \notin live
  /\ clients' = clients \ {s}
  /\ inbox' = [inbox EXCEPT ![s] = <<>>]
  /\ DetachClient(s)
  /\ UNCHANGED <<shell, chunks, start, end, pins, epoch, syncOffset, unacked, paused, snaps,
                 exitGen, outbox, produced, windowVars>>

\* The server crashes and comes back: every shell and every socket is gone.
ServerRestart ==
  /\ shell # "none" /\ epoch < MaxEpoch
  /\ shell' = "none"
  /\ FreshSession
  /\ pendingSink' = NoSocket /\ owner' = NoSocket /\ held' = {} /\ clients' = {}
  /\ inbox' = [s \in Sockets |-> <<>>]
  /\ outbox' = [s \in Sockets |-> <<>>]
  /\ sock' = [w \in Windows |-> NoSocket]
  /\ UNCHANGED <<epoch, produced, fresh, known, checks, xt, mounts>>

-----------------------------------------------------------------------------
(* The windows. *)

\* What a window sends while its socket is down waits in pendingMessages, which the reconnect
\* clears; only the attach of a window that never connected is delivered, by Connect.
ClientSend(w, msgs) ==
  inbox' = IF sock[w] = NoSocket THEN inbox ELSE [inbox EXCEPT ![sock[w]] = @ \o msgs]

AttachMsg(since) == [type |-> "attach", since |-> since]

\* A panel mounts, with a fresh xterm, and attaches once it is open. (A version check is normally
\* over by then.)
Mount(w) ==
  /\ ~xt[w].attached /\ mounts < MaxMounts
  /\ Overlap \/ checks[w] = 0
  /\ mounts' = mounts + 1
  /\ xt' = [xt EXCEPT ![w] = ExpectState([FreshXterm EXCEPT !.attached = TRUE])]
  /\ ClientSend(w, <<AttachMsg(NoSince)>>)
  /\ UNCHANGED <<serverVars, outbox, produced, sock, fresh, known, checks>>

\* A panel unmounts (normally with its attach answered): the shell stays, or goes with a panel that was closed.
Unmount(w) ==
  /\ xt[w].attached /\ mounts < MaxMounts
  /\ Overlap \/ ~xt[w].awaiting \/ sock[w] = NoSocket
  /\ \E closed \in BOOLEAN :
       ClientSend(w, (IF xt[w].exited THEN <<>> ELSE <<[type |-> "detach"]>>)
                     \o (IF closed THEN <<[type |-> "destroy"]>> ELSE <<>>))
  /\ xt' = [xt EXCEPT ![w] = FreshXterm]
  /\ UNCHANGED <<serverVars, outbox, produced, sock, fresh, known, checks, mounts>>

\* Socket s goes down: nothing sent on it arrives any more, and only a prefix of what the window
\* sent still reaches the server.
CutSocket(w) ==
  IF sock[w] = NoSocket THEN UNCHANGED <<inbox, outbox, sock>>
  ELSE /\ outbox' = [outbox EXCEPT ![sock[w]] = <<>>]
       /\ \E k \in 0 .. Len(inbox[sock[w]]) :
            inbox' = [inbox EXCEPT ![sock[w]] = SubSeq(@, 1, k)]
       /\ sock' = [sock EXCEPT ![w] = NoSocket]

Drop(w) ==
  /\ sock[w] # NoSocket
  /\ CutSocket(w)
  /\ UNCHANGED <<serverVars, produced, fresh, known, checks, xt, mounts>>

\* The page of a window is reloaded: everything in it is gone, its socket too.
Reload(w) ==
  /\ mounts < MaxMounts /\ known[w]
  /\ CutSocket(w)
  /\ known' = [known EXCEPT ![w] = FALSE]
  /\ checks' = [checks EXCEPT ![w] = 0]
  /\ xt' = [xt EXCEPT ![w] = FreshXterm]
  /\ UNCHANGED <<serverVars, produced, fresh, mounts>>

\* What a window sent on its earlier sockets is normally handled or lost by the time it has a new one
\* (the reconnect waits 2 s); the server may still see the old one close later.
Settled(w) == checks[w] = 0 /\ \A s \in clients \ live : inbox[s] = <<>>

\* onopen: a first connection flushes pendingMessages, a later one starts a version check.
Connect(w) ==
  /\ sock[w] = NoSocket
  /\ Overlap \/ Settled(w)
  /\ \E s \in fresh :
       /\ sock' = [sock EXCEPT ![w] = s]
       /\ fresh' = fresh \ {s}
       /\ clients' = clients \cup {s}
       /\ inbox' = IF xt[w].attached /\ ~known[w]
                   THEN [inbox EXCEPT ![s] = <<AttachMsg(NoSince)>>]
                   ELSE inbox
  /\ known' = [known EXCEPT ![w] = TRUE]
  /\ checks' = [checks EXCEPT ![w] = IF known[w] THEN @ + 1 ELSE @]
  /\ UNCHANGED <<shell, sessionVars, pendingSink, owner, held, outbox, produced, xt, mounts>>

\* A version check is over, for the same build: the reconnect listener attaches from where the
\* xterm is.
Reattach(w) ==
  /\ checks[w] > 0
  /\ checks' = [checks EXCEPT ![w] = @ - 1]
  /\ IF xt[w].attached /\ ~xt[w].exited
     THEN /\ xt' = [xt EXCEPT ![w] = ExpectState(@)]
          /\ ClientSend(w, <<AttachMsg(Since(xt[w]))>>)
     ELSE UNCHANGED <<xt, inbox>>
  /\ UNCHANGED <<serverVars, outbox, produced, sock, fresh, known, mounts>>

\* The next message of the server reaches the window; without a panel nobody listens to it.
Handle(x, msg) ==
  CASE msg.type = "state"  -> ApplyState(x, msg)
    [] msg.type = "output" -> {Receive(x, msg)}
    [] msg.type = "exit"   -> {[x EXCEPT !.exited = TRUE]}

Deliver(w) ==
  /\ sock[w] # NoSocket /\ outbox[sock[w]] # <<>>
  /\ outbox' = [outbox EXCEPT ![sock[w]] = Tail(@)]
  /\ IF xt[w].attached
     THEN \E x \in Handle(xt[w], Head(outbox[sock[w]])) : xt' = [xt EXCEPT ![w] = x]
     ELSE UNCHANGED xt
  /\ UNCHANGED <<serverVars, inbox, produced, sock, fresh, known, checks, mounts>>

\* xterm has parsed the oldest write; its callback may send an ack.
Parse(w) ==
  /\ xt[w].writes # <<>>
  /\ xt' = [xt EXCEPT ![w] = Parsed(@)]
  /\ IF AckDue(xt[w]) > 0
     THEN ClientSend(w, <<[type |-> "ack", sync |-> xt[w].sync, bytes |-> AckDue(xt[w])]>>)
     ELSE UNCHANGED inbox
  /\ UNCHANGED <<serverVars, outbox, produced, sock, fresh, known, checks, mounts>>

-----------------------------------------------------------------------------
ShellStep == PtyData \/ Spawn \/ ExitAfterSnapshot \/ ExitNow \/ SnapshotReady \/ FinalSnapshotReady

ServerStep(s) ==
  HandleAttach(s) \/ HandleDetach(s) \/ HandleAck(s) \/ HandleDestroy(s) \/ HandleClose(s)

WindowStep(w) ==
  \/ Mount(w) \/ Unmount(w) \/ Drop(w) \/ Reload(w)
  \/ Connect(w) \/ Reattach(w) \/ Deliver(w) \/ Parse(w)

Next ==
  \/ ShellStep
  \/ \E s \in Sockets : ServerStep(s)
  \/ ServerRestart
  \/ \E w \in Windows : WindowStep(w)

Spec == Init /\ [][Next]_vars

-----------------------------------------------------------------------------
(* Types. *)

Offsets == Nat
SocketOrNone == Sockets \cup {NoSocket}

ServerMsg ==
  [type : {"state"}, mode : {"resume", "snapshot"}, epoch : Nat, offset : Offsets]
    \cup [type : {"output"}, epoch : Nat, offset : Offsets, n : Nat]
    \cup [type : {"exit"}, synced : BOOLEAN]

ClientMsg ==
  [type : {"attach"}, since : [epoch : Nat, offset : Offsets \cup {Unknown}]]
    \cup [type : {"detach", "destroy"}]
    \cup [type : {"ack"}, sync : Offsets, bytes : Nat]

Frame == [type : {"output"}, epoch : Nat, offset : Offsets, n : Nat]

Xterm ==
  [attached : BOOLEAN, exited : BOOLEAN, awaiting : BOOLEAN, epoch : Nat,
   next : Offsets \cup {Unknown}, sync : Offsets, queued : Seq(Frame),
   writes : Seq([sync : Offsets, n : Nat]), unacked : Nat,
   shownEpoch : Nat, shown : Offsets, gap : BOOLEAN, repeat : BOOLEAN, mixed : BOOLEAN,
   used : SUBSET Offsets, stale : BOOLEAN]

SessionTypeOK ==
  /\ RingTypeOK
  /\ shell \in {"none", "starting", "running", "exiting"}
  /\ epoch \in Nat
  /\ sink \in SocketOrNone
  /\ streaming \in BOOLEAN
  /\ syncOffset \in Offsets
  /\ generation \in Nat
  /\ unacked \in Nat
  /\ paused \in BOOLEAN
  /\ snaps \in Seq([gen : Nat, offset : Offsets])
  /\ exitGen \in Nat
  /\ outbox \in [Sockets -> Seq(ServerMsg)]

TypeOK ==
  /\ SessionTypeOK
  /\ pendingSink \in SocketOrNone
  /\ owner \in SocketOrNone
  /\ held \subseteq Sockets
  /\ clients \subseteq Sockets
  /\ inbox \in [Sockets -> Seq(ClientMsg)]
  /\ sock \in [Windows -> SocketOrNone]
  /\ fresh \subseteq Sockets
  /\ known \in [Windows -> BOOLEAN]
  /\ checks \in [Windows -> Nat]
  /\ xt \in [Windows -> Xterm]
  /\ mounts \in Nat
  /\ produced \in [1 .. MaxEpoch -> Offsets]

-----------------------------------------------------------------------------
(* Safety. *)

\* The client a session streams to is the one socket that owns the terminal, the server still knows
\* it, and nothing else believes it owns it: a socket that closes late, after another attached,
\* detaches nobody.
SinkIsOwner ==
  /\ sink # NoSocket => sink = owner
  /\ pendingSink # NoSocket => pendingSink = owner
  /\ held = {owner} \ {NoSocket}
  /\ held \subseteq clients

\* A client is bound to a session that exists, or waits for one that starts; and the exit of a shell
\* always has a snapshot to wait for, so it is told in the end however clients come and go meanwhile.
BindingOK ==
  /\ sink # NoSocket => shell \in {"running", "exiting"}
  /\ pendingSink # NoSocket => shell = "starting"
  /\ shell = "exiting" => \E i \in 1 .. Len(snaps) : snaps[i].gen = exitGen

\* The bytes an xterm shows are exactly those the shell wrote, in order, up to the offset it will
\* resume from: across drops, reconnects, flow-control resyncs, remounts and respawns none is missing
\* and none is there twice. (Terminal.tsx OutputStream against terminal-session.ts attach and goLive.)
\* A screen that was given bytes of a shell that is gone is the subject of NeverMistaken; its next
\* snapshot makes it exact again.
ScreenExact ==
  \A w \in Windows :
    xt[w].attached /\ ~xt[w].mixed =>
      /\ ~xt[w].gap /\ ~xt[w].repeat
      /\ xt[w].next # Unknown => /\ xt[w].next = xt[w].shown
                                 /\ xt[w].epoch = xt[w].shownEpoch
                                 /\ xt[w].shown =< produced[xt[w].epoch]

\* "every spawn gets a random `epoch` so offsets from a shell that no longer exists can never be
\* mistaken for offsets into its replacement" (TERMINALS.md, Stream offsets and the resume ring).
NeverMistaken == \A w \in Windows : ~xt[w].mixed

\* Only the owner of a terminal is sent anything of it: a window that lost it to another, or that
\* detached, gets no output, no late snapshot and no exit (TERMINALS.md, Ownership).
OnlyOwnerIsSent ==
  [][\A s \in Sockets : Len(outbox'[s]) > Len(outbox[s]) =>
       s = IF owner' = NoSocket THEN owner ELSE owner']_vars
=============================================================================
