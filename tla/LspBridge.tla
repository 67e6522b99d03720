----------------------------- MODULE LspBridge -----------------------------
(***************************************************************************)
(* One language server for each worktree, bridged over WebSockets to the   *)
(* windows: StdioLspManager and WorktreeLspManager on Loxel's server, and  *)
(* the reconnect policy of createLspConnection in each window.             *)
(*                                                                         *)
(* A window that connects claims its worktree's key; whoever held it is    *)
(* detached and told it was replaced.  The binary is looked up while the   *)
(* socket is already open, so that the window may leave, be replaced, or   *)
(* the user change the repository's trust, before there is a process.      *)
(* The window decides by the close code whether it comes back.             *)
(***************************************************************************)
EXTENDS Naturals, FiniteSets

CONSTANTS Windows, Worktrees, Sockets, None, MaxFailures, MaxEvents

ASSUME LspAssumption ==
  /\ None \notin Sockets \cup Worktrees \cup Windows
  /\ MaxFailures \in Nat \ {0}
  /\ MaxEvents \in Nat

VARIABLES
  target,    \* window -> the worktree it wants a server for
  state,     \* window -> LspConnectionState, a stop by its reason
  failures,  \* window -> failures in a row
  resumed,   \* window -> Loxel's server came back during the attempt
  cur,       \* window -> the socket of its attempt or link
  owed,      \* windows whose app socket has yet to reconnect
  sock,      \* socket -> its two ends, what it carries and its process
  byKey,     \* _sessionsByKey: worktree -> socket
  pending,   \* sockets in _pendingFrames: their binary is being resolved
  live,      \* sockets in sessions
  trust,     \* worktree -> the user trusts its repository
  life,      \* Loxel's server: "up", "stopping" (torn down) or "down"
  events     \* what users and failures may still do

client == <<target, state, failures, resumed, cur, owed>>
server == <<byKey, pending, live>>
vars == <<client, sock, server, trust, life, events>>

Stops == {"replaced", "startFailed", "crashed", "unreachable"}
States == {"idle", "connecting", "connected", "reconnecting"} \cup Stops
Codes == {"none", "replaced", "startFailed", "restart", "exited", "lost"}

(***************************************************************************)
(* A socket.  cl and sv are its ends; code is the close its server end     *)
(* sent, or "lost" when the server is gone.  hello is the client's         *)
(* `initialize`, the first frame.  proc is the server process started for  *)
(* it: "stopping" after SIGTERM, "exited" until its exit is handled.       *)
(***************************************************************************)
SockType == [win: Windows \cup {None}, wt: Worktrees \cup {None},
             cl: {"closed", "connecting", "open"},
             sv: {"closed", "opening", "open"},
             code: Codes, hello: {"none", "wire", "held", "got"},
             ctx: BOOLEAN, proc: {"none", "running", "exited", "stopping"}]

Unused == [win |-> None, wt |-> None, cl |-> "closed", sv |-> "closed",
           code |-> "none", hello |-> "none", ctx |-> FALSE, proc |-> "none"]

Tidy(r) == IF r.cl = "closed" /\ r.sv = "closed" /\ r.proc = "none"
           THEN Unused ELSE r

Init ==
  /\ target = [w \in Windows |-> None]
  /\ state = [w \in Windows |-> "idle"]
  /\ failures = [w \in Windows |-> 0]
  /\ resumed = [w \in Windows |-> FALSE]
  /\ cur = [w \in Windows |-> None]
  /\ owed = {}
  /\ sock = [s \in Sockets |-> Unused]
  /\ byKey = [k \in Worktrees |-> None]
  /\ pending = {} /\ live = {}
  /\ trust = [k \in Worktrees |-> FALSE]
  /\ life = "up"
  /\ events = MaxEvents

-----------------------------------------------------------------------------
(* The window: createLspConnection. *)

(* release: the window's end of its socket is closed, and its events are
   stale from now on (they are matched with cur). *)
Released(w) == IF cur[w] = None THEN sock
               ELSE [sock EXCEPT ![cur[w]] = Tidy([@ EXCEPT !.cl = "closed"])]

(* With Loxel's server gone the connection is refused. *)
Opening(w, k) == [Unused EXCEPT !.win = w, !.wt = k, !.cl = "connecting",
                     !.sv = IF life = "up" THEN "opening" ELSE "closed",
                     !.code = IF life = "up" THEN "none" ELSE "lost"]

Attempt(w, k) ==
  LET base == Released(w)
      free == {s \in Sockets : base[s] = Unused}
      s == CHOOSE s \in free : TRUE
  IN /\ free # {}
     /\ sock' = [base EXCEPT ![s] = Opening(w, k)]
     /\ cur' = [cur EXCEPT ![w] = s]
     /\ state' = [state EXCEPT ![w] = "connecting"]

LetGo(w, st) ==
  /\ sock' = Released(w)
  /\ cur' = [cur EXCEPT ![w] = None]
  /\ state' = [state EXCEPT ![w] = st]

(* The close codes after which the window does not come back by itself. *)
StopCodes == {"replaced", "startFailed"}

(* mutant: the window tries once more than it may. *)
GivesUpLate(f) == f > MaxFailures
GivesUp(f) == f >= MaxFailures

(* mutant: a window that was resumed during an attempt waits like any other. *)
NeverAtOnce(w) == FALSE
(* Loxel's server came back during the attempt that failed. *)
AtOnce(w) == resumed[w]

(* handleClose.  stable: the connection stayed up long enough to end the run
   of failures. *)
HandleClose(w, code, stable) ==
  LET f == (IF stable THEN 0 ELSE failures[w]) + 1 IN
  \/ /\ code \in StopCodes
     /\ LetGo(w, code) /\ UNCHANGED <<failures, resumed>>
  \/ /\ code = "restart"
     /\ Attempt(w, target[w]) /\ UNCHANGED <<failures, resumed>>
  \/ /\ code \notin StopCodes \cup {"restart"} /\ AtOnce(w)
     /\ resumed' = [resumed EXCEPT ![w] = FALSE]
     /\ failures' = [failures EXCEPT ![w] = 0]
     /\ Attempt(w, target[w])
  \/ /\ code \notin StopCodes \cup {"restart"} /\ ~AtOnce(w)
     /\ failures' = [failures EXCEPT ![w] = f]
     /\ LetGo(w, IF ~GivesUp(f) THEN "reconnecting"
                 ELSE IF code = "exited" THEN "crashed" ELSE "unreachable")
     /\ UNCHANGED resumed

Event == events > 0 /\ events' = events - 1

(* connect, to the worktree the window shows. *)
Connect(w, k) ==
  /\ Event /\ target[w] # k
  /\ target' = [target EXCEPT ![w] = k]
  /\ failures' = [failures EXCEPT ![w] = 0]
  /\ Attempt(w, k)
  /\ UNCHANGED <<resumed, owed, server, trust, life>>

Disconnect(w) ==
  /\ Event /\ target[w] # None
  /\ target' = [target EXCEPT ![w] = None]
  /\ resumed' = [resumed EXCEPT ![w] = FALSE]
  /\ LetGo(w, "idle")
  /\ UNCHANGED <<failures, owed, server, trust, life>>

(* restart: the user's command, whatever the state. *)
Restart(w) ==
  /\ Event /\ target[w] # None
  /\ failures' = [failures EXCEPT ![w] = 0]
  /\ Attempt(w, target[w])
  /\ UNCHANGED <<target, resumed, owed, server, trust, life>>

(* resume, when the window's app socket has reconnected.  That takes a timer
   and a version check, by which time the closes of the sockets that were open
   with it have been seen. *)
Resume(w) ==
  /\ w \in owed /\ life = "up"
  /\ \A s \in Sockets : sock[s].win = w /\ sock[s].cl = "open"
                          => sock[s].code # "lost"
  /\ owed' = owed \ {w}
  /\ UNCHANGED <<target, server, trust, life, events>>
  /\ \/ /\ target[w] # None /\ state[w] = "connecting"
        /\ resumed' = [resumed EXCEPT ![w] = TRUE]
        /\ UNCHANGED <<state, failures, cur, sock>>
     \/ /\ target[w] # None /\ state[w] \in {"reconnecting"} \cup (Stops \ {"replaced"})
        /\ failures' = [failures EXCEPT ![w] = 0]
        /\ Attempt(w, target[w])
        /\ UNCHANGED resumed
     \/ /\ target[w] = None \/ state[w] \in {"idle", "connected", "replaced"}
        /\ UNCHANGED <<state, failures, resumed, cur, sock>>

TimerFires(w) ==
  /\ state[w] = "reconnecting"
  /\ Attempt(w, target[w])
  /\ UNCHANGED <<target, failures, resumed, owed, server, trust, life, events>>

(* The socket opens: the client on it sends `initialize`. *)
SeesOpen(s) ==
  /\ sock[s].cl = "connecting" /\ sock[s].sv # "opening" /\ sock[s].code # "lost"
  /\ sock' = [sock EXCEPT ![s].cl = "open", ![s].hello = "wire"]
  /\ state' = [state EXCEPT ![sock[s].win] = "connected"]
  /\ resumed' = [resumed EXCEPT ![sock[s].win] = FALSE]
  /\ UNCHANGED <<target, failures, cur, owed, server, trust, life, events>>

OpenFails(s) ==
  /\ sock[s].cl = "connecting" /\ sock[s].code = "lost"
  /\ HandleClose(sock[s].win, "lost", FALSE)
  /\ UNCHANGED <<target, owed, server, trust, life, events>>

SeesClose(s) ==
  /\ sock[s].cl = "open" /\ sock[s].code # "none"
  /\ \E stable \in BOOLEAN : HandleClose(sock[s].win, sock[s].code, stable)
  /\ UNCHANGED <<target, owed, server, trust, life, events>>

-----------------------------------------------------------------------------
(* Loxel's server: StdioLspManager. *)

(* killSession: SIGTERM, then SIGKILL. *)
Killed(p) == IF p = "running" THEN "stopping" ELSE p

(* detach of the sockets D, in two parts: what the manager forgets ... *)
KeysWithout(D) == [k \in Worktrees |-> IF byKey[k] \in D THEN None ELSE byKey[k]]
Forget(D) == /\ byKey' = KeysWithout(D)
             /\ pending' = pending \ D
             /\ live' = live \ D

(* ... and the socket, closed with the code. *)
Ended(r, code) == Tidy([r EXCEPT !.sv = "closed", !.code = code,
                                 !.proc = Killed(@)])
EndedAll(D, code) ==
  [s \in Sockets |-> IF s \in D THEN Ended(sock[s], code) ELSE sock[s]]

(* mutant: the newcomer takes the key, the socket that held it stays. *)
ReplacedByNobody(s) == {}
(* The socket that holds the key a new socket asks for. *)
Replaced(s) == {byKey[sock[s].wt]} \ {None, s}

(* mutant: the key is claimed after an asynchronous step, by when an older
   connection of the window may still come. *)
OpenLate(s) ==
  /\ life = "up" /\ sock[s].sv = "opening"
  /\ LET k == sock[s].wt IN
     /\ byKey' = [byKey EXCEPT ![k] = s]
     /\ pending' = (pending \ Replaced(s)) \cup {s}
     /\ live' = live \ Replaced(s)
     /\ sock' = [EndedAll(Replaced(s), "replaced")
                   EXCEPT ![s].sv = "open", ![s].ctx = trust[k]]
  /\ UNCHANGED <<client, trust, life, events>>

(* websocket.open: createSession and startSession, up to the lookup of the
   binary.  A window's sockets open in the order they were made, as browsers
   make one handshake with a host at a time: one given up while opening comes
   before the current one, or never. *)
Open(s) ==
  /\ life = "up" /\ sock[s].sv = "opening"
  /\ sock[s].cl = "connecting" =>
       \A t \in Sockets \ {s} :
         ~(sock[t].win = sock[s].win /\ sock[t].sv = "opening")
  /\ LET k == sock[s].wt IN
     /\ byKey' = [byKey EXCEPT ![k] = s]
     /\ pending' = (pending \ Replaced(s)) \cup {s}
     /\ live' = live \ Replaced(s)
     /\ sock' = [EndedAll(Replaced(s), "replaced")
                   EXCEPT ![s].sv = "open", ![s].ctx = trust[k]]
  /\ UNCHANGED <<client, trust, life, events>>

(* The handshake of a socket given up never reaches the server. *)
NeverOpens(s) ==
  /\ sock[s].cl = "closed" /\ sock[s].sv = "opening"
  /\ sock' = [sock EXCEPT ![s] = Unused]
  /\ UNCHANGED <<client, server, trust, life, events>>

(* getInitializationOptions throws on `initialize`: failStart. *)
FailStart(s) == Forget({s}) /\ sock' = EndedAll({s}, "startFailed")

(* A frame for a socket whose binary is being resolved is held. *)
Hold(s) == sock' = [sock EXCEPT ![s].hello = "held"] /\ UNCHANGED server

(* websocket.message and handleMessage. *)
Message(s) ==
  /\ life # "down" /\ sock[s].sv = "open" /\ sock[s].hello = "wire"
  /\ \/ life = "up" /\ s \in pending /\ Hold(s)
     \/ /\ life = "up" /\ s \in live \ pending
        /\ \/ sock' = [sock EXCEPT ![s].hello = "got"] /\ UNCHANGED server
           \/ FailStart(s)
     \/ /\ life = "stopping" \/ s \notin pending \cup live
        /\ sock' = [sock EXCEPT ![s].hello = "none"] /\ UNCHANGED server
  /\ UNCHANGED <<client, trust, life, events>>

(* mutant: the trust at the start of the lookup is the one that counts. *)
NeverOutdated(s) == FALSE

(* isContextOutdated. *)
Outdated(s) == trust[sock[s].wt] # sock[s].ctx

(* The binary is resolved, for a socket that is still pending: spawnSession,
   and the frames held meanwhile are replayed. *)
Spawn(s) ==
  /\ pending' = pending \ {s}
  /\ live' = live \cup {s}
  /\ sock' = [sock EXCEPT ![s].proc = "running",
                          ![s].hello = IF @ = "held" THEN "got" ELSE @]
  /\ UNCHANGED byKey

Resolved(s) ==
  /\ s \in pending
  /\ IF Outdated(s)
     THEN Forget({s}) /\ sock' = EndedAll({s}, "restart")
     ELSE \/ FailStart(s)        \* no binary, or it cannot be executed
          \/ Spawn(s)
          \/ /\ sock[s].hello = "held"    \* spawned, and `initialize` fails
             /\ Forget({s})
             /\ sock' = [s2 \in Sockets |->
                  IF s2 = s THEN Ended([sock[s] EXCEPT !.proc = "running"],
                                       "startFailed")
                  ELSE sock[s2]]
  /\ UNCHANGED <<client, trust, life, events>>

(* The process ends by itself. *)
Exits(s) ==
  /\ Event /\ sock[s].proc = "running"
  /\ sock' = [sock EXCEPT ![s].proc = "exited"]
  /\ UNCHANGED <<client, server, trust, life>>

(* proc.exited: the manager hears of it once stderr has drained. *)
ExitHandled(s) ==
  /\ sock[s].proc \in {"exited", "stopping"}
  /\ IF s \in live
     THEN /\ Forget({s})
          /\ sock' = [sock EXCEPT ![s] =
                        Ended([@ EXCEPT !.proc = "none"], "exited")]
     ELSE /\ sock' = [sock EXCEPT ![s] = Tidy([@ EXCEPT !.proc = "none"])]
          /\ UNCHANGED server
  /\ UNCHANGED <<client, trust, life, events>>

(* websocket.close, after the window closed its end. *)
Close(s) ==
  /\ sock[s].cl = "closed" /\ sock[s].sv = "open" /\ life # "down"
  /\ Forget({s})
  /\ sock' = EndedAll({s}, "none")
  /\ UNCHANGED <<client, trust, life, events>>

(* The user trusts the repository or takes it back; onRepoTrustChange restarts
   the sessions whose answer it was. *)
TrustChange(k) ==
  LET D == {s \in live : sock[s].wt = k} IN
  /\ Event /\ life = "up"
  /\ trust' = [trust EXCEPT ![k] = ~@]
  /\ Forget(D)
  /\ sock' = EndedAll(D, "restart")
  /\ UNCHANGED <<client, life>>

(* mutant: destroy stops the sessions and leaves the lookups running. *)
ForgetSessionsOnly == live' = {} /\ UNCHANGED <<byKey, pending>>

ForgetAll == /\ byKey' = [k \in Worktrees |-> None]
             /\ pending' = {} /\ live' = {}

(* tearDown: every manager's destroy, and no connection is accepted. *)
Destroy ==
  /\ Event /\ life = "up"
  /\ life' = "stopping"
  /\ ForgetAll
  /\ sock' = [s \in Sockets |->
       LET r == [sock[s] EXCEPT !.proc = Killed(@)] IN
       IF r.sv = "opening" THEN Tidy([r EXCEPT !.sv = "closed", !.code = "lost"])
                           ELSE r]
  /\ UNCHANGED <<client, trust>>

(* Loxel's server is gone, after tearDown or by a crash: its sockets are
   closed, and the language servers end with their standard input. *)
Gone ==
  /\ life = "stopping" \/ (life = "up" /\ events > 0)
  /\ events' = IF life = "up" THEN events - 1 ELSE events
  /\ life' = "down"
  /\ ForgetAll
  /\ sock' = [s \in Sockets |->
       Tidy([sock[s] EXCEPT !.sv = "closed", !.proc = "none",
               !.code = IF @ = "none" \/ sock[s].cl = "connecting"
                        THEN "lost" ELSE @])]
  /\ owed' = {}
  /\ UNCHANGED <<target, state, failures, resumed, cur, trust>>

(* It starts again; every window's app socket will find it. *)
Starts ==
  /\ life = "down"
  /\ life' = "up" /\ owed' = Windows
  /\ UNCHANGED <<target, state, failures, resumed, cur, sock, server, trust, events>>

-----------------------------------------------------------------------------
WindowStep(w) == Resume(w) \/ TimerFires(w)
SocketStep(s) == \/ SeesOpen(s) \/ OpenFails(s) \/ SeesClose(s)
                 \/ Open(s) \/ NeverOpens(s) \/ Message(s) \/ Resolved(s)
                 \/ ExitHandled(s) \/ Close(s)

(* What happens by itself, and what users and failures do. *)
System == \/ \E w \in Windows : WindowStep(w)
          \/ \E s \in Sockets : SocketStep(s)
          \/ life = "stopping" /\ Gone
Environment == \/ \E w \in Windows, k \in Worktrees : Connect(w, k)
               \/ \E w \in Windows : Disconnect(w) \/ Restart(w)
               \/ \E s \in Sockets : Exits(s)
               \/ \E k \in Worktrees : TrustChange(k)
               \/ Destroy \/ Starts
               \/ life = "up" /\ Gone

Next == System \/ Environment

Spec == Init /\ [][Next]_vars

(* A timer, an event or a message that is due is handled.  Loxel's server need
   not come back. *)
FairSpec == Spec /\ WF_vars(System)

-----------------------------------------------------------------------------
(* Every variable keeps to its domain. *)
TypeOK ==
  /\ target \in [Windows -> Worktrees \cup {None}]
  /\ state \in [Windows -> States]
  /\ failures \in [Windows -> 0..MaxFailures]
  /\ resumed \in [Windows -> BOOLEAN]
  /\ cur \in [Windows -> Sockets \cup {None}]
  /\ owed \subseteq Windows
  /\ sock \in [Sockets -> SockType]
  /\ byKey \in [Worktrees -> Sockets \cup {None}]
  /\ pending \subseteq Sockets /\ live \subseteq Sockets
  /\ trust \in [Worktrees -> BOOLEAN]
  /\ life \in {"up", "stopping", "down"}
  /\ events \in 0..MaxEvents

(* A worktree has at most one language server that was not told to stop, and it
   belongs to the socket that holds the worktree's key: startSession's promise
   of "at most one active session per key", through lookups that outlive their
   socket, replacements and restarts. *)
OneServer ==
  \A s \in Sockets : sock[s].proc = "running" \/ s \in pending =>
    /\ byKey[sock[s].wt] = s
    /\ s \in live \cup pending

(* No language server runs on an answer about trust that the user has taken
   back, whenever that happens: not during its lookup, not later. *)
TrustHeld ==
  \A s \in Sockets : sock[s].proc = "running" => sock[s].ctx = trust[sock[s].wt]

(* A shutdown that waits for the language servers to exit is not overtaken by a
   new one: no lookup that ends after the teardown starts a process. *)
NothingStartsBehindTeardown ==
  life # "up" => \A s \in Sockets : sock[s].proc # "running"

(* A window is only ever replaced by another window: its own newer connection
   takes the server from its older one without telling the current one to give
   up (a window stopped as "replaced" stays so until the user acts). *)
NeverTakesItself ==
  [][\A s \in Sockets :
       sock'[s].code = "replaced" /\ sock[s].code # "replaced"
         /\ sock[s].win # None /\ cur[sock[s].win] = s
       => sock'[byKey'[sock[s].wt]].win # sock[s].win]_vars

(* The window's client has a server that got its `initialize`. *)
Served(w) ==
  /\ state[w] = "connected" /\ cur[w] \in live
  /\ sock[cur[w]].proc = "running" /\ sock[cur[w]].hello = "got"

(* Once users and failures are done, every window that wants a language server
   has one that heard it, or has stopped for a reason shown to the user; none
   waits forever on a socket that nothing answers, none that lost Loxel's server
   stays stopped as unreachable once it is back, and no process is left running
   for a window that is gone. *)
Settles ==
  /\ \A w \in Windows :
       <>[](\/ target[w] = None /\ state[w] = "idle"
            \/ Served(w)
            \/ state[w] \in {"replaced", "startFailed", "crashed"}
            \/ state[w] = "unreachable" /\ life # "up")
  /\ \A s \in Sockets :
       <>[](sock[s].proc = "running" => \E w \in Windows : cur[w] = s /\ Served(w))
=============================================================================
