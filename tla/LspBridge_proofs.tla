-------------------------- MODULE LspBridge_proofs --------------------------
(***************************************************************************)
(* For any windows, worktrees and sockets, a worktree has at most one      *)
(* language server that was not told to stop, it runs on the user's        *)
(* current answer about trust, and none starts behind a teardown.  What    *)
(* carries the proof is that a socket the manager serves or resolves for   *)
(* holds its worktree's key, is open, and so is never taken for a new one. *)
(* And a window never takes the server from itself: its current socket is  *)
(* the last of its sockets to open.                                        *)
(***************************************************************************)
EXTENDS LspBridge, TLAPS

\* A window that wants no server has no socket, one with a socket is
\* connecting or connected, and one that may still try has tries left.
ClientOK ==
  \A w \in Windows :
    /\ target[w] = None => cur[w] = None /\ state[w] = "idle"
    /\ cur[w] # None => state[w] \in {"connecting", "connected"}
    /\ state[w] \in {"connecting", "connected", "reconnecting"}
         => failures[w] < MaxFailures

\* A socket whose window's end is not closed is the window's current one.
Current ==
  \A s \in Sockets : sock[s].cl # "closed"
    => sock[s].win \in Windows /\ cur[sock[s].win] = s

\* What the manager serves, or resolves a binary for.
Claims(s) ==
  /\ sock[s].sv # "closed" => sock[s].wt \in Worktrees
  /\ s \in pending \cup live => sock[s].sv = "open" /\ byKey[sock[s].wt] = s
  /\ s \in live => sock[s].ctx = trust[sock[s].wt]
  /\ sock[s].proc = "running" => s \in live

ServerOK ==
  /\ \A s \in Sockets : Claims(s)
  /\ pending \cap live = {}
  /\ life # "up" => pending = {} /\ live = {}

IInv == TypeOK /\ ClientOK /\ Current /\ ServerOK

-----------------------------------------------------------------------------
(* The socket's record. *)

LEMMA UnusedType == Unused \in SockType
  BY DEF Unused, SockType, Codes

LEMMA TidyType == ASSUME NEW r \in SockType PROVE Tidy(r) \in SockType
  BY UnusedType DEF Tidy

\* Closing the window's end of a socket leaves the server's end alone.
LEMMA HungUp ==
  ASSUME NEW r \in SockType
  PROVE  LET q == Tidy([r EXCEPT !.cl = "closed"]) IN
           /\ q \in SockType /\ q.cl = "closed"
           /\ r.sv # "closed" \/ r.proc # "none" =>
                q.sv = r.sv /\ q.wt = r.wt /\ q.ctx = r.ctx /\ q.proc = r.proc
           /\ q.sv # "closed" => r.sv # "closed"
           /\ q.proc = "running" => r.proc = "running"
<1> DEFINE c == [r EXCEPT !.cl = "closed"]
<1>1. /\ c \in SockType /\ c.cl = "closed" /\ c.sv = r.sv /\ c.wt = r.wt
      /\ c.ctx = r.ctx /\ c.proc = r.proc
  BY DEF SockType
<1> HIDE DEF c
<1>2. CASE Tidy(c) = c
  BY <1>1, <1>2 DEF c
<1>3. CASE r.sv = "closed" /\ r.proc = "none"
  <2>1. Tidy(c) = Unused
    BY <1>1, <1>3 DEF Tidy
  <2>2. QED
    BY <1>3, <2>1, UnusedType DEF Unused, c
<1>4. QED
  BY <1>1, <1>2, <1>3 DEF Tidy

\* Closing the server's end of a socket ends its process.
LEMMA EndedUp ==
  ASSUME NEW r \in SockType, NEW code \in Codes
  PROVE  LET q == Ended(r, code) IN
           /\ q \in SockType /\ q.sv = "closed" /\ q.proc # "running"
           /\ q.cl # "closed" => q.cl = r.cl /\ q.win = r.win
<1>1. Killed(r.proc) \in {"none", "exited", "stopping"}
  BY DEF Killed, SockType
<1> DEFINE c == [r EXCEPT !.sv = "closed", !.code = code, !.proc = Killed(@)]
<1>2. /\ c \in SockType /\ c.sv = "closed" /\ c.proc # "running"
      /\ c.cl = r.cl /\ c.win = r.win
  BY <1>1 DEF SockType
<1>3. Ended(r, code) = Tidy(c)
  BY DEF Ended
<1> HIDE DEF c
<1>4. CASE Tidy(c) = c
  BY <1>2, <1>3, <1>4
<1>5. CASE Tidy(c) = Unused
  BY <1>3, <1>5, UnusedType DEF Unused
<1>6. QED
  BY <1>4, <1>5 DEF Tidy

-----------------------------------------------------------------------------
(* The window's steps. *)

\* What a step of window w does to the sockets.
SockStep(w) ==
  \A s \in Sockets :
    /\ sock'[s] \in SockType
    /\ s \in pending \cup live =>
         /\ sock'[s].sv = sock[s].sv /\ sock'[s].wt = sock[s].wt
         /\ sock'[s].ctx = sock[s].ctx /\ sock'[s].proc = sock[s].proc
    /\ sock'[s].sv # "closed" => sock'[s].wt \in Worktrees
    /\ sock'[s].proc = "running" => sock[s].proc = "running"

LEMMA ReleasedFacts ==
  ASSUME IInv, NEW w \in Windows, NEW s \in Sockets
  PROVE  LET q == Released(w)[s] IN
           /\ q \in SockType
           /\ s \in pending \cup live =>
                q.sv = sock[s].sv /\ q.wt = sock[s].wt /\ q.ctx = sock[s].ctx
                /\ q.proc = sock[s].proc
           /\ q.sv # "closed" => q.wt \in Worktrees
           /\ q.proc = "running" => sock[s].proc = "running"
           /\ q.cl # "closed" =>
                q.win \in Windows /\ q.win # w /\ cur[q.win] = s
<1>1. sock[s] \in SockType /\ sock \in [Sockets -> SockType]
  BY DEF IInv, TypeOK
<1>2. Claims(s)
  BY DEF IInv, ServerOK
<1>3. CASE cur[w] = s
  <2>1. cur[w] # None
    BY <1>3, LspAssumption
  <2>2. Released(w)[s] = Tidy([sock[s] EXCEPT !.cl = "closed"])
    BY <1>1, <1>3, <2>1 DEF Released
  <2>3. QED
    BY <1>1, <1>2, <2>2, HungUp DEF Claims
<1>4. CASE cur[w] # s
  <2>1. Released(w)[s] = sock[s]
    BY <1>1, <1>4 DEF Released
  <2>2. QED
    BY <1>1, <1>2, <1>4, <2>1 DEF Claims, IInv, Current
<1>5. QED
  BY <1>3, <1>4

LEMMA LetGoStep ==
  ASSUME IInv, NEW w \in Windows, NEW st \in States, LetGo(w, st)
  PROVE  /\ SockStep(w) /\ Current' /\ sock' \in [Sockets -> SockType]
         /\ cur' = [cur EXCEPT ![w] = None] /\ state' = [state EXCEPT ![w] = st]
<1>1. /\ sock' = Released(w) /\ cur' = [cur EXCEPT ![w] = None]
      /\ state' = [state EXCEPT ![w] = st]
  BY DEF LetGo
<1>2. sock' \in [Sockets -> SockType]
  <2>1. DOMAIN Released(w) = Sockets /\ Released(w) = [s \in Sockets |-> Released(w)[s]]
    BY DEF Released, IInv, TypeOK
  <2>2. QED
    BY <1>1, <2>1, ReleasedFacts
<1>3. SockStep(w)
  BY <1>1, ReleasedFacts DEF SockStep
<1>4. Current'
  BY <1>1, ReleasedFacts DEF Current, IInv, TypeOK
<1>5. QED
  BY <1>1, <1>2, <1>3, <1>4

LEMMA AttemptStep ==
  ASSUME IInv, NEW w \in Windows, NEW k \in Worktrees, Attempt(w, k)
  PROVE  /\ SockStep(w) /\ Current' /\ sock' \in [Sockets -> SockType]
         /\ cur' \in [Windows -> Sockets \cup {None}]
         /\ \A v \in Windows \ {w} : cur'[v] = cur[v]
         /\ cur'[w] # None
         /\ state' = [state EXCEPT ![w] = "connecting"]
<1> DEFINE base == Released(w)
           free == {x \in Sockets : base[x] = Unused}
           t == CHOOSE x \in free : TRUE
<1>1. /\ free # {}
      /\ sock' = [base EXCEPT ![t] = Opening(w, k)]
      /\ cur' = [cur EXCEPT ![w] = t]
      /\ state' = [state EXCEPT ![w] = "connecting"]
  BY DEF Attempt
<1>2. t \in Sockets /\ base[t] = Unused
  BY <1>1
<1>3. base \in [Sockets -> SockType]
  <2>1. base = [s \in Sockets |-> base[s]]
    BY DEF Released, IInv, TypeOK
  <2>2. QED
    BY <2>1, ReleasedFacts
<1>4. /\ Opening(w, k) \in SockType /\ Opening(w, k).wt = k /\ Opening(w, k).win = w
      /\ Opening(w, k).proc = "none"
  BY DEF Opening, Unused, SockType, Codes
<1>5. t \notin pending \cup live
  <2>1. base[t].sv = "closed"
    BY <1>2 DEF Unused
  <2>2. t \in pending \cup live => base[t].sv = sock[t].sv /\ sock[t].sv = "open"
    BY <1>2, ReleasedFacts DEF IInv, ServerOK, Claims
  <2>3. QED
    BY <2>1, <2>2
<1> HIDE DEF base, t, free
<1>6. sock' \in [Sockets -> SockType]
  BY <1>1, <1>2, <1>3, <1>4
<1>7. SockStep(w)
  <2> SUFFICES ASSUME NEW s \in Sockets
               PROVE  /\ sock'[s] \in SockType
                      /\ s \in pending \cup live =>
                           /\ sock'[s].sv = sock[s].sv /\ sock'[s].wt = sock[s].wt
                           /\ sock'[s].ctx = sock[s].ctx /\ sock'[s].proc = sock[s].proc
                      /\ sock'[s].sv # "closed" => sock'[s].wt \in Worktrees
                      /\ sock'[s].proc = "running" => sock[s].proc = "running"
    BY DEF SockStep
  <2>1. CASE s = t
    BY <1>1, <1>2, <1>3, <1>4, <1>5, <1>6, <2>1
  <2>2. CASE s # t
    <3>1. sock'[s] = base[s]
      BY <1>1, <1>3, <2>2
    <3>2. QED
      BY <3>1, ReleasedFacts DEF base
  <2>3. QED
    BY <2>1, <2>2
<1>8. Current'
  <2> SUFFICES ASSUME NEW s \in Sockets, sock'[s].cl # "closed"
               PROVE  sock'[s].win \in Windows /\ cur'[sock'[s].win] = s
    BY DEF Current
  <2>1. cur' \in [Windows -> Sockets \cup {None}]
    BY <1>1, <1>2 DEF IInv, TypeOK
  <2>2. CASE s = t
    BY <1>1, <1>2, <1>3, <1>4, <2>1, <2>2 DEF IInv, TypeOK
  <2>3. CASE s # t
    <3>1. sock'[s] = base[s]
      BY <1>1, <1>3, <2>3
    <3>2. base[s].win \in Windows /\ base[s].win # w /\ cur[base[s].win] = s
      BY <3>1, ReleasedFacts DEF base
    <3>3. QED
      BY <1>1, <3>1, <3>2 DEF IInv, TypeOK
  <2>4. QED
    BY <2>2, <2>3
<1>9. QED
  BY <1>1, <1>2, <1>6, <1>7, <1>8, LspAssumption DEF IInv, TypeOK

LEMMA ServerKept ==
  ASSUME IInv, NEW w \in Windows, SockStep(w), UNCHANGED <<server, trust, life>>
  PROVE  ServerOK'
<1>1. \A s \in Sockets : Claims(s)'
  BY DEF SockStep, Claims, IInv, ServerOK, server
<1>2. QED
  BY <1>1 DEF IInv, ServerOK, server

LEMMA HandleCloseStep ==
  ASSUME IInv, NEW w \in Windows, cur[w] # None,
         NEW code \in Codes \ {"none"}, NEW stable \in BOOLEAN,
         HandleClose(w, code, stable), UNCHANGED <<target, owed, server, trust, life, events>>
  PROVE  IInv'
<1> DEFINE f == (IF stable THEN 0 ELSE failures[w]) + 1
<1>1. /\ target[w] \in Worktrees /\ failures[w] \in Nat /\ failures[w] < MaxFailures
      /\ f \in 1..MaxFailures /\ MaxFailures \in Nat \ {0}
  BY LspAssumption DEF IInv, TypeOK, ClientOK
<1>2. CASE code \in StopCodes /\ LetGo(w, code) /\ UNCHANGED <<failures, resumed>>
  <2>1. code \in States
    BY <1>2 DEF StopCodes, States, Stops
  <2>2. /\ SockStep(w) /\ Current' /\ sock' \in [Sockets -> SockType]
        /\ cur' = [cur EXCEPT ![w] = None] /\ state' = [state EXCEPT ![w] = code]
    BY <1>2, <2>1, LetGoStep
  <2>3. TypeOK'
    BY <1>2, <2>1, <2>2 DEF IInv, TypeOK, server
  <2>4. ClientOK'
    BY <1>1, <1>2, <2>2, LspAssumption DEF IInv, TypeOK, ClientOK, StopCodes
  <2>5. QED
    BY <2>2, <2>3, <2>4, ServerKept DEF IInv
<1>3. CASE code = "restart" /\ Attempt(w, target[w]) /\ UNCHANGED <<failures, resumed>>
  <2>1. /\ SockStep(w) /\ Current' /\ sock' \in [Sockets -> SockType]
        /\ cur' \in [Windows -> Sockets \cup {None}]
        /\ \A v \in Windows \ {w} : cur'[v] = cur[v]
        /\ state' = [state EXCEPT ![w] = "connecting"]
    BY <1>1, <1>3, AttemptStep
  <2>2. TypeOK'
    BY <1>3, <2>1 DEF IInv, TypeOK, server, States
  <2>3. ClientOK'
    BY <1>1, <1>3, <2>1, LspAssumption DEF IInv, TypeOK, ClientOK
  <2>4. QED
    BY <2>1, <2>2, <2>3, ServerKept DEF IInv
<1>4. CASE /\ resumed' = [resumed EXCEPT ![w] = FALSE]
           /\ failures' = [failures EXCEPT ![w] = 0]
           /\ Attempt(w, target[w])
  <2>1. /\ SockStep(w) /\ Current' /\ sock' \in [Sockets -> SockType]
        /\ cur' \in [Windows -> Sockets \cup {None}]
        /\ \A v \in Windows \ {w} : cur'[v] = cur[v]
        /\ state' = [state EXCEPT ![w] = "connecting"]
    BY <1>1, <1>4, AttemptStep
  <2>2. TypeOK'
    BY <1>1, <1>4, <2>1 DEF IInv, TypeOK, server, States
  <2>3. ClientOK'
    BY <1>1, <1>4, <2>1, LspAssumption DEF IInv, TypeOK, ClientOK
  <2>4. QED
    BY <2>1, <2>2, <2>3, ServerKept DEF IInv
<1>5. ASSUME NEW st \in States, failures' = [failures EXCEPT ![w] = f],
             LetGo(w, st), st = "reconnecting" => f < MaxFailures,
             st \notin {"idle", "connecting", "connected"}, UNCHANGED resumed
      PROVE  IInv'
  <2>1. /\ SockStep(w) /\ Current' /\ sock' \in [Sockets -> SockType]
        /\ cur' = [cur EXCEPT ![w] = None] /\ state' = [state EXCEPT ![w] = st]
    BY <1>5, LetGoStep
  <2>2. TypeOK'
    BY <1>1, <1>5, <2>1 DEF IInv, TypeOK, server
  <2>3. ClientOK'
    BY <1>1, <1>5, <2>1, LspAssumption DEF IInv, TypeOK, ClientOK
  <2>4. QED
    BY <2>1, <2>2, <2>3, ServerKept DEF IInv
<1>6. CASE /\ failures' = [failures EXCEPT ![w] = f]
           /\ LetGo(w, IF ~GivesUp(f) THEN "reconnecting"
                       ELSE IF code = "exited" THEN "crashed" ELSE "unreachable")
           /\ UNCHANGED resumed
  <2> DEFINE st == IF ~GivesUp(f) THEN "reconnecting"
                   ELSE IF code = "exited" THEN "crashed" ELSE "unreachable"
  <2>1. /\ st \in States /\ st \notin {"idle", "connecting", "connected"}
        /\ st = "reconnecting" => f < MaxFailures
    BY <1>1 DEF GivesUp, States, Stops
  <2> HIDE DEF st, f
  <2>2. LetGo(w, st)
    BY <1>6 DEF st, f
  <2>3. QED
    BY <1>5, <1>6, <2>1, <2>2 DEF f
<1>7. QED
  BY <1>2, <1>3, <1>4, <1>6 DEF HandleClose

-----------------------------------------------------------------------------
LEMMA InitIInv == Init => IInv
<1> SUFFICES ASSUME Init PROVE IInv
  OBVIOUS
<1>1. TypeOK
  BY UnusedType, LspAssumption DEF Init, TypeOK, States
<1>2. ClientOK /\ Current
  BY LspAssumption DEF Init, ClientOK, Current, Unused
<1>3. ServerOK
  BY DEF Init, ServerOK, Claims, Unused
<1>4. QED
  BY <1>1, <1>2, <1>3 DEF IInv

\* The user moves the window, or it tries again.
LEMMA WindowSteps ==
  ASSUME IInv, NEW w \in Windows,
         \/ \E k \in Worktrees : Connect(w, k)
         \/ Restart(w)
         \/ TimerFires(w)
  PROVE  IInv'
<1> SUFFICES ASSUME NEW k \in Worktrees, Attempt(w, k),
                    target' \in [Windows -> Worktrees \cup {None}],
                    target'[w] \in Worktrees,
                    \A v \in Windows \ {w} : target'[v] = target[v],
                    failures' \in [Windows -> 0..MaxFailures],
                    failures'[w] < MaxFailures,
                    \A v \in Windows \ {w} : failures'[v] = failures[v],
                    events' \in 0..MaxEvents,
                    UNCHANGED <<resumed, owed, server, trust, life>>
             PROVE  IInv'
  <2>1. ASSUME NEW k \in Worktrees, Connect(w, k) PROVE IInv'
    <3>1. events' \in 0..MaxEvents /\ MaxFailures \in Nat \ {0}
      BY <2>1, LspAssumption DEF Connect, Event, IInv, TypeOK
    <3>2. QED
      BY <2>1, <3>1 DEF Connect, IInv, TypeOK
  <2>2. ASSUME Restart(w) PROVE IInv'
    <3>1. events' \in 0..MaxEvents /\ MaxFailures \in Nat \ {0}
      BY <2>2, LspAssumption DEF Restart, Event, IInv, TypeOK
    <3>2. QED
      BY <2>2, <3>1 DEF Restart, IInv, TypeOK
  <2>3. ASSUME TimerFires(w) PROVE IInv'
    <3>1. target[w] \in Worktrees /\ failures[w] < MaxFailures
      BY <2>3 DEF TimerFires, IInv, TypeOK, ClientOK
    <3>2. QED
      BY <2>3, <3>1 DEF TimerFires, IInv, TypeOK
  <2>4. QED
    BY <2>1, <2>2, <2>3
<1>1. /\ SockStep(w) /\ Current' /\ sock' \in [Sockets -> SockType]
      /\ cur' \in [Windows -> Sockets \cup {None}]
      /\ \A v \in Windows \ {w} : cur'[v] = cur[v]
      /\ state' = [state EXCEPT ![w] = "connecting"]
  BY AttemptStep
<1>2. TypeOK'
  BY <1>1 DEF IInv, TypeOK, server, States
<1>3. ClientOK'
  BY <1>1, LspAssumption DEF IInv, TypeOK, ClientOK
<1>4. QED
  BY <1>1, <1>2, <1>3, ServerKept DEF IInv

LEMMA DisconnectStep == ASSUME IInv, NEW w \in Windows, Disconnect(w) PROVE IInv'
<1>1. /\ SockStep(w) /\ Current' /\ sock' \in [Sockets -> SockType]
      /\ cur' = [cur EXCEPT ![w] = None] /\ state' = [state EXCEPT ![w] = "idle"]
  BY LetGoStep DEF Disconnect, States
<1>2. TypeOK'
  <2>1. events' \in 0..MaxEvents
    BY LspAssumption DEF Disconnect, Event, IInv, TypeOK
  <2>2. QED
    BY <1>1, <2>1 DEF Disconnect, IInv, TypeOK, server, States
<1>3. ClientOK'
  BY <1>1, LspAssumption DEF Disconnect, IInv, TypeOK, ClientOK
<1>4. QED
  BY <1>1, <1>2, <1>3, ServerKept DEF IInv, Disconnect

LEMMA ResumeStep == ASSUME IInv, NEW w \in Windows, Resume(w) PROVE IInv'
<1>1. CASE target[w] # None /\ failures' = [failures EXCEPT ![w] = 0]
           /\ Attempt(w, target[w]) /\ UNCHANGED resumed
  <2>1. target[w] \in Worktrees /\ MaxFailures \in Nat \ {0}
    BY <1>1, LspAssumption DEF IInv, TypeOK
  <2>2. /\ SockStep(w) /\ Current' /\ sock' \in [Sockets -> SockType]
        /\ cur' \in [Windows -> Sockets \cup {None}]
        /\ \A v \in Windows \ {w} : cur'[v] = cur[v]
        /\ state' = [state EXCEPT ![w] = "connecting"]
    BY <1>1, <2>1, AttemptStep
  <2>3. TypeOK'
    BY <1>1, <2>1, <2>2 DEF Resume, IInv, TypeOK, server, States
  <2>4. ClientOK'
    BY <1>1, <2>1, <2>2 DEF Resume, IInv, TypeOK, ClientOK
  <2>5. QED
    BY <2>2, <2>3, <2>4, ServerKept DEF IInv, Resume
<1>2. CASE UNCHANGED <<state, failures, cur, sock>> /\ resumed' \in [Windows -> BOOLEAN]
  <2>1. TypeOK'
    BY <1>2 DEF Resume, IInv, TypeOK, server
  <2>2. ClientOK' /\ Current'
    BY <1>2 DEF Resume, IInv, ClientOK, Current
  <2>3. ServerOK'
    BY <1>2 DEF Resume, IInv, ServerOK, Claims, server
  <2>4. QED
    BY <2>1, <2>2, <2>3 DEF IInv
<1>3. resumed \in [Windows -> BOOLEAN]
  BY DEF IInv, TypeOK
<1>4. QED
  BY <1>1, <1>2, <1>3 DEF Resume

LEMMA SeesSteps ==
  ASSUME IInv, NEW s \in Sockets, SeesOpen(s) \/ OpenFails(s) \/ SeesClose(s)
  PROVE  IInv'
<1> DEFINE w == sock[s].win
<1>1. sock[s] \in SockType /\ sock \in [Sockets -> SockType]
  BY DEF IInv, TypeOK
<1>2. w \in Windows /\ cur[w] = s /\ cur[w] # None
  BY <1>1, LspAssumption DEF SeesOpen, OpenFails, SeesClose, IInv, Current
<1>3. CASE OpenFails(s)
  <2>1. HandleClose(w, "lost", FALSE)
    BY <1>3 DEF OpenFails
  <2>2. "lost" \in Codes \ {"none"} /\ FALSE \in BOOLEAN
    BY DEF Codes
  <2> HIDE DEF w
  <2>3. QED
    BY <1>2, <1>3, <2>1, <2>2, HandleCloseStep DEF OpenFails
<1>4. CASE SeesClose(s)
  <2>1. PICK stable \in BOOLEAN : HandleClose(w, sock[s].code, stable)
    BY <1>4 DEF SeesClose
  <2>2. sock[s].code \in Codes \ {"none"}
    BY <1>1, <1>4 DEF SeesClose, SockType
  <2> HIDE DEF w
  <2>3. QED
    BY <1>2, <1>4, <2>1, <2>2, HandleCloseStep DEF SeesClose
<1>5. CASE SeesOpen(s)
  <2> DEFINE q == [sock[s] EXCEPT !.cl = "open", !.hello = "wire"]
  <2>1. /\ q \in SockType /\ q.win = w /\ q.sv = sock[s].sv /\ q.wt = sock[s].wt
        /\ q.ctx = sock[s].ctx /\ q.proc = sock[s].proc
    BY <1>1 DEF SockType
  <2>2. sock' = [sock EXCEPT ![s] = q]
    BY <1>1, <1>5 DEF SeesOpen
  <2> HIDE DEF q
  <2>3. SockStep(w)
    BY <1>1, <2>1, <2>2 DEF SockStep, IInv, TypeOK, ServerOK, Claims
  <2>4. Current'
    BY <1>1, <1>2, <1>5, <2>1, <2>2 DEF SeesOpen, IInv, Current
  <2>5. TypeOK'
    BY <1>1, <1>2, <1>5, <2>1, <2>2 DEF SeesOpen, IInv, TypeOK, server, States
  <2>6. ClientOK'
    BY <1>2, <1>5 DEF SeesOpen, IInv, TypeOK, ClientOK
  <2>7. ServerOK'
    BY <1>2, <1>5, <2>3, ServerKept DEF SeesOpen
  <2>8. QED
    BY <2>4, <2>5, <2>6, <2>7 DEF IInv
<1>6. QED
  BY <1>3, <1>4, <1>5

-----------------------------------------------------------------------------
(* The server's steps. *)

\* What they do to the window's end of a socket: nothing, or it is over.
Behind == \A s \in Sockets :
  sock'[s].cl # "closed" => sock'[s].cl = sock[s].cl /\ sock'[s].win = sock[s].win

LEMMA ClientKept ==
  ASSUME IInv, Behind, UNCHANGED <<target, state, failures, resumed, cur>>
  PROVE  ClientOK' /\ Current'
BY DEF IInv, ClientOK, Current, Behind

\* Sockets detached and closed, their keys, lookups and sessions forgotten.
LEMMA EndsStep ==
  ASSUME IInv, NEW D \in SUBSET Sockets, NEW code \in Codes,
         Forget(D), sock' = EndedAll(D, code), UNCHANGED <<client, life>>,
         trust' \in [Worktrees -> BOOLEAN], events' \in 0..MaxEvents,
         \A s \in live \ D : trust'[sock[s].wt] = trust[sock[s].wt]
  PROVE  IInv'
<1>1. \A s \in Sockets : sock[s] \in SockType
  BY DEF IInv, TypeOK
<1>2. /\ sock' \in [Sockets -> SockType]
      /\ \A s \in Sockets \ D : sock'[s] = sock[s]
      /\ \A s \in D : sock'[s].sv = "closed" /\ sock'[s].proc # "running"
      /\ Behind
  BY <1>1, EndedUp DEF EndedAll, Behind
<1>3. TypeOK'
  BY <1>2 DEF IInv, TypeOK, client, Forget, KeysWithout
<1>4. ServerOK'
  <2>1. ASSUME NEW s \in Sockets PROVE Claims(s)'
    <3>1. CASE s \in D
      BY <1>2, <3>1 DEF Claims, Forget
    <3>2. CASE s \notin D
      BY <1>2, <3>2 DEF Claims, Forget, KeysWithout, IInv, ServerOK
    <3>3. QED
      BY <3>1, <3>2
  <2>2. QED
    BY <2>1 DEF IInv, ServerOK, Forget
<1>5. QED
  BY <1>2, <1>3, <1>4, ClientKept DEF IInv, client

\* A step that only concerns the record of one socket.
LEMMA OneSocket ==
  ASSUME IInv, NEW s \in Sockets, NEW q \in SockType, sock' = [sock EXCEPT ![s] = q],
         q.cl # "closed" => q.cl = sock[s].cl /\ q.win = sock[s].win,
         q.sv # "closed" => q.sv = sock[s].sv /\ q.wt = sock[s].wt,
         s \in pending \cup live =>
           q.sv = sock[s].sv /\ q.wt = sock[s].wt /\ q.ctx = sock[s].ctx,
         q.proc = "running" => sock[s].proc = "running",
         UNCHANGED <<client, server, trust, life>>, events' \in 0..MaxEvents
  PROVE  IInv'
<1>1. TypeOK'
  BY DEF IInv, TypeOK, client, server
<1>2. Behind
  BY DEF IInv, TypeOK, Behind
<1>3. ASSUME NEW x \in Sockets PROVE Claims(x)'
  <2>1. CASE x = s
    BY <2>1 DEF IInv, TypeOK, ServerOK, Claims, server
  <2>2. CASE x # s
    BY <2>2 DEF IInv, TypeOK, ServerOK, Claims, server
  <2>3. QED
    BY <2>1, <2>2
<1>4. ServerOK'
  BY <1>3 DEF IInv, ServerOK, server
<1>5. QED
  BY <1>1, <1>2, <1>4, ClientKept DEF IInv, client

LEMMA OpenStep == ASSUME IInv, NEW s \in Sockets, Open(s) PROVE IInv'
<1> DEFINE k == sock[s].wt
           D == Replaced(s)
           base == EndedAll(D, "replaced")
           q == [base[s] EXCEPT !.sv = "open", !.ctx = trust[k]]
<1>1. sock \in [Sockets -> SockType] /\ sock[s] \in SockType /\ sock[s].sv = "opening"
      /\ k \in Worktrees /\ life = "up" /\ trust[k] \in BOOLEAN
  BY DEF Open, IInv, TypeOK, ServerOK, Claims
<1>2. /\ D \subseteq Sockets /\ s \notin D
      /\ \A x \in Sockets : byKey[k] = x /\ x # s => x \in D
      /\ s \notin pending \cup live
  BY <1>1, LspAssumption DEF Replaced, IInv, TypeOK, ServerOK, Claims
<1>3. /\ base[s] = sock[s]
      /\ base \in [Sockets -> SockType]
      /\ \A x \in Sockets \ D : base[x] = sock[x]
      /\ \A x \in D : base[x].sv = "closed" /\ base[x].proc # "running"
      /\ \A x \in D : base[x].cl # "closed" =>
                        base[x].cl = sock[x].cl /\ base[x].win = sock[x].win
  <2>1. "replaced" \in Codes
    BY DEF Codes
  <2>2. QED
    BY <1>1, <1>2, <2>1, EndedUp DEF EndedAll
<1>4. /\ q \in SockType /\ q.sv = "open" /\ q.ctx = trust[k] /\ q.wt = k
      /\ q.cl = sock[s].cl /\ q.win = sock[s].win /\ q.proc = sock[s].proc
  BY <1>1, <1>3 DEF SockType
<1>5. /\ sock' = [base EXCEPT ![s] = q]
      /\ byKey' = [byKey EXCEPT ![k] = s]
      /\ pending' = (pending \ D) \cup {s} /\ live' = live \ D
      /\ UNCHANGED <<client, trust, life, events>>
  BY <1>3 DEF Open
<1> HIDE DEF base, q, D
<1>6. TypeOK'
  BY <1>1, <1>2, <1>3, <1>4, <1>5 DEF IInv, TypeOK, client
<1>7. Behind
  BY <1>2, <1>3, <1>4, <1>5 DEF Behind
<1>8. ASSUME NEW x \in Sockets PROVE Claims(x)'
  <2>1. CASE x = s
    <3>1. sock'[x] = q
      BY <1>3, <1>5, <2>1
    <3>2. sock[s].proc # "running"
      BY <1>2 DEF IInv, ServerOK, Claims
    <3>3. byKey'[k] = s
      BY <1>1, <1>5 DEF IInv, TypeOK
    <3>4. QED
      BY <1>1, <1>2, <1>4, <1>5, <2>1, <3>1, <3>2, <3>3 DEF Claims
  <2>2. CASE x \in D
    <3>1. sock'[x] = base[x]
      BY <1>2, <1>3, <1>5, <2>2
    <3>2. QED
      BY <1>2, <1>3, <1>5, <2>2, <3>1 DEF Claims
  <2>3. CASE x # s /\ x \notin D
    <3>1. sock'[x] = sock[x]
      BY <1>3, <1>5, <2>3
    <3>2. x \in pending \cup live => sock[x].wt # k
      BY <1>2, <2>3 DEF IInv, ServerOK, Claims
    <3>3. QED
      BY <1>1, <1>5, <2>3, <3>1, <3>2 DEF IInv, TypeOK, ServerOK, Claims
  <2>4. QED
    BY <2>1, <2>2, <2>3
<1>9. ServerOK'
  BY <1>1, <1>2, <1>5, <1>8 DEF IInv, ServerOK
<1>10. QED
  BY <1>5, <1>6, <1>7, <1>9, ClientKept DEF IInv, client

LEMMA FailStartStep ==
  ASSUME IInv, NEW s \in Sockets, FailStart(s), UNCHANGED <<client, trust, life, events>>
  PROVE  IInv'
BY EndsStep DEF FailStart, Codes, IInv, TypeOK

LEMMA MessageStep == ASSUME IInv, NEW s \in Sockets, Message(s) PROVE IInv'
<1>1. ASSUME NEW h \in {"none", "held", "got"},
             sock' = [sock EXCEPT ![s].hello = h],
             UNCHANGED <<client, server, trust, life, events>>
      PROVE  IInv'
  <2> DEFINE q == [sock[s] EXCEPT !.hello = h]
  <2>1. /\ q \in SockType /\ q.cl = sock[s].cl /\ q.win = sock[s].win
        /\ q.sv = sock[s].sv /\ q.wt = sock[s].wt /\ q.ctx = sock[s].ctx
        /\ q.proc = sock[s].proc
    BY DEF IInv, TypeOK, SockType
  <2>2. sock' = [sock EXCEPT ![s] = q] /\ events' \in 0..MaxEvents
    BY <1>1 DEF IInv, TypeOK
  <2> HIDE DEF q
  <2>3. QED
    BY <1>1, <2>1, <2>2, OneSocket
<1>2. QED
  BY <1>1, FailStartStep DEF Message, Hold

LEMMA SpawnStep ==
  ASSUME IInv, NEW s \in pending, Spawn(s), ~Outdated(s),
         UNCHANGED <<client, trust, life, events>>
  PROVE  IInv'
<1> DEFINE q == [sock[s] EXCEPT !.proc = "running",
                                !.hello = IF @ = "held" THEN "got" ELSE @]
<1>1. /\ s \in Sockets /\ sock[s] \in SockType /\ sock \in [Sockets -> SockType]
      /\ sock[s].sv = "open" /\ sock[s].wt \in Worktrees
      /\ byKey[sock[s].wt] = s /\ life = "up"
  BY DEF IInv, TypeOK, ServerOK, Claims
<1>2. /\ q \in SockType /\ q.cl = sock[s].cl /\ q.win = sock[s].win
      /\ q.sv = "open" /\ q.wt = sock[s].wt /\ q.ctx = sock[s].ctx
  BY <1>1 DEF SockType
<1>3. sock' = [sock EXCEPT ![s] = q]
  BY <1>1 DEF Spawn
<1> HIDE DEF q
<1>4. TypeOK'
  <2>1. sock' \in [Sockets -> SockType]
    BY <1>1, <1>2, <1>3
  <2>2. pending' \subseteq Sockets /\ live' \subseteq Sockets /\ UNCHANGED byKey
    BY <1>1 DEF Spawn, IInv, TypeOK
  <2>3. QED
    BY <2>1, <2>2 DEF IInv, TypeOK, client
<1>5. Behind
  BY <1>1, <1>2, <1>3 DEF Behind
<1>6. ASSUME NEW x \in Sockets PROVE Claims(x)'
  <2>1. CASE x = s
    BY <1>1, <1>2, <1>3, <2>1 DEF Spawn, Outdated, Claims
  <2>2. CASE x # s
    BY <1>1, <1>3, <2>2 DEF Spawn, IInv, ServerOK, Claims
  <2>3. QED
    BY <2>1, <2>2
<1>7. ServerOK'
  BY <1>1, <1>6 DEF Spawn, IInv, ServerOK
<1>8. QED
  BY <1>4, <1>5, <1>7, ClientKept DEF IInv, client

LEMMA ResolvedStep == ASSUME IInv, NEW s \in Sockets, Resolved(s) PROVE IInv'
<1>1. CASE Forget({s}) /\ sock' = EndedAll({s}, "restart")
  BY <1>1, EndsStep DEF Resolved, Codes, IInv, TypeOK
<1>2. CASE FailStart(s)
  BY <1>2, FailStartStep DEF Resolved
<1>3. CASE ~Outdated(s) /\ Spawn(s)
  BY <1>3, SpawnStep DEF Resolved
<1>4. CASE /\ Forget({s})
           /\ sock' = [s2 \in Sockets |->
                IF s2 = s THEN Ended([sock[s] EXCEPT !.proc = "running"],
                                     "startFailed")
                ELSE sock[s2]]
  <2> DEFINE r == [sock[s] EXCEPT !.proc = "running"]
  <2>1. /\ r \in SockType /\ r.cl = sock[s].cl /\ r.win = sock[s].win
        /\ "startFailed" \in Codes
    BY DEF IInv, TypeOK, SockType, Codes
  <2> HIDE DEF r
  <2>2. /\ sock'[s] = Ended(r, "startFailed")
        /\ \A x \in Sockets \ {s} : sock'[x] = sock[x]
        /\ sock' = [x \in Sockets |-> IF x = s THEN Ended(r, "startFailed") ELSE sock[x]]
    BY <1>4 DEF r
  <2>3. /\ sock'[s].sv = "closed" /\ sock'[s].proc # "running" /\ Behind
        /\ sock' \in [Sockets -> SockType]
    BY <2>1, <2>2, EndedUp DEF Behind, IInv, TypeOK
  <2>4. TypeOK'
    BY <1>4, <2>3 DEF Resolved, Forget, KeysWithout, IInv, TypeOK, client
  <2>5. ASSUME NEW x \in Sockets PROVE Claims(x)'
    <3>1. CASE x = s
      BY <1>4, <2>3, <3>1 DEF Claims, Forget
    <3>2. CASE x # s
      BY <1>4, <2>2, <3>2 DEF Resolved, Claims, Forget, KeysWithout, IInv, ServerOK
    <3>3. QED
      BY <3>1, <3>2
  <2>6. ServerOK'
    BY <1>4, <2>5 DEF Resolved, Forget, IInv, ServerOK
  <2>7. QED
    BY <2>3, <2>4, <2>6, ClientKept DEF Resolved, IInv, client
<1>5. QED
  BY <1>1, <1>2, <1>3, <1>4 DEF Resolved

LEMMA ExitSteps ==
  ASSUME IInv, NEW s \in Sockets,
         NeverOpens(s) \/ Exits(s) \/ ExitHandled(s) \/ Close(s)
  PROVE  IInv'
<1>1. /\ sock[s] \in SockType /\ sock \in [Sockets -> SockType]
      /\ events \in 0..MaxEvents /\ MaxEvents \in Nat
  BY LspAssumption DEF IInv, TypeOK
<1>2. CASE NeverOpens(s)
  <2>1. s \notin pending \cup live
    BY <1>2 DEF NeverOpens, IInv, ServerOK, Claims
  <2>2. QED
    BY <1>1, <1>2, <2>1, OneSocket, UnusedType DEF NeverOpens, Unused
<1>3. CASE Exits(s)
  <2> DEFINE q == [sock[s] EXCEPT !.proc = "exited"]
  <2>1. /\ q \in SockType /\ q.cl = sock[s].cl /\ q.win = sock[s].win
        /\ q.sv = sock[s].sv /\ q.wt = sock[s].wt /\ q.ctx = sock[s].ctx
        /\ q.proc # "running"
    BY <1>1 DEF SockType
  <2>2. sock' = [sock EXCEPT ![s] = q] /\ events' \in 0..MaxEvents
    BY <1>1, <1>3 DEF Exits, Event
  <2> HIDE DEF q
  <2>3. QED
    BY <1>3, <2>1, <2>2, OneSocket DEF Exits
<1>4. CASE Close(s)
  BY <1>4, EndsStep DEF Close, Codes, IInv, TypeOK
<1>5. CASE ExitHandled(s) /\ s \notin live
  <2> DEFINE c == [sock[s] EXCEPT !.proc = "none"]
             q == Tidy(c)
  <2>1. /\ c \in SockType /\ c.cl = sock[s].cl /\ c.win = sock[s].win
        /\ c.sv = sock[s].sv /\ c.wt = sock[s].wt /\ c.ctx = sock[s].ctx
        /\ c.proc = "none"
    BY <1>1 DEF SockType
  <2>2. sock' = [sock EXCEPT ![s] = q]
    BY <1>1, <1>5 DEF ExitHandled
  <2>3. q \in SockType /\ (q = c \/ (q = Unused /\ c.sv = "closed"))
    BY <2>1, TidyType DEF Tidy
  <2> HIDE DEF c, q
  <2>4. s \in pending \cup live => sock[s].sv = "open"
    BY DEF IInv, ServerOK, Claims
  <2>5. QED
    BY <1>1, <1>5, <2>1, <2>2, <2>3, <2>4, OneSocket, UnusedType DEF ExitHandled, Unused
<1>6. CASE ExitHandled(s) /\ s \in live
  <2> DEFINE c == [sock[s] EXCEPT !.proc = "none"]
             q == Ended(c, "exited")
  <2>1. c \in SockType /\ c.cl = sock[s].cl /\ c.win = sock[s].win /\ "exited" \in Codes
    BY <1>1 DEF SockType, Codes
  <2>2. sock' = [sock EXCEPT ![s] = q] /\ Forget({s})
    BY <1>1, <1>6 DEF ExitHandled
  <2> HIDE DEF c
  <2>3. /\ q \in SockType /\ q.sv = "closed" /\ q.proc # "running"
        /\ q.cl # "closed" => q.cl = sock[s].cl /\ q.win = sock[s].win
    BY <2>1, EndedUp
  <2> HIDE DEF q
  <2>4. Behind /\ sock' \in [Sockets -> SockType]
    BY <1>1, <2>2, <2>3 DEF Behind
  <2>5. TypeOK'
    BY <1>6, <2>2, <2>4 DEF ExitHandled, Forget, KeysWithout, IInv, TypeOK, client
  <2>6. ASSUME NEW x \in Sockets PROVE Claims(x)'
    <3>1. CASE x = s
      BY <1>1, <2>2, <2>3, <3>1 DEF Claims, Forget
    <3>2. CASE x # s
      BY <1>1, <1>6, <2>2, <3>2
      DEF ExitHandled, Claims, Forget, KeysWithout, IInv, ServerOK
    <3>3. QED
      BY <3>1, <3>2
  <2>7. ServerOK'
    BY <1>6, <2>2, <2>6 DEF ExitHandled, Forget, IInv, ServerOK
  <2>8. QED
    BY <1>6, <2>4, <2>5, <2>7, ClientKept DEF ExitHandled, IInv, client
<1>7. QED
  BY <1>2, <1>3, <1>4, <1>5, <1>6

LEMMA TrustStep == ASSUME IInv, NEW k \in Worktrees, TrustChange(k) PROVE IInv'
<1> DEFINE D == {s \in live : sock[s].wt = k}
<1>1. D \in SUBSET Sockets /\ "restart" \in Codes
  BY DEF IInv, TypeOK, Codes
<1>2. trust' \in [Worktrees -> BOOLEAN] /\ events' \in 0..MaxEvents
  BY LspAssumption DEF TrustChange, Event, IInv, TypeOK
<1>3. \A s \in live \ D : trust'[sock[s].wt] = trust[sock[s].wt]
  BY DEF TrustChange, IInv, TypeOK, ServerOK, Claims
<1>4. Forget(D) /\ sock' = EndedAll(D, "restart") /\ UNCHANGED <<client, life>>
  BY DEF TrustChange
<1> HIDE DEF D
<1>5. QED
  BY <1>1, <1>2, <1>3, <1>4, EndsStep

\* Loxel's server is torn down, or gone.
LEMMA TeardownSteps == ASSUME IInv, Destroy \/ Gone PROVE IInv'
<1>1. events' \in 0..MaxEvents /\ life' \in {"stopping", "down"} /\ ForgetAll
  <2>1. events \in 0..MaxEvents /\ MaxEvents \in Nat
    BY LspAssumption DEF IInv, TypeOK
  <2>2. CASE Destroy
    <3>1. events > 0 /\ events' = events - 1
      BY <2>2 DEF Destroy, Event
    <3>2. events' \in 0..MaxEvents
      BY <2>1, <3>1
    <3>3. QED
      BY <2>2, <3>2 DEF Destroy
  <2>3. CASE Gone
    <3>1. events' = events \/ (events > 0 /\ events' = events - 1)
      BY <2>3 DEF Gone
    <3>2. events' \in 0..MaxEvents
      BY <2>1, <3>1
    <3>3. QED
      BY <2>3, <3>2 DEF Gone
  <2>4. QED
    BY <2>2, <2>3
<1>2. ASSUME NEW s \in Sockets
      PROVE  /\ sock'[s] \in SockType /\ sock'[s].proc # "running"
             /\ sock'[s].sv # "closed" => sock'[s].wt \in Worktrees
             /\ sock'[s].cl # "closed" =>
                  sock'[s].cl = sock[s].cl /\ sock'[s].win = sock[s].win
  <2>1. sock[s] \in SockType /\ (sock[s].sv # "closed" => sock[s].wt \in Worktrees)
    BY DEF IInv, TypeOK, ServerOK, Claims
  <2>2. CASE Destroy
    <3> DEFINE r == [sock[s] EXCEPT !.proc = Killed(@)]
               c == [r EXCEPT !.sv = "closed", !.code = "lost"]
    <3>1. Killed(sock[s].proc) \in {"none", "exited", "stopping"}
      BY <2>1 DEF Killed, SockType
    <3>2. /\ r \in SockType /\ r.proc # "running" /\ r.sv = sock[s].sv
          /\ r.wt = sock[s].wt /\ r.cl = sock[s].cl /\ r.win = sock[s].win
      BY <2>1, <3>1 DEF SockType
    <3>3. /\ c \in SockType /\ c.proc # "running" /\ c.sv = "closed"
          /\ c.cl = sock[s].cl /\ c.win = sock[s].win
      BY <2>1, <3>1 DEF SockType, Codes
    <3>4. sock'[s] = IF r.sv = "opening" THEN Tidy(c) ELSE r
      BY <2>2 DEF Destroy
    <3> HIDE DEF r, c
    <3>5. /\ Unused.sv = "closed" /\ Unused.cl = "closed" /\ Unused.proc = "none"
      BY DEF Unused
    <3>6. CASE sock'[s] = r
      BY <2>1, <3>2, <3>6
    <3>7. CASE sock'[s] = c
      BY <3>3, <3>7
    <3>8. CASE sock'[s] = Unused
      BY <3>5, <3>8, UnusedType
    <3>9. QED
      BY <3>4, <3>6, <3>7, <3>8 DEF Tidy
  <2>3. CASE Gone
    <3> DEFINE c == [sock[s] EXCEPT !.sv = "closed", !.proc = "none",
                        !.code = IF @ = "none" \/ sock[s].cl = "connecting"
                                 THEN "lost" ELSE @]
               code == IF sock[s].code = "none" \/ sock[s].cl = "connecting"
                       THEN "lost" ELSE sock[s].code
    <3>1. code \in Codes
      BY <2>1 DEF SockType, Codes
    <3>2. c = [sock[s] EXCEPT !.sv = "closed", !.proc = "none", !.code = code]
      BY <2>1 DEF SockType
    <3> HIDE DEF c, code
    <3>3. /\ c \in SockType /\ c.proc # "running" /\ c.sv = "closed"
          /\ c.cl = sock[s].cl /\ c.win = sock[s].win
      BY <2>1, <3>1, <3>2 DEF SockType
    <3>4. sock'[s] = Tidy(c)
      BY <2>3 DEF Gone, c
    <3>5. /\ Unused.sv = "closed" /\ Unused.cl = "closed" /\ Unused.proc = "none"
      BY DEF Unused
    <3>6. CASE sock'[s] = c
      BY <3>3, <3>6
    <3>7. CASE sock'[s] = Unused
      BY <3>5, <3>7, UnusedType
    <3>8. QED
      BY <3>4, <3>6, <3>7 DEF Tidy
  <2>4. QED
    BY <2>2, <2>3
<1>3. sock' \in [Sockets -> SockType]
  <2>1. sock' = [s \in Sockets |-> sock'[s]]
    BY DEF Destroy, Gone
  <2>2. QED
    BY <1>2, <2>1
<1>4. UNCHANGED <<target, state, failures, resumed, cur, trust>> /\ owed' \subseteq owed
  BY DEF Destroy, Gone, client
<1>5. TypeOK'
  BY <1>1, <1>3, <1>4, LspAssumption DEF IInv, TypeOK, ForgetAll
<1>6. ServerOK'
  BY <1>1, <1>2 DEF ServerOK, Claims, ForgetAll
<1>7. Behind
  BY <1>2 DEF Behind
<1>8. QED
  BY <1>4, <1>5, <1>6, <1>7, ClientKept DEF IInv

LEMMA NextIInv == IInv /\ [Next]_vars => IInv'
<1> SUFFICES ASSUME IInv, [Next]_vars PROVE IInv'
  OBVIOUS
<1>1. ASSUME NEW w \in Windows, WindowStep(w) PROVE IInv'
  BY <1>1, ResumeStep, WindowSteps DEF WindowStep
<1>2. ASSUME NEW s \in Sockets, SocketStep(s) PROVE IInv'
  BY <1>2, SeesSteps, OpenStep, MessageStep, ResolvedStep, ExitSteps DEF SocketStep
<1>3. CASE Gone \/ Destroy
  BY <1>3, TeardownSteps
<1>4. CASE Starts
  <2>1. TypeOK' /\ ClientOK' /\ Current'
    BY <1>4 DEF Starts, IInv, TypeOK, ClientOK, Current, server
  <2>2. ServerOK'
    BY <1>4 DEF Starts, IInv, ServerOK, Claims, server
  <2>3. QED
    BY <2>1, <2>2 DEF IInv
<1>5. CASE Environment
  BY <1>3, <1>4, <1>5, WindowSteps, DisconnectStep, ExitSteps, TrustStep DEF Environment
<1>6. CASE UNCHANGED vars
  <2>1. TypeOK' /\ ClientOK' /\ Current'
    BY <1>6 DEF vars, client, server, IInv, TypeOK, ClientOK, Current
  <2>2. ServerOK'
    BY <1>6 DEF vars, server, IInv, ServerOK, Claims
  <2>3. QED
    BY <2>1, <2>2 DEF IInv
<1>7. QED
  BY <1>1, <1>2, <1>3, <1>5, <1>6 DEF Next, System

-----------------------------------------------------------------------------
\* The inductive invariant of the bridge: windows, sockets and the manager's
\* maps agree on who holds which worktree.
THEOREM BridgeInvariant == Spec => []IInv
<1>1. QED
  BY InitIInv, NextIInv, PTL DEF Spec

\* The variables of the bridge keep to their domains.
THEOREM TypeCorrect == Spec => []TypeOK
<1>1. IInv => TypeOK
  BY DEF IInv
<1>2. QED
  BY <1>1, BridgeInvariant, PTL

\* A worktree has at most one language server, or lookup for one, that was not
\* told to stop, and it belongs to the socket that holds its key.
THEOREM OneServerCorrect == Spec => []OneServer
<1>1. IInv => OneServer
  BY DEF IInv, ServerOK, Claims, OneServer
<1>2. QED
  BY <1>1, BridgeInvariant, PTL

\* No language server runs on an answer about trust that was taken back.
THEOREM TrustCorrect == Spec => []TrustHeld
<1>1. IInv => TrustHeld
  BY DEF IInv, ServerOK, Claims, TrustHeld
<1>2. QED
  BY <1>1, BridgeInvariant, PTL

\* No language server starts behind the teardown of Loxel's server.
THEOREM TeardownCorrect == Spec => []NothingStartsBehindTeardown
<1>1. IInv => NothingStartsBehindTeardown
  BY DEF IInv, ServerOK, Claims, NothingStartsBehindTeardown
<1>2. QED
  BY <1>1, BridgeInvariant, PTL

-----------------------------------------------------------------------------
(* Who may be replaced.                                                     *)

\* The current socket of a window is the window's, and open at its end.
Owner ==
  \A w \in Windows : cur[w] # None =>
    cur[w] \in Sockets /\ sock[cur[w]].win = w /\ sock[cur[w]].cl # "closed"

\* The holder of a key asked for that key, and is open.
Held ==
  \A k \in Worktrees : byKey[k] # None =>
    byKey[k] \in Sockets /\ sock[byKey[k]].sv = "open" /\ sock[byKey[k]].wt = k

\* A socket the server has yet to open is some window's, and not open there.
Unopened ==
  \A s \in Sockets : sock[s].sv = "opening" =>
    sock[s].win \in Windows /\ sock[s].cl # "open"

\* Once a window's current socket is open at the server, none of its older ones
\* has yet to open.
LastOpens ==
  \A w \in Windows : cur[w] # None /\ sock[cur[w]].sv = "open" =>
    \A s \in Sockets : sock[s].win = w => sock[s].sv # "opening"

Order == Owner /\ Held /\ Unopened /\ LastOpens

\* A step after which no more sockets were replaced than before.
NoneReplaced ==
  \A s \in Sockets : sock'[s].code = "replaced" => sock[s].code = "replaced"

\* Forgetting a socket that is over at both ends changes neither end.
LEMMA TidyEnds ==
  ASSUME NEW r \in SockType
  PROVE  /\ Tidy(r).cl = r.cl /\ Tidy(r).sv = r.sv /\ Tidy(r).proc = r.proc
         /\ r.cl # "closed" \/ r.sv # "closed" => Tidy(r) = r
         /\ Tidy(r).code = "replaced" => r.code = "replaced"
BY DEF Tidy, Unused

\* What closing a window's current socket does to each socket.
LEMMA ReleasedEnds ==
  ASSUME IInv, NEW w \in Windows, NEW s \in Sockets
  PROVE  LET q == Released(w)[s] IN
           /\ q.sv = sock[s].sv
           /\ s # cur[w] => q = sock[s]
           /\ q.cl # "closed" => q.cl = sock[s].cl
           /\ q.sv # "closed" => q.win = sock[s].win /\ q.wt = sock[s].wt
           /\ q.code = "replaced" => sock[s].code = "replaced"
<1>1. sock[s] \in SockType /\ sock \in [Sockets -> SockType]
  BY DEF IInv, TypeOK
<1>2. CASE cur[w] = s
  <2> DEFINE c == [sock[s] EXCEPT !.cl = "closed"]
  <2>1. Released(w)[s] = Tidy(c)
    BY <1>1, <1>2, LspAssumption DEF Released
  <2>2. /\ c \in SockType /\ c.cl = "closed" /\ c.sv = sock[s].sv /\ c.wt = sock[s].wt
        /\ c.win = sock[s].win /\ c.code = sock[s].code
    BY <1>1 DEF SockType
  <2> HIDE DEF c
  <2>3. QED
    BY <1>2, <2>1, <2>2, TidyEnds
<1>3. CASE cur[w] # s
  BY <1>1, <1>3 DEF Released
<1>4. QED
  BY <1>2, <1>3

LEMMA LetGoOrder ==
  ASSUME IInv, Order, NEW w \in Windows, NEW st, LetGo(w, st), UNCHANGED byKey
  PROVE  Order' /\ NoneReplaced
<1>1. sock' = Released(w) /\ cur' = [cur EXCEPT ![w] = None]
      /\ cur \in [Windows -> Sockets \cup {None}]
  BY DEF LetGo, IInv, TypeOK
<1>2. \A s \in Sockets :
        /\ sock'[s].sv = sock[s].sv
        /\ s # cur[w] => sock'[s] = sock[s]
        /\ sock'[s].cl # "closed" => sock'[s].cl = sock[s].cl
        /\ sock'[s].sv # "closed" => sock'[s].win = sock[s].win /\ sock'[s].wt = sock[s].wt
        /\ sock'[s].code = "replaced" => sock[s].code = "replaced"
  BY <1>1, ReleasedEnds
<1>3. cur'[w] = None /\ \A v \in Windows \ {w} : cur'[v] = cur[v]
  BY <1>1
<1>4. \A v \in Windows \ {w} : cur[v] # None => cur[v] # cur[w]
  BY DEF Order, Owner
<1>5. Owner'
  BY <1>2, <1>3, <1>4 DEF Order, Owner
<1>6. Held'
  BY <1>2 DEF Order, Held
<1>7. Unopened'
  BY <1>2 DEF Order, Unopened
<1>8. LastOpens'
  BY <1>2, <1>3, <1>4 DEF Order, Owner, LastOpens
<1>9. QED
  BY <1>2, <1>5, <1>6, <1>7, <1>8 DEF Order, NoneReplaced

LEMMA AttemptOrder ==
  ASSUME IInv, Order, NEW w \in Windows, NEW k \in Worktrees, Attempt(w, k),
         UNCHANGED byKey
  PROVE  Order' /\ NoneReplaced
<1> DEFINE base == Released(w)
           free == {x \in Sockets : base[x] = Unused}
           t == CHOOSE x \in free : TRUE
           new == Opening(w, k)
<1>1. /\ free # {} /\ sock' = [base EXCEPT ![t] = new]
      /\ cur' = [cur EXCEPT ![w] = t]
  BY DEF Attempt
<1>2. t \in Sockets /\ base[t] = Unused
  BY <1>1
<1>3. base[t].sv = "closed" /\ base[t].cl = "closed"
  BY <1>2 DEF Unused
<1>4. /\ new.win = w /\ new.cl = "connecting" /\ new.sv # "open"
      /\ new.code # "replaced"
  BY DEF Opening, Unused
<1>5. DOMAIN base = Sockets /\ cur \in [Windows -> Sockets \cup {None}]
  BY DEF Released, IInv, TypeOK
<1>6. \A s \in Sockets :
        /\ base[s].sv = sock[s].sv
        /\ s # cur[w] => base[s] = sock[s]
        /\ base[s].cl # "closed" => base[s].cl = sock[s].cl
        /\ base[s].sv # "closed" => base[s].win = sock[s].win /\ base[s].wt = sock[s].wt
        /\ base[s].code = "replaced" => sock[s].code = "replaced"
  BY ReleasedEnds
<1> HIDE DEF base, free, t, new
<1>7. sock'[t] = new /\ \A s \in Sockets \ {t} : sock'[s] = base[s]
  BY <1>1, <1>2, <1>5
<1>8. cur'[w] = t /\ \A v \in Windows \ {w} : cur'[v] = cur[v]
  BY <1>1, <1>5
<1>9. \A v \in Windows \ {w} : cur[v] # None =>
        /\ cur[v] \in Sockets \ {t} /\ base[cur[v]] = sock[cur[v]]
        /\ sock'[cur[v]] = sock[cur[v]]
  <2> SUFFICES ASSUME NEW v \in Windows \ {w}, cur[v] # None
               PROVE  /\ cur[v] \in Sockets \ {t} /\ base[cur[v]] = sock[cur[v]]
                      /\ sock'[cur[v]] = sock[cur[v]]
    OBVIOUS
  <2>1. cur[v] \in Sockets /\ cur[v] # cur[w] /\ sock[cur[v]].cl # "closed"
    BY DEF Order, Owner
  <2>2. base[cur[v]] = sock[cur[v]]
    BY <1>6, <2>1
  <2>3. cur[v] # t
    BY <1>3, <2>1, <2>2
  <2>4. QED
    BY <1>7, <2>1, <2>2, <2>3
<1>10. Owner'
  BY <1>2, <1>4, <1>7, <1>8, <1>9 DEF Order, Owner
<1>11. Held'
  BY <1>3, <1>6, <1>7 DEF Order, Held
<1>12. Unopened'
  BY <1>4, <1>6, <1>7 DEF Order, Unopened
<1>13. LastOpens'
  <2> SUFFICES ASSUME NEW v \in Windows, cur'[v] # None, sock'[cur'[v]].sv = "open",
                      NEW s \in Sockets, sock'[s].win = v, sock'[s].sv = "opening"
               PROVE  FALSE
    BY DEF LastOpens
  <2>1. v # w
    BY <1>4, <1>7, <1>8
  <2>2. s # t
    BY <1>4, <1>7, <2>1
  <2>3. sock[s].sv = "opening" /\ sock[s].win = v
    BY <1>6, <1>7, <2>2
  <2>4. cur[v] # None /\ sock[cur[v]].sv = "open"
    BY <1>8, <1>9, <2>1
  <2>5. QED
    BY <2>3, <2>4 DEF Order, LastOpens
<1>14. NoneReplaced
  BY <1>4, <1>6, <1>7 DEF NoneReplaced
<1>15. QED
  BY <1>10, <1>11, <1>12, <1>13, <1>14 DEF Order

\* A socket over at the server stays as it was at its window's end.
LEMMA EndedEnds ==
  ASSUME NEW r \in SockType, NEW code \in Codes
  PROVE  /\ Ended(r, code).sv = "closed" /\ Ended(r, code).cl = r.cl
         /\ r.cl # "closed" => Ended(r, code).win = r.win
         /\ Ended(r, code).code = "replaced" => code = "replaced"
<1>1. Killed(r.proc) \in {"none", "exited", "stopping"}
  BY DEF Killed, SockType
<1> DEFINE c == [r EXCEPT !.sv = "closed", !.code = code, !.proc = Killed(@)]
<1>2. c \in SockType /\ c.sv = "closed" /\ c.cl = r.cl /\ c.win = r.win /\ c.code = code
  BY <1>1 DEF SockType
<1>3. Ended(r, code) = Tidy(c)
  BY DEF Ended
<1> HIDE DEF c
<1>4. QED
  BY <1>2, <1>3, TidyEnds

\* What a step that makes no socket of a window current, and opens none at the
\* server, does to each socket.
Keeps(s) ==
  /\ sock[s].cl # "closed" => sock'[s].cl # "closed" /\ sock'[s].win = sock[s].win
  /\ sock'[s].sv = "opening" =>
       /\ sock[s].sv = "opening" /\ sock'[s].win = sock[s].win
       /\ sock'[s].cl = "open" => sock[s].cl = "open"
  /\ sock'[s].sv = "open" => sock[s].sv = "open"

LEMMA KeptOrder ==
  ASSUME Order, \A s \in Sockets : Keeps(s), Held', UNCHANGED cur
  PROVE  Order'
<1>1. Owner'
  BY DEF Order, Owner, Keeps
<1>2. Unopened'
  BY DEF Order, Unopened, Keeps
<1>3. LastOpens'
  BY DEF Order, Owner, LastOpens, Keeps
<1>4. QED
  BY <1>1, <1>2, <1>3 DEF Order

\* A step that only concerns the record of one socket, which stays open at the
\* server if it was.
LEMMA OneSocketOrder ==
  ASSUME IInv, Order, NEW s \in Sockets, NEW q \in SockType,
         sock' = [sock EXCEPT ![s] = q], UNCHANGED <<cur, byKey>>,
         sock[s].cl # "closed" => q.cl # "closed" /\ q.win = sock[s].win,
         q.sv = sock[s].sv \/ (q.sv = "closed" /\ sock[s].sv = "opening"),
         q.sv # "closed" => q.win = sock[s].win /\ q.wt = sock[s].wt,
         q.sv = "opening" /\ q.cl = "open" => sock[s].cl = "open",
         q.code = "replaced" => sock[s].code = "replaced"
  PROVE  Order' /\ NoneReplaced
<1>1. sock'[s] = q /\ \A x \in Sockets \ {s} : sock'[x] = sock[x]
  BY DEF IInv, TypeOK
<1>2. ASSUME NEW x \in Sockets PROVE Keeps(x)
  BY <1>1 DEF Keeps
<1>3. Held'
  BY <1>1 DEF Order, Held
<1>4. QED
  BY <1>1, <1>2, <1>3, KeptOrder DEF NoneReplaced

\* Sockets detached and closed for any reason but that another took their key.
LEMMA EndsOrder ==
  ASSUME IInv, Order, NEW D \in SUBSET Sockets, Forget(D), UNCHANGED cur,
         \A s \in Sockets \ D : sock'[s] = sock[s],
         \A s \in D : /\ sock'[s].sv = "closed" /\ sock'[s].cl = sock[s].cl
                      /\ sock[s].cl # "closed" => sock'[s].win = sock[s].win
                      /\ sock'[s].code # "replaced"
  PROVE  Order' /\ NoneReplaced
<1>1. ASSUME NEW x \in Sockets PROVE Keeps(x)
  BY DEF Keeps
<1>2. Held'
  BY DEF Order, Held, Forget, KeysWithout
<1>3. QED
  BY <1>1, <1>2, KeptOrder DEF NoneReplaced

LEMMA EndedOrder ==
  ASSUME IInv, Order, NEW D \in SUBSET Sockets, NEW code \in Codes \ {"replaced"},
         Forget(D), sock' = EndedAll(D, code), UNCHANGED cur
  PROVE  Order' /\ NoneReplaced
<1>1. \A s \in Sockets : sock[s] \in SockType
  BY DEF IInv, TypeOK
<1>2. \A s \in Sockets \ D : sock'[s] = sock[s]
  BY DEF EndedAll
<1>3. \A s \in D : /\ sock'[s].sv = "closed" /\ sock'[s].cl = sock[s].cl
                   /\ sock[s].cl # "closed" => sock'[s].win = sock[s].win
                   /\ sock'[s].code # "replaced"
  BY <1>1, EndedEnds DEF EndedAll
<1>4. QED
  BY <1>2, <1>3, EndsOrder

\* The window's steps make no socket "replaced", and the current one of a
\* window is always the last to open.
LEMMA WindowOrder ==
  ASSUME IInv, Order, NEW w \in Windows,
         \/ \E k \in Worktrees : Connect(w, k)
         \/ Disconnect(w) \/ Restart(w) \/ Resume(w) \/ TimerFires(w)
  PROVE  Order' /\ NoneReplaced
<1>1. UNCHANGED byKey
  BY DEF Connect, Disconnect, Restart, Resume, TimerFires, server
<1>2. ASSUME NEW k \in Worktrees, Connect(w, k) PROVE Order' /\ NoneReplaced
  BY <1>1, <1>2, AttemptOrder DEF Connect
<1>3. CASE Disconnect(w)
  BY <1>1, <1>3, LetGoOrder DEF Disconnect
<1>4. ASSUME Restart(w) \/ Resume(w) \/ TimerFires(w), Attempt(w, target[w])
      PROVE  Order' /\ NoneReplaced
  <2>1. target[w] # None
    BY <1>4 DEF Restart, Resume, TimerFires, Attempt, IInv, ClientOK, TypeOK
  <2>2. QED
    BY <1>1, <1>4, <2>1, AttemptOrder DEF IInv, TypeOK
<1>5. CASE UNCHANGED <<cur, sock>>
  <2>1. Order'
    BY <1>1, <1>5 DEF Order, Owner, Held, Unopened, LastOpens
  <2>2. QED
    BY <1>5, <2>1 DEF NoneReplaced
<1>6. QED
  BY <1>2, <1>3, <1>4, <1>5 DEF Restart, Resume, TimerFires

LEMMA SeesOrder ==
  ASSUME IInv, Order, NEW s \in Sockets, SeesOpen(s) \/ OpenFails(s) \/ SeesClose(s)
  PROVE  Order' /\ NoneReplaced
<1> DEFINE w == sock[s].win
<1>1. sock[s] \in SockType /\ sock \in [Sockets -> SockType]
  BY DEF IInv, TypeOK
<1>2. w \in Windows /\ cur[w] = s /\ target[w] \in Worktrees
  <2>1. sock[s].cl # "closed"
    BY DEF SeesOpen, OpenFails, SeesClose
  <2>2. w \in Windows /\ cur[w] = s /\ cur[w] # None
    BY <2>1, LspAssumption DEF IInv, Current
  <2>3. QED
    BY <2>2 DEF IInv, ClientOK, TypeOK
<1>3. ASSUME NEW code \in Codes, NEW stable \in BOOLEAN,
             HandleClose(w, code, stable), UNCHANGED byKey
      PROVE  Order' /\ NoneReplaced
  <2>1. Attempt(w, target[w]) \/ \E st : LetGo(w, st)
    BY <1>3 DEF HandleClose
  <2> HIDE DEF w
  <2>2. CASE Attempt(w, target[w])
    BY <1>2, <1>3, <2>2, AttemptOrder
  <2>3. CASE \E st : LetGo(w, st)
    <3>1. PICK st : LetGo(w, st)
      BY <2>3
    <3>2. QED
      BY <1>2, <1>3, <3>1, LetGoOrder
  <2>4. QED
    BY <2>1, <2>2, <2>3
<1>4. CASE OpenFails(s)
  BY <1>3, <1>4 DEF OpenFails, server, Codes
<1>5. CASE SeesClose(s)
  BY <1>1, <1>3, <1>5 DEF SeesClose, server, SockType
<1>6. CASE SeesOpen(s)
  <2> DEFINE q == [sock[s] EXCEPT !.cl = "open", !.hello = "wire"]
  <2>1. /\ q \in SockType /\ q.win = w /\ q.sv = sock[s].sv /\ q.wt = sock[s].wt
        /\ q.cl = "open" /\ q.code = sock[s].code
    BY <1>1 DEF SockType
  <2>2. sock' = [sock EXCEPT ![s] = q]
    BY <1>1, <1>6 DEF SeesOpen
  <2>3. UNCHANGED <<cur, byKey>> /\ sock[s].sv # "opening"
    BY <1>6 DEF SeesOpen, server
  <2> HIDE DEF q
  <2>4. QED
    BY <2>1, <2>2, <2>3, OneSocketOrder
<1>7. QED
  BY <1>4, <1>5, <1>6

\* The server's steps on one socket, but for its opening.
LEMMA ServerOrder ==
  ASSUME IInv, Order, NEW s \in Sockets,
         NeverOpens(s) \/ Message(s) \/ Resolved(s) \/ Exits(s) \/ ExitHandled(s) \/ Close(s)
  PROVE  Order' /\ NoneReplaced
<1>1. sock[s] \in SockType /\ sock \in [Sockets -> SockType] /\ s \notin {None}
  BY LspAssumption DEF IInv, TypeOK
<1>2. UNCHANGED cur
  BY DEF NeverOpens, Message, Resolved, Exits, ExitHandled, Close, client
<1>3. ASSUME NEW code \in Codes \ {"replaced"}, Forget({s}), sock' = EndedAll({s}, code)
      PROVE  Order' /\ NoneReplaced
  <2>1. {s} \in SUBSET Sockets
    OBVIOUS
  <2>2. QED
    BY <1>2, <1>3, <2>1, EndedOrder
<1>5. CASE NeverOpens(s)
  BY <1>1, <1>5, UnusedType, OneSocketOrder DEF NeverOpens, Unused, client, server
<1>6. ASSUME NEW q \in SockType, q.win = sock[s].win, q.sv = sock[s].sv,
             q.wt = sock[s].wt, q.cl = sock[s].cl, q.code = sock[s].code,
             sock' = [sock EXCEPT ![s] = q], UNCHANGED byKey
      PROVE  Order' /\ NoneReplaced
  BY <1>2, <1>6, OneSocketOrder
<1>7. CASE Message(s) /\ ~FailStart(s)
  <2>1. PICK h \in {"none", "held", "got"} : sock' = [sock EXCEPT ![s].hello = h]
    BY <1>7 DEF Message, Hold
  <2> DEFINE q == [sock[s] EXCEPT !.hello = h]
  <2>2. /\ q \in SockType /\ q.win = sock[s].win /\ q.sv = sock[s].sv
        /\ q.wt = sock[s].wt /\ q.cl = sock[s].cl /\ q.code = sock[s].code
        /\ sock' = [sock EXCEPT ![s] = q]
    BY <1>1, <2>1 DEF SockType
  <2>3. UNCHANGED byKey
    BY <1>7 DEF Message, Hold, server
  <2> HIDE DEF q
  <2>4. QED
    BY <1>6, <2>2, <2>3
<1>8. CASE FailStart(s)
  BY <1>3, <1>8 DEF FailStart, Codes
<1>9. CASE Spawn(s)
  <2> DEFINE q == [sock[s] EXCEPT !.proc = "running",
                                  !.hello = IF @ = "held" THEN "got" ELSE @]
  <2>1. /\ q \in SockType /\ q.win = sock[s].win /\ q.sv = sock[s].sv
        /\ q.wt = sock[s].wt /\ q.cl = sock[s].cl /\ q.code = sock[s].code
    BY <1>1 DEF SockType
  <2>2. sock' = [sock EXCEPT ![s] = q] /\ UNCHANGED byKey
    BY <1>1, <1>9 DEF Spawn
  <2> HIDE DEF q
  <2>3. QED
    BY <1>6, <2>1, <2>2
<1>10. ASSUME NEW r \in SockType, NEW code \in Codes \ {"replaced"}, Forget({s}),
              r.cl = sock[s].cl, r.win = sock[s].win,
              sock'[s] = Ended(r, code), \A x \in Sockets \ {s} : sock'[x] = sock[x]
       PROVE  Order' /\ NoneReplaced
  <2>1. /\ sock'[s].sv = "closed" /\ sock'[s].cl = sock[s].cl
        /\ sock[s].cl # "closed" => sock'[s].win = sock[s].win
        /\ sock'[s].code # "replaced"
    BY <1>10, EndedEnds
  <2>2. {s} \in SUBSET Sockets
    OBVIOUS
  <2>3. QED
    BY <1>2, <1>10, <2>1, <2>2, EndsOrder
<1>11. CASE Resolved(s) /\ ~FailStart(s) /\ ~Spawn(s)
  <2>1. CASE Outdated(s)
    BY <1>3, <1>11, <2>1 DEF Resolved, Codes
  <2>2. CASE ~Outdated(s)
    <3> DEFINE r == [sock[s] EXCEPT !.proc = "running"]
    <3>1. Forget({s}) /\ sock' = [x \in Sockets |->
            IF x = s THEN Ended(r, "startFailed") ELSE sock[x]]
      BY <1>11, <2>2 DEF Resolved
    <3>2. /\ r \in SockType /\ r.cl = sock[s].cl /\ r.win = sock[s].win
          /\ "startFailed" \in Codes \ {"replaced"}
      BY <1>1 DEF SockType, Codes
    <3> HIDE DEF r
    <3>3. QED
      BY <1>10, <3>1, <3>2
  <2>3. QED
    BY <2>1, <2>2
<1>12. CASE Exits(s)
  <2> DEFINE q == [sock[s] EXCEPT !.proc = "exited"]
  <2>1. /\ q \in SockType /\ q.win = sock[s].win /\ q.sv = sock[s].sv
        /\ q.wt = sock[s].wt /\ q.cl = sock[s].cl /\ q.code = sock[s].code
    BY <1>1 DEF SockType
  <2>2. sock' = [sock EXCEPT ![s] = q] /\ UNCHANGED byKey
    BY <1>1, <1>12 DEF Exits, server
  <2> HIDE DEF q
  <2>3. QED
    BY <1>6, <2>1, <2>2
<1>13. CASE ExitHandled(s)
  <2> DEFINE c == [sock[s] EXCEPT !.proc = "none"]
  <2>1. /\ c \in SockType /\ c.win = sock[s].win /\ c.sv = sock[s].sv
        /\ c.wt = sock[s].wt /\ c.cl = sock[s].cl /\ c.code = sock[s].code
        /\ "exited" \in Codes \ {"replaced"}
    BY <1>1 DEF SockType, Codes
  <2>2. CASE s \in live
    <3>1. Forget({s}) /\ sock' = [sock EXCEPT ![s] = Ended(c, "exited")]
      BY <1>1, <1>13, <2>2 DEF ExitHandled
    <3> HIDE DEF c
    <3>2. QED
      BY <1>1, <1>10, <2>1, <3>1
  <2>3. CASE s \notin live
    <3>1. sock' = [sock EXCEPT ![s] = Tidy(c)] /\ UNCHANGED byKey
      BY <1>1, <1>13, <2>3 DEF ExitHandled, server
    <3> HIDE DEF c
    <3>2. QED
      BY <1>1, <1>2, <2>1, <3>1, TidyEnds, TidyType, OneSocketOrder
  <2>4. QED
    BY <2>2, <2>3
<1>14. CASE Close(s)
  BY <1>3, <1>14 DEF Close, Codes
<1>15. QED
  BY <1>5, <1>7, <1>8, <1>9, <1>11, <1>12, <1>13, <1>14

\* The user changes the trust, or Loxel's server is torn down, gone or back.
LEMMA LifeOrder ==
  ASSUME IInv, Order, (\E k \in Worktrees : TrustChange(k)) \/ Destroy \/ Gone \/ Starts
  PROVE  Order' /\ NoneReplaced
<1>1. \A s \in Sockets : sock[s] \in SockType
  BY DEF IInv, TypeOK
<1>2. ASSUME NEW k \in Worktrees, TrustChange(k) PROVE Order' /\ NoneReplaced
  <2> DEFINE D == {s \in live : sock[s].wt = k}
  <2>1. D \in SUBSET Sockets /\ "restart" \in Codes \ {"replaced"}
    BY DEF IInv, TypeOK, Codes
  <2>2. Forget(D) /\ sock' = EndedAll(D, "restart") /\ UNCHANGED cur
    BY <1>2 DEF TrustChange, client
  <2> HIDE DEF D
  <2>3. QED
    BY <2>1, <2>2, EndedOrder
<1>3. CASE Starts
  <2>1. UNCHANGED <<cur, sock, byKey>>
    BY <1>3 DEF Starts, server
  <2>2. QED
    BY <2>1 DEF Order, Owner, Held, Unopened, LastOpens, NoneReplaced
<1>4. CASE Destroy \/ Gone
  <2>1. ASSUME NEW s \in Sockets
        PROVE  Keeps(s) /\ (sock'[s].code = "replaced" => sock[s].code = "replaced")
    <3>1. CASE Destroy
      <4> DEFINE r == [sock[s] EXCEPT !.proc = Killed(@)]
                 c == [r EXCEPT !.sv = "closed", !.code = "lost"]
      <4>1. Killed(sock[s].proc) \in {"none", "exited", "stopping"}
        BY <1>1 DEF Killed, SockType
      <4>2. /\ r.sv = sock[s].sv /\ r.cl = sock[s].cl /\ r.win = sock[s].win
            /\ r.code = sock[s].code
        BY <1>1 DEF SockType
      <4>3. /\ c \in SockType /\ c.sv = "closed" /\ c.cl = sock[s].cl
            /\ c.win = sock[s].win /\ c.code = "lost"
        BY <1>1, <4>1 DEF SockType, Codes
      <4>4. sock'[s] = IF r.sv = "opening" THEN Tidy(c) ELSE r
        BY <3>1 DEF Destroy
      <4> HIDE DEF r, c
      <4>5. QED
        BY <4>2, <4>3, <4>4, TidyEnds DEF Keeps
    <3>2. CASE Gone
      <4> DEFINE code == IF sock[s].code = "none" \/ sock[s].cl = "connecting"
                         THEN "lost" ELSE sock[s].code
                 c == [sock[s] EXCEPT !.sv = "closed", !.proc = "none", !.code = code]
      <4>1. /\ c \in SockType /\ c.sv = "closed" /\ c.cl = sock[s].cl
            /\ c.win = sock[s].win /\ c.code = code
        BY <1>1 DEF SockType, Codes
      <4>2. code = "replaced" => sock[s].code = "replaced"
        OBVIOUS
      <4>3. sock'[s] = Tidy(c)
        BY <1>1, <3>2 DEF Gone, SockType
      <4> HIDE DEF c, code
      <4>4. QED
        BY <4>1, <4>2, <4>3, TidyEnds DEF Keeps
    <3>3. QED
      BY <1>4, <3>1, <3>2
  <2>2. UNCHANGED cur /\ ForgetAll
    BY <1>4 DEF Destroy, Gone, client
  <2>3. Held'
    BY <2>2 DEF Held, ForgetAll
  <2>4. QED
    BY <2>1, <2>2, <2>3, KeptOrder DEF NoneReplaced
<1>5. QED
  BY <1>2, <1>3, <1>4

\* The step form of NeverTakesItself.
SparesItself ==
  \A s \in Sockets :
    sock'[s].code = "replaced" /\ sock[s].code # "replaced"
      /\ sock[s].win # None /\ cur[sock[s].win] = s
    => sock'[byKey'[sock[s].wt]].win # sock[s].win

\* The one step that replaces a socket.  The newcomer is its window's current
\* one, and then the socket it replaces is not; or it was given up before it
\* opened, and then its window's current one has yet to open.
LEMMA OpenOrder ==
  ASSUME IInv, Order, NEW s \in Sockets, Open(s)
  PROVE  Order' /\ SparesItself
<1> DEFINE k == sock[s].wt
           D == Replaced(s)
           base == EndedAll(D, "replaced")
           q == [base[s] EXCEPT !.sv = "open", !.ctx = trust[k]]
<1>1. /\ sock \in [Sockets -> SockType] /\ sock[s] \in SockType /\ sock[s].sv = "opening"
      /\ k \in Worktrees /\ trust[k] \in BOOLEAN
      /\ cur \in [Windows -> Sockets \cup {None}]
      /\ byKey \in [Worktrees -> Sockets \cup {None}]
  BY DEF Open, IInv, TypeOK, ServerOK, Claims
<1>2. /\ s \notin D /\ D \subseteq Sockets
      /\ \A x \in D : byKey[k] = x /\ sock[x].sv = "open" /\ sock[x].wt = k
  BY <1>1, LspAssumption DEF Replaced, Order, Held
<1>3. /\ base[s] = sock[s] /\ base \in [Sockets -> SockType]
      /\ \A x \in Sockets \ D : base[x] = sock[x]
      /\ \A x \in D : /\ base[x].sv = "closed" /\ base[x].cl = sock[x].cl
                      /\ sock[x].cl # "closed" => base[x].win = sock[x].win
  <2>1. "replaced" \in Codes
    BY DEF Codes
  <2>2. QED
    BY <1>1, <1>2, <2>1, EndedUp, EndedEnds DEF EndedAll
<1>4. q.sv = "open" /\ q.wt = k /\ q.cl = sock[s].cl /\ q.win = sock[s].win
      /\ q.code = sock[s].code
  BY <1>1, <1>3 DEF SockType
<1>5. /\ sock' = [base EXCEPT ![s] = q]
      /\ byKey' = [byKey EXCEPT ![k] = s] /\ UNCHANGED cur
  BY <1>3 DEF Open, client
<1>6. sock[s].cl = "connecting" =>
        \A x \in Sockets \ {s} : ~(sock[x].win = sock[s].win /\ sock[x].sv = "opening")
  BY DEF Open
<1>7. sock[s].win \in Windows /\ sock[s].cl \in {"closed", "connecting"}
  BY <1>1 DEF Order, Unopened, SockType
<1> HIDE DEF base, q, D
<1>8. /\ sock'[s] = q /\ \A x \in Sockets \ {s} : sock'[x] = base[x]
      /\ byKey'[k] = s /\ \A j \in Worktrees \ {k} : byKey'[j] = byKey[j]
  BY <1>1, <1>3, <1>5
<1>9. Owner'
  BY <1>3, <1>4, <1>5, <1>8 DEF Order, Owner
<1>10. Held'
  <2> SUFFICES ASSUME NEW j \in Worktrees, byKey'[j] # None
               PROVE  byKey'[j] \in Sockets /\ sock'[byKey'[j]].sv = "open"
                      /\ sock'[byKey'[j]].wt = j
    BY DEF Held
  <2>1. CASE j = k
    BY <1>4, <1>8, <2>1
  <2>2. CASE j # k
    <3>1. /\ byKey'[j] = byKey[j] /\ byKey[j] \in Sockets
          /\ sock[byKey[j]].sv = "open" /\ sock[byKey[j]].wt = j
      BY <1>8, <2>2 DEF Order, Held
    <3>2. byKey[j] # s /\ byKey[j] \notin D
      BY <1>1, <1>2, <2>2, <3>1
    <3>3. QED
      BY <1>3, <1>8, <3>1, <3>2
  <2>3. QED
    BY <2>1, <2>2
<1>11. \A x \in Sockets : sock'[x].sv = "opening" =>
         x # s /\ x \notin D /\ sock'[x] = sock[x]
  BY <1>3, <1>4, <1>8
<1>12. Unopened'
  BY <1>11 DEF Order, Unopened
<1>13. LastOpens'
  <2> SUFFICES ASSUME NEW v \in Windows, cur[v] # None, sock'[cur[v]].sv = "open",
                      NEW x \in Sockets, sock'[x].win = v, sock'[x].sv = "opening"
               PROVE  FALSE
    BY <1>5 DEF LastOpens
  <2>1. x # s /\ sock[x].win = v /\ sock[x].sv = "opening"
    BY <1>11
  <2>2. CASE cur[v] = s
    BY <1>6, <1>7, <2>1, <2>2 DEF Order, Owner
  <2>3. CASE cur[v] # s
    <3>1. sock[cur[v]].sv = "open"
      BY <1>3, <1>8, <2>3 DEF Order, Owner
    <3>2. QED
      BY <2>1, <3>1 DEF Order, LastOpens
  <2>4. QED
    BY <2>2, <2>3
<1>14. SparesItself
  <2> SUFFICES ASSUME NEW x \in Sockets, sock'[x].code = "replaced",
                      sock[x].code # "replaced", sock[x].win # None,
                      cur[sock[x].win] = x, sock'[byKey'[sock[x].wt]].win = sock[x].win
               PROVE  FALSE
    BY DEF SparesItself
  <2>1. x \in D
    BY <1>3, <1>4, <1>8
  <2>2. byKey'[sock[x].wt] = s /\ sock[x].win = sock[s].win /\ sock[x].sv = "open"
    BY <1>2, <1>4, <1>8, <2>1
  <2>3. QED
    BY <1>1, <1>7, <2>2, LspAssumption DEF Order, LastOpens
<1>15. QED
  BY <1>9, <1>10, <1>12, <1>13, <1>14 DEF Order

LEMMA NextOrder == IInv /\ Order /\ [Next]_vars => Order' /\ SparesItself
<1> SUFFICES ASSUME IInv, Order, [Next]_vars PROVE Order' /\ SparesItself
  OBVIOUS
<1>1. NoneReplaced => SparesItself
  BY DEF NoneReplaced, SparesItself
<1>2. ASSUME NEW w \in Windows, WindowStep(w) PROVE Order' /\ SparesItself
  BY <1>1, <1>2, WindowOrder DEF WindowStep
<1>3. ASSUME NEW s \in Sockets, SocketStep(s) PROVE Order' /\ SparesItself
  BY <1>1, <1>3, SeesOrder, OpenOrder, ServerOrder DEF SocketStep
<1>4. CASE Gone \/ Destroy \/ Starts
  BY <1>1, <1>4, LifeOrder
<1>5. CASE Environment
  BY <1>1, <1>4, <1>5, WindowOrder, ServerOrder, LifeOrder DEF Environment
<1>6. CASE UNCHANGED vars
  <2>1. UNCHANGED <<cur, sock, byKey>>
    BY <1>6 DEF vars, client, server
  <2>2. QED
    BY <2>1 DEF Order, Owner, Held, Unopened, LastOpens, SparesItself
<1>7. QED
  BY <1>2, <1>3, <1>4, <1>5, <1>6 DEF Next, System

LEMMA InitOrder == Init => Order
BY DEF Init, Order, Owner, Held, Unopened, LastOpens, Unused

\* A window is only ever replaced by another one: whatever was given up, comes
\* late or races, no connection of a window takes the server from its current
\* one.
THEOREM OnlyOthersReplace == Spec => NeverTakesItself
<1>1. Spec => []Order
  BY InitOrder, NextOrder, BridgeInvariant, PTL DEF Spec
<1>2. IInv /\ Order /\ [Next]_vars => [SparesItself]_vars
  BY NextOrder
<1>3. Spec => [][SparesItself]_vars
  BY <1>1, <1>2, BridgeInvariant, PTL DEF Spec
<1>4. QED
  BY <1>3 DEF NeverTakesItself, SparesItself
=============================================================================
