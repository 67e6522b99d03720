---------------------------- MODULE StatusTracker ----------------------------
(***************************************************************************)
(* The dirty-status list of one project (worktree-status-tracker.ts), with *)
(* what drives it in server.ts: metadata events, worktrees that gain and   *)
(* lose subscribers, the status a subscribed worktree's file service       *)
(* reads, and windows that load the list.  A sweep lists the worktrees,    *)
(* reads them one by one, and is merged when all are read.                 *)
(*                                                                         *)
(* Time is abstracted: an armed timer fires at any moment, and activity    *)
(* after the start of a sweep is later than it (reading begins when `git   *)
(* worktree list' has run, so activity of the same millisecond is read).   *)
(***************************************************************************)
EXTENDS Naturals

CONSTANTS
  Worktrees,     \* paths a worktree can have
  Requests,      \* the requests that may be waiting at once
  MaxEvents      \* bound: changes, metadata events, subscriptions, requests and failed reads

Summaries == {"clean", "dirty"}
Gone == "gone"       \* not in `git worktree list'
None == "none"       \* no status known
Unread == "unread"   \* listed, and the sweep has not come to it
Failed == "failed"   \* a status that could not be read

ASSUME TrackerAssumption == MaxEvents \in Nat

VARIABLES
  disk,            \* what git would report of each worktree now
  subscribed,      \* worktrees with resources and a subscriber
  live,            \* status snapshot of a subscribed worktree's file service
  entries,         \* status of the listed worktrees, None for the others
  generation,
  swept,           \* sweptGeneration + 1: 0 before the first sweep
  phase,           \* of the sweep in flight: "idle" (none), "listing", "reading"
  sweepGeneration, \* generation it began at
  probes,          \* what it has read; None for a worktree it did not list
  queued,          \* a follow-up is queued behind it
  timer,           \* a sweep is scheduled
  lateActivity,    \* lastActivityAt > startedAt
  published,       \* the dirty worktrees last published
  disposed,
  waiting,         \* what a request waits for: "no" (none), "sweep", "queued"
  announced,       \* history: worktrees unchanged, and read without failure, since an invalidation
  owed,            \* history: the same since an invalidation or activity
  asked,           \* history: what was announced when a request began
  events           \* how many events there were

sweepVars == <<phase, sweepGeneration, probes>>
worldVars == <<disk, subscribed, live>>
ghostVars == <<announced, owed, asked>>
vars == <<worldVars, entries, generation, swept, sweepVars, queued, timer, lateActivity,
          published, disposed, waiting, ghostVars, events>>

AnEvent == events < MaxEvents /\ events' = events + 1

HasListeners == subscribed # {}
DirtyIn(statuses) == {w \in Worktrees : statuses[w] = "dirty"}

Init ==
  /\ disk \in [Worktrees -> {"clean", Gone}]
  /\ subscribed = {}
  /\ live = [w \in Worktrees |-> None]
  /\ entries = [w \in Worktrees |-> None]
  /\ generation = 0
  /\ swept = 0
  /\ phase = "idle"
  /\ sweepGeneration = 0
  /\ probes = [w \in Worktrees |-> None]
  /\ queued = FALSE
  /\ timer = FALSE
  /\ lateActivity = FALSE
  /\ published = {}
  /\ disposed = FALSE
  /\ waiting = [r \in Requests |-> "no"]
  /\ announced = {}
  /\ owed = {}
  /\ asked = [r \in Requests |-> {}]
  /\ events = 0

-----------------------------------------------------------------------------
(* The tracker's own operations. *)

\* schedule: a timer that is due sooner covers a later one, so one armed timer stands for both.
Schedule(listeners) == timer' = (timer \/ listeners)

Invalidate(listeners) ==
  IF disposed
  THEN UNCHANGED <<generation, timer>>
  ELSE generation' = generation + 1 /\ Schedule(listeners)

ScheduleActivitySweep ==
  /\ lateActivity' = (phase # "idle")
  /\ Schedule(HasListeners)

\* The body of sweep() when none is in flight.
StartSweep ==
  /\ phase' = "listing"
  /\ sweepGeneration' = generation
  /\ probes' = [w \in Worktrees |-> None]
  /\ timer' = FALSE
  /\ lateActivity' = FALSE

\* A running sweep answers what began at its generation; anything newer gets the follow-up.
CanShareAny == TRUE   \* mutant: any running sweep is shared

CanShare == sweepGeneration = generation

\* Any sweep that begins after this one does: what it fails to read is read again.
AnotherFollows == queued \/ lateActivity \/ (timer /\ sweepGeneration # generation)

-----------------------------------------------------------------------------
(* What happens to the worktrees. *)

\* Something changes a worktree, adds one or deletes one; nobody is told yet.
Change(w) ==
  /\ ~disposed
  /\ AnEvent
  /\ \E s \in (Summaries \cup {Gone}) \ {disk[w]} : disk' = [disk EXCEPT ![w] = s]
  /\ announced' = announced \ {w}
  /\ owed' = owed \ {w}
  /\ asked' = [r \in Requests |-> asked[r] \ {w}]
  /\ UNCHANGED <<subscribed, live, entries, generation, swept, sweepVars, queued, timer,
                 lateActivity, published, disposed, waiting>>

\* A `worktrees' or `log' event: resources of deleted worktrees are released, then invalidate().
MetadataEvent ==
  /\ ~disposed
  /\ AnEvent
  /\ LET kept == {w \in subscribed : disk[w] # Gone}
     IN /\ subscribed' = kept
        /\ live' = [w \in Worktrees |-> IF w \in kept THEN live[w] ELSE None]
        /\ Invalidate(kept # {})
  /\ announced' = Worktrees
  /\ owed' = Worktrees
  /\ UNCHANGED <<disk, entries, swept, sweepVars, queued, lateActivity, published, disposed,
                 waiting, asked>>

\* createWorktreeResources: nothing swept a project nobody watched.
Subscribe(w) ==
  /\ ~disposed
  /\ w \notin subscribed /\ disk[w] # Gone
  /\ AnEvent
  /\ subscribed' = subscribed \cup {w}
  /\ Invalidate(TRUE)
  /\ announced' = Worktrees
  /\ owed' = Worktrees
  /\ UNCHANGED <<disk, live, entries, swept, sweepVars, queued, lateActivity, published, disposed,
                 waiting, asked>>

UnsubscribeKeepsStatus(w) ==   \* mutant: the status snapshot outlives the resources
  /\ w \in subscribed
  /\ subscribed' = subscribed \ {w}
  /\ UNCHANGED <<disk, live, entries, generation, swept, sweepVars, queued, timer, lateActivity,
                 published, disposed, waiting, ghostVars, events>>

\* The last subscriber leaves.  A change the file service has not delivered is never announced.
Unsubscribe(w) ==
  /\ w \in subscribed
  /\ subscribed' = subscribed \ {w}
  /\ live' = [live EXCEPT ![w] = None]
  /\ LET lost == IF live[w] = disk[w] THEN {} ELSE {w}
     IN /\ announced' = announced \ lost
        /\ owed' = owed \ lost
        /\ asked' = [r \in Requests |-> asked[r] \ lost]
  /\ UNCHANGED <<disk, entries, generation, swept, sweepVars, queued, timer, lateActivity,
                 published, disposed, waiting, events>>

\* update(): a path that is not in the list never turns into an urgent sweep once there is a list.
Update(w, status) ==
  \/ /\ disposed
     /\ UNCHANGED <<entries, published, generation, timer, lateActivity>>
  \/ /\ ~disposed /\ entries[w] = None /\ swept = 0
     /\ Invalidate(HasListeners)
     /\ UNCHANGED <<entries, published, lateActivity>>
  \/ /\ ~disposed /\ entries[w] = None /\ swept # 0
     /\ ScheduleActivitySweep
     /\ UNCHANGED <<entries, published, generation>>
  \/ /\ ~disposed /\ entries[w] # None
     /\ entries' = [entries EXCEPT ![w] = status]
     /\ published' = DirtyIn(entries')
     /\ ScheduleActivitySweep
     /\ UNCHANGED generation

\* A pass of the file service reads a new status, keeps it and publishes it.
WatcherPass(w) ==
  /\ w \in subscribed /\ disk[w] # Gone
  /\ live[w] # disk[w]
  /\ live' = [live EXCEPT ![w] = disk[w]]
  /\ Update(w, disk[w])
  /\ owed' = IF disposed THEN owed ELSE Worktrees
  /\ UNCHANGED <<disk, subscribed, swept, sweepVars, queued, disposed, waiting, announced, asked,
                 events>>

-----------------------------------------------------------------------------
(* Sweeps. *)

TimerFires ==
  /\ timer
  /\ \/ /\ phase = "idle"
        /\ StartSweep
        /\ UNCHANGED queued
     \/ /\ phase # "idle"
        /\ timer' = FALSE
        /\ queued' = (queued \/ ~CanShare)
        /\ UNCHANGED <<sweepVars, lateActivity>>
  /\ UNCHANGED <<worldVars, entries, generation, swept, published, disposed, waiting, ghostVars,
                 events>>

\* get() when no valid sweep finished just now (a valid one's list is answered at once).
Ask(r) ==
  /\ ~disposed
  /\ AnEvent
  /\ waiting[r] = "no"
  /\ \/ /\ phase = "idle"
        /\ StartSweep
        /\ waiting' = [waiting EXCEPT ![r] = "sweep"]
        /\ UNCHANGED queued
     \/ /\ phase # "idle"
        /\ waiting' = [waiting EXCEPT ![r] = IF CanShare THEN "sweep" ELSE "queued"]
        /\ queued' = (queued \/ ~CanShare)
        /\ UNCHANGED <<sweepVars, timer, lateActivity>>
  /\ asked' = [asked EXCEPT ![r] = announced]
  /\ UNCHANGED <<worldVars, entries, generation, swept, published, disposed, announced, owed>>

\* readWorktreeStatuses: the list first, ...
ListWorktrees ==
  /\ phase = "listing"
  /\ phase' = "reading"
  /\ probes' = [w \in Worktrees |-> IF disk[w] = Gone THEN None ELSE Unread]
  /\ UNCHANGED <<worldVars, entries, generation, swept, sweepGeneration, queued, timer,
                 lateActivity, published, disposed, waiting, ghostVars, events>>

\* ... then each worktree: its live status, or git's; a deleted one has nothing to show.
Probe(w) ==
  /\ phase = "reading" /\ probes[w] = Unread
  /\ LET read == CASE live[w] # None -> live[w]
                   [] live[w] = None /\ disk[w] = Gone -> "clean"
                   [] OTHER -> disk[w]
     IN probes' = [probes EXCEPT ![w] = read]
  /\ LET behind == IF live[w] \in {None, disk[w]} THEN {} ELSE {w}
     IN /\ announced' = announced \ behind
        /\ asked' = [r \in Requests |-> asked[r] \ behind]
  /\ UNCHANGED <<worldVars, entries, generation, swept, phase, sweepGeneration, queued, timer,
                 lateActivity, published, disposed, waiting, owed, events>>

ProbeFails(w) ==
  /\ phase = "reading" /\ probes[w] = Unread
  /\ live[w] = None /\ disk[w] # Gone
  /\ AnEvent
  /\ probes' = [probes EXCEPT ![w] = Failed]
  /\ announced' = announced \ {w}
  /\ owed' = IF AnotherFollows THEN owed ELSE owed \ {w}
  /\ asked' = [r \in Requests |-> asked[r] \ {w}]
  /\ UNCHANGED <<worldVars, entries, generation, swept, phase, sweepGeneration, queued, timer,
                 lateActivity, published, disposed, waiting>>

ResolvedFromProbe(w) ==   \* mutant: the live statuses are not read again at the merge
  IF probes[w] = Failed THEN IF entries[w] = None THEN "clean" ELSE entries[w] ELSE probes[w]

\* The live status wins over the probe, and an unreadable one keeps its last known value.
Resolved(w) ==
  CASE probes[w] = None -> None
    [] probes[w] # None /\ live[w] # None -> live[w]
    [] probes[w] = Failed /\ live[w] = None -> IF entries[w] = None THEN "clean" ELSE entries[w]
    [] OTHER -> probes[w]

SettleSweepForgetsActivity ==   \* mutant: activity during the sweep is not looked at
  /\ waiting' = [r \in Requests |-> IF waiting[r] = "queued" /\ ~disposed THEN "sweep" ELSE "no"]
  /\ asked' = [r \in Requests |-> IF waiting'[r] = "no" THEN {} ELSE asked[r]]
  /\ queued' = FALSE
  /\ IF queued /\ ~disposed
     THEN StartSweep
     ELSE /\ phase' = "idle"
          /\ timer' = timer
          /\ lateActivity' = FALSE
          /\ probes' = [w \in Worktrees |-> None]
          /\ sweepGeneration' = 0

\* The end of a sweep: its `finally', then the follow-up, if one is queued, starts.
SettleSweep ==
  /\ waiting' = [r \in Requests |-> IF waiting[r] = "queued" /\ ~disposed THEN "sweep" ELSE "no"]
  /\ asked' = [r \in Requests |-> IF waiting'[r] = "no" THEN {} ELSE asked[r]]
  /\ queued' = FALSE
  /\ IF queued /\ ~disposed
     THEN StartSweep
     ELSE /\ phase' = "idle"
          /\ timer' = (timer \/ (lateActivity /\ HasListeners /\ ~disposed))
          /\ lateActivity' = FALSE
          /\ probes' = [w \in Worktrees |-> None]
          /\ sweepGeneration' = 0

MergeAtCurrentGeneration ==   \* mutant: the generation is read when the sweep ends
  /\ phase = "reading" /\ \A w \in Worktrees : probes[w] # Unread
  /\ IF disposed
     THEN UNCHANGED <<entries, swept, published>>
     ELSE /\ entries' = [w \in Worktrees |-> Resolved(w)]
          /\ swept' = generation + 1
          /\ published' = DirtyIn(entries')
  /\ SettleSweep
  /\ UNCHANGED <<worldVars, generation, disposed, announced, owed, events>>

Merge ==
  /\ phase = "reading" /\ \A w \in Worktrees : probes[w] # Unread
  /\ IF disposed
     THEN UNCHANGED <<entries, swept, published>>
     ELSE /\ entries' = [w \in Worktrees |-> Resolved(w)]
          /\ swept' = sweepGeneration + 1
          /\ published' = DirtyIn(entries')
  /\ SettleSweep
  /\ UNCHANGED <<worldVars, generation, disposed, announced, owed, events>>

\* `git worktree list' fails: the requests are refused, nothing is merged and nothing retried.
SweepFails ==
  /\ phase = "listing"
  /\ AnEvent
  /\ owed' = IF AnotherFollows THEN owed ELSE {}
  /\ SettleSweep
  /\ UNCHANGED <<worldVars, entries, generation, swept, published, disposed, announced>>

\* teardownProject: every worktree's resources go first.
Dispose ==
  /\ ~disposed
  /\ disposed' = TRUE
  /\ subscribed' = {}
  /\ live' = [w \in Worktrees |-> None]
  /\ timer' = FALSE
  /\ announced' = {} /\ owed' = {} /\ asked' = [r \in Requests |-> {}]
  /\ UNCHANGED <<disk, entries, generation, swept, sweepVars, queued, lateActivity, published,
                 waiting, events>>

-----------------------------------------------------------------------------
Sweeps == ListWorktrees \/ (\E w \in Worktrees : Probe(w)) \/ Merge

Next ==
  \/ \E w \in Worktrees : Change(w) \/ Subscribe(w) \/ Unsubscribe(w) \/ WatcherPass(w)
  \/ MetadataEvent \/ TimerFires \/ (\E r \in Requests : Ask(r))
  \/ Sweeps \/ (\E w \in Worktrees : ProbeFails(w)) \/ SweepFails \/ Dispose

Spec == Init /\ [][Next]_vars

\* Timers fire, git answers, and the watchers of a subscribed worktree report its changes.
FairSpec ==
  /\ Spec
  /\ WF_vars(TimerFires)
  /\ WF_vars(Sweeps)
  /\ \A w \in Worktrees : WF_vars(WatcherPass(w))

-----------------------------------------------------------------------------
(* Properties. *)

\* Every variable keeps to its domain, and what a sweep holds to its phase.
TypeOK ==
  /\ disk \in [Worktrees -> Summaries \cup {Gone}]
  /\ subscribed \subseteq Worktrees
  /\ live \in [Worktrees -> Summaries \cup {None}]
  /\ \A w \in Worktrees \ subscribed : live[w] = None
  /\ entries \in [Worktrees -> Summaries \cup {None}]
  /\ generation \in Nat /\ swept \in Nat /\ sweepGeneration \in Nat
  /\ phase \in {"idle", "listing", "reading"}
  /\ probes \in [Worktrees -> Summaries \cup {None, Unread, Failed}]
  /\ queued \in BOOLEAN /\ timer \in BOOLEAN /\ lateActivity \in BOOLEAN /\ disposed \in BOOLEAN
  /\ published \subseteq Worktrees
  /\ waiting \in [Requests -> {"no", "sweep", "queued"}]
  /\ announced \subseteq Worktrees /\ owed \subseteq Worktrees
  /\ asked \in [Requests -> SUBSET Worktrees]
  /\ events \in Nat

\* The status a subscribed worktree's file service read last is what the list holds of it,
\* whatever an older sweep that was running meanwhile has read.
LiveWins ==
  \A w \in Worktrees : live[w] # None /\ entries[w] # None => entries[w] = live[w]

\* Nothing a subscribed worktree's watchers still have to deliver.
Delivered(w) == live[w] \in {None, disk[w]}

\* `status' shows the worktree as git would report it.
Shows(status, w) == (status = "dirty") <=> (disk[w] = "dirty")

\* A list that is answered without a sweep (the cached generation is the current one) shows every
\* change git metadata announced, unless its status could not be read.
FreshListIsCurrent ==
  ~disposed /\ swept = generation + 1
    => \A w \in announced : Delivered(w) => Shows(entries[w], w)

\* A request answered by a sweep, its own or one it shares, sees every change that was announced
\* before the request was made.
AnswersCurrent ==
  [][\A r \in Requests :
       /\ ~disposed /\ swept' # swept
       /\ waiting[r] = "sweep" /\ waiting'[r] = "no"
       => \A w \in asked[r] : Delivered(w) => Shows(entries'[w], w)]_vars

\* When nothing changes any more, what windows were last sent is what git would report, of every
\* worktree whose last change was followed by an invalidation or by activity anywhere.
ListCatchesUp ==
  <>[](HasListeners => \A w \in owed : (w \in published) <=> (disk[w] = "dirty"))
=============================================================================
