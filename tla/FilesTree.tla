------------------------------ MODULE FilesTree ------------------------------
(***************************************************************************)
(* The files service of one tree (project-files-service.ts) with the event *)
(* side of its watcher (file-sync-service.ts): directory listings cached   *)
(* for the consumers that have them expanded, and refresh passes, one at a *)
(* time, that read git status, re-read the directories that changed and    *)
(* tell the consumers.  Everything asked for while a pass runs goes into   *)
(* the one that follows it.                                                *)
(*                                                                         *)
(* What is on disk is a number per directory: the time of its last change. *)
(* The git status of the tree is the time of the last change anywhere.     *)
(***************************************************************************)
EXTENDS Integers

CONSTANTS
  Dirs,          \* directories of the tree
  Top,           \* its root; the others are children of it
  Consumers,     \* worktrees that show the tree
  Ops,           \* identities of the file operations done through Loxel
  Overlap,       \* may a consumer's read overlap a pass?
  MaxEvents      \* bound: changes of the disk or of the git dir, and git reads that fail

ASSUME FilesAssumption ==
  /\ Top \in Dirs
  /\ Overlap \in BOOLEAN
  /\ MaxEvents \in Nat

Listing == [names : Nat, colours : Nat]      \* entries: names as of a time, statuses as of a time
Empty == [names |-> 0, colours |-> 0]        \* no entries; in the cache, not cached
Collapsed == [names |-> -2, colours |-> 0]   \* what a consumer shows of a directory it has closed
Asked == [names |-> -1, colours |-> 0]       \* ... and of one it has no answer for yet

Op(phase, dir, kind, at) == [phase |-> phase, dir |-> dir, kind |-> kind, at |-> at]
Answered == Op("answered", Top, "within", 0)

NoRead == [phase |-> "none", names |-> 0, askers |-> {}]
NoWork == [dirs |-> {}, purge |-> {}, rescan |-> FALSE, waiters |-> {}, rest |-> {}]
NoPass == [phase |-> "none", work |-> NoWork, todo |-> {}, dir |-> Top, old |-> Empty, read |-> 0]

VARIABLES
  time,        \* of the last change
  disk,        \* time of the last change of each directory; 0 if it does not exist
  dirty,       \* pendingKeys: directories with a changed child, awaiting the debounce
  gitEvent,    \* a status event of the git dir awaits its debounce
  paused,      \* "no", "paused", or "resumed": bound, at most one attempt to remove the worktree
  flushing,    \* keys of a flush whose rescan is done
  cache,       \* dirCache
  consumers,   \* dirConsumers
  reads,       \* pendingReads
  maps,        \* status maps: the time they are of
  pending,     \* work for the next pass, NoWork if null
  draining,    \* the drain loop runs
  pass,        \* the pass that runs
  stopped,
  ops,         \* the file operations: "idle", "done" on disk, "waiting" for a pass or "answered",
               \* and the directory, kind and time of what each changed
  told,        \* what each consumer has last been sent of each directory
  unsure,      \* history: directories a consumer may show wrongly, see Overlaps and Dropped
  failures     \* git reads that failed since the last that did not, and how many in all

diskVars == <<time, disk>>
watchVars == <<dirty, gitEvent, paused, flushing>>
cacheVars == <<cache, consumers, reads, told, unsure>>
vars == <<diskVars, watchVars, cacheVars, maps, pending, draining, pass, stopped, ops, failures>>

Init ==
  /\ time = 1 /\ disk = [d \in Dirs |-> 1]
  /\ dirty = {} /\ flushing = {} /\ gitEvent = FALSE /\ paused = "no"
  /\ cache = [d \in Dirs |-> Empty]
  /\ consumers = [d \in Dirs |-> {}]
  /\ reads = [d \in Dirs |-> NoRead]
  /\ told = [c \in Consumers |-> [d \in Dirs |-> Collapsed]]
  /\ unsure = {}
  /\ maps = 1 /\ pending = NoWork /\ pass = NoPass /\ draining = FALSE /\ stopped = FALSE
  /\ ops = [o \in Ops |-> Op("idle", Top, "within", 0)]
  /\ failures = [recent |-> FALSE, all |-> 0]

-----------------------------------------------------------------------------
(* Changes. *)

Paused == paused = "paused"

Cached(c) == {d \in Dirs : c[d] # Empty}

EventsLeft == time + failures.all =< MaxEvents

Tick == EventsLeft /\ time' = time + 1

\* The directories whose listing changes when d's own does, or when d is made or removed.
Touches(d, kind) == IF kind = "within" THEN {d} ELSE {Top}

OnDisk(d, kind) ==
  /\ Tick
  /\ (disk[d] = 0) = (kind = "make")
  /\ kind # "within" => d # Top
  /\ disk' = [e \in Dirs |->
                IF e = d /\ kind = "remove" THEN 0
                ELSE IF e \in Touches(d, kind) \cup {d} THEN time' ELSE disk[e]]

Kinds == {"within", "make", "remove"}

\* Another program changes the tree. While the watcher is closed nothing is reported.
ExternalChange(d, kind) ==
  /\ OnDisk(d, kind)
  /\ dirty' = IF Paused THEN dirty ELSE dirty \cup Touches(d, kind) \cup {d}
  /\ UNCHANGED <<gitEvent, paused, flushing, cacheVars, maps, pending, draining, pass, stopped,
                 ops, failures>>

\* A commit, a checkout of the index...: the status changes, and the watcher of the git dir is told.
GitChange ==
  /\ Tick /\ UNCHANGED disk
  /\ gitEvent' = ~Paused
  /\ UNCHANGED <<dirty, paused, flushing, cacheVars, maps, pending, draining, pass,
                 stopped, ops, failures>>

-----------------------------------------------------------------------------
(* Requests: work is merged into the next pass, and the drain loop runs. *)

\* A pass that re-reads every cached directory takes no notice of which were reported.
Merge(w, v) ==
  LET rescan == w.rescan \/ v.rescan IN
  [rescan |-> rescan, dirs |-> IF rescan THEN {} ELSE w.dirs \cup v.dirs,
   purge |-> w.purge \cup v.purge, waiters |-> w.waiters \cup v.waiters, rest |-> w.rest \cup v.rest]

JoinRunning(work) ==   \* mutant: who asks during a pass is answered by that one
  /\ pending' = [Merge(pending, work) EXCEPT !.waiters = IF pass = NoPass THEN @ ELSE {}]
  /\ pass' = IF pass = NoPass THEN pass ELSE [pass EXCEPT !.work.waiters = @ \cup work.waiters]
  /\ draining' = TRUE

Request(work) ==
  /\ pending' = Merge(pending, work)
  /\ draining' = TRUE
  /\ UNCHANGED pass

Ignored == UNCHANGED <<pending, draining, pass>>

Ask(work) == IF stopped THEN Ignored ELSE Request(work)

\* The debounce timer fires.
Flush ==
  /\ ~Paused /\ ~stopped /\ dirty # {}
  /\ dirty' = {}
  /\ Ask([NoWork EXCEPT !.dirs = dirty])
  /\ UNCHANGED <<diskVars, gitEvent, paused, flushing, cacheVars, maps, stopped, ops, failures>>

\* What was pending at a resume is reported when its rescan is done.
FlushRest ==
  /\ flushing # {}
  /\ flushing' = {}
  /\ Ask([NoWork EXCEPT !.dirs = flushing])
  /\ UNCHANGED <<diskVars, dirty, gitEvent, paused, cacheVars, maps, stopped, ops,
                 failures>>

RefreshGitStatus ==
  /\ gitEvent /\ ~stopped
  /\ gitEvent' = FALSE
  /\ Ask([NoWork EXCEPT !.rescan = TRUE])
  /\ UNCHANGED <<diskVars, dirty, paused, flushing, cacheVars, maps, stopped, ops,
                 failures>>

\* A worktree is about to be removed: its watchers are closed, and what they had not reported of
\* the git dir is dropped.
PauseWatching ==
  /\ paused = "no" /\ ~stopped
  /\ paused' = "paused" /\ gitEvent' = FALSE
  /\ UNCHANGED <<diskVars, dirty, flushing, cacheVars, maps, pending, draining, pass,
                 stopped, ops, failures>>

ResumeQuietly ==   \* mutant: only what was pending is caught up with
  /\ Paused /\ ~stopped
  /\ paused' = "resumed"
  /\ UNCHANGED <<diskVars, dirty, gitEvent, flushing, cacheVars, maps, pending, draining,
                 pass, stopped, ops, failures>>

\* The removal failed: everything is read again, then what was pending is reported.
ResumeWatching ==
  /\ Paused /\ ~stopped
  /\ paused' = "resumed" /\ dirty' = {}
  /\ Ask([NoWork EXCEPT !.rescan = TRUE, !.rest = dirty])
  /\ UNCHANGED <<diskVars, gitEvent, flushing, cacheVars, maps, stopped, ops, failures>>

-----------------------------------------------------------------------------
(* File operations: done on disk, where the watcher may see them first, then notified; the route *)
(* answers when the pass that carries the notification is over. *)

Operate(o, d, kind) ==
  /\ ops[o].phase = "idle" /\ ~stopped
  /\ OnDisk(d, kind)
  /\ ops' = [ops EXCEPT ![o] = Op("done", d, kind, time')]
  /\ \/ UNCHANGED dirty
     \/ ~Paused /\ dirty' = dirty \cup Touches(d, kind) \cup {d}
  /\ UNCHANGED <<gitEvent, paused, flushing, cacheVars, maps, pending, draining, pass,
                 stopped, failures>>

\* A directory that was made or removed is purged from the cache, whatever it holds.
NotifyChanges(o) ==
  LET on == ops[o] IN
  /\ on.phase = "done"
  /\ ops' = [ops EXCEPT ![o] = IF stopped THEN Answered ELSE [on EXCEPT !.phase = "waiting"]]
  /\ Ask([NoWork EXCEPT !.dirs = Touches(on.dir, on.kind), !.waiters = {o},
                        !.purge = IF on.kind = "within" THEN {} ELSE {on.dir}])
  /\ UNCHANGED <<diskVars, watchVars, cacheVars, maps, stopped, failures>>

-----------------------------------------------------------------------------
(***************************************************************************)
(* A read for a consumer that overlaps a pass may end up in the cache with *)
(* what was there before the pass, or take the change the pass would have  *)
(* broadcast: Overlap = FALSE leaves these out.  And `unsure' remembers    *)
(* the directories that left the cache while a consumer had them expanded  *)
(* (purged, or gone when they were read): nothing updates these.           *)
(***************************************************************************)
Reading == {d \in Dirs : reads[d].phase # "none"}
Dropped(ds) == {d \in ds : consumers[d] # {}}

\* A directory nobody has expanded or is reading for a consumer is sure again once it is uncached.
Sure(now) == {d \in Dirs : now[d] = Empty /\ consumers'[d] = {} /\ reads'[d] = NoRead}

\* What consumers show after `entries' of directory d was broadcast.
Broadcast(shown, d, entries) ==
  [c \in Consumers |-> IF shown[c][d] = Collapsed THEN shown[c]
                        ELSE [shown[c] EXCEPT ![d] = entries]]

Entries(names, colours) == IF names = 0 THEN Empty ELSE [names |-> names, colours |-> colours]

-----------------------------------------------------------------------------
(* Consumers. *)

\* A consumer can only expand what it has been listed.
Shown(c, d) == d = Top \/ told[c][Top].names > 0

\* A directory is expanded: answered from the cache, or by a read, shared by all who ask meanwhile.
GetDirContents(c, d) ==
  /\ ~stopped /\ told[c][d] = Collapsed /\ Shown(c, d)
  /\ consumers' = [consumers EXCEPT ![d] = @ \cup {c}]
  /\ IF cache[d] # Empty
     THEN told' = [told EXCEPT ![c][d] = cache[d]] /\ UNCHANGED reads
     ELSE /\ told' = [told EXCEPT ![c][d] = Asked]
          /\ reads' = [reads EXCEPT ![d].askers = @ \cup {c},
                                   ![d].phase = IF @ = "none" THEN "asked" ELSE @]
          /\ Overlap \/ pass = NoPass
  /\ UNCHANGED <<diskVars, watchVars, cache, unsure, maps, pending, draining, pass, stopped, ops,
                 failures>>

ReadDir(d) ==
  /\ reads[d].phase = "asked"
  /\ reads' = [reads EXCEPT ![d].phase = "listed", ![d].names = disk[d]]
  /\ UNCHANGED <<diskVars, watchVars, cache, consumers, told, unsure, maps, pending, draining, pass,
                 stopped, ops, failures>>

\* The listing is classified, cached, and given to those who asked.
ClassifyDir(d) ==
  LET entries == Entries(reads[d].names, maps) IN
  /\ reads[d].phase = "listed"
  /\ cache' = [cache EXCEPT ![d] = entries]
  /\ told' = [c \in Consumers |-> IF c \in reads[d].askers /\ told[c][d] # Collapsed
                                   THEN [told[c] EXCEPT ![d] = entries] ELSE told[c]]
  /\ reads' = [reads EXCEPT ![d] = NoRead]
  /\ unsure' = unsure \cup (IF entries = Empty THEN Dropped({d}) ELSE {})
  /\ UNCHANGED <<diskVars, watchVars, consumers, maps, pending, draining, pass, stopped, ops,
                 failures>>

UnwatchOnly(c, d) ==   \* mutant: what is below d stays with the consumer
  /\ ~stopped /\ told[c][d] # Collapsed
  /\ told' = [told EXCEPT ![c] = [e \in Dirs |-> IF d \in {e, Top} THEN Collapsed ELSE @[e]]]
  /\ consumers' = [consumers EXCEPT ![d] = @ \ {c}]
  /\ cache' = [cache EXCEPT ![d] = IF consumers'[d] = {} THEN Empty ELSE @]
  /\ UNCHANGED <<reads, unsure>>
  /\ UNCHANGED <<diskVars, watchVars, maps, pending, draining, pass, stopped, ops, failures>>

\* A consumer collapses d, and with it what is below; what no other has expanded leaves the cache.
UnwatchDir(c, d) ==
  LET below == IF d = Top THEN Dirs ELSE {d} IN
  /\ ~stopped /\ told[c][d] # Collapsed
  /\ told' = [told EXCEPT ![c] = [e \in Dirs |-> IF e \in below THEN Collapsed ELSE @[e]]]
  /\ consumers' = [e \in Dirs |-> consumers[e] \ (IF e \in below THEN {c} ELSE {})]
  /\ cache' = [e \in Dirs |-> IF e \in below /\ consumers'[e] = {} THEN Empty ELSE cache[e]]
  /\ UNCHANGED reads
  /\ unsure' = unsure \ Sure(cache')
  /\ UNCHANGED <<diskVars, watchVars, maps, pending, draining, pass, stopped, ops, failures>>

-----------------------------------------------------------------------------
(* Passes. *)

\* The loop takes the pending work: what was purged leaves the cache, and git is asked.
TakePending ==
  LET purged == pending.purge \cap Cached(cache) IN
  /\ pending' = NoWork
  /\ pass' = [NoPass EXCEPT !.phase = "status", !.work = [pending EXCEPT !.purge = {}]]
  /\ cache' = [d \in Dirs |-> IF d \in purged THEN Empty ELSE cache[d]]
  /\ unsure' = unsure \cup Dropped(purged)
  /\ UNCHANGED draining

EndDrain == draining' = FALSE /\ pass' = NoPass /\ UNCHANGED <<pending, cache, unsure>>

\* drain() yields once before its loop.
BeginPass ==
  /\ draining /\ pass = NoPass
  /\ Overlap \/ Reading = {}
  /\ IF pending # NoWork /\ ~stopped THEN TakePending ELSE EndDrain
  /\ UNCHANGED <<diskVars, watchVars, consumers, reads, told, maps, stopped, ops, failures>>

ReadStatus ==
  /\ pass.phase = "status"
  /\ pass' = [pass EXCEPT !.phase = "build", !.read = time]
  /\ UNCHANGED <<diskVars, watchVars, cacheVars, maps, pending, draining, stopped, ops, failures>>

ReclassifySilently(listed, shown, colours) ==   \* mutant: consumers are not told of new statuses
  /\ cache' = [d \in Dirs |-> IF listed[d] = Empty THEN Empty
                               ELSE [listed[d] EXCEPT !.colours = colours]]
  /\ told' = shown

\* The entries of every cached directory get the statuses of now, and what changed is broadcast.
Reclassify(listed, shown, colours) ==
  /\ cache' = [d \in Dirs |-> IF listed[d] = Empty THEN Empty
                               ELSE [listed[d] EXCEPT !.colours = colours]]
  /\ told' = [c \in Consumers |->
                [d \in Dirs |-> IF cache'[d] # listed[d] /\ shown[c][d] # Collapsed
                                THEN cache'[d] ELSE shown[c][d]]]

\* The pass p goes on with the next directory, leaving it uncached while it is read, or ends.
Continue(p, listed, shown, colours) ==
  \/ \E d \in p.todo :
       /\ ~stopped
       /\ pass' = [p EXCEPT !.phase = "reread", !.todo = @ \ {d}, !.dir = d,
                          !.old = listed[d], !.read = 0]
       /\ cache' = [listed EXCEPT ![d] = Empty]
       /\ told' = shown
  \/ /\ p.todo = {} \/ stopped
     /\ pass' = [NoPass EXCEPT !.phase = "moves", !.work = [p.work EXCEPT !.rescan = FALSE]]
     /\ IF p.work.rescan \/ stopped THEN cache' = listed /\ told' = shown
                                      ELSE Reclassify(listed, shown, colours)

\* The status maps are rebuilt, or kept if git failed; then the directories to read are settled.
BuildStatusMaps ==
  /\ pass.phase = "build"
  /\ \/ ~stopped /\ maps' = pass.read /\ failures' = [failures EXCEPT !.recent = FALSE]
     \/ stopped /\ UNCHANGED <<maps, failures>>
     \/ /\ EventsLeft /\ UNCHANGED maps
        /\ failures' = [recent |-> TRUE, all |-> failures.all + 1]
  /\ LET todo == IF pass.work.rescan THEN Cached(cache) ELSE pass.work.dirs \cap Cached(cache)
     IN  Continue([pass EXCEPT !.todo = todo, !.work.dirs = {}], cache, told, maps')
  /\ UNCHANGED <<diskVars, watchVars, consumers, reads, unsure, pending, draining, stopped, ops>>

RereadDir ==
  /\ pass.phase = "reread"
  /\ pass' = [pass EXCEPT !.phase = "listed", !.read = disk[pass.dir]]
  /\ UNCHANGED <<diskVars, watchVars, cacheVars, maps, pending, draining, stopped, ops, failures>>

\* The directory is cached again, unless it could not be read, and broadcast if it changed.
DirReread ==
  LET d == pass.dir
      entries == Entries(pass.read, maps)
      shown == IF pass.old = Empty \/ pass.old # entries THEN Broadcast(told, d, entries) ELSE told
  IN  /\ pass.phase = "listed"
      /\ Continue(pass, [cache EXCEPT ![d] = entries], shown, maps)
      /\ unsure' = unsure \cup (IF entries = Empty THEN Dropped({d}) ELSE {})
      /\ UNCHANGED <<diskVars, watchVars, consumers, reads, maps, pending, draining, stopped, ops,
                     failures>>

EndPassForGood ==   \* mutant: the loop ends without another look at what is pending
  /\ pass.phase = "moves"
  /\ ops' = [o \in Ops |-> IF o \in pass.work.waiters THEN Answered ELSE ops[o]]
  /\ flushing' = flushing \cup pass.work.rest
  /\ EndDrain
  /\ UNCHANGED <<diskVars, dirty, gitEvent, paused, consumers, reads, told, maps, stopped,
                 failures>>

\* Moves are detected and files reported; whoever waited for the pass is released, and the loop
\* looks for more at once.
EndPass ==
  /\ pass.phase = "moves"
  /\ ops' = [o \in Ops |-> IF o \in pass.work.waiters THEN Answered ELSE ops[o]]
  /\ flushing' = flushing \cup pass.work.rest
  /\ IF pending # NoWork /\ ~stopped THEN TakePending ELSE EndDrain
  /\ UNCHANGED <<diskVars, dirty, gitEvent, paused, consumers, reads, told, maps, stopped,
                 failures>>

\* The tree is let go (its last subscriber left): nothing is served or watched any more.
Stop ==
  /\ ~stopped
  /\ stopped' = TRUE
  /\ dirty' = {} /\ gitEvent' = FALSE
  /\ pending' = NoWork
  /\ ops' = [o \in Ops |-> IF o \in pending.waiters THEN Answered ELSE ops[o]]
  /\ flushing' = flushing \cup pending.rest
  /\ cache' = [d \in Dirs |-> Empty]
  /\ consumers' = [d \in Dirs |-> {}]
  /\ reads' = [d \in Dirs |-> NoRead]
  /\ told' = [c \in Consumers |-> [d \in Dirs |-> Collapsed]]
  /\ unsure' = {}
  /\ UNCHANGED <<diskVars, paused, maps, draining, pass, failures>>

Work ==
  \/ Flush \/ FlushRest \/ RefreshGitStatus
  \/ BeginPass \/ ReadStatus \/ BuildStatusMaps \/ RereadDir \/ DirReread \/ EndPass
  \/ \E d \in Dirs : ReadDir(d) \/ ClassifyDir(d)
  \/ \E o \in Ops : NotifyChanges(o)

Next ==
  \/ Work
  \/ GitChange \/ PauseWatching \/ ResumeWatching \/ Stop
  \/ \E d \in Dirs, kind \in Kinds : ExternalChange(d, kind) \/ \E o \in Ops : Operate(o, d, kind)
  \/ \E c \in Consumers, d \in Dirs : GetDirContents(c, d) \/ UnwatchDir(c, d)

Spec == Init /\ [][Next]_vars

-----------------------------------------------------------------------------
WorkOK(w) ==
  /\ w.dirs \subseteq Dirs /\ w.purge \subseteq Dirs /\ w.rest \subseteq Dirs
  /\ w.waiters \subseteq Ops /\ w.rescan \in BOOLEAN

TypeOK ==
  /\ time \in Nat /\ disk \in [Dirs -> Nat]
  /\ dirty \subseteq Dirs /\ flushing \subseteq Dirs
  /\ gitEvent \in BOOLEAN /\ paused \in {"no", "paused", "resumed"}
  /\ cache \in [Dirs -> Listing]
  /\ consumers \in [Dirs -> SUBSET Consumers]
  /\ \A d \in Dirs : /\ reads[d].phase \in {"none", "asked", "listed"} /\ reads[d].names \in Nat
                     /\ reads[d].askers \subseteq Consumers
                     /\ reads[d].phase = "none" <=> reads[d].askers = {}
  /\ told \in [Consumers -> [Dirs -> Listing \cup {Collapsed, Asked}]]
  /\ \A c \in Consumers, d \in Dirs : told[c][d] = Collapsed <=> c \notin consumers[d]
  /\ unsure \subseteq Dirs
  /\ maps \in 1 .. time
  /\ WorkOK(pending) /\ WorkOK(pass.work) /\ pass.todo \subseteq Dirs /\ pass.dir \in Dirs
  /\ pass.phase \in {"none", "status", "build", "reread", "listed", "moves"}
  /\ draining \in BOOLEAN /\ stopped \in BOOLEAN
  /\ ops \in [Ops -> [phase : {"idle", "done", "waiting", "answered"}, dir : Dirs, kind : Kinds,
                      at : 0 .. time]]

\* Nothing is under way: no change is unreported, no pass queued or running, no read in flight.
Idle ==
  /\ dirty = {} /\ flushing = {} /\ ~gitEvent /\ ~Paused /\ ~stopped
  /\ pending = NoWork /\ pass = NoPass /\ Reading = {}
  /\ \A o \in Ops : ops[o].phase # "done"

\* ProjectFilesService, class comment: directory contents are "updated when the watcher detects
\* changes in a cached (expanded) directory", statuses "on every pass".  Once things have settled,
\* each consumer shows what is on disk of the directories it has expanded, in the colours of the
\* last status, however changes, file operations, passes, failures and pauses came together.
ShowsTheDisk ==
  Idle => \A c \in Consumers, d \in Dirs :
            told[c][d] # Collapsed /\ d \notin unsure
              => told[c][d] = [names |-> disk[d], colours |-> maps]

\* The statuses are those of now, unless git failed when it was last asked.
StatusCurrent == Idle /\ ~failures.recent => maps = time

\* A request is in the pass that runs or in the next one, and the loop that takes it runs: work
\* that comes as the loop ends is not stranded (the comment in drain()).
NotStranded ==
  /\ pending # NoWork => draining
  /\ pass # NoPass => draining
  /\ \A o \in Ops : ops[o].phase = "waiting" => o \in pending.waiters \cup pass.work.waiters

\* notifyChanges "resolves once a pass that includes these paths has completed": whoever did a file
\* operation and is answered finds it in every listing that was shown of the directory.
AnswerShowsOperation ==
  [][\A o \in Ops :
       ops[o].phase = "waiting" /\ ops'[o] = Answered /\ ~stopped =>
         \A c \in Consumers, d \in Touches(ops[o].dir, ops[o].kind) \ unsure :
           told'[c][d] \notin {Collapsed, Asked} => told'[c][d].names >= ops[o].at]_vars
=============================================================================
