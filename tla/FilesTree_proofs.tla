-------------------------- MODULE FilesTree_proofs --------------------------
(***************************************************************************)
(* For any number of directories, consumers, file operations, changes and  *)
(* failures.  No request is left behind by the drain loop: what is pending *)
(* when the loop looks for the last time is taken, and what comes later    *)
(* starts it again.  Once nothing is under way, the statuses are those of  *)
(* now: a pass asks git before anything else, so one that began after a    *)
(* change knows it.  And if no read of a consumer overlaps a pass, what a  *)
(* consumer has expanded shows the disk, at rest and when an operation is  *)
(* answered: a directory that is behind the disk is due to be read, and    *)
(* who is behind the cache is due to be told.                              *)
(***************************************************************************)
EXTENDS FilesTree, TLAPS

WorkSet == [dirs : SUBSET Dirs, purge : SUBSET Dirs, rescan : BOOLEAN, waiters : SUBSET Ops,
            rest : SUBSET Dirs]

PassSet == [phase : {"none", "status", "build", "reread", "listed", "moves"},
            work : WorkSet, todo : SUBSET Dirs, dir : Dirs, old : Listing, read : Nat]

ReadSet == [phase : {"none", "asked", "listed"}, names : Nat, askers : SUBSET Consumers]

OpSet == [phase : {"idle", "done", "waiting", "answered"}, dir : Dirs, kind : Kinds, at : Nat]

\* The part of the types that the drain loop depends on.
LoopTypes ==
  /\ time \in Nat /\ disk \in [Dirs -> Nat] /\ maps \in Nat
  /\ dirty \subseteq Dirs /\ flushing \subseteq Dirs
  /\ cache \in [Dirs -> Listing]
  /\ reads \in [Dirs -> ReadSet]
  /\ pending \in WorkSet /\ pass \in PassSet
  /\ ops \in [Ops -> OpSet]

\* Nothing is asked of a tree that was let go.
NothingWhenStopped == stopped => pending = NoWork

IInv == LoopTypes /\ NotStranded /\ NothingWhenStopped

-----------------------------------------------------------------------------
(* Records. *)

LEMMA Nothing ==
  /\ NoWork \in WorkSet /\ NoWork.waiters = {}
  /\ NoPass \in PassSet /\ NoPass.phase = "none" /\ NoPass.work.waiters = {}
  /\ Empty \in Listing
BY FilesAssumption DEF NoWork, NoPass, WorkSet, PassSet, Empty, Listing

\* Work asked for keeps who waits for what was pending.
LEMMA MergeFacts ==
  ASSUME NEW w \in WorkSet, NEW v \in WorkSet
  PROVE  Merge(w, v) \in WorkSet /\ Merge(w, v).waiters = w.waiters \cup v.waiters
BY DEF Merge, WorkSet

\* A request is pending with those before it, and the loop runs; of a stopped tree it is ignored.
LEMMA AskFacts ==
  ASSUME LoopTypes, NEW work \in WorkSet, Ask(work)
  PROVE  /\ pending' \in WorkSet /\ pass' = pass
         /\ stopped => pending' = pending /\ draining' = draining
         /\ ~stopped => draining' = TRUE
                        /\ pending'.waiters = pending.waiters \cup work.waiters
BY MergeFacts DEF Ask, Ignored, Request, LoopTypes

LEMMA EntriesFacts ==
  ASSUME NEW n \in Nat, NEW m \in Nat
  PROVE  Entries(n, m) \in Listing
BY DEF Entries, Empty, Listing

\* The pass that goes on is one that began, and releases those the pass it continues would.
LEMMA ContinueFacts ==
  ASSUME NEW p \in PassSet, NEW listed \in [Dirs -> Listing], NEW shown, NEW colours \in Nat,
         Continue(p, listed, shown, colours)
  PROVE  /\ pass' \in PassSet /\ cache' \in [Dirs -> Listing]
         /\ pass'.work.waiters = p.work.waiters
<1>1. ASSUME NEW d \in p.todo,
             pass' = [p EXCEPT !.phase = "reread", !.todo = @ \ {d}, !.dir = d,
                               !.old = listed[d], !.read = 0],
             cache' = [listed EXCEPT ![d] = Empty]
      PROVE  /\ pass' \in PassSet /\ cache' \in [Dirs -> Listing]
             /\ pass'.work.waiters = p.work.waiters
  BY <1>1, Nothing DEF PassSet
<1>2. ASSUME pass' = [NoPass EXCEPT !.phase = "moves", !.work = [p.work EXCEPT !.rescan = FALSE]]
      PROVE  pass' \in PassSet /\ pass'.work.waiters = p.work.waiters
  BY <1>2, Nothing DEF PassSet, WorkSet
<1>3. ASSUME Reclassify(listed, shown, colours)
      PROVE  cache' \in [Dirs -> Listing]
  BY <1>3, Nothing DEF Reclassify, Listing
<1>4. QED
  BY <1>1, <1>2, <1>3 DEF Continue

\* What the loop takes is what was pending.
LEMMA TakeFacts ==
  ASSUME LoopTypes, TakePending
  PROVE  /\ pending' = NoWork /\ pass' \in PassSet /\ cache' \in [Dirs -> Listing]
         /\ pass'.work.waiters = pending.waiters /\ draining' = draining
<1>1. [pending EXCEPT !.purge = {}] \in WorkSet
  BY DEF LoopTypes, WorkSet
<1>2. [pending EXCEPT !.purge = {}].waiters = pending.waiters
  BY DEF LoopTypes, WorkSet
<1>3. pass' \in PassSet /\ pass'.work.waiters = pending.waiters
  BY <1>1, <1>2, Nothing DEF TakePending, PassSet
<1>4. cache' \in [Dirs -> Listing]
  BY Nothing DEF TakePending, LoopTypes
<1>5. QED
  BY <1>3, <1>4 DEF TakePending

-----------------------------------------------------------------------------
(* Types. *)

LEMMA InitIInv == Init => IInv
<1> SUFFICES ASSUME Init PROVE IInv
  OBVIOUS
<1>1. NoRead \in ReadSet /\ Op("idle", Top, "within", 0) \in OpSet
  BY FilesAssumption DEF NoRead, ReadSet, Op, OpSet, Kinds
<1>2. LoopTypes
  BY <1>1, Nothing DEF Init, LoopTypes
<1>3. NotStranded /\ NothingWhenStopped
  BY DEF Init, NotStranded, NothingWhenStopped, Op
<1>4. QED
  BY <1>2, <1>3 DEF IInv

\* What the types say of what a step asks for.
LEMMA AskTypes ==
  ASSUME LoopTypes, NEW work \in WorkSet, Ask(work), UNCHANGED <<diskVars, cacheVars, maps>>,
         dirty' \subseteq Dirs, flushing' \subseteq Dirs, ops' \in [Ops -> OpSet]
  PROVE  LoopTypes'
BY AskFacts DEF LoopTypes, diskVars, cacheVars

\* A change on disk is one of a directory or two, at a time after the last.
LEMMA OnDiskTypes ==
  ASSUME LoopTypes, NEW d \in Dirs, NEW kind \in Kinds, OnDisk(d, kind)
  PROVE  /\ time' \in Nat /\ disk' \in [Dirs -> Nat]
         /\ Touches(d, kind) \cup {d} \subseteq Dirs
<1>1. time' \in Nat
  BY DEF OnDisk, Tick, LoopTypes
<1>2. disk' \in [Dirs -> Nat]
  BY <1>1 DEF OnDisk, LoopTypes
<1>3. QED
  BY <1>1, <1>2, FilesAssumption DEF Touches

\* What the watcher and other programs do leaves the loop alone, or asks it for a pass.
LEMMA WatchTypes ==
  ASSUME LoopTypes,
         \/ Flush \/ FlushRest \/ RefreshGitStatus \/ GitChange \/ PauseWatching \/ ResumeWatching
         \/ \E d \in Dirs, kind \in Kinds : ExternalChange(d, kind)
  PROVE  LoopTypes'
<1> USE DEF WorkSet
<1>1. CASE Flush
  <2>1. [NoWork EXCEPT !.dirs = dirty] \in WorkSet
    BY Nothing DEF LoopTypes
  <2>2. QED
    BY <1>1, <2>1, AskTypes DEF Flush, LoopTypes
<1>2. CASE FlushRest
  <2>1. [NoWork EXCEPT !.dirs = flushing] \in WorkSet
    BY Nothing DEF LoopTypes
  <2>2. QED
    BY <1>2, <2>1, AskTypes DEF FlushRest, LoopTypes
<1>3. CASE RefreshGitStatus
  <2>1. [NoWork EXCEPT !.rescan = TRUE] \in WorkSet
    BY Nothing
  <2>2. QED
    BY <1>3, <2>1, AskTypes DEF RefreshGitStatus, LoopTypes
<1>4. CASE GitChange
  BY <1>4 DEF GitChange, Tick, LoopTypes, cacheVars
<1>5. CASE PauseWatching
  BY <1>5 DEF PauseWatching, LoopTypes, diskVars, cacheVars
<1>6. CASE ResumeWatching
  <2>1. [NoWork EXCEPT !.rescan = TRUE, !.rest = dirty] \in WorkSet
    BY Nothing DEF LoopTypes
  <2>2. QED
    BY <1>6, <2>1, AskTypes DEF ResumeWatching, LoopTypes
<1>7. ASSUME NEW d \in Dirs, NEW kind \in Kinds, ExternalChange(d, kind) PROVE LoopTypes'
  BY <1>7, OnDiskTypes DEF ExternalChange, LoopTypes, cacheVars
<1>8. QED
  BY <1>1, <1>2, <1>3, <1>4, <1>5, <1>6, <1>7

LEMMA OperationTypes ==
  ASSUME LoopTypes, NEW o \in Ops,
         NotifyChanges(o) \/ \E d \in Dirs, kind \in Kinds : Operate(o, d, kind)
  PROVE  LoopTypes'
<1>1. CASE NotifyChanges(o)
  <2> DEFINE on == ops[o]
             work == [NoWork EXCEPT !.dirs = Touches(on.dir, on.kind), !.waiters = {o},
                                    !.purge = IF on.kind = "within" THEN {} ELSE {on.dir}]
  <2>1. on \in OpSet /\ Touches(on.dir, on.kind) \subseteq Dirs
    BY FilesAssumption DEF LoopTypes, OpSet, Touches
  <2>2. work \in WorkSet
    BY <2>1, Nothing DEF WorkSet, OpSet
  <2>3. Answered \in OpSet /\ [on EXCEPT !.phase = "waiting"] \in OpSet
    BY <2>1, FilesAssumption DEF Answered, Op, OpSet, Kinds
  <2>4. ops' \in [Ops -> OpSet]
    BY <1>1, <2>3 DEF NotifyChanges, LoopTypes
  <2>5. Ask(work) /\ UNCHANGED <<diskVars, cacheVars, maps, dirty, flushing>>
    BY <1>1 DEF NotifyChanges, watchVars
  <2>6. QED
    BY <2>2, <2>4, <2>5, AskTypes DEF LoopTypes
<1>2. ASSUME NEW d \in Dirs, NEW kind \in Kinds, Operate(o, d, kind) PROVE LoopTypes'
  <2>1. Op("done", d, kind, time') \in OpSet
    BY <1>2, OnDiskTypes DEF Operate, Op, OpSet
  <2>2. QED
    BY <1>2, <2>1, OnDiskTypes DEF Operate, LoopTypes, cacheVars
<1>3. QED
  BY <1>1, <1>2

LEMMA ConsumerTypes ==
  ASSUME LoopTypes, NEW d \in Dirs,
         ReadDir(d) \/ ClassifyDir(d) \/ \E c \in Consumers : GetDirContents(c, d) \/ UnwatchDir(c, d)
  PROVE  LoopTypes'
<1>1. CASE ReadDir(d)
  <2>1. reads' \in [Dirs -> ReadSet]
    BY <1>1 DEF ReadDir, LoopTypes, ReadSet
  <2>2. QED
    BY <1>1, <2>1 DEF ReadDir, LoopTypes, diskVars, watchVars
<1>2. CASE ClassifyDir(d)
  <2>1. Entries(reads[d].names, maps) \in Listing /\ NoRead \in ReadSet
    BY EntriesFacts DEF LoopTypes, ReadSet, NoRead
  <2>2. QED
    BY <1>2, <2>1 DEF ClassifyDir, LoopTypes, diskVars, watchVars
<1>3. ASSUME NEW c \in Consumers, GetDirContents(c, d) PROVE LoopTypes'
  <2>1. reads' \in [Dirs -> ReadSet]
    BY <1>3 DEF GetDirContents, LoopTypes, ReadSet
  <2>2. QED
    BY <1>3, <2>1 DEF GetDirContents, LoopTypes, diskVars, watchVars
<1>4. ASSUME NEW c \in Consumers, UnwatchDir(c, d) PROVE LoopTypes'
  <2>1. cache' \in [Dirs -> Listing]
    BY <1>4, Nothing DEF UnwatchDir, LoopTypes
  <2>2. QED
    BY <1>4, <2>1 DEF UnwatchDir, LoopTypes, diskVars, watchVars
<1>5. QED
  BY <1>1, <1>2, <1>3, <1>4

\* A pass, and the way it ends.
LEMMA PassTypes ==
  ASSUME LoopTypes, BeginPass \/ ReadStatus \/ BuildStatusMaps \/ RereadDir \/ DirReread \/ EndPass \/ Stop
  PROVE  LoopTypes'
<1>1. CASE BeginPass
  BY <1>1, TakeFacts, Nothing DEF BeginPass, EndDrain, LoopTypes, diskVars, watchVars
<1>2. CASE ReadStatus
  <2>1. pass' \in PassSet
    BY <1>2 DEF ReadStatus, LoopTypes, PassSet
  <2>2. QED
    BY <1>2, <2>1 DEF ReadStatus, LoopTypes, diskVars, watchVars, cacheVars
<1>3. CASE BuildStatusMaps
  <2>1. maps' \in Nat
    BY <1>3 DEF BuildStatusMaps, LoopTypes, PassSet
  <2>2. PICK todo \in SUBSET Dirs :
          Continue([pass EXCEPT !.todo = todo, !.work.dirs = {}], cache, told, maps')
    BY <1>3 DEF BuildStatusMaps, Cached
  <2>3. [pass EXCEPT !.todo = todo, !.work.dirs = {}] \in PassSet
    BY DEF LoopTypes, PassSet, WorkSet
  <2>4. pass' \in PassSet /\ cache' \in [Dirs -> Listing]
    BY <2>1, <2>2, <2>3, ContinueFacts DEF LoopTypes
  <2>5. QED
    BY <1>3, <2>1, <2>4 DEF BuildStatusMaps, LoopTypes, diskVars, watchVars
<1>4. CASE RereadDir
  <2>1. pass' \in PassSet
    BY <1>4 DEF RereadDir, LoopTypes, PassSet
  <2>2. QED
    BY <1>4, <2>1 DEF RereadDir, LoopTypes, diskVars, watchVars, cacheVars
<1>5. CASE DirReread
  <2>1. Entries(pass.read, maps) \in Listing
    BY EntriesFacts DEF LoopTypes, PassSet
  <2>2. PICK shown : Continue(pass, [cache EXCEPT ![pass.dir] = Entries(pass.read, maps)], shown, maps)
    BY <1>5 DEF DirReread
  <2>3. pass' \in PassSet /\ cache' \in [Dirs -> Listing]
    BY <2>1, <2>2, ContinueFacts DEF LoopTypes
  <2>4. QED
    BY <1>5, <2>3 DEF DirReread, LoopTypes, diskVars, watchVars
<1>6. CASE EndPass
  <2>1. /\ ops' \in [Ops -> OpSet] /\ flushing' \subseteq Dirs
    <3>1. Answered \in OpSet
      BY FilesAssumption DEF Answered, Op, OpSet, Kinds
    <3>2. QED
      BY <1>6, <3>1 DEF EndPass, LoopTypes, PassSet, WorkSet
  <2>2. pending' \in WorkSet /\ pass' \in PassSet /\ cache' \in [Dirs -> Listing]
    BY <1>6, TakeFacts, Nothing DEF EndPass, EndDrain, LoopTypes
  <2>3. QED
    BY <1>6, <2>1, <2>2 DEF EndPass, LoopTypes, diskVars
<1>7. CASE Stop
  <2>1. /\ ops' \in [Ops -> OpSet] /\ flushing' \subseteq Dirs
    <3>1. Answered \in OpSet
      BY FilesAssumption DEF Answered, Op, OpSet, Kinds
    <3>2. QED
      BY <1>7, <3>1 DEF Stop, LoopTypes, WorkSet
  <2>2. NoRead \in ReadSet
    BY DEF NoRead, ReadSet
  <2>3. QED
    BY <1>7, <2>1, <2>2, Nothing DEF Stop, LoopTypes, diskVars
<1>8. QED
  BY <1>1, <1>2, <1>3, <1>4, <1>5, <1>6, <1>7

-----------------------------------------------------------------------------
(* The loop. *)

Loop == NotStranded /\ NothingWhenStopped

\* A step that neither asks for anything, nor takes it, nor releases anybody.
LEMMA LoopUntouched ==
  ASSUME Loop, UNCHANGED <<pending, draining, stopped>>,
         pass' # NoPass => pass # NoPass,
         pass'.work.waiters = pass.work.waiters,
         \A o \in Ops : ops'[o].phase = "waiting" => ops[o].phase = "waiting"
  PROVE  Loop'
BY DEF Loop, NotStranded, NothingWhenStopped

\* A request keeps those that wait, and makes the loop run.
LEMMA LoopAsked ==
  ASSUME LoopTypes, Loop, NEW work \in WorkSet, Ask(work), UNCHANGED stopped,
         \A o \in Ops : ops'[o].phase = "waiting"
                          => ops[o].phase = "waiting" \/ (~stopped /\ o \in work.waiters)
  PROVE  Loop'
<1>1. CASE stopped
  BY <1>1, AskFacts DEF Loop, NotStranded, NothingWhenStopped
<1>2. CASE ~stopped
  BY <1>2, AskFacts DEF Loop, NotStranded, NothingWhenStopped
<1>3. QED
  BY <1>1, <1>2

\* The loop looks once more: it takes what is pending, or nothing is and it ends.
LEMMA LoopLooks ==
  ASSUME LoopTypes, Loop, draining, UNCHANGED stopped,
         IF pending # NoWork /\ ~stopped THEN TakePending ELSE EndDrain,
         \A o \in Ops : ops'[o].phase = "waiting" => ops[o].phase = "waiting" /\ o \notin pass.work.waiters
  PROVE  Loop'
<1>1. CASE pending # NoWork /\ ~stopped
  BY <1>1, TakeFacts, Nothing DEF Loop, NotStranded, NothingWhenStopped
<1>2. CASE ~(pending # NoWork /\ ~stopped)
  <2>1. pending = NoWork
    BY <1>2 DEF Loop, NothingWhenStopped
  <2>2. \A o \in Ops : ops'[o].phase # "waiting"
    BY <2>1, Nothing DEF Loop, NotStranded
  <2>3. pending' = NoWork /\ pass' = NoPass
    BY <1>2, <2>1 DEF EndDrain
  <2>4. QED
    BY <2>2, <2>3 DEF Loop, NotStranded, NothingWhenStopped
<1>3. QED
  BY <1>1, <1>2

LEMMA WatchLoop ==
  ASSUME LoopTypes, Loop,
         \/ Flush \/ FlushRest \/ RefreshGitStatus \/ GitChange \/ PauseWatching \/ ResumeWatching
         \/ \E d \in Dirs, kind \in Kinds : ExternalChange(d, kind)
  PROVE  Loop'
<1> USE DEF WorkSet
<1>1. CASE Flush
  <2>1. [NoWork EXCEPT !.dirs = dirty] \in WorkSet
    BY Nothing DEF LoopTypes
  <2>2. QED
    BY <1>1, <2>1, LoopAsked DEF Flush
<1>2. CASE FlushRest
  <2>1. [NoWork EXCEPT !.dirs = flushing] \in WorkSet
    BY Nothing DEF LoopTypes
  <2>2. QED
    BY <1>2, <2>1, LoopAsked DEF FlushRest
<1>3. CASE RefreshGitStatus
  <2>1. [NoWork EXCEPT !.rescan = TRUE] \in WorkSet
    BY Nothing
  <2>2. QED
    BY <1>3, <2>1, LoopAsked DEF RefreshGitStatus
<1>4. CASE GitChange
  BY <1>4, LoopUntouched DEF GitChange
<1>5. CASE PauseWatching
  BY <1>5, LoopUntouched DEF PauseWatching
<1>6. CASE ResumeWatching
  <2>1. [NoWork EXCEPT !.rescan = TRUE, !.rest = dirty] \in WorkSet
    BY Nothing DEF LoopTypes
  <2>2. QED
    BY <1>6, <2>1, LoopAsked DEF ResumeWatching
<1>7. ASSUME NEW d \in Dirs, NEW kind \in Kinds, ExternalChange(d, kind) PROVE Loop'
  BY <1>7, LoopUntouched DEF ExternalChange
<1>8. QED
  BY <1>1, <1>2, <1>3, <1>4, <1>5, <1>6, <1>7

LEMMA OperationLoop ==
  ASSUME LoopTypes, Loop, NEW o \in Ops,
         NotifyChanges(o) \/ \E d \in Dirs, kind \in Kinds : Operate(o, d, kind)
  PROVE  Loop'
<1>1. CASE NotifyChanges(o)
  <2> DEFINE on == ops[o]
             work == [NoWork EXCEPT !.dirs = Touches(on.dir, on.kind), !.waiters = {o},
                                    !.purge = IF on.kind = "within" THEN {} ELSE {on.dir}]
  <2>1. on \in OpSet /\ Touches(on.dir, on.kind) \subseteq Dirs
    BY FilesAssumption DEF LoopTypes, OpSet, Touches
  <2>2. work \in WorkSet /\ work.waiters = {o}
    BY <2>1, Nothing DEF WorkSet, OpSet
  <2>3. Ask(work) /\ UNCHANGED stopped
    BY <1>1 DEF NotifyChanges
  <2> HIDE DEF work
  <2>4. Answered.phase = "answered"
    BY DEF Answered, Op
  <2>5. ASSUME NEW p \in Ops, ops'[p].phase = "waiting"
        PROVE  ops[p].phase = "waiting" \/ (~stopped /\ p \in work.waiters)
    <3>1. CASE p # o
      BY <1>1, <2>5, <3>1 DEF NotifyChanges, LoopTypes
    <3>2. CASE p = o
      <4>1. ~stopped
        BY <1>1, <2>4, <2>5, <3>2 DEF NotifyChanges, LoopTypes
      <4>2. QED
        BY <2>2, <3>2, <4>1
    <3>3. QED
      BY <3>1, <3>2
  <2>6. QED
    BY <2>2, <2>3, <2>5, LoopAsked
<1>2. ASSUME NEW d \in Dirs, NEW kind \in Kinds, Operate(o, d, kind) PROVE Loop'
  <2>1. \A p \in Ops : ops'[p].phase = "waiting" => ops[p].phase = "waiting"
    BY <1>2 DEF Operate, Op, LoopTypes
  <2>2. QED
    BY <1>2, <2>1, LoopUntouched DEF Operate
<1>3. QED
  BY <1>1, <1>2

\* What consumers do is no business of the loop.
LEMMA ConsumerLoop ==
  ASSUME Loop, NEW d \in Dirs,
         ReadDir(d) \/ ClassifyDir(d) \/ \E c \in Consumers : GetDirContents(c, d) \/ UnwatchDir(c, d)
  PROVE  Loop'
<1>1. UNCHANGED <<pending, draining, pass, stopped, ops>>
  BY DEF ReadDir, ClassifyDir, GetDirContents, UnwatchDir
<1>2. QED
  BY <1>1, LoopUntouched

LEMMA PassLoop ==
  ASSUME LoopTypes, Loop,
         BeginPass \/ ReadStatus \/ BuildStatusMaps \/ RereadDir \/ DirReread \/ EndPass \/ Stop
  PROVE  Loop'
<1>1. CASE BeginPass
  <2>1. NoPass.work.waiters = {} /\ pass = NoPass
    BY <1>1, Nothing DEF BeginPass
  <2>2. QED
    BY <1>1, <2>1, LoopLooks DEF BeginPass
<1>2. CASE ReadStatus
  <2>1. pass # NoPass /\ pass'.work = pass.work
    BY <1>2, Nothing DEF ReadStatus, LoopTypes, PassSet
  <2>2. QED
    BY <1>2, <2>1, LoopUntouched DEF ReadStatus
<1>3. CASE BuildStatusMaps
  <2>1. PICK todo \in SUBSET Dirs :
          Continue([pass EXCEPT !.todo = todo, !.work.dirs = {}], cache, told, maps')
    BY <1>3 DEF BuildStatusMaps, Cached
  <2>2. /\ [pass EXCEPT !.todo = todo, !.work.dirs = {}] \in PassSet
        /\ [pass EXCEPT !.todo = todo, !.work.dirs = {}].work.waiters = pass.work.waiters
    BY DEF LoopTypes, PassSet, WorkSet
  <2>3. maps' \in Nat
    BY <1>3 DEF BuildStatusMaps, LoopTypes, PassSet
  <2>4. pass'.work.waiters = pass.work.waiters
    BY <2>1, <2>2, <2>3, ContinueFacts DEF LoopTypes
  <2>5. pass # NoPass
    BY <1>3, Nothing DEF BuildStatusMaps
  <2>6. QED
    BY <1>3, <2>4, <2>5, LoopUntouched DEF BuildStatusMaps
<1>4. CASE RereadDir
  <2>1. pass # NoPass /\ pass'.work = pass.work
    BY <1>4, Nothing DEF RereadDir, LoopTypes, PassSet
  <2>2. QED
    BY <1>4, <2>1, LoopUntouched DEF RereadDir
<1>5. CASE DirReread
  <2>1. Entries(pass.read, maps) \in Listing
    BY EntriesFacts DEF LoopTypes, PassSet
  <2>2. PICK shown : Continue(pass, [cache EXCEPT ![pass.dir] = Entries(pass.read, maps)], shown, maps)
    BY <1>5 DEF DirReread
  <2>3. pass'.work.waiters = pass.work.waiters
    BY <2>1, <2>2, ContinueFacts DEF LoopTypes
  <2>4. pass # NoPass
    BY <1>5, Nothing DEF DirReread
  <2>5. QED
    BY <1>5, <2>3, <2>4, LoopUntouched DEF DirReread
\* Those who waited for the pass are released before the loop looks for more.
<1>6. CASE EndPass
  <2>1. draining
    BY <1>6, Nothing DEF EndPass, Loop, NotStranded
  <2>2. \A o \in Ops : ops'[o].phase = "waiting"
                        => ops[o].phase = "waiting" /\ o \notin pass.work.waiters
    BY <1>6 DEF EndPass, Answered, Op
  <2>3. QED
    BY <1>6, <2>1, <2>2, LoopLooks DEF EndPass
\* stop() releases those who wait for the next pass; the one that runs releases the others.
<1>7. CASE Stop
  <2>1. \A o \in Ops : ops'[o].phase = "waiting"
                        => ops[o].phase = "waiting" /\ o \notin pending.waiters
    BY <1>7 DEF Stop, Answered, Op
  <2>2. pending' = NoWork /\ pass' = pass /\ draining' = draining
    BY <1>7 DEF Stop
  <2>3. QED
    BY <2>1, <2>2 DEF Loop, NotStranded, NothingWhenStopped
<1>8. QED
  BY <1>1, <1>2, <1>3, <1>4, <1>5, <1>6, <1>7

LEMMA StepIInv ==
  ASSUME IInv, [Next]_vars
  PROVE  IInv'
<1>1. LoopTypes /\ Loop
  BY DEF IInv, Loop
<1>2. LoopTypes' /\ Loop'
  <2>1. CASE \/ Flush \/ FlushRest \/ RefreshGitStatus \/ GitChange \/ PauseWatching \/ ResumeWatching
             \/ \E d \in Dirs, kind \in Kinds : ExternalChange(d, kind)
    BY <1>1, <2>1, WatchTypes, WatchLoop
  <2>2. CASE \E o \in Ops : \/ NotifyChanges(o)
                            \/ \E d \in Dirs, kind \in Kinds : Operate(o, d, kind)
    BY <1>1, <2>2, OperationTypes, OperationLoop
  <2>3. CASE \E d \in Dirs : \/ ReadDir(d) \/ ClassifyDir(d)
                             \/ \E c \in Consumers : GetDirContents(c, d) \/ UnwatchDir(c, d)
    BY <1>1, <2>3, ConsumerTypes, ConsumerLoop
  <2>4. CASE BeginPass \/ ReadStatus \/ BuildStatusMaps \/ RereadDir \/ DirReread \/ EndPass \/ Stop
    BY <1>1, <2>4, PassTypes, PassLoop
  <2>5. CASE UNCHANGED vars
    BY <1>1, <2>5, LoopUntouched DEF vars, LoopTypes, diskVars, watchVars, cacheVars
  <2>6. QED
    BY <2>1, <2>2, <2>3, <2>4, <2>5 DEF Next, Work
<1>3. QED
  BY <1>2 DEF IInv, Loop

\* What is asked of the files service is in the pass that runs or in the next one, and the loop that
\* takes it runs: no request is stranded, and no file operation waits for a pass that will not come.
THEOREM NothingStranded == Spec => []NotStranded
<1>1. IInv /\ [Next]_vars => IInv'
  BY StepIInv
<1>2. IInv => NotStranded
  BY DEF IInv
<1>3. QED
  BY InitIInv, <1>1, <1>2, PTL DEF Spec

-----------------------------------------------------------------------------
(* Who waits for a pass has asked for it. *)

Notified == {"waiting", "answered"}

Joined == \A o \in Ops : o \in pending.waiters \cup pass.work.waiters => ops[o].phase \in Notified

\* A step by which nobody joins a pass.
LEMMA NobodyJoins ==
  ASSUME Joined, pending'.waiters \cup pass'.work.waiters \subseteq pending.waiters \cup pass.work.waiters,
         \A o \in Ops : ops[o].phase \in Notified => ops'[o].phase \in Notified
  PROVE  Joined'
BY DEF Joined

\* A request for no operation.
LEMMA NobodyAsks ==
  ASSUME LoopTypes, Joined, NEW work \in WorkSet, Ask(work), work.waiters = {}, ops' = ops
  PROVE  Joined'
<1>1. pending'.waiters \cup pass'.work.waiters \subseteq pending.waiters \cup pass.work.waiters
  BY AskFacts
<1>2. QED
  BY <1>1, NobodyJoins

LEMMA WatchJoined ==
  ASSUME LoopTypes, Joined,
         \/ Flush \/ FlushRest \/ RefreshGitStatus \/ GitChange \/ PauseWatching \/ ResumeWatching
         \/ \E d \in Dirs, kind \in Kinds : ExternalChange(d, kind)
  PROVE  Joined'
<1>1. CASE Flush
  <2>1. [NoWork EXCEPT !.dirs = dirty] \in WorkSet /\ [NoWork EXCEPT !.dirs = dirty].waiters = {}
    BY Nothing DEF LoopTypes, WorkSet
  <2>2. QED
    BY <1>1, <2>1, NobodyAsks DEF Flush
<1>2. CASE FlushRest
  <2>1. /\ [NoWork EXCEPT !.dirs = flushing] \in WorkSet
        /\ [NoWork EXCEPT !.dirs = flushing].waiters = {}
    BY Nothing DEF LoopTypes, WorkSet
  <2>2. QED
    BY <1>2, <2>1, NobodyAsks DEF FlushRest
<1>3. CASE RefreshGitStatus
  <2>1. [NoWork EXCEPT !.rescan = TRUE] \in WorkSet /\ [NoWork EXCEPT !.rescan = TRUE].waiters = {}
    BY Nothing DEF WorkSet
  <2>2. QED
    BY <1>3, <2>1, NobodyAsks DEF RefreshGitStatus
<1>4. CASE ResumeWatching
  <2>1. /\ [NoWork EXCEPT !.rescan = TRUE, !.rest = dirty] \in WorkSet
        /\ [NoWork EXCEPT !.rescan = TRUE, !.rest = dirty].waiters = {}
    BY Nothing DEF LoopTypes, WorkSet
  <2>2. QED
    BY <1>4, <2>1, NobodyAsks DEF ResumeWatching
<1>5. CASE GitChange \/ PauseWatching \/ \E d \in Dirs, kind \in Kinds : ExternalChange(d, kind)
  <2>1. UNCHANGED <<pending, pass, ops>>
    BY <1>5 DEF GitChange, PauseWatching, ExternalChange
  <2>2. QED
    BY <2>1, NobodyJoins
<1>6. QED
  BY <1>1, <1>2, <1>3, <1>4, <1>5

LEMMA OperationJoined ==
  ASSUME LoopTypes, Joined, NEW o \in Ops,
         NotifyChanges(o) \/ \E d \in Dirs, kind \in Kinds : Operate(o, d, kind)
  PROVE  Joined'
<1>1. CASE NotifyChanges(o)
  <2> DEFINE on == ops[o]
             work == [NoWork EXCEPT !.dirs = Touches(on.dir, on.kind), !.waiters = {o},
                                    !.purge = IF on.kind = "within" THEN {} ELSE {on.dir}]
  <2>1. on \in OpSet /\ Touches(on.dir, on.kind) \subseteq Dirs
    BY FilesAssumption DEF LoopTypes, OpSet, Touches
  <2>2. work \in WorkSet /\ work.waiters = {o}
    BY <2>1, Nothing DEF WorkSet, OpSet
  <2>3. Ask(work)
    BY <1>1 DEF NotifyChanges
  <2> HIDE DEF work
  <2>4. /\ pending'.waiters \subseteq pending.waiters \cup {o}
        /\ pass' = pass
    BY <2>2, <2>3, AskFacts
  <2>5. Answered.phase = "answered" /\ [on EXCEPT !.phase = "waiting"].phase = "waiting"
    BY <2>1 DEF Answered, Op, OpSet
  <2>6. ops'[o].phase \in Notified /\ \A p \in Ops \ {o} : ops'[p] = ops[p]
    BY <1>1, <2>5 DEF NotifyChanges, Notified, LoopTypes
  <2>7. QED
    BY <2>4, <2>6 DEF Joined
<1>2. ASSUME NEW d \in Dirs, NEW kind \in Kinds, Operate(o, d, kind) PROVE Joined'
  <2>1. UNCHANGED <<pending, pass>> /\ ops[o].phase \notin Notified
    BY <1>2 DEF Operate, Notified
  <2>2. \A p \in Ops \ {o} : ops'[p] = ops[p]
    BY <1>2 DEF Operate, LoopTypes
  <2>3. QED
    BY <2>1, <2>2 DEF Joined
<1>3. QED
  BY <1>1, <1>2

LEMMA ConsumerJoined ==
  ASSUME Joined, NEW d \in Dirs,
         ReadDir(d) \/ ClassifyDir(d) \/ \E c \in Consumers : GetDirContents(c, d) \/ UnwatchDir(c, d)
  PROVE  Joined'
<1>1. UNCHANGED <<pending, pass, ops>>
  BY DEF ReadDir, ClassifyDir, GetDirContents, UnwatchDir
<1>2. QED
  BY <1>1, NobodyJoins

LEMMA PassJoined ==
  ASSUME LoopTypes, Joined,
         BeginPass \/ ReadStatus \/ BuildStatusMaps \/ RereadDir \/ DirReread \/ EndPass \/ Stop
  PROVE  Joined'
<1>1. CASE BeginPass
  <2>1. pending'.waiters \cup pass'.work.waiters \subseteq pending.waiters
    BY <1>1, TakeFacts, Nothing DEF BeginPass, EndDrain
  <2>2. ops' = ops
    BY <1>1 DEF BeginPass
  <2>3. QED
    BY <2>1, <2>2, NobodyJoins
<1>2. CASE ReadStatus \/ RereadDir
  <2>1. pass'.work = pass.work
    BY <1>2 DEF ReadStatus, RereadDir, LoopTypes, PassSet
  <2>2. UNCHANGED <<pending, ops>>
    BY <1>2 DEF ReadStatus, RereadDir
  <2>3. QED
    BY <2>1, <2>2, NobodyJoins
<1>3. CASE BuildStatusMaps
  <2>1. PICK todo \in SUBSET Dirs :
          Continue([pass EXCEPT !.todo = todo, !.work.dirs = {}], cache, told, maps')
    BY <1>3 DEF BuildStatusMaps, Cached
  <2>2. /\ [pass EXCEPT !.todo = todo, !.work.dirs = {}] \in PassSet
        /\ [pass EXCEPT !.todo = todo, !.work.dirs = {}].work.waiters = pass.work.waiters
    BY DEF LoopTypes, PassSet, WorkSet
  <2>3. maps' \in Nat
    BY <1>3 DEF BuildStatusMaps, LoopTypes, PassSet
  <2>4. pass'.work.waiters = pass.work.waiters
    BY <2>1, <2>2, <2>3, ContinueFacts DEF LoopTypes
  <2>5. UNCHANGED <<pending, ops>>
    BY <1>3 DEF BuildStatusMaps
  <2>6. QED
    BY <2>4, <2>5, NobodyJoins
<1>4. CASE DirReread
  <2>1. Entries(pass.read, maps) \in Listing
    BY EntriesFacts DEF LoopTypes, PassSet
  <2>2. PICK shown : Continue(pass, [cache EXCEPT ![pass.dir] = Entries(pass.read, maps)], shown, maps)
    BY <1>4 DEF DirReread
  <2>3. pass'.work.waiters = pass.work.waiters
    BY <2>1, <2>2, ContinueFacts DEF LoopTypes
  <2>4. UNCHANGED <<pending, ops>>
    BY <1>4 DEF DirReread
  <2>5. QED
    BY <2>3, <2>4, NobodyJoins
<1>5. CASE EndPass
  <2>1. pending'.waiters \cup pass'.work.waiters \subseteq pending.waiters
    BY <1>5, TakeFacts, Nothing DEF EndPass, EndDrain
  <2>2. \A o \in Ops : ops[o].phase \in Notified => ops'[o].phase \in Notified
    BY <1>5 DEF EndPass, Answered, Op, Notified
  <2>3. QED
    BY <2>1, <2>2, NobodyJoins
<1>6. CASE Stop
  <2>1. pending'.waiters = {} /\ pass' = pass
    BY <1>6, Nothing DEF Stop
  <2>2. \A o \in Ops : ops[o].phase \in Notified => ops'[o].phase \in Notified
    BY <1>6 DEF Stop, Answered, Op, Notified
  <2>3. QED
    BY <2>1, <2>2, NobodyJoins
<1>7. QED
  BY <1>1, <1>2, <1>3, <1>4, <1>5, <1>6

-----------------------------------------------------------------------------
(* The statuses. *)

\* git will be asked again: of a change that is yet to be reported, or of one that is.
ToBeAsked ==
  \/ stopped \/ Paused \/ dirty # {} \/ gitEvent
  \/ \E o \in Ops : ops[o].phase = "done"
  \/ pending # NoWork \/ pass.phase = "status"

\* If it will not, what it answered last is of now.
StatusKnown ==
  ToBeAsked \/ IF pass.phase = "build" THEN pass.read = time ELSE maps = time \/ failures.recent

LEMMA InitStatus == Init => StatusKnown
BY Nothing DEF Init, StatusKnown

\* A request for some directory, for a status, or for somebody is work.
LEMMA AskedIsWork ==
  ASSUME LoopTypes, NEW work \in WorkSet, Ask(work), ~stopped,
         work.dirs # {} \/ work.rescan \/ work.waiters # {}
  PROVE  pending' # NoWork
BY DEF Ask, Request, Merge, NoWork, LoopTypes, WorkSet

LEMMA WatchStatus ==
  ASSUME LoopTypes, StatusKnown,
         \/ Flush \/ FlushRest \/ RefreshGitStatus \/ GitChange \/ PauseWatching \/ ResumeWatching
         \/ \E d \in Dirs, kind \in Kinds : ExternalChange(d, kind)
  PROVE  StatusKnown'
<1>1. CASE Flush
  <2>1. [NoWork EXCEPT !.dirs = dirty] \in WorkSet /\ [NoWork EXCEPT !.dirs = dirty].dirs = dirty
    BY Nothing DEF LoopTypes, WorkSet
  <2>2. pending' # NoWork
    BY <1>1, <2>1, AskedIsWork DEF Flush
  <2>3. QED
    BY <2>2 DEF StatusKnown, ToBeAsked
<1>2. CASE FlushRest
  <2> DEFINE work == [NoWork EXCEPT !.dirs = flushing]
  <2>1. work \in WorkSet /\ work.dirs = flushing
    BY Nothing DEF LoopTypes, WorkSet
  <2>2. Ask(work) /\ flushing # {} /\ stopped' = stopped
    BY <1>2 DEF FlushRest
  <2> HIDE DEF work
  <2>3. stopped' \/ pending' # NoWork
    BY <2>1, <2>2, AskedIsWork
  <2>4. QED
    BY <2>3 DEF StatusKnown, ToBeAsked
<1>3. CASE RefreshGitStatus
  <2>1. [NoWork EXCEPT !.rescan = TRUE] \in WorkSet /\ [NoWork EXCEPT !.rescan = TRUE].rescan
    BY Nothing DEF WorkSet, NoWork
  <2>2. pending' # NoWork
    BY <1>3, <2>1, AskedIsWork DEF RefreshGitStatus
  <2>3. QED
    BY <2>2 DEF StatusKnown, ToBeAsked
<1>4. CASE GitChange
  BY <1>4 DEF GitChange, StatusKnown, ToBeAsked, Paused
<1>5. CASE PauseWatching
  BY <1>5 DEF PauseWatching, StatusKnown, ToBeAsked, Paused
<1>6. CASE ResumeWatching
  <2> DEFINE work == [NoWork EXCEPT !.rescan = TRUE, !.rest = dirty]
  <2>1. work \in WorkSet /\ work.rescan
    BY Nothing DEF LoopTypes, WorkSet, NoWork
  <2>2. pending' # NoWork
    BY <1>6, <2>1, AskedIsWork DEF ResumeWatching
  <2>3. QED
    BY <2>2 DEF StatusKnown, ToBeAsked
<1>7. ASSUME NEW d \in Dirs, NEW kind \in Kinds, ExternalChange(d, kind) PROVE StatusKnown'
  <2>1. Paused' \/ dirty' # {}
    BY <1>7 DEF ExternalChange, Paused
  <2>2. QED
    BY <2>1 DEF StatusKnown, ToBeAsked
<1>8. QED
  BY <1>1, <1>2, <1>3, <1>4, <1>5, <1>6, <1>7

LEMMA OperationStatus ==
  ASSUME LoopTypes, StatusKnown, NEW o \in Ops,
         NotifyChanges(o) \/ \E d \in Dirs, kind \in Kinds : Operate(o, d, kind)
  PROVE  StatusKnown'
<1>1. CASE NotifyChanges(o)
  <2> DEFINE on == ops[o]
             work == [NoWork EXCEPT !.dirs = Touches(on.dir, on.kind), !.waiters = {o},
                                    !.purge = IF on.kind = "within" THEN {} ELSE {on.dir}]
  <2>1. on \in OpSet /\ Touches(on.dir, on.kind) \subseteq Dirs
    BY FilesAssumption DEF LoopTypes, OpSet, Touches
  <2>2. work \in WorkSet /\ work.waiters = {o}
    BY <2>1, Nothing DEF WorkSet, OpSet
  <2>3. Ask(work) /\ stopped' = stopped
    BY <1>1 DEF NotifyChanges
  <2> HIDE DEF work
  <2>4. stopped' \/ pending' # NoWork
    BY <2>2, <2>3, AskedIsWork
  <2>5. QED
    BY <2>4 DEF StatusKnown, ToBeAsked
<1>2. ASSUME NEW d \in Dirs, NEW kind \in Kinds, Operate(o, d, kind) PROVE StatusKnown'
  <2>1. ops'[o].phase = "done"
    BY <1>2 DEF Operate, Op, LoopTypes
  <2>2. QED
    BY <2>1 DEF StatusKnown, ToBeAsked
<1>3. QED
  BY <1>1, <1>2

LEMMA ConsumerStatus ==
  ASSUME StatusKnown, NEW d \in Dirs,
         ReadDir(d) \/ ClassifyDir(d) \/ \E c \in Consumers : GetDirContents(c, d) \/ UnwatchDir(c, d)
  PROVE  StatusKnown'
<1>1. UNCHANGED <<time, dirty, gitEvent, paused, pending, pass, stopped, ops, maps, failures>>
  BY DEF ReadDir, ClassifyDir, GetDirContents, UnwatchDir, diskVars, watchVars
<1>2. QED
  BY <1>1 DEF StatusKnown, ToBeAsked, Paused

\* A pass asks git first; what it is told is of now, unless something changed meanwhile.
LEMMA PassStatus ==
  ASSUME LoopTypes, Joined, StatusKnown,
         BeginPass \/ ReadStatus \/ BuildStatusMaps \/ RereadDir \/ DirReread \/ EndPass \/ Stop
  PROVE  StatusKnown'
<1>1. CASE BeginPass
  <2>1. UNCHANGED <<time, dirty, gitEvent, paused, stopped, ops, maps, failures>>
    BY <1>1 DEF BeginPass, diskVars, watchVars
  <2>2. CASE pending # NoWork /\ ~stopped
    <3>1. pass'.phase = "status"
      BY <1>1, <2>2, Nothing DEF BeginPass, TakePending, PassSet
    <3>2. QED
      BY <3>1 DEF StatusKnown, ToBeAsked
  <2>3. CASE ~(pending # NoWork /\ ~stopped)
    <3>1. pass' = NoPass /\ pass = NoPass /\ pending' = pending
      BY <1>1, <2>3 DEF BeginPass, EndDrain
    <3>2. QED
      BY <2>1, <3>1 DEF StatusKnown, ToBeAsked, Paused
  <2>4. QED
    BY <2>2, <2>3
<1>2. CASE ReadStatus
  <2>1. pass'.phase = "build" /\ pass'.read = time /\ time' = time
    BY <1>2 DEF ReadStatus, LoopTypes, PassSet, diskVars
  <2>2. QED
    BY <2>1 DEF StatusKnown
<1>3. CASE BuildStatusMaps
  <2>1. pass'.phase \in {"reread", "moves"}
    <3>1. PICK todo \in SUBSET Dirs :
            Continue([pass EXCEPT !.todo = todo, !.work.dirs = {}], cache, told, maps')
      BY <1>3 DEF BuildStatusMaps, Cached
    <3>2. [pass EXCEPT !.todo = todo, !.work.dirs = {}] \in PassSet
      BY DEF LoopTypes, PassSet, WorkSet
    <3>3. QED
      BY <3>1, <3>2, Nothing DEF Continue, PassSet
  <2>2. /\ UNCHANGED <<time, dirty, gitEvent, paused, stopped, ops, pending>>
        /\ pass.phase = "build"
    BY <1>3 DEF BuildStatusMaps, diskVars, watchVars
  <2>3. \/ stopped \/ maps' = pass.read
        \/ failures' = [recent |-> TRUE, all |-> failures.all + 1]
    BY <1>3 DEF BuildStatusMaps
  <2>4. stopped \/ maps' = pass.read \/ failures'.recent
    BY <2>3
  <2>5. QED
    BY <2>1, <2>2, <2>4 DEF StatusKnown, ToBeAsked, Paused
<1>4. CASE RereadDir
  <2>1. pass.phase = "reread" /\ pass'.phase = "listed"
    BY <1>4 DEF RereadDir, LoopTypes, PassSet
  <2>2. UNCHANGED <<time, dirty, gitEvent, paused, stopped, ops, pending, maps, failures>>
    BY <1>4 DEF RereadDir, diskVars, watchVars
  <2>3. QED
    BY <2>1, <2>2 DEF StatusKnown, ToBeAsked, Paused
<1>5. CASE DirReread
  <2>1. pass.phase = "listed" /\ pass'.phase \in {"reread", "moves"}
    <3>1. PICK shown : Continue(pass, [cache EXCEPT ![pass.dir] = Entries(pass.read, maps)], shown, maps)
      BY <1>5 DEF DirReread
    <3>2. QED
      BY <1>5, <3>1, Nothing DEF DirReread, Continue, LoopTypes, PassSet
  <2>2. UNCHANGED <<time, dirty, gitEvent, paused, stopped, ops, pending, maps, failures>>
    BY <1>5 DEF DirReread, diskVars, watchVars
  <2>3. QED
    BY <2>1, <2>2 DEF StatusKnown, ToBeAsked, Paused
<1>6. CASE EndPass
  <2>1. UNCHANGED <<time, dirty, gitEvent, paused, stopped, maps, failures>> /\ pass.phase = "moves"
    BY <1>6 DEF EndPass, diskVars
  <2>2. CASE pending # NoWork /\ ~stopped
    <3>1. pass'.phase = "status"
      BY <1>6, <2>2, Nothing DEF EndPass, TakePending, PassSet
    <3>2. QED
      BY <3>1 DEF StatusKnown, ToBeAsked
  <2>3. CASE ~(pending # NoWork /\ ~stopped)
    <3>1. pass' = NoPass /\ NoPass.phase = "none" /\ pending' = pending
      BY <1>6, <2>3, Nothing DEF EndPass, EndDrain
    <3>2. ASSUME NEW o \in Ops, ops[o].phase = "done", ~stopped PROVE ops'[o].phase = "done"
      <4>1. o \notin pass.work.waiters
        BY <3>2 DEF Joined, Notified
      <4>2. QED
        BY <1>6, <3>2, <4>1 DEF EndPass
    <3>3. QED
      BY <2>1, <3>1, <3>2 DEF StatusKnown, ToBeAsked, Paused
  <2>4. QED
    BY <2>2, <2>3
<1>7. CASE Stop
  BY <1>7 DEF Stop, StatusKnown, ToBeAsked
<1>8. QED
  BY <1>1, <1>2, <1>3, <1>4, <1>5, <1>6, <1>7

LEMMA InitKnown == Init => Joined /\ StatusKnown
BY InitStatus, Nothing DEF Init, Joined

LEMMA StepJoined ==
  ASSUME LoopTypes, Joined, [Next]_vars
  PROVE  Joined'
<1>1. CASE \/ Flush \/ FlushRest \/ RefreshGitStatus \/ GitChange \/ PauseWatching \/ ResumeWatching
           \/ \E d \in Dirs, kind \in Kinds : ExternalChange(d, kind)
  BY <1>1, WatchJoined
<1>2. CASE \E o \in Ops : \/ NotifyChanges(o)
                          \/ \E d \in Dirs, kind \in Kinds : Operate(o, d, kind)
  BY <1>2, OperationJoined
<1>3. CASE \E d \in Dirs : \/ ReadDir(d) \/ ClassifyDir(d)
                           \/ \E c \in Consumers : GetDirContents(c, d) \/ UnwatchDir(c, d)
  BY <1>3, ConsumerJoined
<1>4. CASE BeginPass \/ ReadStatus \/ BuildStatusMaps \/ RereadDir \/ DirReread \/ EndPass \/ Stop
  BY <1>4, PassJoined
<1>5. CASE UNCHANGED vars
  BY <1>5, NobodyJoins DEF vars
<1>6. QED
  BY <1>1, <1>2, <1>3, <1>4, <1>5 DEF Next, Work

LEMMA StepKnown ==
  ASSUME LoopTypes, Joined, StatusKnown, [Next]_vars
  PROVE  StatusKnown'
<1>1. CASE \/ Flush \/ FlushRest \/ RefreshGitStatus \/ GitChange \/ PauseWatching \/ ResumeWatching
           \/ \E d \in Dirs, kind \in Kinds : ExternalChange(d, kind)
  BY <1>1, WatchStatus
<1>2. CASE \E o \in Ops : \/ NotifyChanges(o)
                          \/ \E d \in Dirs, kind \in Kinds : Operate(o, d, kind)
  BY <1>2, OperationStatus
<1>3. CASE \E d \in Dirs : \/ ReadDir(d) \/ ClassifyDir(d)
                           \/ \E c \in Consumers : GetDirContents(c, d) \/ UnwatchDir(c, d)
  BY <1>3, ConsumerStatus
<1>4. CASE BeginPass \/ ReadStatus \/ BuildStatusMaps \/ RereadDir \/ DirReread \/ EndPass \/ Stop
  BY <1>4, PassStatus
<1>5. CASE UNCHANGED vars
  <2>1. UNCHANGED <<time, dirty, gitEvent, paused, pending, pass, stopped, ops, maps, failures>>
    BY <1>5 DEF vars, diskVars, watchVars
  <2>2. QED
    BY <2>1 DEF StatusKnown, ToBeAsked, Paused
<1>6. QED
  BY <1>1, <1>2, <1>3, <1>4, <1>5 DEF Next, Work

\* Once nothing is under way, the statuses are those of now, unless git failed when it was asked last:
\* whatever changed, a pass that began after it has read them.
THEOREM StatusesCurrent == Spec => []StatusCurrent
<1>1. IInv /\ Joined /\ StatusKnown /\ [Next]_vars => (IInv /\ Joined /\ StatusKnown)'
  BY StepIInv, StepJoined, StepKnown DEF IInv
<1>2. IInv /\ Joined /\ StatusKnown => StatusCurrent
  BY Nothing DEF StatusKnown, ToBeAsked, StatusCurrent, Idle
<1>3. QED
  BY InitIInv, InitKnown, <1>1, <1>2, PTL DEF Spec

-----------------------------------------------------------------------------
(* The rest of the types: what consumers show, and the times of things. *)

Views == Listing \cup {Collapsed, Asked}

ShownTypes ==
  /\ consumers \in [Dirs -> SUBSET Consumers]
  /\ told \in [Consumers -> [Dirs -> Views]]
  /\ unsure \subseteq Dirs
  /\ \A d \in Dirs : reads[d].phase = "none" <=> reads[d].askers = {}
  /\ \A c \in Consumers, d \in Dirs : told[c][d] = Collapsed <=> c \notin consumers[d]

Clock ==
  /\ maps \in 1 .. time
  /\ pass.phase = "build" => pass.read \in 1 .. time
  /\ \A o \in Ops : ops[o].at \in 0 .. time

Flags ==
  /\ gitEvent \in BOOLEAN /\ paused \in {"no", "paused", "resumed"}
  /\ draining \in BOOLEAN /\ stopped \in BOOLEAN

\* What a consumer shows of a directory it has closed, or has no answer for, is no listing.
LEMMA NoListing ==
  Collapsed \notin Listing /\ Asked \notin Listing /\ Collapsed # Asked /\ Empty \in Listing
BY DEF Collapsed, Asked, Listing, Empty

\* Nobody shows anything at first.
LEMMA InitTypes == Init => ShownTypes /\ Clock /\ Flags
<1> SUFFICES ASSUME Init PROVE ShownTypes /\ Clock /\ Flags
  OBVIOUS
<1>1. ShownTypes
  BY DEF Init, ShownTypes, Views, NoRead
<1>2. Clock
  BY Nothing DEF Init, Clock, Op
<1>3. Flags
  BY DEF Init, Flags
<1> QED
  BY <1>1, <1>2, <1>3

\* The flags.
LEMMA FlagsStep ==
  ASSUME Flags, [Next]_vars
  PROVE  Flags'
<1> USE DEF Flags
<1>1. ASSUME NEW work, Ask(work), UNCHANGED <<paused, stopped>>, gitEvent' \in BOOLEAN PROVE Flags'
  BY <1>1 DEF Ask, Request, Ignored
<1>2. CASE Flush
  BY <1>1, <1>2 DEF Flush
<1>3. CASE FlushRest
  BY <1>1, <1>3 DEF FlushRest
<1>4. CASE RefreshGitStatus
  BY <1>1, <1>4 DEF RefreshGitStatus
<1>5. CASE GitChange \/ PauseWatching
  BY <1>5 DEF GitChange, PauseWatching
<1>6. CASE ResumeWatching
  BY <1>6 DEF ResumeWatching, Ask, Request, Ignored
<1>7. ASSUME NEW o \in Ops, NotifyChanges(o) PROVE Flags'
  BY <1>1, <1>7 DEF NotifyChanges, watchVars
<1>8. ASSUME NEW d \in Dirs, NEW kind \in Kinds,
             ExternalChange(d, kind) \/ \E o \in Ops : Operate(o, d, kind)
      PROVE  Flags'
  BY <1>8 DEF ExternalChange, Operate
<1>9. ASSUME NEW d \in Dirs,
             ReadDir(d) \/ ClassifyDir(d) \/ \E c \in Consumers : GetDirContents(c, d) \/ UnwatchDir(c, d)
      PROVE  Flags'
  BY <1>9 DEF ReadDir, ClassifyDir, GetDirContents, UnwatchDir, watchVars
<1>10. CASE BeginPass \/ EndPass
  BY <1>10 DEF BeginPass, EndPass, TakePending, EndDrain, watchVars
<1>11. CASE ReadStatus \/ BuildStatusMaps \/ RereadDir \/ DirReread
  BY <1>11 DEF ReadStatus, BuildStatusMaps, RereadDir, DirReread, watchVars
<1>12. CASE Stop
  BY <1>12 DEF Stop
<1>13. CASE UNCHANGED vars
  BY <1>13 DEF vars, watchVars
<1> QED
  BY <1>2, <1>3, <1>4, <1>5, <1>6, <1>7, <1>8, <1>9, <1>10, <1>11, <1>12, <1>13 DEF Next, Work

\* How the pass p goes on, with the listings and what is shown so far: with a directory to read,
\* which is uncached meanwhile,
Picks(p, d, listed, shown) ==
  /\ pass'.phase = "reread" /\ pass'.todo = p.todo \ {d} /\ pass'.dir = d
  /\ pass'.old = listed[d] /\ pass'.work = p.work
  /\ cache'[d] = Empty /\ \A e \in Dirs \ {d} : cache'[e] = listed[e]
  /\ told' = shown

\* or to its end, where the entries of every directory get their statuses unless all were read again.
Ends(p, listed, shown, colours) ==
  /\ p.todo = {} \/ stopped
  /\ pass'.phase = "moves" /\ pass'.work = [p.work EXCEPT !.rescan = FALSE]
  /\ \A d \in Dirs :
       /\ cache'[d] = Empty <=> listed[d] = Empty
       /\ cache'[d] # Empty => /\ cache'[d].names = listed[d].names
                               /\ cache'[d].colours = colours \/ p.work.rescan \/ stopped
       /\ p.work.rescan \/ stopped => cache'[d] = listed[d]
  /\ told' = [c \in Consumers |->
                [d \in Dirs |-> IF cache'[d] # listed[d] /\ shown[c][d] # Collapsed
                                THEN cache'[d] ELSE shown[c][d]]]

\* A pass goes on in one of these ways.
LEMMA ContinueCases ==
  ASSUME NEW p \in PassSet, NEW listed \in [Dirs -> Listing],
         NEW shown \in [Consumers -> [Dirs -> Views]], NEW colours \in Nat \ {0},
         Continue(p, listed, shown, colours)
  PROVE  (\E d \in p.todo : Picks(p, d, listed, shown)) \/ Ends(p, listed, shown, colours)
<1>1. ASSUME NEW d \in p.todo,
             pass' = [p EXCEPT !.phase = "reread", !.todo = @ \ {d}, !.dir = d,
                               !.old = listed[d], !.read = 0],
             cache' = [listed EXCEPT ![d] = Empty], told' = shown
      PROVE  Picks(p, d, listed, shown)
  BY <1>1 DEF PassSet, Picks
<1>2. ASSUME p.todo = {} \/ stopped,
             pass' = [NoPass EXCEPT !.phase = "moves", !.work = [p.work EXCEPT !.rescan = FALSE]],
             IF p.work.rescan \/ stopped THEN cache' = listed /\ told' = shown
                                           ELSE Reclassify(listed, shown, colours)
      PROVE  Ends(p, listed, shown, colours)
  <2>1. pass'.phase = "moves" /\ pass'.work = [p.work EXCEPT !.rescan = FALSE]
    BY <1>2, Nothing DEF PassSet
  <2>2. CASE p.work.rescan \/ stopped
    <3>1. cache' = listed /\ told' = shown
      BY <1>2, <2>2
    <3>2. \A d \in Dirs : cache'[d] = listed[d]
      BY <3>1
    <3>3. told' = [c \in Consumers |->
                     [d \in Dirs |-> IF cache'[d] # listed[d] /\ shown[c][d] # Collapsed
                                     THEN cache'[d] ELSE shown[c][d]]]
      BY <3>1, <3>2
    <3> QED
      BY <1>2, <2>1, <2>2, <3>2, <3>3 DEF Ends
  <2>3. CASE ~(p.work.rescan \/ stopped)
    <3>1. Reclassify(listed, shown, colours)
      BY <1>2, <2>3
    <3>2. ASSUME NEW d \in Dirs
          PROVE  /\ cache'[d] = Empty <=> listed[d] = Empty
                 /\ cache'[d] # Empty => cache'[d].names = listed[d].names /\ cache'[d].colours = colours
      BY <3>1 DEF Reclassify, Listing, Empty
    <3> QED
      BY <1>2, <2>1, <2>3, <3>1, <3>2 DEF Ends, Reclassify
  <2> QED
    BY <2>2, <2>3
<1> QED
  BY <1>1, <1>2 DEF Continue

\* What a pass reads again when it has asked git, and the pass as it goes on from there.
ToRead == IF pass.work.rescan THEN Cached(cache) ELSE pass.work.dirs \cap Cached(cache)

Started == [pass EXCEPT !.todo = ToRead, !.work.dirs = {}]

LEMMA Building ==
  ASSUME LoopTypes, ShownTypes, Clock, BuildStatusMaps
  PROVE  /\ Started \in PassSet /\ Started.todo = ToRead
         /\ Started.work = [pass.work EXCEPT !.dirs = {}]
         /\ pass.phase = "build" /\ maps' \in 1 .. time
         /\ (\E d \in ToRead : Picks(Started, d, cache, told)) \/ Ends(Started, cache, told, maps')
         /\ UNCHANGED <<diskVars, watchVars, consumers, reads, unsure, pending, draining, stopped, ops>>
<1>1. ToRead \subseteq Dirs
  BY DEF ToRead, Cached
<1>2. /\ Started \in PassSet /\ Started.todo = ToRead
      /\ Started.work = [pass.work EXCEPT !.dirs = {}]
  BY <1>1 DEF Started, LoopTypes, PassSet, WorkSet
<1>3. Continue(Started, cache, told, maps')
  BY DEF BuildStatusMaps, Started, ToRead
<1>4. pass.phase = "build" /\ maps' \in 1 .. time
  BY DEF BuildStatusMaps, Clock
<1>5. maps' \in Nat \ {0}
  BY <1>4 DEF LoopTypes
<1>6. cache \in [Dirs -> Listing] /\ told \in [Consumers -> [Dirs -> Views]]
  BY DEF LoopTypes, ShownTypes
<1>7. (\E d \in Started.todo : Picks(Started, d, cache, told)) \/ Ends(Started, cache, told, maps')
  BY <1>2, <1>3, <1>5, <1>6, ContinueCases
<1> QED
  BY <1>2, <1>4, <1>7 DEF BuildStatusMaps

\* The entries of a directory a pass has read, and the listings and what is shown with them.
Reread == Entries(pass.read, maps)

NowListed == [cache EXCEPT ![pass.dir] = Reread]

NowShown == IF pass.old = Empty \/ pass.old # Reread THEN Broadcast(told, pass.dir, Reread) ELSE told

LEMMA Rereads ==
  ASSUME LoopTypes, ShownTypes, Clock, DirReread
  PROVE  /\ pass.phase = "listed" /\ pass.dir \in Dirs /\ Reread \in Listing
         /\ NowListed \in [Dirs -> Listing] /\ NowShown \in [Consumers -> [Dirs -> Views]]
         /\ \A c \in Consumers, d \in Dirs : NowShown[c][d] = Collapsed <=> told[c][d] = Collapsed
         /\ \A c \in Consumers, d \in Dirs \ {pass.dir} : NowShown[c][d] = told[c][d]
         /\ \A c \in Consumers : told[c][pass.dir] = pass.old => NowShown[c][pass.dir] = Reread
         /\ \/ \E d \in pass.todo : Picks(pass, d, NowListed, NowShown)
            \/ Ends(pass, NowListed, NowShown, maps)
         /\ unsure' = unsure \cup (IF Reread = Empty THEN Dropped({pass.dir}) ELSE {})
         /\ UNCHANGED <<diskVars, watchVars, consumers, reads, maps, pending, draining, stopped, ops>>
<1>1. pass \in PassSet /\ pass.dir \in Dirs /\ Reread \in Listing
  BY EntriesFacts DEF Reread, LoopTypes, PassSet
<1>2. NowListed \in [Dirs -> Listing]
  BY <1>1 DEF NowListed, LoopTypes
<1>3. /\ told \in [Consumers -> [Dirs -> Views]] /\ Reread \in Views /\ Reread # Collapsed
  BY <1>1, NoListing DEF ShownTypes, Views
<1>4. /\ NowShown \in [Consumers -> [Dirs -> Views]]
      /\ \A c \in Consumers, d \in Dirs : NowShown[c][d] = Collapsed <=> told[c][d] = Collapsed
      /\ \A c \in Consumers, d \in Dirs \ {pass.dir} : NowShown[c][d] = told[c][d]
      /\ \A c \in Consumers : told[c][pass.dir] = pass.old => NowShown[c][pass.dir] = Reread
  <2>0. pass.old \in Listing
    BY <1>1 DEF PassSet
  <2>1. CASE NowShown = told /\ pass.old = Reread
    BY <1>3, <2>1
  <2>2. CASE NowShown = Broadcast(told, pass.dir, Reread)
    BY <1>1, <1>3, <2>0, <2>2, NoListing DEF Broadcast
  <2> QED
    BY <2>1, <2>2 DEF NowShown
<1>5. Continue(pass, NowListed, NowShown, maps)
  BY DEF DirReread, NowListed, NowShown, Reread
<1>6. maps \in Nat \ {0}
  BY DEF Clock, LoopTypes
<1>7. (\E d \in pass.todo : Picks(pass, d, NowListed, NowShown)) \/ Ends(pass, NowListed, NowShown, maps)
  BY <1>1, <1>2, <1>4, <1>5, <1>6, ContinueCases
<1> QED
  BY <1>1, <1>2, <1>4, <1>7 DEF DirReread, Reread

\* Nobody opens or closes anything, and what is shown changes from listing to listing.
LEMMA ShownKept ==
  ASSUME ShownTypes, UNCHANGED <<consumers, reads>>, unsure' \subseteq Dirs,
         told' \in [Consumers -> [Dirs -> Views]],
         \A c \in Consumers, d \in Dirs : told'[c][d] = Collapsed <=> told[c][d] = Collapsed
  PROVE  ShownTypes'
BY DEF ShownTypes

\* The types of what consumers show.
LEMMA ShownStep ==
  ASSUME LoopTypes, ShownTypes, Clock, [Next]_vars
  PROVE  ShownTypes'
<1>1. ASSUME UNCHANGED <<consumers, reads, told, unsure>> PROVE ShownTypes'
  BY <1>1 DEF ShownTypes
<1>2. CASE Flush \/ FlushRest \/ RefreshGitStatus \/ GitChange \/ PauseWatching \/ ResumeWatching
  BY <1>1, <1>2 DEF Flush, FlushRest, RefreshGitStatus, GitChange, PauseWatching, ResumeWatching, cacheVars
<1>3. ASSUME NEW o \in Ops, NotifyChanges(o) PROVE ShownTypes'
  BY <1>1, <1>3 DEF NotifyChanges, cacheVars
<1>4. ASSUME NEW d \in Dirs, NEW kind \in Kinds,
             ExternalChange(d, kind) \/ \E o \in Ops : Operate(o, d, kind)
      PROVE  ShownTypes'
  BY <1>1, <1>4 DEF ExternalChange, Operate, cacheVars
<1>5. ASSUME NEW d \in Dirs, ReadDir(d) PROVE ShownTypes'
  <2>1. reads[d].phase = "asked" /\ reads' = [reads EXCEPT ![d].phase = "listed", ![d].names = disk[d]]
    BY <1>5 DEF ReadDir
  <2>2. \A e \in Dirs : reads'[e].phase = "none" <=> reads'[e].askers = {}
    BY <2>1 DEF LoopTypes, ReadSet, ShownTypes
  <2> QED
    BY <1>5, <2>2 DEF ReadDir, ShownTypes
<1>6. ASSUME NEW d \in Dirs, ClassifyDir(d) PROVE ShownTypes'
  <2> DEFINE entries == Entries(reads[d].names, maps)
  <2>1. entries \in Listing
    BY EntriesFacts DEF LoopTypes, ReadSet
  <2>2. told' = [c \in Consumers |-> IF c \in reads[d].askers /\ told[c][d] # Collapsed
                                      THEN [told[c] EXCEPT ![d] = entries] ELSE told[c]]
    BY <1>6 DEF ClassifyDir
  <2> HIDE DEF entries
  <2>3. /\ told' \in [Consumers -> [Dirs -> Views]]
        /\ \A c \in Consumers, e \in Dirs : told'[c][e] = Collapsed <=> told[c][e] = Collapsed
    BY <2>1, <2>2, NoListing DEF ShownTypes, Views
  <2>4. \A e \in Dirs : reads'[e].phase = "none" <=> reads'[e].askers = {}
    BY <1>6 DEF ClassifyDir, NoRead, LoopTypes, ShownTypes
  <2>5. unsure' \subseteq Dirs /\ consumers' = consumers
    BY <1>6 DEF ClassifyDir, Dropped, ShownTypes
  <2> QED
    BY <2>3, <2>4, <2>5 DEF ShownTypes
<1>7. ASSUME NEW c \in Consumers, NEW d \in Dirs, GetDirContents(c, d) PROVE ShownTypes'
  <2>1. PICK v \in Listing \cup {Asked} : told' = [told EXCEPT ![c][d] = v]
    BY <1>7 DEF GetDirContents, LoopTypes
  <2>2. /\ told' \in [Consumers -> [Dirs -> Views]]
        /\ told'[c][d] # Collapsed
        /\ \A b \in Consumers, e \in Dirs : <<b, e>> # <<c, d>> => told'[b][e] = told[b][e]
    BY <2>1, NoListing DEF ShownTypes, Views
  <2>3. /\ consumers' \in [Dirs -> SUBSET Consumers] /\ c \in consumers'[d]
        /\ \A b \in Consumers, e \in Dirs : <<b, e>> # <<c, d>> => (b \in consumers'[e] <=> b \in consumers[e])
    BY <1>7 DEF GetDirContents, ShownTypes
  <2>4. \A e \in Dirs : reads'[e].phase = "none" <=> reads'[e].askers = {}
    BY <1>7 DEF GetDirContents, LoopTypes, ReadSet, ShownTypes
  <2>5. unsure' = unsure
    BY <1>7 DEF GetDirContents
  <2>6. ASSUME NEW b \in Consumers, NEW e \in Dirs
        PROVE  told'[b][e] = Collapsed <=> b \notin consumers'[e]
    <3>1. CASE <<b, e>> = <<c, d>>
      BY <2>2, <2>3, <3>1
    <3>2. CASE <<b, e>> # <<c, d>>
      BY <2>2, <2>3, <3>2 DEF ShownTypes
    <3> QED
      BY <3>1, <3>2
  <2> QED
    BY <2>2, <2>3, <2>4, <2>5, <2>6 DEF ShownTypes
<1>8. ASSUME NEW c \in Consumers, NEW d \in Dirs, UnwatchDir(c, d) PROVE ShownTypes'
  <2> DEFINE below == IF d = Top THEN Dirs ELSE {d}
  <2>1. /\ told' = [told EXCEPT ![c] = [e \in Dirs |-> IF e \in below THEN Collapsed ELSE @[e]]]
        /\ consumers' = [e \in Dirs |-> consumers[e] \ (IF e \in below THEN {c} ELSE {})]
        /\ reads' = reads /\ unsure' \subseteq unsure
    BY <1>8 DEF UnwatchDir
  <2> HIDE DEF below
  <2>2. told' \in [Consumers -> [Dirs -> Views]] /\ consumers' \in [Dirs -> SUBSET Consumers]
    BY <2>1 DEF ShownTypes, Views
  <2>3. ASSUME NEW b \in Consumers, NEW e \in Dirs
        PROVE  told'[b][e] = Collapsed <=> b \notin consumers'[e]
    BY <2>1 DEF ShownTypes
  <2> QED
    BY <2>1, <2>2, <2>3 DEF ShownTypes
<1>9. CASE BeginPass \/ EndPass
  <2>1. UNCHANGED <<consumers, reads, told>>
    BY <1>9 DEF BeginPass, EndPass
  <2>2. unsure' \subseteq Dirs
    BY <1>9 DEF BeginPass, EndPass, TakePending, EndDrain, Dropped, Cached, ShownTypes
  <2> QED
    BY <2>1, <2>2 DEF ShownTypes
<1>10. CASE ReadStatus \/ RereadDir
  BY <1>1, <1>10 DEF ReadStatus, RereadDir, cacheVars
<1>11. CASE BuildStatusMaps
  <2>1. UNCHANGED <<consumers, reads, unsure>>
    BY <1>11, Building
  <2>2. (\E d \in ToRead : Picks(Started, d, cache, told)) \/ Ends(Started, cache, told, maps')
    BY <1>11, Building
  <2>3. CASE told' = told
    BY <1>1, <2>1, <2>3
  <2>4. CASE Ends(Started, cache, told, maps')
    <3>1. told' \in [Consumers -> [Dirs -> Views]]
      BY <1>11, <2>4, PassTypes DEF Ends, Views, ShownTypes, LoopTypes
    <3>2. \A c \in Consumers, d \in Dirs : told'[c][d] = Collapsed <=> told[c][d] = Collapsed
      BY <1>11, <2>4, PassTypes, NoListing DEF Ends, LoopTypes
    <3> QED
      BY <2>1, <3>1, <3>2, ShownKept DEF ShownTypes
  <2> QED
    BY <2>2, <2>3, <2>4 DEF Picks
<1>12. CASE DirReread
  <2>1. /\ UNCHANGED <<consumers, reads>> /\ NowShown \in [Consumers -> [Dirs -> Views]]
        /\ \A c \in Consumers, d \in Dirs : NowShown[c][d] = Collapsed <=> told[c][d] = Collapsed
    BY <1>12, Rereads
  <2>2. unsure' \subseteq Dirs
    BY <1>12, Rereads DEF Dropped, ShownTypes
  <2>3. told' = NowShown \/ Ends(pass, NowListed, NowShown, maps)
    BY <1>12, Rereads DEF Picks
  <2>4. /\ told' \in [Consumers -> [Dirs -> Views]]
        /\ \A c \in Consumers, d \in Dirs : told'[c][d] = Collapsed <=> told[c][d] = Collapsed
    <3>1. CASE told' = NowShown
      BY <2>1, <3>1
    <3>2. CASE Ends(pass, NowListed, NowShown, maps)
      <4>1. cache' \in [Dirs -> Listing]
        BY <1>12, PassTypes DEF LoopTypes
      <4>2. told' \in [Consumers -> [Dirs -> Views]]
        BY <2>1, <3>2, <4>1 DEF Ends, Views
      <4>3. \A c \in Consumers, d \in Dirs : told'[c][d] = Collapsed <=> NowShown[c][d] = Collapsed
        BY <3>2, <4>1, NoListing DEF Ends
      <4> QED
        BY <2>1, <4>2, <4>3
    <3> QED
      BY <2>3, <3>1, <3>2
  <2> QED
    BY <2>1, <2>2, <2>4, ShownKept
<1>13. CASE Stop
  BY <1>13 DEF Stop, ShownTypes, NoRead, Views
<1>14. CASE UNCHANGED vars
  BY <1>1, <1>14 DEF vars, cacheVars
<1> QED
  BY <1>2, <1>3, <1>4, <1>5, <1>6, <1>7, <1>8, <1>9, <1>10, <1>11, <1>12, <1>13, <1>14 DEF Next, Work


\* Time goes on, and what is known is of a time before.
LEMMA ClockStep ==
  ASSUME LoopTypes, ShownTypes, Clock, [Next]_vars
  PROVE  Clock'
<1>0. time \in Nat /\ maps \in 1 .. time /\ \A o \in Ops : ops[o].at \in 0 .. time
  BY DEF LoopTypes, Clock
<1>1. ASSUME time' >= time, time' \in Nat, maps' = maps, pass' = pass \/ pass'.phase # "build",
             \A o \in Ops : ops'[o].at = ops[o].at \/ ops'[o].at \in 0 .. time'
      PROVE  Clock'
  BY <1>0, <1>1 DEF Clock, LoopTypes, PassSet
<1>2. ASSUME NEW work, Ask(work), UNCHANGED <<time, maps, ops>> PROVE Clock'
  BY <1>0, <1>1, <1>2 DEF Ask, Request, Ignored
<1>3. CASE Flush
  BY <1>2, <1>3 DEF Flush, diskVars
<1>4. CASE FlushRest
  BY <1>2, <1>4 DEF FlushRest, diskVars
<1>5. CASE RefreshGitStatus
  BY <1>2, <1>5 DEF RefreshGitStatus, diskVars
<1>6. CASE ResumeWatching
  BY <1>2, <1>6 DEF ResumeWatching, diskVars
<1>7. CASE GitChange \/ PauseWatching
  BY <1>0, <1>1, <1>7 DEF GitChange, PauseWatching, Tick, diskVars
<1>8. ASSUME NEW o \in Ops, NotifyChanges(o) PROVE Clock'
  <2>1. UNCHANGED <<time, maps, pass>>
    BY <1>8 DEF NotifyChanges, Ask, Request, Ignored, diskVars
  <2>2. \A p \in Ops : ops'[p].at = ops[p].at \/ ops'[p].at \in 0 .. time'
    <3>1. Answered.at = 0 /\ [ops[o] EXCEPT !.phase = "waiting"].at = ops[o].at
      BY DEF Answered, Op, LoopTypes, OpSet
    <3> QED
      BY <1>0, <1>8, <2>1, <3>1 DEF NotifyChanges, LoopTypes
  <2> QED
    BY <1>0, <1>1, <2>1, <2>2
<1>9. ASSUME NEW d \in Dirs, NEW kind \in Kinds, ExternalChange(d, kind) PROVE Clock'
  BY <1>0, <1>1, <1>9 DEF ExternalChange, OnDisk, Tick
<1>10. ASSUME NEW d \in Dirs, NEW kind \in Kinds, NEW o \in Ops, Operate(o, d, kind) PROVE Clock'
  <2>1. time' = time + 1 /\ UNCHANGED <<maps, pass>>
    BY <1>10 DEF Operate, OnDisk, Tick
  <2>2. \A p \in Ops : ops'[p].at = ops[p].at \/ ops'[p].at = time'
    BY <1>10 DEF Operate, Op, LoopTypes
  <2> QED
    BY <1>0, <1>1, <2>1, <2>2
<1>11. ASSUME NEW d \in Dirs,
              ReadDir(d) \/ ClassifyDir(d) \/ \E c \in Consumers : GetDirContents(c, d) \/ UnwatchDir(c, d)
       PROVE  Clock'
  <2>1. UNCHANGED <<time, maps, pass, ops>>
    BY <1>11 DEF ReadDir, ClassifyDir, GetDirContents, UnwatchDir, diskVars
  <2> QED
    BY <1>0, <1>1, <2>1
<1>12. CASE BeginPass
  <2>1. UNCHANGED <<time, maps, ops>>
    BY <1>12 DEF BeginPass, diskVars
  <2>2. pass'.phase # "build"
    BY <1>12, Nothing DEF BeginPass, TakePending, EndDrain, PassSet
  <2> QED
    BY <1>0, <1>1, <2>1, <2>2
<1>13. CASE EndPass
  <2>1. UNCHANGED <<time, maps>>
    BY <1>13 DEF EndPass, diskVars
  <2>2. pass'.phase # "build"
    BY <1>13, Nothing DEF EndPass, TakePending, EndDrain, PassSet
  <2>3. \A o \in Ops : ops'[o].at = ops[o].at \/ ops'[o].at = 0
    BY <1>13 DEF EndPass, Answered, Op
  <2> QED
    BY <1>0, <1>1, <2>1, <2>2, <2>3
<1>14. CASE ReadStatus
  <2>1. UNCHANGED <<time, maps, ops>> /\ pass'.read = time
    BY <1>14 DEF ReadStatus, diskVars, LoopTypes, PassSet
  <2> QED
    BY <1>0, <2>1 DEF Clock
<1>15. CASE RereadDir
  <2>1. UNCHANGED <<time, maps, ops>> /\ pass'.phase # "build"
    BY <1>15 DEF RereadDir, diskVars, LoopTypes, PassSet
  <2> QED
    BY <1>0, <1>1, <2>1
<1>16. CASE BuildStatusMaps
  <2>1. UNCHANGED <<time, ops>> /\ maps' \in 1 .. time /\ pass'.phase # "build"
    BY <1>16, Building DEF Picks, Ends, diskVars
  <2> QED
    BY <1>0, <2>1 DEF Clock
<1>17. CASE DirReread
  <2>1. UNCHANGED <<time, maps, ops>> /\ pass'.phase # "build"
    BY <1>17, Rereads DEF Picks, Ends, diskVars
  <2> QED
    BY <1>0, <1>1, <2>1
<1>18. CASE Stop
  <2>1. \A o \in Ops : ops'[o].at = ops[o].at \/ ops'[o].at = 0
    BY <1>18 DEF Stop, Answered, Op
  <2> QED
    BY <1>0, <1>1, <1>18, <2>1 DEF Stop, diskVars
<1>19. CASE UNCHANGED vars
  BY <1>0, <1>1, <1>19 DEF vars, diskVars
<1> QED
  BY <1>3, <1>4, <1>5, <1>6, <1>7, <1>8, <1>9, <1>10, <1>11, <1>12, <1>13, <1>14, <1>15, <1>16,
     <1>17, <1>18, <1>19 DEF Next, Work

AllTypes == ShownTypes /\ Clock /\ Flags

\* The types: what a consumer shows is a listing, or nothing of a directory that is closed and of one
\* it waits for; a directory is read for somebody or not at all; no status map is from the future.
THEOREM TypeCorrect == Spec => []TypeOK
<1>1. IInv /\ AllTypes /\ [Next]_vars => (IInv /\ AllTypes)'
  BY StepIInv, ShownStep, ClockStep, FlagsStep DEF IInv, AllTypes
<1>2. IInv /\ AllTypes => TypeOK
  <2> SUFFICES ASSUME IInv, AllTypes PROVE TypeOK
    OBVIOUS
  <2>1. \A d \in Dirs : /\ reads[d].phase \in {"none", "asked", "listed"} /\ reads[d].names \in Nat
                        /\ reads[d].askers \subseteq Consumers
                        /\ reads[d].phase = "none" <=> reads[d].askers = {}
    BY DEF IInv, AllTypes, LoopTypes, ReadSet, ShownTypes
  <2>2. /\ WorkOK(pending) /\ WorkOK(pass.work) /\ pass.todo \subseteq Dirs /\ pass.dir \in Dirs
        /\ pass.phase \in {"none", "status", "build", "reread", "listed", "moves"}
    BY DEF IInv, LoopTypes, WorkOK, WorkSet, PassSet
  <2>3. ops \in [Ops -> [phase : {"idle", "done", "waiting", "answered"}, dir : Dirs, kind : Kinds,
                         at : 0 .. time]]
    BY DEF IInv, AllTypes, LoopTypes, OpSet, Clock
  <2> QED
    BY <2>1, <2>2, <2>3 DEF TypeOK, IInv, AllTypes, LoopTypes, ShownTypes, Clock, Flags, Views
<1>3. Init => IInv /\ AllTypes
  BY InitIInv, InitTypes DEF AllTypes
<1> QED
  BY <1>1, <1>2, <1>3, PTL DEF Spec

-----------------------------------------------------------------------------
(***************************************************************************)
(* What is shown.  The names of a listing are those on disk, or the        *)
(* directory is due to be read again; its colours are those of the last    *)
(* status, or a pass is about to change them; and a consumer shows what is *)
(* cached, or what the pass took out of the cache, or waits for a read.    *)
(***************************************************************************)
Rereading == pass.phase \in {"reread", "listed"}

\* Reads for consumers and passes are apart, and a directory is read when it is not cached.
Apart ==
  /\ pass.phase = "none" => pass = NoPass
  /\ pass = NoPass \/ Reading = {}
  /\ \A d \in Reading : cache[d] = Empty
  /\ Rereading => cache[pass.dir] = Empty
  /\ pass.phase \notin {"status", "build"} => pass.work.dirs = {}

Held(c, d) ==
  \/ told[c][d] = Collapsed
  \/ told[c][d] = Asked /\ c \in reads[d].askers
  \/ told[c][d] = cache[d] /\ cache[d] # Empty
  \/ Rereading /\ pass.dir = d /\ told[c][d] = pass.old /\ pass.old # Empty

ToldWhatIsCached == ~stopped => \A d \in Dirs \ unsure, c \in Consumers : Held(c, d)

\* A pass with this work reads the directory.
Covers(work, d) == work.rescan \/ d \in work.dirs

\* The directory will be read again, or leave the cache: a change is unreported, a file operation
\* unnotified, or a pass to come
DueOutside(d) ==
  \/ Paused
  \/ d \in dirty \cup flushing \cup pending.rest \cup pending.purge \cup pass.work.rest
  \/ Covers(pending, d)
  \/ \E o \in Ops : ops[o].phase = "done" /\ d \in Touches(ops[o].dir, ops[o].kind) \cup {ops[o].dir}

\* or the one that runs will see to it.
DueInPass(d) ==
  \/ pass.phase \in {"status", "build"} /\ Covers(pass.work, d)
  \/ Rereading /\ d \in pass.todo

Due(d) == DueOutside(d) \/ DueInPass(d)

NamesKnown ==
  ~stopped => \A d \in Dirs :
    /\ cache[d] # Empty => cache[d].names = disk[d] \/ Due(d)
    /\ reads[d].phase = "listed" => reads[d].names = disk[d] \/ Due(d)
    /\ pass.phase = "listed" /\ pass.dir = d => pass.read = disk[d] \/ Due(d)

ColoursKnown ==
  ~stopped => \A d \in Dirs :
    cache[d] # Empty =>
      \/ cache[d].colours = maps
      \/ Rereading /\ (pass.work.rescan => d \in pass.todo)

\* Nothing is apart from the pass at first.
LEMMA InitShown == Init => Apart /\ ToldWhatIsCached /\ NamesKnown /\ ColoursKnown
<1> SUFFICES ASSUME Init PROVE Apart /\ ToldWhatIsCached /\ NamesKnown /\ ColoursKnown
  OBVIOUS
<1>1. pass = NoPass /\ Reading = {} /\ NoPass.work.dirs = {}
  BY Nothing DEF Init, Reading, NoRead, NoPass, NoWork
<1>2. \A d \in Dirs : cache[d] = Empty /\ reads[d].phase # "listed"
  BY DEF Init, NoRead
<1>3. pass.phase \notin {"reread", "listed"}
  BY <1>1, Nothing
<1> QED
  BY <1>1, <1>2, <1>3 DEF Init, Apart, Rereading, ToldWhatIsCached, Held, NamesKnown, ColoursKnown

\* Reads and passes stay apart.
LEMMA ApartStep ==
  ASSUME ~Overlap, LoopTypes, ShownTypes, Clock, Apart, [Next]_vars
  PROVE  Apart'
<1>1. ASSUME UNCHANGED <<reads, pass, cache>> PROVE Apart'
  BY <1>1 DEF Apart, Reading, Rereading
<1>2. \A work : Ask(work) => pass' = pass
  BY DEF Ask, Request, Ignored
<1>3. CASE Flush \/ FlushRest \/ RefreshGitStatus \/ GitChange \/ PauseWatching \/ ResumeWatching
  BY <1>1, <1>2, <1>3 DEF Flush, FlushRest, RefreshGitStatus, GitChange, PauseWatching, ResumeWatching, cacheVars
<1>4. ASSUME NEW o \in Ops, NotifyChanges(o) PROVE Apart'
  BY <1>1, <1>2, <1>4 DEF NotifyChanges, cacheVars
<1>5. ASSUME NEW d \in Dirs, NEW kind \in Kinds,
             ExternalChange(d, kind) \/ \E o \in Ops : Operate(o, d, kind)
      PROVE  Apart'
  BY <1>1, <1>5 DEF ExternalChange, Operate, cacheVars
<1>6. ASSUME NEW d \in Dirs, ReadDir(d) PROVE Apart'
  <2>1. reads[d].phase = "asked" /\ reads' = [reads EXCEPT ![d].phase = "listed", ![d].names = disk[d]]
        /\ UNCHANGED <<pass, cache>>
    BY <1>6 DEF ReadDir
  <2>2. Reading' = Reading
    BY <2>1 DEF Reading, LoopTypes, ReadSet
  <2> QED
    BY <2>1, <2>2 DEF Apart, Rereading
<1>7. ASSUME NEW d \in Dirs, ClassifyDir(d) PROVE Apart'
  <2>1. Reading' = Reading \ {d} /\ \A e \in Dirs \ {d} : cache'[e] = cache[e]
    BY <1>7 DEF ClassifyDir, Reading, NoRead, LoopTypes
  <2>2. pass' = pass /\ pass = NoPass
    BY <1>7 DEF ClassifyDir, Apart, Reading
  <2> QED
    BY <2>1, <2>2, Nothing DEF Apart, Reading, Rereading
<1>8. ASSUME NEW c \in Consumers, NEW d \in Dirs, GetDirContents(c, d) PROVE Apart'
  <2>1. UNCHANGED <<pass, cache>>
    BY <1>8 DEF GetDirContents
  <2>2. CASE cache[d] # Empty
    BY <1>1, <1>8, <2>2 DEF GetDirContents
  <2>3. CASE cache[d] = Empty
    <3>1. pass = NoPass
      BY <1>8, <2>3 DEF GetDirContents
    <3>2. Reading' \subseteq Reading \cup {d}
      BY <1>8, <2>3 DEF GetDirContents, Reading, LoopTypes, ReadSet
    <3> QED
      BY <2>1, <2>3, <3>1, <3>2, Nothing DEF Apart, Rereading
  <2> QED
    BY <2>2, <2>3
<1>9. ASSUME NEW c \in Consumers, NEW d \in Dirs, UnwatchDir(c, d) PROVE Apart'
  <2>1. UNCHANGED <<pass, reads>> /\ \A e \in Dirs : cache'[e] \in {Empty, cache[e]}
    BY <1>9 DEF UnwatchDir
  <2>2. pass.dir \in Dirs
    BY DEF LoopTypes, PassSet
  <2> QED
    BY <2>1, <2>2 DEF Apart, Reading, Rereading
<1>10. ASSUME Reading = {}, reads' = reads, pass'.phase # "none" \/ pass' = NoPass,
              pass'.phase \in {"reread", "listed"} => cache'[pass'.dir] = Empty,
              pass'.phase \in {"status", "build"} \/ pass'.work.dirs = {}
       PROVE  Apart'
  BY <1>10 DEF Apart, Reading, Rereading
<1>11. CASE BeginPass \/ EndPass
  <2>1. Reading = {} /\ reads' = reads
    BY <1>11, Nothing DEF BeginPass, EndPass, Apart
  <2>2. CASE TakePending
    <3>1. pass'.phase = "status"
      BY <2>2, Nothing DEF TakePending, PassSet
    <3> QED
      BY <1>10, <2>1, <3>1
  <2>3. CASE EndDrain
    <3>1. pass' = NoPass /\ NoPass.work.dirs = {}
      BY <2>3 DEF EndDrain, NoPass, NoWork
    <3> QED
      BY <1>10, <2>1, <3>1, Nothing
  <2> QED
    BY <1>11, <2>2, <2>3 DEF BeginPass, EndPass
<1>12. CASE ReadStatus \/ RereadDir
  <2>1. Reading = {} /\ reads' = reads
    BY <1>12, Nothing DEF ReadStatus, RereadDir, Apart, cacheVars
  <2>2. \/ pass'.phase = "build"
        \/ /\ pass'.phase = "listed" /\ pass'.work = pass.work /\ pass.phase = "reread"
           /\ pass'.dir = pass.dir /\ cache' = cache
    BY <1>12 DEF ReadStatus, RereadDir, cacheVars, LoopTypes, PassSet
  <2> QED
    BY <1>10, <2>1, <2>2 DEF Apart, Rereading
<1>13. CASE BuildStatusMaps
  <2>1. Reading = {} /\ reads' = reads
    BY <1>13, Building, Nothing DEF Apart
  <2>2. /\ pass'.phase \in {"reread", "moves"} /\ pass'.work.dirs = {}
        /\ pass'.phase = "reread" => cache'[pass'.dir] = Empty
    BY <1>13, Building DEF Picks, Ends, LoopTypes, PassSet, WorkSet
  <2> QED
    BY <1>10, <2>1, <2>2
<1>14. CASE DirReread
  <2>1. Reading = {} /\ reads' = reads /\ pass.work.dirs = {}
    BY <1>14, Rereads, Nothing DEF Apart
  <2>2. /\ pass'.phase \in {"reread", "moves"} /\ pass'.work.dirs = {}
        /\ pass'.phase = "reread" => cache'[pass'.dir] = Empty
    BY <1>14, <2>1, Rereads DEF Picks, Ends, LoopTypes, PassSet, WorkSet
  <2> QED
    BY <1>10, <2>1, <2>2
<1>15. CASE Stop
  <2>1. Reading' = {} /\ pass' = pass
    BY <1>15 DEF Stop, Reading, NoRead
  <2>2. cache'[pass.dir] = Empty
    BY <1>15 DEF Stop, LoopTypes, PassSet
  <2> QED
    BY <2>1, <2>2 DEF Apart, Rereading
<1>16. CASE UNCHANGED vars
  BY <1>1, <1>16 DEF vars, cacheVars
<1> QED
  BY <1>3, <1>4, <1>5, <1>6, <1>7, <1>8, <1>9, <1>11, <1>12, <1>13, <1>14, <1>15, <1>16 DEF Next, Work

\* A pass that goes on shows what it caches, or keeps what it uncaches to compare with.
LEMMA HeldContinues ==
  ASSUME NEW p \in PassSet, NEW listed \in [Dirs -> Listing],
         NEW shown \in [Consumers -> [Dirs -> Views]], NEW colours,
         (\E d \in p.todo : Picks(p, d, listed, shown)) \/ Ends(p, listed, shown, colours),
         cache' \in [Dirs -> Listing],
         NEW c \in Consumers, NEW e \in Dirs,
         shown[c][e] = Collapsed \/ (shown[c][e] = listed[e] /\ listed[e] # Empty)
  PROVE  Held(c, e)'
<1>1. ASSUME NEW d \in p.todo, Picks(p, d, listed, shown) PROVE Held(c, e)'
  <2>1. CASE e = d
    BY <1>1, <2>1 DEF Picks, Held, Rereading
  <2>2. CASE e # d
    BY <1>1, <2>2 DEF Picks, Held
  <2> QED
    BY <2>1, <2>2
<1>2. CASE Ends(p, listed, shown, colours)
  <2>1. /\ told'[c][e] = IF cache'[e] # listed[e] /\ shown[c][e] # Collapsed THEN cache'[e] ELSE shown[c][e]
        /\ cache'[e] = Empty <=> listed[e] = Empty
    BY <1>2 DEF Ends
  <2> QED
    BY <2>1 DEF Held
<1> QED
  BY <1>1, <1>2

\* The tree that was let go stays so.
LEMMA StaysStopped == ASSUME [Next]_vars PROVE stopped => stopped'
<1>1. CASE Flush \/ FlushRest \/ RefreshGitStatus \/ GitChange \/ PauseWatching \/ ResumeWatching
  BY <1>1 DEF Flush, FlushRest, RefreshGitStatus, GitChange, PauseWatching, ResumeWatching
<1>2. CASE \E o \in Ops : NotifyChanges(o) \/ \E d \in Dirs, kind \in Kinds : Operate(o, d, kind)
  BY <1>2 DEF NotifyChanges, Operate
<1>3. CASE \E d \in Dirs : \/ \E kind \in Kinds : ExternalChange(d, kind)
                           \/ ReadDir(d) \/ ClassifyDir(d)
                           \/ \E c \in Consumers : GetDirContents(c, d) \/ UnwatchDir(c, d)
  BY <1>3 DEF ExternalChange, ReadDir, ClassifyDir, GetDirContents, UnwatchDir
<1>4. CASE BeginPass \/ ReadStatus \/ BuildStatusMaps \/ RereadDir \/ DirReread \/ EndPass
  BY <1>4 DEF BeginPass, ReadStatus, BuildStatusMaps, RereadDir, DirReread, EndPass
<1>5. CASE Stop \/ UNCHANGED vars
  BY <1>5 DEF Stop, vars
<1> QED
  BY <1>1, <1>2, <1>3, <1>4, <1>5 DEF Next, Work

\* A consumer shows what is cached, or what the pass has taken out of the cache to read it again, or
\* waits for a read; except of directories that left the cache while it had them expanded.
LEMMA HeldStep ==
  ASSUME ~Overlap, LoopTypes, ShownTypes, Clock, Apart, ToldWhatIsCached, [Next]_vars,
         LoopTypes', ShownTypes'
  PROVE  ToldWhatIsCached'
<1>0. ~stopped' => ~stopped
  BY StaysStopped
<1> SUFFICES ASSUME ~stopped, ~stopped',
                    NEW e \in Dirs, e \notin unsure', NEW c \in Consumers
             PROVE  Held(c, e)'
  BY <1>0 DEF ToldWhatIsCached
<1>1. e \notin unsure => Held(c, e)
  BY DEF ToldWhatIsCached
<1>2. ASSUME UNCHANGED <<cache, told, reads, pass, unsure>> PROVE Held(c, e)'
  BY <1>1, <1>2 DEF Held, Rereading
<1>3. \A work : Ask(work) => pass' = pass
  BY DEF Ask, Request, Ignored
<1>4. CASE Flush \/ FlushRest \/ RefreshGitStatus \/ GitChange \/ PauseWatching \/ ResumeWatching
  BY <1>2, <1>3, <1>4 DEF Flush, FlushRest, RefreshGitStatus, GitChange, PauseWatching, ResumeWatching, cacheVars
<1>5. ASSUME NEW o \in Ops, NotifyChanges(o) PROVE Held(c, e)'
  BY <1>2, <1>3, <1>5 DEF NotifyChanges, cacheVars
<1>6. ASSUME NEW d \in Dirs, NEW kind \in Kinds,
             ExternalChange(d, kind) \/ \E o \in Ops : Operate(o, d, kind)
      PROVE  Held(c, e)'
  BY <1>2, <1>6 DEF ExternalChange, Operate, cacheVars
<1>7. ASSUME NEW d \in Dirs, ReadDir(d) PROVE Held(c, e)'
  <2>1. UNCHANGED <<cache, told, pass, unsure>> /\ reads'[e].askers = reads[e].askers
    BY <1>7 DEF ReadDir, LoopTypes, ReadSet
  <2> QED
    BY <1>1, <2>1 DEF Held, Rereading
<1>8. ASSUME NEW d \in Dirs, ClassifyDir(d) PROVE Held(c, e)'
  <2>1. pass = NoPass /\ pass' = pass /\ ~Rereading /\ cache[d] = Empty /\ e \notin unsure
    BY <1>8, Nothing DEF ClassifyDir, Apart, Reading, Rereading
  <2>2. CASE e # d
    BY <1>1, <1>8, <2>1, <2>2 DEF ClassifyDir, Held, LoopTypes, ShownTypes
  <2>3. CASE e = d
    <3> DEFINE entries == Entries(reads[d].names, maps)
    <3>1. /\ cache'[e] = entries /\ (entries = Empty => consumers[e] = {})
          /\ told'[c][e] = IF c \in reads[e].askers /\ told[c][e] # Collapsed THEN entries ELSE told[c][e]
      BY <1>8, <2>3 DEF ClassifyDir, LoopTypes, ShownTypes, Dropped
    <3> HIDE DEF entries
    <3>2. CASE told[c][e] = Collapsed
      BY <3>1, <3>2 DEF Held
    <3>3. CASE told[c][e] # Collapsed
      <4>1. c \in reads[e].askers
        BY <1>1, <2>1, <2>3, <3>3 DEF Held
      <4>2. entries # Empty
        BY <3>1, <3>3 DEF ShownTypes
      <4> QED
        BY <3>1, <3>3, <4>1, <4>2 DEF Held
    <3> QED
      BY <3>2, <3>3
  <2> QED
    BY <2>2, <2>3
<1>9. ASSUME NEW b \in Consumers, NEW d \in Dirs, GetDirContents(b, d) PROVE Held(c, e)'
  <2>1. UNCHANGED <<cache, pass, unsure>>
    BY <1>9 DEF GetDirContents
  <2>2. reads[e].askers \subseteq reads'[e].askers
    BY <1>9 DEF GetDirContents, LoopTypes, ReadSet
  <2>3. CASE b = c /\ d = e
    <3>1. CASE cache[d] # Empty
      BY <1>9, <2>1, <2>3, <3>1 DEF GetDirContents, Held, ShownTypes
    <3>2. CASE cache[d] = Empty
      BY <1>9, <2>3, <3>2 DEF GetDirContents, Held, ShownTypes, LoopTypes, ReadSet
    <3> QED
      BY <3>1, <3>2
  <2>4. CASE ~(b = c /\ d = e)
    <3>1. told'[c][e] = told[c][e]
      BY <1>9, <2>4 DEF GetDirContents, ShownTypes
    <3> QED
      BY <1>1, <2>1, <2>2, <3>1 DEF Held, Rereading
  <2> QED
    BY <2>3, <2>4
<1>10. ASSUME NEW b \in Consumers, NEW d \in Dirs, UnwatchDir(b, d) PROVE Held(c, e)'
  <2>1. CASE told'[c][e] = Collapsed
    BY <2>1 DEF Held
  <2>2. CASE told'[c][e] # Collapsed
    <3>1. c \in consumers'[e]
      BY <2>2 DEF ShownTypes
    <3>2. e \notin unsure
      BY <1>10, <3>1 DEF UnwatchDir, Sure
    <3>3. told'[c][e] = told[c][e] /\ cache'[e] = cache[e] /\ UNCHANGED <<reads, pass>>
      BY <1>10, <2>2, <3>1 DEF UnwatchDir, ShownTypes
    <3> QED
      BY <1>1, <3>2, <3>3 DEF Held, Rereading
  <2> QED
    BY <2>1, <2>2
<1>11. CASE BeginPass \/ EndPass
  <2>1. UNCHANGED <<told, reads, consumers>> /\ ~Rereading
    BY <1>11, Nothing DEF BeginPass, EndPass, Rereading
  <2>2. CASE TakePending
    <3>1. e \notin unsure /\ (cache'[e] = cache[e] \/ consumers[e] = {})
      BY <2>2 DEF TakePending, Dropped, LoopTypes
    <3>2. consumers[e] = {} => told[c][e] = Collapsed
      BY DEF ShownTypes
    <3> QED
      BY <1>1, <2>1, <3>1, <3>2 DEF Held
  <2>3. CASE EndDrain
    BY <1>1, <2>1, <2>3 DEF EndDrain, Held
  <2> QED
    BY <1>11, <2>2, <2>3 DEF BeginPass, EndPass
<1>12. CASE ReadStatus
  <2>1. UNCHANGED <<cache, told, reads, unsure>> /\ ~Rereading
    BY <1>12 DEF ReadStatus, cacheVars, Rereading
  <2> QED
    BY <1>1, <2>1 DEF Held
<1>13. CASE RereadDir
  <2>1. UNCHANGED <<cache, told, reads, unsure>>
        /\ pass'.phase = "listed" /\ pass'.dir = pass.dir /\ pass'.old = pass.old
    BY <1>13 DEF RereadDir, cacheVars, LoopTypes, PassSet
  <2> QED
    BY <1>1, <2>1 DEF Held, Rereading
<1>14. CASE BuildStatusMaps
  <2>1. Reading = {} /\ ~Rereading /\ e \notin unsure
    BY <1>14, Building, Nothing DEF Apart, Rereading
  <2>2. reads[e].askers = {}
    BY <2>1 DEF Reading, ShownTypes
  <2>3. told[c][e] = Collapsed \/ (told[c][e] = cache[e] /\ cache[e] # Empty)
    BY <1>1, <2>1, <2>2 DEF Held
  <2>4. /\ Started \in PassSet /\ Started.todo = ToRead
        /\ (\E d \in ToRead : Picks(Started, d, cache, told)) \/ Ends(Started, cache, told, maps')
    BY <1>14, Building
  <2>5. cache \in [Dirs -> Listing] /\ cache' \in [Dirs -> Listing] /\ told \in [Consumers -> [Dirs -> Views]]
    BY DEF LoopTypes, ShownTypes
  <2> QED
    BY <2>3, <2>4, <2>5, HeldContinues
<1>15. CASE DirReread
  <2>1. pass.phase = "listed" /\ Rereading /\ Reading = {} /\ e \notin unsure /\ cache[pass.dir] = Empty
    BY <1>15, Rereads, Nothing DEF Apart, Rereading
  <2>2. reads[e].askers = {}
    BY <2>1 DEF Reading, ShownTypes
  <2>3. NowShown[c][e] = Collapsed \/ (NowShown[c][e] = NowListed[e] /\ NowListed[e] # Empty)
    <3>1. CASE told[c][e] = Collapsed
      BY <1>15, <3>1, Rereads
    <3>2. CASE told[c][e] # Collapsed /\ e # pass.dir
      <4>1. NowListed[e] = cache[e] /\ NowShown[c][e] = told[c][e]
        BY <1>15, <3>2, Rereads DEF NowListed, LoopTypes
      <4> QED
        BY <1>1, <2>1, <2>2, <3>2, <4>1 DEF Held
    <3>3. CASE told[c][e] # Collapsed /\ e = pass.dir
      <4>1. told[c][e] = pass.old
        BY <1>1, <2>1, <2>2, <3>3 DEF Held
      <4>2. NowShown[c][e] = Reread /\ NowListed[e] = Reread
        BY <1>15, <3>3, <4>1, Rereads DEF NowListed, LoopTypes
      <4>3. Reread # Empty
        BY <1>15, <3>3, Rereads DEF Dropped, ShownTypes
      <4> QED
        BY <4>2, <4>3
    <3> QED
      BY <3>1, <3>2, <3>3
  <2>4. /\ NowListed \in [Dirs -> Listing] /\ NowShown \in [Consumers -> [Dirs -> Views]]
        /\ \/ \E d \in pass.todo : Picks(pass, d, NowListed, NowShown)
           \/ Ends(pass, NowListed, NowShown, maps)
        /\ pass \in PassSet /\ cache' \in [Dirs -> Listing]
    BY <1>15, Rereads DEF LoopTypes
  <2> QED
    BY <2>3, <2>4, HeldContinues
<1>16. CASE Stop
  BY <1>16 DEF Stop
<1>17. CASE UNCHANGED vars
  BY <1>2, <1>17 DEF vars, cacheVars
<1> QED
  BY <1>4, <1>5, <1>6, <1>7, <1>8, <1>9, <1>10, <1>11, <1>12, <1>13, <1>14, <1>15, <1>16, <1>17
     DEF Next, Work

\* What a request adds to the next pass.
LEMMA AskCovers ==
  ASSUME LoopTypes, NEW work \in WorkSet, Ask(work), ~stopped
  PROVE  /\ \A d : Covers(pending', d) <=> Covers(pending, d) \/ Covers(work, d)
         /\ pending'.rest = pending.rest \cup work.rest
         /\ pending'.purge = pending.purge \cup work.purge
         /\ pass' = pass
BY DEF Ask, Request, Merge, Covers, LoopTypes, WorkSet

\* A directory that was due is due after a request that takes over what made it so.
LEMMA DueAsked ==
  ASSUME LoopTypes, NEW work \in WorkSet, Ask(work), ~stopped, NEW d \in Dirs,
         Paused => Paused' \/ Covers(work, d),
         d \in dirty \cup flushing => d \in dirty' \cup flushing' \cup work.rest \/ Covers(work, d),
         \A o \in Ops :
           ops[o].phase = "done" /\ d \in Touches(ops[o].dir, ops[o].kind) \cup {ops[o].dir}
             => ops'[o] = ops[o] \/ Covers(work, d) \/ d \in work.purge
  PROVE  Due(d) => Due(d)'
<1>1. /\ Covers(pending', d) <=> Covers(pending, d) \/ Covers(work, d)
      /\ pending'.rest = pending.rest \cup work.rest
      /\ pending'.purge = pending.purge \cup work.purge
      /\ pass' = pass
  BY AskCovers
<1>2. DueInPass(d) => DueInPass(d)'
  BY <1>1 DEF DueInPass, Rereading
<1>3. DueOutside(d) => DueOutside(d)'
  <2> HIDE DEF Covers
  <2> QED
    BY <1>1 DEF DueOutside
<1> QED
  BY <1>2, <1>3 DEF Due

\* Nothing that makes a directory due has changed.
LEMMA DueSame ==
  ASSUME NEW d \in Dirs, UNCHANGED <<paused, dirty, flushing, pending, pass, ops>>
  PROVE  Due(d)' <=> Due(d)
BY DEF Due, DueOutside, DueInPass, Rereading, Paused

\* Listings stay, and what has changed on disk is due.
LEMMA NamesKept ==
  ASSUME NamesKnown, ~stopped, UNCHANGED <<cache, reads, pass>>,
         \A d \in Dirs : disk'[d] = disk[d] \/ Due(d)',
         \A d \in Dirs : Due(d) => Due(d)'
  PROVE  NamesKnown'
BY DEF NamesKnown

LEMMA WatchNames ==
  ASSUME LoopTypes, NamesKnown, ~stopped,
         \/ Flush \/ FlushRest \/ RefreshGitStatus \/ GitChange \/ PauseWatching \/ ResumeWatching
         \/ \E d \in Dirs, kind \in Kinds : ExternalChange(d, kind)
  PROVE  NamesKnown'
<1>1. CASE Flush
  <2> DEFINE work == [NoWork EXCEPT !.dirs = dirty]
  <2>1. work \in WorkSet /\ work.dirs = dirty /\ Ask(work)
    BY <1>1, Nothing DEF Flush, LoopTypes, WorkSet
  <2> HIDE DEF work
  <2>2. \A d \in Dirs : Due(d) => Due(d)'
    BY <1>1, <2>1, DueAsked DEF Flush, Covers, Paused
  <2> QED
    BY <1>1, <2>1, <2>2, NamesKept, AskFacts DEF Flush, diskVars, cacheVars
<1>2. CASE FlushRest
  <2> DEFINE work == [NoWork EXCEPT !.dirs = flushing]
  <2>1. work \in WorkSet /\ work.dirs = flushing /\ Ask(work)
    BY <1>2, Nothing DEF FlushRest, LoopTypes, WorkSet
  <2> HIDE DEF work
  <2>2. \A d \in Dirs : Due(d) => Due(d)'
    BY <1>2, <2>1, DueAsked DEF FlushRest, Covers, Paused
  <2> QED
    BY <1>2, <2>1, <2>2, NamesKept, AskFacts DEF FlushRest, diskVars, cacheVars
<1>3. CASE RefreshGitStatus
  <2> DEFINE work == [NoWork EXCEPT !.rescan = TRUE]
  <2>1. work \in WorkSet /\ work.rescan /\ Ask(work)
    BY <1>3, Nothing DEF RefreshGitStatus, NoWork, WorkSet
  <2> HIDE DEF work
  <2>2. \A d \in Dirs : Due(d) => Due(d)'
    BY <1>3, <2>1, DueAsked DEF RefreshGitStatus, Covers
  <2> QED
    BY <1>3, <2>1, <2>2, NamesKept, AskFacts DEF RefreshGitStatus, diskVars, cacheVars
<1>4. CASE ResumeWatching
  <2> DEFINE work == [NoWork EXCEPT !.rescan = TRUE, !.rest = dirty]
  <2>1. work \in WorkSet /\ work.rescan /\ Ask(work)
    BY <1>4, Nothing DEF ResumeWatching, NoWork, WorkSet, LoopTypes
  <2> HIDE DEF work
  <2>2. \A d \in Dirs : Due(d) => Due(d)'
    BY <1>4, <2>1, DueAsked DEF ResumeWatching, Covers
  <2> QED
    BY <1>4, <2>1, <2>2, NamesKept, AskFacts DEF ResumeWatching, diskVars, cacheVars
<1>5. CASE PauseWatching
  <2>1. \A d \in Dirs : Due(d)'
    BY <1>5 DEF PauseWatching, Due, DueOutside, Paused
  <2> QED
    BY <1>5, <2>1, NamesKept DEF PauseWatching, cacheVars
<1>6. CASE GitChange
  <2>1. \A d \in Dirs : Due(d)' <=> Due(d)
    BY <1>6, DueSame DEF GitChange
  <2> QED
    BY <1>6, <2>1, NamesKept DEF GitChange, cacheVars
<1>7. ASSUME NEW d \in Dirs, NEW kind \in Kinds, ExternalChange(d, kind) PROVE NamesKnown'
  <2>1. \A e \in Dirs : Due(e) => Due(e)'
    BY <1>7 DEF ExternalChange, Due, DueOutside, DueInPass, Rereading, Paused
  <2>2. \A e \in Dirs : disk'[e] = disk[e] \/ Due(e)'
    <3>1. \A e \in Dirs \ (Touches(d, kind) \cup {d}) : disk'[e] = disk[e]
      BY <1>7 DEF ExternalChange, OnDisk
    <3>2. Paused' \/ Touches(d, kind) \cup {d} \subseteq dirty'
      BY <1>7 DEF ExternalChange, Paused
    <3> QED
      BY <3>1, <3>2 DEF Due, DueOutside
  <2> QED
    BY <1>7, <2>1, <2>2, NamesKept DEF ExternalChange, cacheVars
<1> QED
  BY <1>1, <1>2, <1>3, <1>4, <1>5, <1>6, <1>7

LEMMA OperationNames ==
  ASSUME LoopTypes, NamesKnown, ~stopped, NEW o \in Ops,
         NotifyChanges(o) \/ \E d \in Dirs, kind \in Kinds : Operate(o, d, kind)
  PROVE  NamesKnown'
<1>1. CASE NotifyChanges(o)
  <2> DEFINE on == ops[o]
             work == [NoWork EXCEPT !.dirs = Touches(on.dir, on.kind), !.waiters = {o},
                                    !.purge = IF on.kind = "within" THEN {} ELSE {on.dir}]
  <2>1. on \in OpSet /\ Touches(on.dir, on.kind) \subseteq Dirs
    BY FilesAssumption DEF LoopTypes, OpSet, Touches
  <2>2. /\ work \in WorkSet /\ work.dirs = Touches(on.dir, on.kind)
        /\ work.purge = IF on.kind = "within" THEN {} ELSE {on.dir}
    BY <2>1, Nothing DEF WorkSet, OpSet
  <2>3. Ask(work) /\ UNCHANGED <<disk, dirty, flushing, paused, cache, reads>>
        /\ \A p \in Ops \ {o} : ops'[p] = ops[p]
    BY <1>1 DEF NotifyChanges, watchVars, diskVars, cacheVars, LoopTypes
  <2> HIDE DEF work
  <2>4. ASSUME NEW d \in Dirs PROVE Due(d) => Due(d)'
    <3>1. d \in Touches(on.dir, on.kind) \cup {on.dir} => d \in work.dirs \/ d \in work.purge
      BY <2>2 DEF Touches
    <3> QED
      BY <2>2, <2>3, <3>1, DueAsked DEF Covers, Paused
  <2> QED
    BY <2>2, <2>3, <2>4, NamesKept, AskFacts
<1>2. ASSUME NEW d \in Dirs, NEW kind \in Kinds, Operate(o, d, kind) PROVE NamesKnown'
  <2>1. /\ UNCHANGED <<paused, flushing, pending, pass, cache, reads>> /\ dirty \subseteq dirty'
        /\ ops[o].phase = "idle" /\ \A p \in Ops \ {o} : ops'[p] = ops[p]
        /\ ops'[o].phase = "done" /\ ops'[o].dir = d /\ ops'[o].kind = kind
    BY <1>2 DEF Operate, cacheVars, Op, LoopTypes
  <2>2. \A e \in Dirs : Due(e) => Due(e)'
    BY <2>1 DEF Due, DueOutside, DueInPass, Rereading, Paused
  <2>3. \A e \in Dirs : disk'[e] = disk[e] \/ Due(e)'
    <3>1. \A e \in Dirs \ (Touches(d, kind) \cup {d}) : disk'[e] = disk[e]
      BY <1>2 DEF Operate, OnDisk
    <3> QED
      BY <2>1, <3>1 DEF Due, DueOutside
  <2> QED
    BY <2>1, <2>2, <2>3, NamesKept
<1> QED
  BY <1>1, <1>2

LEMMA ConsumerNames ==
  ASSUME LoopTypes, Apart, NamesKnown, ~stopped, NEW d \in Dirs,
         ReadDir(d) \/ ClassifyDir(d) \/ \E c \in Consumers : GetDirContents(c, d) \/ UnwatchDir(c, d)
  PROVE  NamesKnown'
<1>1. UNCHANGED <<disk, paused, dirty, flushing, pending, pass, ops>>
  BY DEF ReadDir, ClassifyDir, GetDirContents, UnwatchDir, diskVars, watchVars
<1>2. \A e \in Dirs : Due(e)' <=> Due(e)
  BY <1>1, DueSame
<1>3. ASSUME \A e \in Dirs : \/ cache'[e] \in {Empty, cache[e]}
                             \/ reads[e].phase = "listed" /\ cache'[e].names = reads[e].names,
             \A e \in Dirs : reads'[e].phase = "listed" =>
               \/ reads'[e].names = disk[e]
               \/ reads[e].phase = "listed" /\ reads'[e].names = reads[e].names
      PROVE  NamesKnown'
  BY <1>1, <1>2, <1>3 DEF NamesKnown
<1>4. CASE ReadDir(d)
  BY <1>3, <1>4 DEF ReadDir, LoopTypes, ReadSet
<1>5. CASE ClassifyDir(d)
  <2>1. \A e \in Dirs : \/ cache'[e] \in {Empty, cache[e]}
                        \/ reads[e].phase = "listed" /\ cache'[e].names = reads[e].names
    BY <1>5 DEF ClassifyDir, Entries, LoopTypes
  <2>2. \A e \in Dirs : reads'[e].phase = "listed" => reads'[e] = reads[e]
    BY <1>5 DEF ClassifyDir, NoRead, LoopTypes
  <2> QED
    BY <1>3, <2>1, <2>2
<1>6. ASSUME NEW c \in Consumers, GetDirContents(c, d) PROVE NamesKnown'
  <2>1. \A e \in Dirs : reads'[e].phase = "listed"
                          => reads[e].phase = "listed" /\ reads'[e].names = reads[e].names
    BY <1>6 DEF GetDirContents, LoopTypes, ReadSet
  <2> QED
    BY <1>3, <1>6, <2>1 DEF GetDirContents
<1>7. ASSUME NEW c \in Consumers, UnwatchDir(c, d) PROVE NamesKnown'
  BY <1>3, <1>7 DEF UnwatchDir
<1> QED
  BY <1>4, <1>5, <1>6, <1>7

\* A pass that goes on: the listings it has are those on disk, or it has still to read them, or the
\* directory is due for other reasons.
LEMMA NamesContinue ==
  ASSUME ~stopped, NEW p \in PassSet, NEW listed \in [Dirs -> Listing], NEW shown, NEW colours,
         (\E d \in p.todo : Picks(p, d, listed, shown)) \/ Ends(p, listed, shown, colours),
         UNCHANGED <<disk, paused, dirty, flushing, pending, ops, reads>>,
         p.work.rest = pass.work.rest, Reading = {},
         \A e \in Dirs : listed[e] # Empty => listed[e].names = disk[e] \/ DueOutside(e) \/ e \in p.todo
  PROVE  NamesKnown'
<1>1. pass'.work.rest = pass.work.rest /\ pass'.phase # "listed"
  BY DEF Picks, Ends, PassSet, WorkSet
<1>2. \A e \in Dirs : DueOutside(e)' <=> DueOutside(e)
  BY <1>1 DEF DueOutside, Paused
<1>3. \A e \in Dirs : reads'[e].phase # "listed"
  BY DEF Reading
<1>4. ASSUME NEW e \in Dirs, cache'[e] # Empty PROVE cache'[e].names = disk'[e] \/ Due(e)'
  <2>1. CASE \E d \in p.todo : Picks(p, d, listed, shown)
    <3>1. PICK d \in p.todo : Picks(p, d, listed, shown)
      BY <2>1
    <3>2. e # d /\ cache'[e] = listed[e] /\ pass'.todo = p.todo \ {d} /\ Rereading'
      BY <1>4, <3>1 DEF Picks, Rereading
    <3> QED
      BY <1>2, <1>4, <3>2 DEF Due, DueInPass
  <2>2. CASE Ends(p, listed, shown, colours)
    <3>1. p.todo = {} /\ listed[e] # Empty /\ cache'[e].names = listed[e].names
      BY <1>4, <2>2 DEF Ends
    <3> QED
      BY <1>2, <3>1 DEF Due
  <2> QED
    BY <2>1, <2>2
<1> QED
  BY <1>1, <1>3, <1>4 DEF NamesKnown

LEMMA PassNames ==
  ASSUME ~Overlap, LoopTypes, ShownTypes, Clock, Joined, Apart, NamesKnown, ~stopped,
         BeginPass \/ ReadStatus \/ BuildStatusMaps \/ RereadDir \/ DirReread \/ EndPass
  PROVE  NamesKnown'
<1>1. CASE BeginPass \/ EndPass
  <2>1. UNCHANGED <<disk, paused, dirty, reads>> /\ Reading = {} /\ ~Rereading
        /\ pass.phase \notin {"status", "build"}
    BY <1>1, Nothing DEF BeginPass, EndPass, Apart, Rereading, diskVars, watchVars
  <2>2. flushing \cup pass.work.rest \subseteq flushing'
    BY <1>1 DEF BeginPass, EndPass, watchVars, NoPass, NoWork
  <2>3. ASSUME NEW o \in Ops, ops[o].phase = "done" PROVE ops'[o] = ops[o]
    <3>1. o \notin pass.work.waiters
      BY <2>3 DEF Joined, Notified
    <3> QED
      BY <1>1, <3>1 DEF BeginPass, EndPass, LoopTypes
  <2>4. \A e \in Dirs : reads'[e].phase # "listed"
    BY <2>1 DEF Reading
  <2>5. CASE TakePending
    <3>1. /\ pass'.phase = "status" /\ pass'.work = [pending EXCEPT !.purge = {}]
          /\ \A e \in Dirs : cache'[e] = IF e \in pending.purge \cap Cached(cache) THEN Empty ELSE cache[e]
      BY <2>5, Nothing DEF TakePending, PassSet
    <3>2. /\ pass'.work.rest = pending.rest
          /\ \A e \in Dirs : Covers(pass'.work, e) <=> Covers(pending, e)
      BY <3>1 DEF Covers, LoopTypes, WorkSet
    <3>3. ASSUME NEW e \in Dirs, cache'[e] # Empty PROVE cache'[e].names = disk'[e] \/ Due(e)'
      <4>1. cache'[e] = cache[e] /\ e \notin pending.purge
        BY <3>1, <3>3 DEF Cached
      <4>2. Due(e) => DueOutside(e)
        BY <2>1 DEF Due, DueInPass
      <4>3. DueOutside(e) => Due(e)'
        <5>1. CASE Paused \/ e \in dirty \cup flushing \cup pending.rest \cup pass.work.rest
          BY <2>1, <2>2, <3>2, <5>1 DEF Due, DueOutside, Paused
        <5>2. CASE Covers(pending, e)
          BY <3>1, <3>2, <5>2 DEF Due, DueInPass
        <5>3. CASE \E o \in Ops : ops[o].phase = "done"
                                    /\ e \in Touches(ops[o].dir, ops[o].kind) \cup {ops[o].dir}
          BY <2>3, <5>3 DEF Due, DueOutside
        <5> QED
          BY <4>1, <5>1, <5>2, <5>3 DEF DueOutside
      <4> QED
        BY <2>1, <3>3, <4>1, <4>2, <4>3 DEF NamesKnown
    <3> QED
      BY <2>4, <3>1, <3>3 DEF NamesKnown
  <2>6. CASE EndDrain
    <3>1. UNCHANGED <<pending, cache>> /\ pass'.phase # "listed"
      BY <2>6, Nothing DEF EndDrain
    <3>2. \A e \in Dirs : Due(e) => Due(e)'
      BY <2>1, <2>2, <2>3, <3>1 DEF Due, DueOutside, DueInPass, Paused
    <3> QED
      BY <2>1, <2>4, <3>1, <3>2 DEF NamesKnown
  <2> QED
    BY <1>1, <2>5, <2>6 DEF BeginPass, EndPass
<1>2. CASE ReadStatus
  <2>1. /\ UNCHANGED <<disk, paused, dirty, flushing, pending, ops, cache, reads>>
        /\ pass.phase = "status" /\ pass'.phase = "build" /\ pass'.work = pass.work
    BY <1>2 DEF ReadStatus, LoopTypes, PassSet, diskVars, watchVars, cacheVars
  <2>2. \A e \in Dirs : Due(e) => Due(e)'
    BY <2>1 DEF Due, DueOutside, DueInPass, Rereading, Paused
  <2> QED
    BY <2>1, <2>2 DEF NamesKnown
<1>3. CASE RereadDir
  <2>1. /\ UNCHANGED <<disk, paused, dirty, flushing, pending, ops, cache, reads>>
        /\ pass.phase = "reread" /\ pass'.phase = "listed" /\ pass'.work = pass.work
        /\ pass'.todo = pass.todo /\ pass'.dir = pass.dir /\ pass'.read = disk[pass.dir]
    BY <1>3 DEF RereadDir, LoopTypes, PassSet, diskVars, watchVars, cacheVars
  <2>2. \A e \in Dirs : Due(e) => Due(e)'
    BY <2>1 DEF Due, DueOutside, DueInPass, Rereading, Paused
  <2> QED
    BY <2>1, <2>2 DEF NamesKnown
<1>4. CASE BuildStatusMaps
  <2>1. /\ Started \in PassSet /\ Started.todo = ToRead /\ Started.work.rest = pass.work.rest
        /\ pass.phase = "build" /\ Reading = {} /\ ~Rereading
        /\ (\E d \in ToRead : Picks(Started, d, cache, told)) \/ Ends(Started, cache, told, maps')
        /\ UNCHANGED <<disk, paused, dirty, flushing, pending, ops, reads>>
    BY <1>4, Building, Nothing DEF LoopTypes, PassSet, WorkSet, Apart, Rereading, diskVars, watchVars
  <2>2. ASSUME NEW e \in Dirs, cache[e] # Empty
        PROVE  cache[e].names = disk[e] \/ DueOutside(e) \/ e \in Started.todo
    <3>1. Covers(pass.work, e) => e \in ToRead
      BY <2>2 DEF Covers, ToRead, Cached
    <3> QED
      BY <2>1, <2>2, <3>1 DEF NamesKnown, Due, DueInPass
  <2>3. cache \in [Dirs -> Listing]
    BY DEF LoopTypes
  <2> QED
    BY <2>1, <2>2, <2>3, NamesContinue
<1>5. CASE DirReread
  <2>1. /\ pass \in PassSet /\ pass.phase = "listed" /\ Reading = {} /\ pass.dir \in Dirs
        /\ NowListed \in [Dirs -> Listing]
        /\ \/ \E d \in pass.todo : Picks(pass, d, NowListed, NowShown)
           \/ Ends(pass, NowListed, NowShown, maps)
        /\ UNCHANGED <<disk, paused, dirty, flushing, pending, ops, reads>>
    BY <1>5, Rereads, Nothing DEF LoopTypes, Apart, diskVars, watchVars
  <2>2. ASSUME NEW e \in Dirs, NowListed[e] # Empty
        PROVE  NowListed[e].names = disk[e] \/ DueOutside(e) \/ e \in pass.todo
    <3>1. CASE e = pass.dir
      <4>1. NowListed[e].names = pass.read
        BY <2>2, <3>1 DEF NowListed, Reread, Entries, LoopTypes
      <4> QED
        BY <2>1, <3>1, <4>1 DEF NamesKnown, Due, DueInPass
    <3>2. CASE e # pass.dir
      <4>1. NowListed[e] = cache[e]
        BY <3>2 DEF NowListed, LoopTypes
      <4> QED
        BY <2>1, <2>2, <4>1 DEF NamesKnown, Due, DueInPass
    <3> QED
      BY <3>1, <3>2
  <2> QED
    BY <2>1, <2>2, NamesContinue
<1> QED
  BY <1>1, <1>2, <1>3, <1>4, <1>5

\* The colours of what a pass caches are those of the status it has read, or it has still to get there.
LEMMA ColoursContinue ==
  ASSUME ~stopped, NEW p \in PassSet, NEW listed \in [Dirs -> Listing], NEW shown,
         (\E d \in p.todo : Picks(p, d, listed, shown)) \/ Ends(p, listed, shown, maps'),
         \A e \in Dirs : listed[e] # Empty /\ p.work.rescan => listed[e].colours = maps' \/ e \in p.todo
  PROVE  ColoursKnown'
<1>1. ASSUME NEW d \in p.todo, Picks(p, d, listed, shown) PROVE ColoursKnown'
  BY <1>1 DEF Picks, ColoursKnown, Rereading
<1>2. CASE Ends(p, listed, shown, maps')
  BY <1>2 DEF Ends, ColoursKnown
<1> QED
  BY <1>1, <1>2

LEMMA ColoursStep ==
  ASSUME ~Overlap, LoopTypes, ShownTypes, Clock, Apart, ColoursKnown, ~stopped, [Next]_vars
  PROVE  ColoursKnown'
<1>1. ASSUME maps' = maps, pass' = pass \/ ~Rereading,
             \A e \in Dirs : cache'[e] \in {Empty, cache[e]} \/ cache'[e].colours = maps
      PROVE  ColoursKnown'
  BY <1>1 DEF ColoursKnown, Rereading
<1>2. \A work : Ask(work) => pass' = pass
  BY DEF Ask, Request, Ignored
<1>3. CASE Flush \/ FlushRest \/ RefreshGitStatus \/ GitChange \/ PauseWatching \/ ResumeWatching
  BY <1>1, <1>2, <1>3 DEF Flush, FlushRest, RefreshGitStatus, GitChange, PauseWatching, ResumeWatching, cacheVars
<1>4. ASSUME NEW o \in Ops, NotifyChanges(o) PROVE ColoursKnown'
  BY <1>1, <1>2, <1>4 DEF NotifyChanges, cacheVars
<1>5. ASSUME NEW d \in Dirs, NEW kind \in Kinds,
             ExternalChange(d, kind) \/ \E o \in Ops : Operate(o, d, kind)
      PROVE  ColoursKnown'
  BY <1>1, <1>5 DEF ExternalChange, Operate, cacheVars
<1>6. ASSUME NEW d \in Dirs, ReadDir(d) \/ \E c \in Consumers : GetDirContents(c, d)
      PROVE  ColoursKnown'
  <2>1. UNCHANGED <<maps, pass, cache>>
    BY <1>6 DEF ReadDir, GetDirContents
  <2> QED
    BY <1>1, <2>1
<1>7. ASSUME NEW d \in Dirs, ClassifyDir(d) PROVE ColoursKnown'
  <2>1. UNCHANGED <<maps, pass>> /\ cache' = [cache EXCEPT ![d] = Entries(reads[d].names, maps)]
    BY <1>7 DEF ClassifyDir
  <2>2. \A e \in Dirs : cache'[e] \in {Empty, cache[e]} \/ cache'[e].colours = maps
    BY <2>1 DEF Entries, LoopTypes
  <2> QED
    BY <1>1, <2>1, <2>2
<1>8. ASSUME NEW c \in Consumers, NEW d \in Dirs, UnwatchDir(c, d) PROVE ColoursKnown'
  <2>1. UNCHANGED <<maps, pass>> /\ \A e \in Dirs : cache'[e] \in {Empty, cache[e]}
    BY <1>8 DEF UnwatchDir
  <2> QED
    BY <1>1, <2>1
<1>9. CASE BeginPass \/ EndPass
  <2>1. maps' = maps /\ ~Rereading
    BY <1>9, Nothing DEF BeginPass, EndPass, Rereading
  <2>2. \A e \in Dirs : cache'[e] \in {Empty, cache[e]}
    BY <1>9 DEF BeginPass, EndPass, TakePending, EndDrain
  <2> QED
    BY <1>1, <2>1, <2>2
<1>10. CASE ReadStatus
  BY <1>1, <1>10 DEF ReadStatus, Rereading, cacheVars
<1>11. CASE RereadDir
  <2>1. /\ UNCHANGED <<maps, cache, stopped>> /\ pass'.work = pass.work /\ pass'.todo = pass.todo
        /\ pass'.phase = "listed" /\ pass.phase = "reread"
    BY <1>11 DEF RereadDir, LoopTypes, PassSet, cacheVars
  <2> QED
    BY <2>1 DEF ColoursKnown, Rereading
<1>12. CASE BuildStatusMaps
  <2>1. /\ Started \in PassSet /\ Started.todo = ToRead /\ Started.work.rescan = pass.work.rescan
        /\ (\E d \in ToRead : Picks(Started, d, cache, told)) \/ Ends(Started, cache, told, maps')
    BY <1>12, Building DEF LoopTypes, PassSet, WorkSet
  <2>2. \A e \in Dirs : cache[e] # Empty /\ Started.work.rescan => e \in Started.todo
    BY <2>1 DEF ToRead, Cached
  <2>3. cache \in [Dirs -> Listing]
    BY DEF LoopTypes
  <2> QED
    BY <2>1, <2>2, <2>3, ColoursContinue
<1>13. CASE DirReread
  <2>1. /\ pass \in PassSet /\ NowListed \in [Dirs -> Listing] /\ Rereading /\ maps' = maps
        /\ (\E d \in pass.todo : Picks(pass, d, NowListed, NowShown)) \/ Ends(pass, NowListed, NowShown, maps)
    BY <1>13, Rereads DEF LoopTypes, Rereading
  <2>2. \A e \in Dirs : NowListed[e] # Empty /\ pass.work.rescan
                          => NowListed[e].colours = maps' \/ e \in pass.todo
    BY <2>1 DEF NowListed, Reread, Entries, LoopTypes, ColoursKnown
  <2> QED
    BY <2>1, <2>2, ColoursContinue
<1>14. CASE Stop
  BY <1>14 DEF Stop, ColoursKnown
<1>15. CASE UNCHANGED vars
  BY <1>1, <1>15 DEF vars, cacheVars
<1> QED
  BY <1>3, <1>4, <1>5, <1>6, <1>7, <1>8, <1>9, <1>10, <1>11, <1>12, <1>13, <1>14, <1>15 DEF Next, Work

LEMMA NamesStep ==
  ASSUME ~Overlap, LoopTypes, ShownTypes, Clock, Joined, Apart, NamesKnown, ~stopped, [Next]_vars
  PROVE  NamesKnown'
<1>1. CASE \/ Flush \/ FlushRest \/ RefreshGitStatus \/ GitChange \/ PauseWatching \/ ResumeWatching
           \/ \E d \in Dirs, kind \in Kinds : ExternalChange(d, kind)
  BY <1>1, WatchNames
<1>2. CASE \E o \in Ops : NotifyChanges(o) \/ \E d \in Dirs, kind \in Kinds : Operate(o, d, kind)
  BY <1>2, OperationNames
<1>3. CASE \E d \in Dirs : \/ ReadDir(d) \/ ClassifyDir(d)
                           \/ \E c \in Consumers : GetDirContents(c, d) \/ UnwatchDir(c, d)
  BY <1>3, ConsumerNames
<1>4. CASE BeginPass \/ ReadStatus \/ BuildStatusMaps \/ RereadDir \/ DirReread \/ EndPass
  BY <1>4, PassNames
<1>5. CASE Stop
  BY <1>5 DEF Stop, NamesKnown
<1>6. CASE UNCHANGED vars
  <2>1. UNCHANGED <<disk, cache, reads, paused, dirty, flushing, pending, pass, ops>>
    BY <1>6 DEF vars, diskVars, watchVars, cacheVars
  <2>2. \A e \in Dirs : Due(e)' <=> Due(e)
    BY <2>1, DueSame
  <2> QED
    BY <2>1, <2>2 DEF NamesKnown
<1> QED
  BY <1>1, <1>2, <1>3, <1>4, <1>5, <1>6 DEF Next, Work

\* What makes what is shown right.
ShownInv == IInv /\ AllTypes /\ Joined /\ Apart /\ ToldWhatIsCached /\ NamesKnown /\ ColoursKnown

LEMMA StepShown ==
  ASSUME ~Overlap, ShownInv, [Next]_vars
  PROVE  ShownInv'
<1>1. IInv' /\ AllTypes' /\ Joined'
  <2>1. IInv'
    BY StepIInv DEF ShownInv
  <2>2. AllTypes'
    BY ShownStep, ClockStep, FlagsStep DEF ShownInv, IInv, AllTypes
  <2>3. Joined'
    BY StepJoined DEF ShownInv, IInv
  <2> QED
    BY <2>1, <2>2, <2>3
<1>2. Apart'
  BY ApartStep DEF ShownInv, IInv, AllTypes
<1>3. ToldWhatIsCached'
  BY <1>1, HeldStep DEF ShownInv, IInv, AllTypes
<1>4. NamesKnown' /\ ColoursKnown'
  <2>1. CASE stopped
    BY <2>1, StaysStopped DEF NamesKnown, ColoursKnown
  <2>2. CASE ~stopped
    BY <2>2, NamesStep, ColoursStep DEF ShownInv, IInv, AllTypes
  <2> QED
    BY <2>1, <2>2
<1> QED
  BY <1>1, <1>2, <1>3, <1>4 DEF ShownInv

\* Once nothing is under way, every consumer shows what is on disk of the directories it has expanded,
\* in the colours of the last status, however changes, file operations, passes, failures and pauses
\* came together; unless a read for a consumer overlaps a pass.
THEOREM ShownIsOnDisk == ASSUME ~Overlap PROVE Spec => []ShowsTheDisk
<1>1. Init => ShownInv
  BY InitIInv, InitTypes, InitKnown, InitShown DEF ShownInv, AllTypes
<1>2. ShownInv /\ [Next]_vars => ShownInv'
  BY StepShown
<1>3. ShownInv => ShowsTheDisk
  <2> SUFFICES ASSUME ShownInv, Idle, NEW c \in Consumers, NEW d \in Dirs, told[c][d] # Collapsed, d \notin unsure
               PROVE  told[c][d] = [names |-> disk[d], colours |-> maps]
    BY DEF ShowsTheDisk
  <2>1. pass.phase = "none" /\ ~Rereading /\ ~stopped
    BY Nothing DEF Idle, Rereading
  <2>2. reads[d].askers = {}
    BY DEF Idle, Reading, ShownInv, AllTypes, ShownTypes
  <2>3. told[c][d] = cache[d] /\ cache[d] # Empty
    BY <2>1, <2>2 DEF ShownInv, ToldWhatIsCached, Held
  <2>4. ~Due(d)
    <3>1. /\ NoWork.dirs = {} /\ NoWork.rest = {} /\ NoWork.purge = {} /\ ~NoWork.rescan
          /\ NoPass.work.rest = {}
      BY DEF NoWork, NoPass
    <3> QED
      BY <2>1, <3>1 DEF Idle, Due, DueOutside, DueInPass, Covers
  <2>5. cache[d].names = disk[d] /\ cache[d].colours = maps /\ cache[d] \in Listing
    BY <2>1, <2>3, <2>4 DEF ShownInv, NamesKnown, ColoursKnown, IInv, LoopTypes
  <2> QED
    BY <2>3, <2>5 DEF Listing
<1> QED
  BY <1>1, <1>2, <1>3, PTL DEF Spec

-----------------------------------------------------------------------------
(***************************************************************************)
(* Whoever did a file operation is answered when what it did is shown: the *)
(* directory has changed since, the request that is pending covers it, and *)
(* the pass that carries it reads the directory or has done so.            *)
(***************************************************************************)

\* There at time t or later, or gone.
AtLeast(n, t) == n = 0 \/ n >= t

\* The pass caches of d what is there at time t or later.
Sees(d, t) ==
  IF pass.phase \in {"status", "build"} THEN Covers(pass.work, d)
  ELSE /\ cache[d] = Empty \/ cache[d].names >= t \/ (Rereading /\ d \in pass.todo)
       /\ pass.phase = "listed" /\ pass.dir = d => AtLeast(pass.read, t)

Promised(o, d) ==
  /\ AtLeast(disk[d], ops[o].at)
  /\ o \in pending.waiters => Covers(pending, d)
  /\ o \in pass.work.waiters => Sees(d, ops[o].at)

Touched(o) == Touches(ops[o].dir, ops[o].kind)

UnderWay(o) == ops[o].phase \in {"done", "waiting"}

OpsKnown == ~stopped => \A o \in Ops : UnderWay(o) => \A d \in Touched(o) : Promised(o, d)

\* No operation is under way at first.
LEMMA InitOps == Init => OpsKnown
<1> SUFFICES ASSUME Init PROVE OpsKnown
  OBVIOUS
<1>1. \A o \in Ops : ops[o].phase = "idle"
  BY DEF Init, Op
<1> QED
  BY <1>1 DEF OpsKnown, UnderWay

\* An operation touches directories of the tree.
LEMMA TouchedDirs == ASSUME LoopTypes, NEW o \in Ops PROVE Touched(o) \subseteq Dirs
BY FilesAssumption DEF Touched, Touches, LoopTypes, OpSet

\* What an operation was promised is kept when the same request is pending, or a larger one, and the
\* pass goes on as it was.
LEMMA PromiseKept ==
  ASSUME NEW o, NEW d, Promised(o, d), ops'[o].at = ops[o].at, pass' = pass,
         disk'[d] = disk[d], cache'[d] = Empty \/ cache'[d] = cache[d],
         o \in pending'.waiters => o \in pending.waiters /\ (Covers(pending, d) => Covers(pending', d))
  PROVE  Promised(o, d)'
BY DEF Promised, Sees, Rereading, Covers

\* A pass that goes on has cached what an operation did, or has still to read it.
LEMMA SeesContinue ==
  ASSUME ~stopped, NEW p \in PassSet, NEW listed \in [Dirs -> Listing], NEW shown, NEW colours,
         (\E d \in p.todo : Picks(p, d, listed, shown)) \/ Ends(p, listed, shown, colours),
         NEW e \in Dirs, NEW t, listed[e] = Empty \/ listed[e].names >= t \/ e \in p.todo
  PROVE  Sees(e, t)'
<1>1. ASSUME NEW d \in p.todo, Picks(p, d, listed, shown) PROVE Sees(e, t)'
  <2>1. pass'.phase = "reread" /\ Rereading'
    BY <1>1 DEF Picks, Rereading
  <2>2. CASE e = d
    BY <1>1, <2>1, <2>2 DEF Picks, Sees
  <2>3. CASE e # d
    BY <1>1, <2>1, <2>3 DEF Picks, Sees
  <2> QED
    BY <2>2, <2>3
<1>2. CASE Ends(p, listed, shown, colours)
  <2>1. p.todo = {} /\ pass'.phase = "moves"
    BY <1>2 DEF Ends
  <2>2. cache'[e] = Empty <=> listed[e] = Empty
    BY <1>2 DEF Ends
  <2>3. cache'[e] # Empty => cache'[e].names = listed[e].names
    BY <1>2 DEF Ends
  <2> QED
    BY <2>1, <2>2, <2>3 DEF Sees
<1> QED
  BY <1>1, <1>2

\* What the operations under way were promised is kept, and a new one is promised it.
LEMMA OpsStep ==
  ASSUME ~Overlap, LoopTypes, ShownTypes, Clock, Joined, Apart, OpsKnown, ~stopped, [Next]_vars
  PROVE  OpsKnown'
<1>0. \A o \in Ops : UnderWay(o) => \A d \in Touched(o) : Promised(o, d)
  BY DEF OpsKnown
<1>1. ASSUME ops' = ops, pass' = pass, disk' = disk, \A d \in Dirs : cache'[d] \in {Empty, cache[d]},
             \A o \in pending'.waiters : o \in pending.waiters
               /\ \A d \in Dirs : Covers(pending, d) => Covers(pending', d)
      PROVE  OpsKnown'
  <2>1. ASSUME NEW o \in Ops, UnderWay(o)', NEW d \in Touched(o)' PROVE Promised(o, d)'
    BY <1>0, <1>1, <2>1, TouchedDirs, PromiseKept DEF UnderWay, Touched
  <2> QED
    BY <2>1 DEF OpsKnown
<1>2. ASSUME NEW work \in WorkSet, Ask(work), work.waiters = {}, UNCHANGED <<ops, disk, cache>>
      PROVE  OpsKnown'
  <2>1. pass' = pass /\ pending'.waiters = pending.waiters
    BY <1>2, AskFacts
  <2>2. \A d \in Dirs : Covers(pending, d) => Covers(pending', d)
    BY <1>2, AskCovers
  <2> QED
    BY <1>1, <1>2, <2>1, <2>2
<1>3. CASE Flush \/ FlushRest \/ RefreshGitStatus \/ ResumeWatching
  <2>1. \E work \in WorkSet : Ask(work) /\ work.waiters = {}
    <3>1. CASE Flush
      <4> DEFINE work == [NoWork EXCEPT !.dirs = dirty]
      <4>1. work \in WorkSet /\ work.waiters = {}
        BY Nothing DEF LoopTypes, WorkSet
      <4>2. Ask(work)
        BY <3>1 DEF Flush
      <4> HIDE DEF work
      <4> QED
        BY <4>1, <4>2
    <3>2. CASE FlushRest
      <4> DEFINE work == [NoWork EXCEPT !.dirs = flushing]
      <4>1. work \in WorkSet /\ work.waiters = {}
        BY Nothing DEF LoopTypes, WorkSet
      <4>2. Ask(work)
        BY <3>2 DEF FlushRest
      <4> HIDE DEF work
      <4> QED
        BY <4>1, <4>2
    <3>3. CASE RefreshGitStatus
      <4> DEFINE work == [NoWork EXCEPT !.rescan = TRUE]
      <4>1. work \in WorkSet /\ work.waiters = {}
        BY Nothing DEF LoopTypes, WorkSet
      <4>2. Ask(work)
        BY <3>3 DEF RefreshGitStatus
      <4> HIDE DEF work
      <4> QED
        BY <4>1, <4>2
    <3>4. CASE ResumeWatching
      <4> DEFINE work == [NoWork EXCEPT !.rescan = TRUE, !.rest = dirty]
      <4>1. work \in WorkSet /\ work.waiters = {}
        BY Nothing DEF LoopTypes, WorkSet
      <4>2. Ask(work)
        BY <3>4 DEF ResumeWatching
      <4> HIDE DEF work
      <4> QED
        BY <4>1, <4>2
    <3> QED
      BY <1>3, <3>1, <3>2, <3>3, <3>4
  <2>2. UNCHANGED <<ops, disk, cache>>
    BY <1>3 DEF Flush, FlushRest, RefreshGitStatus, ResumeWatching, diskVars, cacheVars
  <2>3. PICK work \in WorkSet : Ask(work) /\ work.waiters = {}
    BY <2>1
  <2> QED
    BY <1>2, <2>2, <2>3
<1>4. CASE GitChange \/ PauseWatching
  <2>1. UNCHANGED <<ops, disk, cache, pass, pending>>
    BY <1>4 DEF GitChange, PauseWatching, diskVars, cacheVars
  <2> QED
    BY <1>1, <2>1
<1>5. ASSUME NEW o \in Ops, NotifyChanges(o) PROVE OpsKnown'
  <2> DEFINE on == ops[o]
             work == [NoWork EXCEPT !.dirs = Touches(on.dir, on.kind), !.waiters = {o},
                                    !.purge = IF on.kind = "within" THEN {} ELSE {on.dir}]
  <2>1. on \in OpSet /\ Touches(on.dir, on.kind) \subseteq Dirs
    BY FilesAssumption DEF LoopTypes, OpSet, Touches
  <2>2. /\ work \in WorkSet /\ work.dirs = Touched(o) /\ work.waiters = {o}
    BY <2>1, Nothing DEF WorkSet, OpSet, Touched
  <2>3. /\ Ask(work) /\ UNCHANGED <<disk, cache>> /\ on.phase = "done"
        /\ ops' = [ops EXCEPT ![o] = [on EXCEPT !.phase = "waiting"]]
    BY <1>5 DEF NotifyChanges, diskVars, cacheVars
  <2> HIDE DEF work
  <2>4. /\ pass' = pass /\ pending'.waiters = pending.waiters \cup {o}
        /\ \A d : Covers(pending', d) <=> Covers(pending, d) \/ d \in Touched(o) \/ work.rescan
    <3>1. pass' = pass /\ pending'.waiters = pending.waiters \cup {o}
      BY <2>2, <2>3, AskFacts
    <3>2. \A d : Covers(work, d) <=> d \in Touched(o) \/ work.rescan
      BY <2>2 DEF Covers
    <3>3. \A d : Covers(pending', d) <=> Covers(pending, d) \/ Covers(work, d)
      BY <2>2, <2>3, AskCovers
    <3> QED
      BY <3>1, <3>2, <3>3
  <2>5. \A p \in Ops : ops'[p].at = ops[p].at /\ Touched(p)' = Touched(p)
    BY <2>1, <2>3 DEF Touched, LoopTypes, OpSet
  <2>6. ASSUME NEW p \in Ops, UnderWay(p)', NEW d \in Touched(p) PROVE Promised(p, d)'
    <3>1. UnderWay(p)
      BY <2>3, <2>6 DEF UnderWay, LoopTypes
    <3>2. Promised(p, d) /\ d \in Dirs
      BY <1>0, <2>6, <3>1, TouchedDirs
    <3>3. CASE p # o
      BY <2>3, <2>4, <2>5, <3>2, <3>3, PromiseKept
    <3>4. CASE p = o
      <4>1. o \notin pass.work.waiters
        BY <2>3 DEF Joined, Notified
      <4> QED
        BY <2>3, <2>4, <2>5, <2>6, <3>2, <3>4, <4>1 DEF Promised
    <3> QED
      BY <3>3, <3>4
  <2> QED
    BY <2>5, <2>6 DEF OpsKnown
<1>6. ASSUME NEW d \in Dirs, NEW kind \in Kinds, OnDisk(d, kind), UNCHANGED <<pending, pass, cache>>,
             NEW p \in Ops, UnderWay(p), NEW e \in Touched(p), ops'[p] = ops[p]
      PROVE  Promised(p, e)'
  <2>1. e \in Dirs /\ Promised(p, e) /\ ops[p].at =< time /\ ops[p].at \in Nat /\ time \in Nat
    BY <1>0, <1>6, TouchedDirs DEF Clock, LoopTypes
  <2>2. time' = time + 1 /\ disk'[e] \in {0, time', disk[e]}
    BY <1>6, <2>1 DEF OnDisk, Tick
  <2>3. AtLeast(disk'[e], ops'[p].at)
    BY <1>6, <2>1, <2>2 DEF Promised, AtLeast
  <2> QED
    BY <1>6, <2>1, <2>3 DEF Promised, Sees, Rereading, Covers
<1>7. ASSUME NEW d \in Dirs, NEW kind \in Kinds, ExternalChange(d, kind) PROVE OpsKnown'
  <2>1. OnDisk(d, kind) /\ UNCHANGED <<pending, pass, cache, ops>>
    BY <1>7 DEF ExternalChange, cacheVars
  <2> QED
    BY <1>6, <2>1 DEF OpsKnown, UnderWay, Touched
<1>8. ASSUME NEW d \in Dirs, NEW kind \in Kinds, NEW o \in Ops, Operate(o, d, kind) PROVE OpsKnown'
  <2>1. /\ OnDisk(d, kind) /\ UNCHANGED <<pending, pass, cache>> /\ ops[o].phase = "idle"
        /\ \A p \in Ops \ {o} : ops'[p] = ops[p]
        /\ ops'[o].at = time' /\ ops'[o].dir = d /\ ops'[o].kind = kind
    BY <1>8 DEF Operate, cacheVars, Op, LoopTypes
  <2>2. ASSUME NEW e \in Touched(o)' PROVE Promised(o, e)'
    <3>1. e \in Touches(d, kind) /\ e \in Dirs /\ (kind = "remove" => e # d)
      BY <2>1, <2>2, FilesAssumption DEF Touched, Touches, OnDisk
    <3>2. disk'[e] = time'
      BY <2>1, <3>1 DEF OnDisk
    <3>3. o \notin pending.waiters \cup pass.work.waiters
      BY <2>1 DEF Joined, Notified
    <3>4. time' \in Nat
      BY <2>1 DEF OnDisk, Tick, LoopTypes
    <3> QED
      BY <2>1, <3>2, <3>3, <3>4 DEF Promised, AtLeast
  <2>3. ASSUME NEW p \in Ops \ {o}, UnderWay(p)', NEW e \in Touched(p)' PROVE Promised(p, e)'
    BY <1>6, <2>1, <2>3 DEF UnderWay, Touched
  <2> QED
    BY <2>2, <2>3 DEF OpsKnown
<1>9. ASSUME NEW d \in Dirs,
             ReadDir(d) \/ \E c \in Consumers : GetDirContents(c, d) \/ UnwatchDir(c, d)
      PROVE  OpsKnown'
  <2>1. UNCHANGED <<ops, disk, pass, pending>>
    BY <1>9 DEF ReadDir, GetDirContents, UnwatchDir, diskVars
  <2>2. \A e \in Dirs : cache'[e] \in {Empty, cache[e]}
    <3>1. CASE ReadDir(d) \/ \E c \in Consumers : GetDirContents(c, d)
      BY <3>1 DEF ReadDir, GetDirContents
    <3>2. CASE \E c \in Consumers : UnwatchDir(c, d)
      BY <3>2 DEF UnwatchDir
    <3> QED
      BY <1>9, <3>1, <3>2
  <2> QED
    BY <1>1, <2>1, <2>2
<1>10. ASSUME NEW d \in Dirs, ClassifyDir(d) PROVE OpsKnown'
  <2>1. UNCHANGED <<ops, disk, pass, pending>> /\ pass = NoPass
    BY <1>10 DEF ClassifyDir, diskVars, Apart, Reading
  <2>2. NoPass.work.waiters = {}
    BY Nothing
  <2> QED
    BY <1>0, <2>1, <2>2 DEF OpsKnown, UnderWay, Touched, Promised, Covers
<1>11. CASE BeginPass \/ EndPass
  <2>1. disk' = disk
    BY <1>11 DEF BeginPass, EndPass, diskVars
  <2>2. ASSUME NEW o \in Ops, UnderWay(o)' PROVE ops'[o] = ops[o]
    BY <1>11, <2>2 DEF BeginPass, EndPass, UnderWay, Answered, Op
  <2>3. CASE TakePending
    <3>1. /\ pass'.phase = "status" /\ pass'.work = [pending EXCEPT !.purge = {}]
          /\ pending' = NoWork
      BY <2>3, Nothing DEF TakePending, PassSet
    <3>2. /\ pass'.work.waiters = pending.waiters
          /\ \A e \in Dirs : Covers(pass'.work, e) <=> Covers(pending, e)
          /\ pending'.waiters = {}
      BY <3>1, Nothing DEF Covers, LoopTypes, WorkSet
    <3>3. ASSUME NEW o \in Ops, UnderWay(o)', NEW d \in Touched(o)' PROVE Promised(o, d)'
      <4>1. UnderWay(o) /\ d \in Touched(o) /\ ops'[o] = ops[o]
        BY <2>2, <3>3 DEF UnderWay, Touched
      <4>2. Promised(o, d) /\ d \in Dirs
        BY <1>0, <4>1, TouchedDirs
      <4> QED
        BY <2>1, <3>1, <3>2, <4>1, <4>2 DEF Promised, Sees
    <3> QED
      BY <3>3 DEF OpsKnown
  <2>4. CASE EndDrain
    <3>1. pending' = pending /\ pass'.work.waiters = {}
      BY <2>4, Nothing DEF EndDrain
    <3>2. ASSUME NEW o \in Ops, UnderWay(o)', NEW d \in Touched(o)' PROVE Promised(o, d)'
      <4>1. UnderWay(o) /\ d \in Touched(o) /\ ops'[o] = ops[o]
        BY <2>2, <3>2 DEF UnderWay, Touched
      <4> QED
        BY <1>0, <2>1, <3>1, <4>1 DEF Promised, Covers
    <3> QED
      BY <3>2 DEF OpsKnown
  <2> QED
    BY <1>11, <2>3, <2>4 DEF BeginPass, EndPass
<1>12. ASSUME UNCHANGED <<ops, disk, pending>>, pass'.work.waiters = pass.work.waiters,
              \A o \in pass.work.waiters : o \in Ops /\ UnderWay(o) =>
                \A d \in Touched(o) : Promised(o, d) /\ Sees(d, ops[o].at) => Sees(d, ops[o].at)'
       PROVE  OpsKnown'
  <2>1. ASSUME NEW o \in Ops, UnderWay(o)', NEW d \in Touched(o)' PROVE Promised(o, d)'
    <3>1. UnderWay(o) /\ d \in Touched(o) /\ Promised(o, d)
      BY <1>0, <1>12, <2>1 DEF UnderWay, Touched
    <3>2. o \in pass.work.waiters => Sees(d, ops[o].at)'
      BY <1>12, <3>1 DEF Promised
    <3>3. Covers(pending, d)' <=> Covers(pending, d)
      BY <1>12 DEF Covers
    <3> QED
      BY <1>12, <3>1, <3>2, <3>3 DEF Promised
  <2> QED
    BY <2>1 DEF OpsKnown
<1>13. CASE ReadStatus
  <2>1. /\ UNCHANGED <<ops, disk, pending>> /\ pass'.work = pass.work
        /\ pass.phase = "status" /\ pass'.phase = "build"
    BY <1>13 DEF ReadStatus, diskVars, LoopTypes, PassSet
  <2> QED
    BY <1>12, <2>1 DEF Sees, Covers
<1>14. CASE RereadDir
  <2>1. /\ UNCHANGED <<ops, disk, pending, cache>> /\ pass'.work = pass.work /\ pass'.todo = pass.todo
        /\ pass'.dir = pass.dir /\ pass'.read = disk[pass.dir]
        /\ pass.phase = "reread" /\ pass'.phase = "listed"
    BY <1>14 DEF RereadDir, diskVars, cacheVars, LoopTypes, PassSet
  <2> QED
    BY <1>12, <2>1 DEF Sees, Rereading, Promised
<1>15. CASE BuildStatusMaps
  <2>1. /\ Started \in PassSet /\ Started.todo = ToRead /\ pass.phase = "build"
        /\ Started.work = [pass.work EXCEPT !.dirs = {}]
        /\ (\E d \in ToRead : Picks(Started, d, cache, told)) \/ Ends(Started, cache, told, maps')
        /\ UNCHANGED <<ops, disk, pending>> /\ cache \in [Dirs -> Listing]
    BY <1>15, Building DEF diskVars, LoopTypes
  <2>2. pass'.work.waiters = pass.work.waiters
    BY <2>1 DEF Picks, Ends, LoopTypes, PassSet, WorkSet
  <2>3. ASSUME NEW o \in Ops, NEW d \in Touched(o), Sees(d, ops[o].at) PROVE Sees(d, ops[o].at)'
    <3>1. d \in Dirs
      BY <2>3, TouchedDirs
    <3>2. Covers(pass.work, d)
      BY <2>1, <2>3 DEF Sees
    <3>3. cache[d] = Empty \/ d \in Started.todo
      BY <2>1, <3>1, <3>2 DEF Covers, ToRead, Cached
    <3>4. PICK t : t = ops[o].at
      OBVIOUS
    <3>5. Sees(d, t)'
      BY <2>1, <3>1, <3>3, SeesContinue
    <3> QED
      BY <2>1, <3>4, <3>5
  <2> QED
    BY <1>12, <2>1, <2>2, <2>3
<1>16. CASE DirReread
  <2>1. /\ pass \in PassSet /\ pass.phase = "listed" /\ pass.dir \in Dirs
        /\ NowListed \in [Dirs -> Listing]
        /\ (\E d \in pass.todo : Picks(pass, d, NowListed, NowShown)) \/ Ends(pass, NowListed, NowShown, maps)
        /\ UNCHANGED <<ops, disk, pending>>
    BY <1>16, Rereads DEF LoopTypes, diskVars
  <2>2. pass'.work.waiters = pass.work.waiters
    BY <2>1 DEF Picks, Ends, PassSet, WorkSet
  <2>3. ASSUME NEW o \in Ops, NEW d \in Touched(o), Sees(d, ops[o].at) PROVE Sees(d, ops[o].at)'
    <3>1. d \in Dirs
      BY <2>3, TouchedDirs
    <3>2. NowListed[d] = Empty \/ NowListed[d].names >= ops[o].at \/ d \in pass.todo
      <4>1. CASE d = pass.dir
        BY <2>1, <2>3, <3>1, <4>1 DEF Sees, AtLeast, NowListed, Reread, Entries, LoopTypes
      <4>2. CASE d # pass.dir
        BY <2>1, <2>3, <3>1, <4>2 DEF Sees, NowListed, LoopTypes
      <4> QED
        BY <4>1, <4>2
    <3>4. PICK t : t = ops[o].at
      OBVIOUS
    <3>5. Sees(d, t)'
      BY <2>1, <3>1, <3>2, <3>4, SeesContinue
    <3> QED
      BY <2>1, <3>4, <3>5
  <2> QED
    BY <1>12, <2>1, <2>2, <2>3
<1>17. CASE Stop
  BY <1>17 DEF Stop, OpsKnown
<1>18. CASE UNCHANGED vars
  <2>1. UNCHANGED <<ops, disk, pass, cache, pending>>
    BY <1>18 DEF vars, diskVars, cacheVars
  <2> QED
    BY <1>1, <2>1
<1> QED
  BY <1>3, <1>4, <1>5, <1>7, <1>8, <1>9, <1>10, <1>11, <1>13, <1>14, <1>15, <1>16, <1>17, <1>18
     DEF Next, Work

\* notifyChanges resolves once a pass that includes the paths has completed: whoever did a file
\* operation and is answered finds it in every listing that was shown of the directory; unless a read
\* for a consumer overlaps a pass.
THEOREM AnswersShowOperations == ASSUME ~Overlap PROVE Spec => AnswerShowsOperation
<1> DEFINE Inv == ShownInv /\ OpsKnown
           Shows == \A o \in Ops :
                      ops[o].phase = "waiting" /\ ops'[o] = Answered /\ ~stopped =>
                        \A c \in Consumers, d \in Touches(ops[o].dir, ops[o].kind) \ unsure :
                          told'[c][d] \notin {Collapsed, Asked} => told'[c][d].names >= ops[o].at
<1>1. Init => Inv
  BY InitIInv, InitTypes, InitKnown, InitShown, InitOps DEF ShownInv, AllTypes
<1>2. Inv /\ [Next]_vars => Inv'
  <2> SUFFICES ASSUME Inv, [Next]_vars PROVE Inv'
    OBVIOUS
  <2>1. ShownInv'
    BY StepShown
  <2>2. CASE stopped
    BY <2>1, <2>2, StaysStopped DEF OpsKnown
  <2>3. CASE ~stopped
    BY <2>1, <2>3, OpsStep DEF ShownInv, IInv, AllTypes
  <2> QED
    BY <2>2, <2>3
<1>3. Inv /\ [Next]_vars => [Shows]_vars
  <2> SUFFICES ASSUME Inv, Next, NEW o \in Ops, ops[o].phase = "waiting", ops'[o] = Answered, ~stopped,
                      NEW c \in Consumers, NEW d \in Touched(o), d \notin unsure,
                      told'[c][d] \notin {Collapsed, Asked}
               PROVE  told'[c][d].names >= ops[o].at
    BY DEF Touched
  <2>1. ops'[o] # ops[o] /\ LoopTypes /\ ShownTypes /\ d \in Dirs
    BY TouchedDirs DEF Answered, Op, ShownInv, IInv, AllTypes
  <2>2. CASE EndPass
    <3>1. pass.phase = "moves" /\ told' = told /\ o \in pass.work.waiters
      BY <2>1, <2>2 DEF EndPass
    <3>2. told[c][d] = cache[d] /\ cache[d] # Empty
      BY <2>1, <3>1 DEF ShownInv, ToldWhatIsCached, Held, Rereading
    <3>3. Promised(o, d)
      BY DEF OpsKnown, UnderWay
    <3>4. cache[d].names >= ops[o].at
      BY <3>1, <3>2, <3>3 DEF Promised, Sees, Rereading
    <3> QED
      BY <3>1, <3>2, <3>4
  <2>3. CASE Stop
    BY <2>1, <2>3 DEF Stop
  <2>4. CASE ~EndPass /\ ~Stop
    <3>1. ASSUME NEW p \in Ops, NotifyChanges(p) PROVE FALSE
      BY <2>1, <3>1 DEF NotifyChanges, LoopTypes
    <3>2. ASSUME NEW p \in Ops, NEW e \in Dirs, NEW kind \in Kinds, Operate(p, e, kind) PROVE FALSE
      BY <2>1, <3>2 DEF Operate, LoopTypes
    <3>3. CASE Flush \/ FlushRest \/ RefreshGitStatus \/ GitChange \/ PauseWatching \/ ResumeWatching
      BY <2>1, <3>3 DEF Flush, FlushRest, RefreshGitStatus, GitChange, PauseWatching, ResumeWatching
    <3>4. ASSUME NEW e \in Dirs,
                 \/ \E kind \in Kinds : ExternalChange(e, kind)
                 \/ ReadDir(e) \/ ClassifyDir(e)
                 \/ \E b \in Consumers : GetDirContents(b, e) \/ UnwatchDir(b, e)
          PROVE  FALSE
      BY <2>1, <3>4 DEF ExternalChange, ReadDir, ClassifyDir, GetDirContents, UnwatchDir
    <3>5. CASE BeginPass \/ ReadStatus \/ BuildStatusMaps \/ RereadDir \/ DirReread
      BY <2>1, <3>5 DEF BeginPass, ReadStatus, BuildStatusMaps, RereadDir, DirReread
    <3> QED
      BY <2>4, <3>1, <3>2, <3>3, <3>4, <3>5 DEF Next, Work
  <2> QED
    BY <2>2, <2>3, <2>4
<1>4. AnswerShowsOperation <=> [][Shows]_vars
  BY DEF AnswerShowsOperation
<1> HIDE DEF Inv, Shows
<1> QED
  BY <1>1, <1>2, <1>3, <1>4, PTL DEF Spec
=============================================================================
