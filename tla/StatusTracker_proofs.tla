------------------------ MODULE StatusTracker_proofs ------------------------
(***************************************************************************)
(* The status list is right for any number of worktrees and requests: the  *)
(* live status wins, a list answered without a sweep is current, and so is *)
(* one a request waited for.  The invariant behind the last two says what  *)
(* a sweep in flight may hold: of a worktree that has not changed since it *)
(* was announced, nothing yet, or what git reports now.                    *)
(***************************************************************************)
EXTENDS StatusTracker, TLAPS

\* A tracker disposed of has no worktrees left, and no sweep is ahead of the generation,
\* in flight or merged.
Bounds ==
  /\ disposed => subscribed = {}
  /\ sweepGeneration <= generation
  /\ swept <= generation + 1

\* What a sweep has read of w is up to date, as far as it has read it.
ReadRight(w) ==
  /\ probes[w] # Failed
  /\ probes[w] = None => disk[w] = Gone
  /\ probes[w] # Unread => Shows(probes[w], w)

SweepRight ==
  phase = "reading" /\ sweepGeneration = generation => \A w \in announced : ReadRight(w)

AskedRight ==
  \A r \in Requests :
    phase = "reading" /\ waiting[r] = "sweep" => \A w \in asked[r] : ReadRight(w)

ListRight ==
  swept = generation + 1
    => \A w \in announced : /\ entries[w] = None => disk[w] = Gone
                            /\ Delivered(w) => Shows(entries[w], w)

IInv == TypeOK /\ Bounds /\ LiveWins /\ SweepRight /\ AskedRight /\ ListRight

-----------------------------------------------------------------------------
LEMMA InitIInv == Init => IInv
<1> SUFFICES ASSUME Init PROVE IInv
  OBVIOUS
<1> USE DEF Init, Summaries, Gone, None, Unread, Failed
<1>1. TypeOK
  BY DEF TypeOK
<1>2. Bounds /\ LiveWins
  BY DEF Bounds, LiveWins
<1>3. SweepRight /\ AskedRight /\ ListRight
  BY DEF SweepRight, AskedRight, ListRight
<1>4. QED
  BY <1>1, <1>2, <1>3 DEF IInv

-----------------------------------------------------------------------------
(* Types. *)

LEMMA SettleTypes ==
  ASSUME TypeOK, SettleSweep
  PROVE  /\ waiting' \in [Requests -> {"no", "sweep", "queued"}]
         /\ asked' \in [Requests -> SUBSET Worktrees]
         /\ queued' \in BOOLEAN /\ timer' \in BOOLEAN /\ lateActivity' \in BOOLEAN
         /\ phase' \in {"idle", "listing"} /\ sweepGeneration' \in Nat
         /\ sweepGeneration' \in {0, generation}
         /\ probes' = [w \in Worktrees |-> None]
<1>1. waiting' \in [Requests -> {"no", "sweep", "queued"}]
  BY DEF TypeOK, SettleSweep
<1>2. asked' \in [Requests -> SUBSET Worktrees]
  BY DEF TypeOK, SettleSweep
<1>3. queued' \in BOOLEAN /\ timer' \in BOOLEAN /\ lateActivity' \in BOOLEAN
  <2>1. timer' \in BOOLEAN
    BY DEF SettleSweep, StartSweep
  <2>2. QED
    BY <2>1 DEF SettleSweep, StartSweep
<1>4. /\ phase' \in {"idle", "listing"} /\ sweepGeneration' \in Nat
      /\ sweepGeneration' \in {0, generation}
      /\ probes' = [w \in Worktrees |-> None]
  BY DEF TypeOK, SettleSweep, StartSweep
<1>5. QED
  BY <1>1, <1>2, <1>3, <1>4

LEMMA TypeStep == TypeOK /\ [Next]_vars => TypeOK'
<1> SUFFICES ASSUME TypeOK, [Next]_vars PROVE TypeOK'
  OBVIOUS
<1> USE DEF Summaries, Gone, None, Unread, Failed
<1>1. ASSUME NEW w \in Worktrees, Change(w) PROVE TypeOK'
  BY <1>1 DEF TypeOK, Change, AnEvent, sweepVars
<1>2. ASSUME MetadataEvent PROVE TypeOK'
  BY <1>2 DEF TypeOK, MetadataEvent, AnEvent, Invalidate, Schedule, sweepVars
<1>3. ASSUME NEW w \in Worktrees, Subscribe(w) PROVE TypeOK'
  BY <1>3 DEF TypeOK, Subscribe, AnEvent, Invalidate, Schedule, sweepVars
<1>4. ASSUME NEW w \in Worktrees, Unsubscribe(w) PROVE TypeOK'
  BY <1>4 DEF TypeOK, Unsubscribe, sweepVars
<1>5. ASSUME NEW w \in Worktrees, WatcherPass(w) PROVE TypeOK'
  <2>1. /\ entries' \in [Worktrees -> Summaries \cup {None}]
        /\ published' \subseteq Worktrees /\ generation' \in Nat
    BY <1>5 DEF TypeOK, WatcherPass, Update, Invalidate, DirtyIn
  <2>2. timer' \in BOOLEAN /\ lateActivity' \in BOOLEAN
    BY <1>5, Zenon DEF TypeOK, WatcherPass, Update, ScheduleActivitySweep, Invalidate, Schedule,
                       HasListeners
  <2>3. QED
    BY <1>5, <2>1, <2>2 DEF TypeOK, WatcherPass, sweepVars
<1>6. ASSUME TimerFires PROVE TypeOK'
  BY <1>6 DEF TypeOK, TimerFires, StartSweep, CanShare, sweepVars, worldVars, ghostVars
<1>7. ASSUME NEW r \in Requests, Ask(r) PROVE TypeOK'
  <2>1. queued' \in BOOLEAN /\ timer' \in BOOLEAN /\ lateActivity' \in BOOLEAN
    BY <1>7, Zenon DEF TypeOK, Ask, StartSweep
  <2>2. phase' \in {"idle", "listing", "reading"} /\ sweepGeneration' \in Nat
    BY <1>7 DEF TypeOK, Ask, StartSweep, sweepVars
  <2>3. probes' \in [Worktrees -> Summaries \cup {None, Unread, Failed}]
    BY <1>7 DEF TypeOK, Ask, StartSweep, sweepVars
  <2>4. waiting' \in [Requests -> {"no", "sweep", "queued"}]
    BY <1>7 DEF TypeOK, Ask
  <2>5. QED
    BY <1>7, <2>1, <2>2, <2>3, <2>4 DEF TypeOK, Ask, AnEvent, worldVars
<1>8. ASSUME ListWorktrees PROVE TypeOK'
  BY <1>8 DEF TypeOK, ListWorktrees, worldVars, ghostVars
<1>9. ASSUME NEW w \in Worktrees, Probe(w) PROVE TypeOK'
  BY <1>9 DEF TypeOK, Probe, worldVars
<1>10. ASSUME NEW w \in Worktrees, ProbeFails(w) PROVE TypeOK'
  BY <1>10 DEF TypeOK, ProbeFails, AnEvent, worldVars
<1>11. ASSUME Merge PROVE TypeOK'
  <2>1. entries' \in [Worktrees -> Summaries \cup {None}]
    BY <1>11 DEF TypeOK, Merge, Resolved
  <2>2. swept' \in Nat /\ published' \subseteq Worktrees
    BY <1>11 DEF TypeOK, Merge, DirtyIn
  <2>3. SettleSweep
    BY <1>11 DEF Merge
  <2>4. QED
    BY <1>11, <2>1, <2>2, <2>3, SettleTypes DEF TypeOK, Merge, worldVars
<1>12. ASSUME SweepFails PROVE TypeOK'
  <2>1. SettleSweep
    BY <1>12 DEF SweepFails
  <2>2. QED
    BY <1>12, <2>1, SettleTypes DEF TypeOK, SweepFails, AnEvent, worldVars
<1>13. ASSUME Dispose PROVE TypeOK'
  BY <1>13 DEF TypeOK, Dispose, sweepVars
<1>14. CASE UNCHANGED vars
  BY <1>14 DEF TypeOK, vars, worldVars, sweepVars, ghostVars
<1>15. QED
  BY <1>1, <1>2, <1>3, <1>4, <1>5, <1>6, <1>7, <1>8, <1>9, <1>10, <1>11, <1>12, <1>13, <1>14
     DEF Next, Sweeps

-----------------------------------------------------------------------------
(* The invariant is inductive. *)

LEMMA BoundsStep == IInv /\ [Next]_vars => Bounds'
<1> SUFFICES ASSUME IInv, [Next]_vars PROVE Bounds'
  OBVIOUS
<1>0. TypeOK /\ Bounds
  BY DEF IInv
<1>1. disposed' => subscribed' = {}
  BY <1>0 DEF Bounds, Next, Sweeps, Change, MetadataEvent, Subscribe, Unsubscribe, WatcherPass,
              TimerFires, Ask, ListWorktrees, Probe, ProbeFails, Merge, SweepFails, Dispose,
              vars, worldVars
<1>2. generation' = generation \/ generation' = generation + 1
  BY DEF Next, Sweeps, Change, MetadataEvent, Subscribe, Unsubscribe, WatcherPass, Update,
         Invalidate, TimerFires, Ask, ListWorktrees, Probe, ProbeFails, Merge, SweepFails, Dispose,
         vars
<1>3. sweepGeneration' \in {sweepGeneration, generation, 0}
  BY DEF Next, Sweeps, Change, MetadataEvent, Subscribe, Unsubscribe, WatcherPass, TimerFires, Ask,
         ListWorktrees, Probe, ProbeFails, Merge, SweepFails, SettleSweep, StartSweep, Dispose,
         vars, sweepVars
<1>4. swept' \in {swept, sweepGeneration + 1}
  BY DEF Next, Sweeps, Change, MetadataEvent, Subscribe, Unsubscribe, WatcherPass, TimerFires, Ask,
         ListWorktrees, Probe, ProbeFails, Merge, SweepFails, Dispose, vars
<1>5. QED
  BY <1>0, <1>1, <1>2, <1>3, <1>4 DEF Bounds, TypeOK

LEMMA LiveStep == IInv /\ [Next]_vars => LiveWins'
<1> SUFFICES ASSUME IInv, [Next]_vars PROVE LiveWins'
  OBVIOUS
<1>0. TypeOK /\ Bounds /\ LiveWins /\ TypeOK'
  BY TypeStep DEF IInv
<1> USE DEF Summaries, Gone, None, Unread, Failed
<1>1. CASE UNCHANGED <<live, entries>>
  BY <1>0, <1>1 DEF LiveWins
<1>2. ASSUME NEW v \in Worktrees, WatcherPass(v) PROVE LiveWins'
  <2>1. ~disposed
    BY <1>0, <1>2 DEF Bounds, WatcherPass
  <2>2. entries'[v] = None \/ entries'[v] = live'[v]
    BY <1>0, <1>2, <2>1 DEF WatcherPass, Update, TypeOK
  <2>3. \A w \in Worktrees \ {v} : live'[w] = live[w] /\ entries'[w] = entries[w]
    BY <1>0, <1>2 DEF WatcherPass, Update, TypeOK
  <2>4. QED
    BY <1>0, <2>2, <2>3 DEF LiveWins
<1>3. CASE Merge
  BY <1>0, <1>3 DEF LiveWins, Merge, Resolved, worldVars, TypeOK
<1>4. ASSUME NEW v \in Worktrees, Unsubscribe(v) PROVE LiveWins'
  BY <1>0, <1>4 DEF LiveWins, Unsubscribe, TypeOK
<1>5. CASE MetadataEvent
  BY <1>0, <1>5 DEF LiveWins, MetadataEvent, TypeOK
<1>6. CASE Dispose
  BY <1>0, <1>6 DEF LiveWins, Dispose
<1>7. QED
  BY <1>1, <1>2, <1>3, <1>4, <1>5, <1>6
  DEF Next, Sweeps, Change, Subscribe, TimerFires, Ask, ListWorktrees, Probe, ProbeFails,
      SweepFails, vars, worldVars

\* A sweep that has just begun, or none, has read nothing.
LEMMA SettledReads ==
  ASSUME TypeOK, SettleSweep
  PROVE  phase' # "reading"
BY DEF SettleSweep, StartSweep

LEMMA SweepStep == IInv /\ [Next]_vars => SweepRight' /\ AskedRight'
<1> SUFFICES ASSUME IInv, [Next]_vars PROVE SweepRight' /\ AskedRight'
  OBVIOUS
<1>0. TypeOK /\ Bounds /\ SweepRight /\ AskedRight /\ TypeOK'
  BY TypeStep DEF IInv
<1> USE DEF Summaries, Gone, None, Unread, Failed
<1>1. ASSUME NEW v \in Worktrees, Change(v) PROVE SweepRight' /\ AskedRight'
  <2>1. \A w \in Worktrees \ {v} : ReadRight(w) => ReadRight(w)'
    BY <1>0, <1>1 DEF Change, ReadRight, Shows, TypeOK, sweepVars
  <2>2. /\ announced' = announced \ {v}
        /\ \A r \in Requests : asked'[r] = asked[r] \ {v}
        /\ UNCHANGED <<generation, sweepVars, waiting>>
    BY <1>1 DEF Change
  <2>3. QED
    BY <1>0, <2>1, <2>2 DEF SweepRight, AskedRight, TypeOK, sweepVars
<1>2. CASE MetadataEvent \/ \E v \in Worktrees : Subscribe(v)
  <2>1. /\ generation' = generation + 1
        /\ UNCHANGED <<sweepVars, waiting, asked, disk>>
    BY <1>2 DEF MetadataEvent, Subscribe, Invalidate
  <2>2. sweepGeneration' # generation'
    BY <1>0, <2>1 DEF Bounds, TypeOK, sweepVars
  <2>3. QED
    BY <1>0, <2>1, <2>2 DEF SweepRight, AskedRight, ReadRight, Shows, sweepVars
<1>3. ASSUME NEW v \in Worktrees, Unsubscribe(v) PROVE SweepRight' /\ AskedRight'
  <2>1. /\ announced' \subseteq announced
        /\ \A r \in Requests : asked'[r] \subseteq asked[r]
        /\ UNCHANGED <<generation, sweepVars, waiting, disk>>
    BY <1>3 DEF Unsubscribe
  <2>2. QED
    BY <1>0, <2>1 DEF SweepRight, AskedRight, ReadRight, Shows, TypeOK, sweepVars
<1>4. ASSUME NEW v \in Worktrees, WatcherPass(v) PROVE SweepRight' /\ AskedRight'
  <2>1. /\ generation' = generation \/ generation' = generation + 1
        /\ UNCHANGED <<sweepVars, waiting, asked, announced, disk>>
    BY <1>4 DEF WatcherPass, Update, Invalidate
  <2>2. sweepGeneration' = generation' => sweepGeneration = generation
    BY <1>0, <2>1 DEF Bounds, TypeOK, sweepVars
  <2>3. QED
    BY <1>0, <2>1, <2>2 DEF SweepRight, AskedRight, ReadRight, Shows, TypeOK, sweepVars
<1>5. CASE TimerFires
  <2>1. phase' # "reading" \/ UNCHANGED sweepVars
    BY <1>5 DEF TimerFires, StartSweep
  <2>2. UNCHANGED <<generation, waiting, asked, announced, disk>>
    BY <1>5 DEF TimerFires, worldVars, ghostVars
  <2>3. QED
    BY <1>0, <2>1, <2>2 DEF SweepRight, AskedRight, ReadRight, Shows, TypeOK, sweepVars
<1>6. ASSUME NEW q \in Requests, Ask(q) PROVE SweepRight' /\ AskedRight'
  <2>1. /\ asked' = [asked EXCEPT ![q] = announced]
        /\ UNCHANGED <<generation, announced, disk>>
    BY <1>6 DEF Ask, worldVars
  <2>2. CASE phase = "idle"
    BY <1>6, <2>2 DEF Ask, StartSweep, SweepRight, AskedRight
  <2>3. CASE phase # "idle"
    <3>1. /\ UNCHANGED sweepVars
          /\ waiting' = [waiting EXCEPT ![q] = IF CanShare THEN "sweep" ELSE "queued"]
      BY <1>6, <2>3 DEF Ask
    <3>2. SweepRight'
      BY <1>0, <2>1, <3>1 DEF SweepRight, ReadRight, Shows, sweepVars
    <3>3. ASSUME phase' = "reading", waiting'[q] = "sweep" PROVE \A w \in asked'[q] : ReadRight(w)'
      BY <1>0, <2>1, <3>1, <3>2, <3>3 DEF SweepRight, CanShare, TypeOK, sweepVars
    <3>4. ASSUME NEW r \in Requests \ {q} PROVE waiting'[r] = waiting[r] /\ asked'[r] = asked[r]
      BY <1>0, <2>1, <3>1 DEF TypeOK
    <3>5. \A w \in Worktrees : ReadRight(w) => ReadRight(w)'
      BY <2>1, <3>1 DEF ReadRight, Shows, sweepVars
    <3>6. AskedRight'
      BY <1>0, <3>1, <3>3, <3>4, <3>5 DEF AskedRight, TypeOK, sweepVars
    <3>7. QED
      BY <3>2, <3>6
  <2>4. QED
    BY <2>2, <2>3
<1>7. CASE ListWorktrees
  <2>1. \A w \in Worktrees : ReadRight(w)'
    BY <1>0, <1>7 DEF ListWorktrees, ReadRight, Shows, worldVars, TypeOK
  <2>2. QED
    BY <1>0, <2>1 DEF SweepRight, AskedRight, TypeOK
<1>8. ASSUME NEW v \in Worktrees, Probe(v) PROVE SweepRight' /\ AskedRight'
  <2>1. /\ UNCHANGED <<generation, phase, sweepGeneration, waiting, disk>>
        /\ announced' \subseteq announced
        /\ \A r \in Requests : asked'[r] \subseteq asked[r]
    BY <1>8 DEF Probe, worldVars
  <2>2. \A w \in Worktrees \ {v} : ReadRight(w) => ReadRight(w)'
    BY <1>0, <1>8, <2>1 DEF Probe, ReadRight, Shows, TypeOK
  <2>3. ReadRight(v)' \/ (v \notin announced' /\ \A r \in Requests : v \notin asked'[r])
    <3>1. CASE live[v] \in {None, disk[v]}
      BY <1>0, <1>8, <3>1, <2>1 DEF Probe, ReadRight, Shows, TypeOK
    <3>2. CASE live[v] \notin {None, disk[v]}
      BY <1>8, <3>2 DEF Probe
    <3>3. QED
      BY <3>1, <3>2
  <2>4. QED
    BY <1>0, <2>1, <2>2, <2>3 DEF SweepRight, AskedRight, TypeOK
<1>9. ASSUME NEW v \in Worktrees, ProbeFails(v) PROVE SweepRight' /\ AskedRight'
  <2>1. /\ UNCHANGED <<generation, phase, sweepGeneration, waiting, disk>>
        /\ announced' = announced \ {v}
        /\ \A r \in Requests : asked'[r] = asked[r] \ {v}
    BY <1>9 DEF ProbeFails, worldVars
  <2>2. \A w \in Worktrees \ {v} : ReadRight(w) => ReadRight(w)'
    BY <1>0, <1>9, <2>1 DEF ProbeFails, ReadRight, Shows, TypeOK
  <2>3. QED
    BY <1>0, <2>1, <2>2 DEF SweepRight, AskedRight, TypeOK
<1>10. CASE Merge \/ SweepFails
  BY <1>0, <1>10, SettledReads DEF Merge, SweepFails, SweepRight, AskedRight
<1>11. CASE Dispose
  <2>1. announced' = {} /\ \A r \in Requests : asked'[r] = {}
    BY <1>11 DEF Dispose
  <2>2. QED
    BY <2>1 DEF SweepRight, AskedRight
<1>12. CASE UNCHANGED vars
  <2>1. UNCHANGED <<phase, sweepGeneration, generation, waiting, announced, asked, disk, probes>>
    BY <1>12 DEF vars, worldVars, sweepVars, ghostVars
  <2>2. QED
    BY <1>0, <2>1 DEF SweepRight, AskedRight, ReadRight, Shows
<1>13. QED
  BY <1>1, <1>2, <1>3, <1>4, <1>5, <1>6, <1>7, <1>8, <1>9, <1>10, <1>11, <1>12 DEF Next, Sweeps

LEMMA ListStep == IInv /\ [Next]_vars => ListRight'
<1> SUFFICES ASSUME IInv, [Next]_vars PROVE ListRight'
  OBVIOUS
<1>0. TypeOK /\ Bounds /\ SweepRight /\ ListRight /\ TypeOK'
  BY TypeStep DEF IInv
<1> USE DEF Summaries, Gone, None, Unread, Failed
<1>1. ASSUME NEW v \in Worktrees, Change(v) PROVE ListRight'
  BY <1>0, <1>1 DEF Change, ListRight, Shows, Delivered, TypeOK
<1>2. CASE MetadataEvent \/ \E v \in Worktrees : Subscribe(v)
  <2>1. generation' = generation + 1 /\ UNCHANGED swept
    BY <1>2 DEF MetadataEvent, Subscribe, Invalidate
  <2>2. swept <= generation + 1
    BY <1>0 DEF IInv, Bounds
  <2>3. QED
    BY <1>0, <2>1, <2>2 DEF ListRight, TypeOK
<1>3. ASSUME NEW v \in Worktrees, Unsubscribe(v) PROVE ListRight'
  BY <1>0, <1>3 DEF Unsubscribe, ListRight, Shows, Delivered, TypeOK
<1>4. ASSUME NEW v \in Worktrees, WatcherPass(v) PROVE ListRight'
  <2>1. ~disposed
    BY <1>0, <1>4 DEF Bounds, WatcherPass
  <2>2. CASE generation' # generation
    <3>1. generation' = generation + 1 /\ swept = 0 /\ swept' = swept
      BY <1>4, <2>1, <2>2 DEF WatcherPass, Update, Invalidate, ScheduleActivitySweep
    <3>2. QED
      BY <1>0, <3>1 DEF ListRight, TypeOK
  <2>3. CASE generation' = generation
    <3>1. /\ UNCHANGED <<swept, announced, disk>>
          /\ live' = [live EXCEPT ![v] = disk[v]]
          /\ disk[v] # Gone
      BY <1>4 DEF WatcherPass
    <3>2. (entries' = entries /\ entries[v] = None) \/ entries' = [entries EXCEPT ![v] = disk[v]]
      BY <1>4, <2>1 DEF WatcherPass, Update
    <3>3. ASSUME NEW w \in announced, swept = generation + 1
          PROVE /\ entries'[w] = None => disk[w] = Gone
                /\ Delivered(w)' => Shows(entries[w], w)'
      <4>1. CASE w # v
        BY <1>0, <3>1, <3>2, <3>3, <4>1 DEF ListRight, Delivered, Shows, TypeOK
      <4>2. CASE w = v
        BY <1>0, <3>1, <3>2, <3>3, <4>2 DEF ListRight, Delivered, Shows, TypeOK
      <4>3. QED
        BY <4>1, <4>2
    <3>4. QED
      BY <2>3, <3>1, <3>3 DEF ListRight
  <2>4. QED
    BY <2>2, <2>3
<1>5. ASSUME NEW v \in Worktrees, Probe(v) \/ ProbeFails(v) PROVE ListRight'
  <2>1. /\ announced' \subseteq announced
        /\ UNCHANGED <<swept, generation, entries, disk, live>>
    BY <1>5 DEF Probe, ProbeFails, worldVars
  <2>2. QED
    BY <1>0, <2>1 DEF ListRight, Delivered, Shows
<1>6. CASE Merge
  <2>1. /\ UNCHANGED <<generation, announced, disk, live>>
        /\ phase = "reading" /\ \A w \in Worktrees : probes[w] # Unread
    BY <1>6 DEF Merge, worldVars
  <2>2. CASE disposed
    BY <1>0, <1>6, <2>1, <2>2 DEF Merge, ListRight, Delivered, Shows
  <2>3. CASE ~disposed /\ sweepGeneration # generation
    BY <1>0, <1>6, <2>1, <2>3 DEF Merge, ListRight, TypeOK
  <2>4. CASE ~disposed /\ sweepGeneration = generation
    <3>1. ASSUME NEW w \in announced PROVE ReadRight(w)
      BY <1>0, <2>1, <2>4 DEF SweepRight
    <3>2. \A w \in Worktrees : entries'[w] = Resolved(w)
      BY <1>6, <2>4 DEF Merge
    <3>3. ASSUME NEW w \in announced
          PROVE /\ entries'[w] = None => disk[w] = Gone
                /\ Delivered(w)' => Shows(entries[w], w)'
      <4>1. w \in Worktrees /\ probes[w] # Unread /\ probes[w] # Failed
        BY <1>0, <2>1, <3>1 DEF ReadRight, TypeOK
      <4>2. entries'[w] = IF probes[w] = None THEN None
                          ELSE IF live[w] # None THEN live[w] ELSE probes[w]
        BY <3>2, <4>1 DEF Resolved
      <4>3. QED
        BY <1>0, <2>1, <3>1, <4>1, <4>2 DEF ReadRight, Delivered, Shows, TypeOK
    <3>4. QED
      BY <2>1, <3>3 DEF ListRight
  <2>5. QED
    BY <2>2, <2>3, <2>4
<1>7. CASE Dispose
  BY <1>7 DEF Dispose, ListRight
<1>8. CASE UNCHANGED <<swept, generation, announced, entries, disk, live>>
  BY <1>0, <1>8 DEF ListRight, Delivered, Shows
<1>9. QED
  BY <1>1, <1>2, <1>3, <1>4, <1>5, <1>6, <1>7, <1>8
  DEF Next, Sweeps, TimerFires, Ask, ListWorktrees, SweepFails, vars, worldVars, ghostVars

THEOREM ListInvariant == Spec => []IInv
<1>1. IInv /\ [Next]_vars => IInv'
  BY TypeStep, BoundsStep, LiveStep, SweepStep, ListStep DEF IInv
<1>2. QED
  BY InitIInv, <1>1, PTL DEF Spec

-----------------------------------------------------------------------------
(* What it is for. *)

\* Every variable of the tracker keeps to its domain.
THEOREM TypeCorrect == Spec => []TypeOK
BY ListInvariant, PTL DEF IInv

\* update() is never undone by a sweep that read an older status while it ran.
THEOREM LiveCorrect == Spec => []LiveWins
BY ListInvariant, PTL DEF IInv

\* A list answered from the cache shows all that was announced to the tracker.
THEOREM FreshListCorrect == Spec => []FreshListIsCurrent
<1>1. IInv => FreshListIsCurrent
  BY DEF IInv, ListRight, FreshListIsCurrent
<1>2. QED
  BY ListInvariant, <1>1, PTL

\* A list answered after a sweep shows all that was announced before the request, whichever sweep
\* it waited for.
THEOREM AnswersCorrect == Spec => AnswersCurrent
<1>1. ASSUME IInv, [Next]_vars, NEW r \in Requests, ~disposed, swept' # swept,
             waiting[r] = "sweep", NEW w \in asked[r], Delivered(w)
      PROVE  Shows(entries'[w], w)
  <2> USE DEF Summaries, Gone, None, Unread, Failed
  <2>1. Merge
    BY <1>1 DEF Next, Sweeps, Change, MetadataEvent, Subscribe, Unsubscribe, WatcherPass,
                TimerFires, Ask, ListWorktrees, Probe, ProbeFails, SweepFails, Dispose, vars
  <2>2. TypeOK /\ AskedRight
    BY <1>1 DEF IInv
  <2>3. w \in Worktrees /\ ReadRight(w) /\ probes[w] # Unread
    BY <1>1, <2>1, <2>2 DEF Merge, AskedRight, TypeOK
  <2>4. entries'[w] = Resolved(w)
    BY <1>1, <2>1, <2>3 DEF Merge
  <2>5. entries'[w] = IF probes[w] = None THEN None
                      ELSE IF live[w] # None THEN live[w] ELSE probes[w]
    BY <2>3, <2>4 DEF Resolved, ReadRight
  <2>6. QED
    BY <1>1, <2>2, <2>3, <2>5 DEF ReadRight, Delivered, Shows, TypeOK
<1>2. IInv /\ [Next]_vars =>
        [\A r \in Requests :
           /\ ~disposed /\ swept' # swept
           /\ waiting[r] = "sweep" /\ waiting'[r] = "no"
           => \A w \in asked[r] : Delivered(w) => Shows(entries'[w], w)]_vars
  BY <1>1
<1>3. QED
  BY ListInvariant, <1>2, PTL DEF Spec, AnswersCurrent
=============================================================================
