---------------------------- MODULE EditorState ----------------------------
(***************************************************************************)
(* One open editor of a file: its EditorFileEntry (editor-state.ts), the   *)
(* text in the editor and its autosave timer (use-disk-synced-content.ts). *)
(*                                                                         *)
(* An entry is a record                                                    *)
(*   state    clean, dirty, saving or diverged                             *)
(*   nonces   pendingNonces: saves in flight, numbered in their order      *)
(*   snaps    savedSnapshots: the text at the start of each of them        *)
(*   base     baseContent, the merge base                                  *)
(*   disk     diskContent, kept for the conflict banner                    *)
(*   text     what the editor shows                                        *)
(*   armed    is an autosave due?                                          *)
(***************************************************************************)
EXTENDS ThreeWayMerge, FiniteSets

CONSTANTS
  Saves,      \* the nonces, 1 .. n
  Nothing     \* null

\* The oldest of some saves.
Oldest(ns) == CHOOSE n \in ns : \A m \in ns : n =< m

Opened(content) ==
  [state |-> "clean", nonces |-> {}, snaps |-> [n \in Saves |-> Nothing],
   base |-> content, disk |-> Nothing, text |-> content, armed |-> FALSE]

\* handleChange: the text changed, by the user or by a merge that still has to be written.
Changed(e, text) == [e EXCEPT !.state = "dirty", !.text = text, !.armed = TRUE]

MarkSaving(e, n) ==
  [e EXCEPT !.state = "saving", !.nonces = @ \cup {n}, !.snaps[n] = e.text]

Forget(e, ns) ==
  [e EXCEPT !.nonces = @ \ ns, !.snaps = [n \in Saves |-> IF n \in ns THEN Nothing ELSE @[n]]]

SaveErrorStaysSaving(e, n) == Forget(e, {n})   \* mutant: the last save to fail leaves no trace

SaveErrorEndsClean(e, n) ==   \* mutant: a save that failed counts as done
  LET f == Forget(e, {n}) IN
  [f EXCEPT !.state = IF f.nonces = {} THEN "clean" ELSE "saving"]

HandleSaveError(e, n) ==
  LET f == Forget(e, {n}) IN
  [f EXCEPT !.state = IF f.nonces = {} THEN "dirty" ELSE "saving"]

-----------------------------------------------------------------------------
(* Disk changes. *)

\* tryAutoMerge of an external change: what the editor shows after it is also the next merge base.
MergeExternal(e, content) ==
  LET merged == Merged(e.base, e.text, content) IN
  IF merged = e.text
  THEN [e EXCEPT !.base = content, !.disk = Nothing]
  ELSE [Changed(e, merged) EXCEPT !.base = merged, !.disk = Nothing]

External(e, content) ==
  IF Conflict(e.base, e.text, content)
  THEN [e EXCEPT !.state = "diverged", !.disk = content]
  ELSE MergeExternal(e, content)

\* The last save in flight is on disk as `content', which the formatter may have changed: what it
\* changed is taken where the user has not typed since that save started.
Echoed(e, own, content) ==
  LET merged == Merged(e.snaps[Oldest(own)], e.text, content)
      f == Forget(e, own)
  IN  CASE content = e.text /\ e.state = "saving" ->
             [f EXCEPT !.state = "clean", !.base = content, !.disk = Nothing]
        [] content = e.text /\ e.state = "dirty" ->
             [f EXCEPT !.base = content]
        [] content # e.text /\ merged = e.text ->
             [f EXCEPT !.state = "dirty", !.base = content, !.disk = Nothing]
        [] content # e.text /\ merged = content ->
             [f EXCEPT !.state = "clean", !.text = content, !.base = content, !.disk = Nothing]
        [] OTHER ->
             [Changed(f, merged) EXCEPT !.base = merged, !.disk = Nothing]

\* handleDiskChange.  The echo of a save with later ones in flight tells nothing of the disk.
HandleDiskChange(e, nonces, content) ==
  LET own == nonces \cap e.nonces IN
  CASE own # {} /\ own # e.nonces -> Forget(e, own)
    [] own \in {{}, e.nonces} /\ e.state = "clean" -> e
    [] own \in {{}, e.nonces} /\ e.state = "diverged" -> [e EXCEPT !.disk = content]
    [] own = {} /\ e.state \in {"dirty", "saving"} -> External(e, content)
    [] OTHER -> Echoed(e, own, content)

Superseded(e, nonces) == nonces \cap e.nonces \notin {{}, e.nonces}

-----------------------------------------------------------------------------
(* The conflict banner. *)

\* The editor reloads the disk version; an autosave that is due stays due.
AcceptDisk(e) ==
  [e EXCEPT !.state = "clean", !.nonces = {}, !.snaps = [n \in Saves |-> Nothing],
            !.base = e.disk, !.disk = Nothing, !.text = e.disk]

KeepMine(e) ==
  [e EXCEPT !.state = "dirty", !.base = e.disk, !.disk = Nothing, !.armed = TRUE]
=============================================================================
