-------------------------- MODULE EditorSyncProps --------------------------
(***************************************************************************)
(* What keeping an editor and its file in step promises.                   *)
(***************************************************************************)
EXTENDS EditorSync

NonceSets == SUBSET Saves
ContentOrNothing == Contents \cup {Nothing}

\* Types, and the shape of a save: an editor that is saving has a save in flight to leave that state
\* by, a clean one has none whose late failure could make it dirty, and what is known of a save is
\* forgotten with it.  (editor-state.ts, EditorFileEntry.)
TypeOK ==
  /\ disk \in Contents /\ data \in Contents
  /\ events \in UNION {0 .. n : n \in Reports} /\ registered \in NonceSets /\ used \in NonceSets
  /\ posts \in Seq([nonce : Saves, content : Contents, format : BOOLEAN])
  /\ replies \in Seq([nonce : Saves, content : ContentOrNothing])
  /\ stash \in [Saves -> ContentOrNothing]
  /\ msgs \in Seq(NonceSets)
  /\ fetches \in Seq([kind : {"query", "open"}, nonces : NonceSets, content : ContentOrNothing])
  /\ ed \in [state : {"clean", "dirty", "saving", "diverged"}, nonces : NonceSets,
             snaps : [Saves -> ContentOrNothing], base : Contents, disk : ContentOrNothing,
             text : Contents, armed : BOOLEAN]
  /\ ed.nonces = {n \in Saves : ed.snaps[n] # Nothing}
  /\ ed.state = "saving" => ed.nonces # {}
  /\ ed.state = "clean" => ed.nonces = {}
  /\ ed.state = "diverged" => ed.disk # Nothing

\* Nothing is on its way and no timer is due.
Quiet ==
  /\ posts = <<>> /\ replies = <<>> /\ msgs = <<>> /\ fetches = <<>>
  /\ events = 0 /\ ~ed.armed /\ ed.nonces = {}
  /\ seen = [data |-> data, state |-> ed.state]

\* Once everything has arrived the editor and the file agree, whatever was typed, written by others
\* and merged meanwhile: a clean editor shows the file and would merge from it, a dirty one has
\* nothing left to write unless a save failed, and a conflict is about what is on disk now.
\* (`misled' names the reports after which the code does not achieve it.)
InStep ==
  Quiet /\ ~misled =>
    /\ ed.state = "clean" => ed.text = disk /\ ed.base = disk
    /\ ed.state = "dirty" => failed
    /\ ed.state = "diverged" => ed.disk = disk

-----------------------------------------------------------------------------
\* editor-state.test.ts, "later external change merges against the disk base without losing typed
\* text", and EDITOR.md, where the merge base is the content at the last clean point: an edit that
\* no save has sent yet leaves the editor only when the user types over it or decides a conflict.
EditsKept ==
  [][\A r \in Regions :
       LET edit == ed.text[r] \div 2 IN
       edit \in unsent /\ edit # ed'.text[r] \div 2 => typed' # typed \/ ed.state = "diverged"]_vars

=============================================================================
