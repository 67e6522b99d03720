----------------------------- MODULE EditorSync -----------------------------
(***************************************************************************)
(* A file on disk and an editor that shows it: typing, autosave and Cmd+S, *)
(* the file-write route, the watcher's reports with their nonces           *)
(* (file-sync-service.ts, project-files-service.ts), the query cache and   *)
(* the bridge that applies the reports (ws-bridge.ts), and programs or     *)
(* windows that write the same file.                                       *)
(*                                                                         *)
(* Every edit has a number k; a region that holds it has the value 2k as   *)
(* typed and 2k + 1 once formatted.                                        *)
(***************************************************************************)
EXTENDS EditorState, Sequences

CONSTANTS
  Formats,        \* may the formatter run: the values `format' of a save may take
  MaxTyped,       \* bound: edits typed
  MaxExternal,    \* bound: changes by others
  MaxExplicit,    \* bound: Cmd+S
  MaxFaults,      \* bound: writes that fail and file events that are lost
  Reports,        \* how many reports a write of the file may cause
  Prompt          \* does the window apply a report, with the read it asks for, before the watcher
                  \* makes the next one?

ASSUME EditorAssumption ==
  /\ Saves \subseteq Nat /\ Nothing \notin Contents
  /\ Formats \subseteq BOOLEAN /\ Prompt \in BOOLEAN
  /\ {MaxTyped, MaxExternal, MaxExplicit, MaxFaults} \subseteq Nat
  /\ Reports \subseteq Nat \ {0} /\ Reports # {}

VARIABLES
  disk,          \* the file
  events,        \* reports of the file the watcher still owes: a write may cause several
  registered,    \* nonces of writes not yet reported
  posts,         \* save requests on their way
  replies,       \* their responses
  stash,         \* savedContentByNonce
  msgs,          \* file_content_changed messages on their way: their nonces
  fetches,       \* reads of the file in flight: of the query, or of the bridge for a message
  data,          \* the query cache
  seen,          \* data and state at the last render whose effects ran
  ed,            \* the editor
  used,          \* nonces used
  typed, external, explicit, faults,   \* counters for the bounds
  unsent,        \* history: edits typed and in no save so far
  failed,        \* history: has a save failed, or timed out, since the last edit?
  other,         \* history: was the file last written by someone else?
  misled         \* history: was a report lost, did one take another's change for a save, did it name
                 \* several saves, or was one passed over as superseded during a conflict?

vars == <<disk, events, registered, posts, replies, stash, msgs, fetches, data, seen, ed, used,
          typed, external, explicit, faults, unsent, failed, other, misled>>

counters == <<typed, external, explicit, faults>>
wire == <<posts, replies, stash, msgs, fetches>>

Original == [r \in Regions |-> 1]

Formatted(content) == [r \in Regions |-> 2 * (content[r] \div 2) + 1]

Edits == typed + external

Init ==
  /\ disk = Original /\ events = 0 /\ registered = {}
  /\ posts = <<>> /\ replies = <<>> /\ msgs = <<>> /\ fetches = <<>>
  /\ stash = [n \in Saves |-> Nothing]
  /\ data = Original /\ ed = Opened(Original)
  /\ seen = [data |-> Original, state |-> "clean"]
  /\ used = {}
  /\ typed = 0 /\ external = 0 /\ explicit = 0 /\ faults = 0
  /\ unsent = {} /\ failed = FALSE /\ other = FALSE /\ misled = FALSE

\* May the echo of save n still come?
OnItsWay(n) ==
  \/ \E i \in 1 .. Len(posts) : posts[i].nonce = n
  \/ \E i \in 1 .. Len(replies) : replies[i].nonce = n
  \/ n \in registered
  \/ \E i \in 1 .. Len(msgs) : n \in msgs[i]
  \/ \E i \in 1 .. Len(fetches) : n \in fetches[i].nonces

-----------------------------------------------------------------------------
(* The user. *)

Type ==
  /\ typed < MaxTyped
  /\ \E r \in Regions : ed' = Changed(ed, [ed.text EXCEPT ![r] = 2 * (Edits + 1)])
  /\ typed' = typed + 1
  /\ unsent' = unsent \cup {Edits + 1}
  /\ failed' = FALSE
  /\ UNCHANGED <<disk, events, registered, wire, data, seen, used, external, explicit, faults,
                 other, misled>>

\* saveEditorContent: the timer that is due, if any, is spent.
Save ==
  /\ Saves # used
  /\ LET n == Oldest(Saves \ used) IN
     /\ used' = used \cup {n}
     /\ ed' = MarkSaving([ed EXCEPT !.armed = FALSE], n)
     /\ unsent' = unsent \ {ed.text[r] \div 2 : r \in Regions}
     /\ \E format \in Formats :
          posts' = Append(posts, [nonce |-> n, content |-> ed.text, format |-> format])

Autosave ==
  /\ ed.armed
  /\ Save
  /\ UNCHANGED <<disk, events, registered, replies, stash, msgs, fetches, data, seen, counters,
                 failed, other, misled>>

\* Cmd+S, in whatever state the editor is.
SaveNow ==
  /\ explicit < MaxExplicit
  /\ explicit' = explicit + 1
  /\ Save
  /\ UNCHANGED <<disk, events, registered, replies, stash, msgs, fetches, data, seen, typed,
                 external, faults, failed, other, misled>>

\* The conflict banner has been rendered, and the user picks a side.
Decide ==
  /\ ed.state = "diverged" /\ seen = [data |-> data, state |-> "diverged"]
  /\ ed' \in {AcceptDisk(ed), KeepMine(ed)}
  /\ UNCHANGED <<disk, events, registered, wire, data, seen, used, counters, unsent, failed, other,
                 misled>>

-----------------------------------------------------------------------------
(* The server. *)

\* The file changes; the watcher owes its reports, of which a batch may hold what came before.
Written(content) ==
  /\ disk' = content
  /\ events' \in Reports

\* handleFileWrite.  Requests are handled in the order they were sent, a write is one step.
HandleWrite ==
  /\ posts # <<>>
  /\ LET post == Head(posts)
         content == IF post.format THEN Formatted(post.content) ELSE post.content
     IN  /\ Written(content)
         /\ registered' = registered \cup {post.nonce}
         /\ replies' = Append(replies, [nonce |-> post.nonce, content |-> content])
  /\ posts' = Tail(posts)
  /\ other' = FALSE
  /\ UNCHANGED <<stash, msgs, fetches, data, seen, ed, used, counters, unsent, failed, misled>>

FailWrite ==
  /\ posts # <<>> /\ faults < MaxFaults
  /\ faults' = faults + 1
  /\ posts' = Tail(posts)
  /\ replies' = Append(replies, [nonce |-> Head(posts).nonce, content |-> Nothing])
  /\ UNCHANGED <<disk, events, registered, stash, msgs, fetches, data, seen, ed, used, typed,
                 external, explicit, unsent, failed, other, misled>>

ExternalWrite ==
  /\ external < MaxExternal
  /\ external' = external + 1
  /\ \E r \in Regions : Written([disk EXCEPT ![r] = 2 * (Edits + 1) + 1])
  /\ other' = TRUE
  /\ UNCHANGED <<registered, wire, data, seen, ed, used, typed, explicit, faults, unsent, failed,
                 misled>>

\* A flush and the pass that carries it: all nonces registered meanwhile are reported together.
Report ==
  /\ events > 0
  /\ Prompt => msgs = <<>> /\ fetches = <<>>
  /\ events' = events - 1
  /\ msgs' = Append(msgs, registered)
  /\ registered' = {}
  /\ misled' = (misled \/ (registered # {} /\ (other \/ Cardinality(registered) > 1)))
  /\ UNCHANGED <<disk, posts, replies, stash, fetches, data, seen, ed, used, counters, unsent, failed,
                 other>>

LoseEvent ==
  /\ events > 0 /\ faults < MaxFaults
  /\ faults' = faults + 1
  /\ events' = 0
  /\ misled' = TRUE
  /\ UNCHANGED <<disk, registered, wire, data, seen, ed, used, typed, external, explicit, unsent, failed,
                 other>>

\* Nonces no event came for are forgotten after 5 s.
Expire ==
  /\ events = 0 /\ registered # {}
  /\ registered' = {}
  /\ UNCHANGED <<disk, events, wire, data, seen, ed, used, counters, unsent, failed, other, misled>>

\* The next read the server has not answered yet is answered.
Read ==
  \E i \in 1 .. Len(fetches) :
    /\ fetches[i].content = Nothing
    /\ \A j \in 1 .. i - 1 : fetches[j].content # Nothing
    /\ fetches' = [fetches EXCEPT ![i].content = disk]
    /\ UNCHANGED <<disk, events, registered, posts, replies, stash, msgs, data, seen, ed, used,
                   counters, unsent, failed, other, misled>>

-----------------------------------------------------------------------------
(* The client. *)

\* The response of a save: its content is kept for the echo; a failure leaves the file dirty.
Reply ==
  /\ replies # <<>>
  /\ LET reply == Head(replies) IN
     IF reply.content # Nothing
     THEN /\ stash' = [stash EXCEPT ![reply.nonce] = reply.content]
          /\ UNCHANGED <<ed, failed>>
     ELSE /\ ed' = HandleSaveError(ed, reply.nonce)
          /\ failed' = TRUE
          /\ UNCHANGED stash
  /\ replies' = Tail(replies)
  /\ UNCHANGED <<disk, events, registered, posts, msgs, fetches, data, seen, used, counters,
                 unsent, other, misled>>

IsQuery(fetch) == fetch.kind = "query"

\* The refetch in flight, of which there is one at most, is given up.
WithoutQuery(reads) ==
  IF \E i \in 1 .. Len(reads) : IsQuery(reads[i])
  THEN LET i == CHOOSE j \in 1 .. Len(reads) : IsQuery(reads[j])
       IN  SubSeq(reads, 1, i - 1) \o SubSeq(reads, i + 1, Len(reads))
  ELSE reads

\* invalidateQueries: a refetch in flight is given up for a new one.
Refetch == Append(WithoutQuery(fetches), [kind |-> "query", nonces |-> {}, content |-> Nothing])

PassedOver(nonces) == ed.state = "diverged" /\ Superseded(ed, nonces)

\* refreshOpenFile for the next message.  The content stashed for the first of its nonces that has
\* one is used, unless it expired (2 s).
Deliver ==
  /\ msgs # <<>>
  /\ msgs' = Tail(msgs)
  /\ LET nonces == Head(msgs)
         own == {n \in nonces : stash[n] # Nothing}
     IN  \/ /\ own # {}
            /\ LET content == stash[Oldest(own)] IN
               IF ed.state = "clean"
               THEN /\ ed' = Forget(ed, nonces \cap ed.nonces)
                    /\ data' = content
                    /\ UNCHANGED misled
               ELSE /\ ed' = HandleDiskChange(ed, nonces, content)
                    /\ data' = IF Superseded(ed, nonces) THEN data ELSE content
                    /\ misled' = (misled \/ PassedOver(nonces))
            /\ UNCHANGED fetches
         \/ /\ IF ed.state = "clean"
               THEN /\ ed' = Forget(ed, nonces \cap ed.nonces)
                    /\ fetches' = Refetch
               ELSE /\ fetches' = Append(fetches, [kind |-> "open", nonces |-> nonces,
                                                   content |-> Nothing])
                    /\ UNCHANGED ed
            /\ UNCHANGED <<data, misled>>
  /\ UNCHANGED <<disk, events, registered, posts, replies, stash, seen, used, counters, unsent, failed,
                 other>>

\* The oldest read arrives: in the cache, or through the state machine (fetchIntoOpenFile), which
\* cancels a refetch.
Land ==
  /\ fetches # <<>> /\ Head(fetches).content # Nothing
  /\ LET fetch == Head(fetches) IN
     /\ data' = fetch.content
     /\ IF IsQuery(fetch)
        THEN /\ fetches' = Tail(fetches)
             /\ UNCHANGED <<ed, misled>>
        ELSE /\ ed' = HandleDiskChange(ed, fetch.nonces, fetch.content)
             /\ fetches' = WithoutQuery(Tail(fetches))
             /\ misled' = (misled \/ PassedOver(fetch.nonces))
  /\ UNCHANGED <<disk, events, registered, posts, replies, stash, msgs, seen, used, counters,
                 unsent, failed, other>>

\* A render and its effects: a clean editor takes the cached content as merge base when either
\* changed, and as its text when the content did.
Effects ==
  /\ seen # [data |-> data, state |-> ed.state]
  /\ seen' = [data |-> data, state |-> ed.state]
  /\ ed' = IF ed.state # "clean" THEN ed
           ELSE [ed EXCEPT !.base = data, !.text = IF seen.data # data THEN data ELSE @]
  /\ UNCHANGED <<disk, events, registered, wire, data, used, counters, unsent, failed, other, misled>>

\* 10 s after its response a save without an echo is given up.
Timeout ==
  /\ \E n \in ed.nonces :
       /\ ~OnItsWay(n)
       /\ ed' = HandleSaveError(ed, n)
  /\ failed' = TRUE
  /\ UNCHANGED <<disk, events, registered, wire, data, seen, used, counters, unsent, other, misled>>

-----------------------------------------------------------------------------
User == Type \/ Autosave \/ SaveNow \/ Decide

Server == HandleWrite \/ FailWrite \/ ExternalWrite \/ Report \/ LoseEvent \/ Expire \/ Read

Client == Reply \/ Deliver \/ Land \/ Effects \/ Timeout

Next == User \/ Server \/ Client

Spec == Init /\ [][Next]_vars
=============================================================================
