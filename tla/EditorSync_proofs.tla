------------------------- MODULE EditorSync_proofs -------------------------
(***************************************************************************)
(* An editor and its file, for any number of regions, saves, edits, writes *)
(* of others and faults.                                                   *)
(*                                                                         *)
(* The state of an editor goes with its saves in flight: every operation   *)
(* of EditorState keeps EntryOK, whatever arrives and in whatever state,   *)
(* and every handler of EditorSync is one of them.                         *)
(*                                                                         *)
(* That editor and file end in step rests on what is on its way: Flow      *)
(* follows saves, reports and reads from the request to the echo, Editing  *)
(* relates them to what the editor shows and keeps.                        *)
(***************************************************************************)
EXTENDS EditorSyncProps, FiniteSetTheorems, SequenceTheorems, WellFoundedInduction, TLAPS

\* A set of numbers that is not empty has a least.
LEMMA Least ==
  ASSUME NEW ns, ns \in SUBSET Nat, ns # {}
  PROVE  \E n \in ns : \A m \in ns : n =< m
<1>1. PICK n \in ns : \A m \in ns : <<m, n>> \notin OpToRel(<, Nat)
  BY WFMin, NatLessThanWellFounded, Zenon
<1>2. \A m \in ns : ~ (m < n)
  BY <1>1, Zenon DEF OpToRel
<1> QED
  BY <1>2

\* A set of saves that is not empty has an oldest.
LEMMA OldestFacts ==
  ASSUME NEW ns \in SUBSET Saves, ns # {}
  PROVE  Oldest(ns) \in ns
<1>1. ns \in SUBSET Nat
  BY EditorAssumption
<1>2. \E n \in ns : \A m \in ns : n =< m
  BY <1>1, Least
<1> QED
  BY <1>2 DEF Oldest

\* One more element.
LEMMA AppendType == ASSUME NEW S, NEW s \in Seq(S), NEW e \in S PROVE Append(s, e) \in Seq(S)
OBVIOUS

\* A sequence of reads without a refetch is made of reads.
LEMMA WithoutQueryFacts ==
  ASSUME NEW S, NEW reads \in Seq(S)
  PROVE  WithoutQuery(reads) \in Seq(S)
<1>1. CASE \E i \in 1 .. Len(reads) : IsQuery(reads[i])
  <2>1. PICK i \in 1 .. Len(reads) : i = CHOOSE j \in 1 .. Len(reads) : IsQuery(reads[j])
    BY <1>1
  <2>2. SubSeq(reads, 1, i - 1) \o SubSeq(reads, i + 1, Len(reads)) \in Seq(S)
    OBVIOUS
  <2> QED
    BY <1>1, <2>1, <2>2 DEF WithoutQuery
<1> QED
  BY <1>1 DEF WithoutQuery

-----------------------------------------------------------------------------
(* Contents of words from V. *)

Words(V) == [Regions -> V]
WordsOrNothing(V) == Words(V) \cup {Nothing}

\* Words enough: for a file that was never written, and for what a formatter makes of them.
Sound(V) == V \subseteq Nat /\ 1 \in V /\ \A v \in V : 2 * (v \div 2) + 1 \in V

\* And for the next edit, typed or formatted.
Room(V) == {2 * (Edits + 1), 2 * (Edits + 1) + 1} \subseteq V

\* What is shown is a content, not nothing.
LEMMA NoText == ASSUME NEW V, V \subseteq Nat PROVE Nothing \notin Words(V)
<1>1. Words(V) \subseteq Contents
  BY DEF Words, Contents
<1> QED
  BY <1>1, EditorAssumption

-----------------------------------------------------------------------------
(* The entry of an open editor. *)

EntrySet(V) ==
  [state : {"clean", "dirty", "saving", "diverged"}, nonces : NonceSets,
   snaps : [Saves -> WordsOrNothing(V)], base : Words(V), disk : WordsOrNothing(V),
   text : Words(V), armed : BOOLEAN]

\* What is known of saves in flight is known of those and no others.
Known(e, V) == e \in EntrySet(V) /\ e.nonces = {n \in Saves : e.snaps[n] # Nothing}

\* The state of an editor goes with the saves in flight.
EntryOK(e, V) ==
  /\ Known(e, V)
  /\ e.state = "saving" => e.nonces # {}
  /\ e.state = "clean" => e.nonces = {}
  /\ e.state = "diverged" => e.disk # Nothing

\* A merge is a content.
LEMMA MergedType ==
  ASSUME NEW V, NEW base, NEW ours \in Words(V), NEW theirs \in Words(V)
  PROVE  Merged(base, ours, theirs) \in Words(V)
BY DEF Merged, Words

\* An editor whose text changed has something to write.
LEMMA ChangedOK ==
  ASSUME NEW V, V \subseteq Nat, NEW e, Known(e, V), NEW text \in Words(V)
  PROVE  EntryOK(Changed(e, text), V)
BY DEF EntryOK, Known, Changed, EntrySet

\* A save in flight is known with the text it started from.
LEMMA MarkSavingOK ==
  ASSUME NEW V, V \subseteq Nat, NEW e, EntryOK(e, V), NEW n \in Saves
  PROVE  EntryOK(MarkSaving(e, n), V)
<1>1. e.text \in Words(V) /\ e.text # Nothing
  BY NoText DEF EntryOK, Known, EntrySet
<1>2. MarkSaving(e, n) \in EntrySet(V)
  BY <1>1 DEF MarkSaving, EntryOK, Known, EntrySet, NonceSets, WordsOrNothing
<1>3. MarkSaving(e, n).nonces = {m \in Saves : MarkSaving(e, n).snaps[m] # Nothing}
  BY <1>1 DEF MarkSaving, EntryOK, Known, EntrySet
<1>4. MarkSaving(e, n).state = "saving" /\ n \in MarkSaving(e, n).nonces
  BY DEF MarkSaving, EntryOK, Known, EntrySet
<1> QED
  BY <1>2, <1>3, <1>4 DEF EntryOK, Known

\* A save that is forgotten leaves the rest of the entry as it was.
LEMMA ForgetFacts ==
  ASSUME NEW V, V \subseteq Nat, NEW e, Known(e, V), NEW ns
  PROVE  /\ Known(Forget(e, ns), V) /\ Forget(e, ns).nonces = e.nonces \ ns
         /\ Forget(e, ns).state = e.state /\ Forget(e, ns).disk = e.disk
<1>1. /\ Forget(e, ns).nonces = e.nonces \ ns /\ Forget(e, ns).state = e.state
      /\ Forget(e, ns).disk = e.disk /\ Forget(e, ns).base = e.base /\ Forget(e, ns).text = e.text
      /\ Forget(e, ns) \in EntrySet(V)
  BY DEF Forget, Known, EntrySet, NonceSets, WordsOrNothing
<1>2. \A n \in Saves : Forget(e, ns).snaps[n] = IF n \in ns THEN Nothing ELSE e.snaps[n]
  BY DEF Forget, Known, EntrySet
<1> QED
  BY <1>1, <1>2 DEF Known

\* A save that failed leaves the editor with those still in flight, or with something to write.
LEMMA SaveErrorOK ==
  ASSUME NEW V, V \subseteq Nat, NEW e, EntryOK(e, V), NEW n
  PROVE  EntryOK(HandleSaveError(e, n), V)
<1> DEFINE f == Forget(e, {n})
<1>1. Known(f, V)
  BY ForgetFacts DEF EntryOK
<1> HIDE DEF f
<1>2. EntryOK([f EXCEPT !.state = IF f.nonces = {} THEN "dirty" ELSE "saving"], V)
  BY <1>1 DEF EntryOK, Known, EntrySet
<1> QED
  BY <1>2 DEF HandleSaveError, f

\* An external change is merged, or ends in a conflict about what is on disk.
LEMMA ExternalOK ==
  ASSUME NEW V, V \subseteq Nat, NEW e, EntryOK(e, V), e.state # "diverged", NEW content \in Words(V)
  PROVE  EntryOK(External(e, content), V)
<1>1. content # Nothing /\ e.text \in Words(V) /\ Nothing \in WordsOrNothing(V)
  BY NoText DEF EntryOK, Known, EntrySet, WordsOrNothing
<1>2. EntryOK([e EXCEPT !.state = "diverged", !.disk = content], V)
  BY <1>1 DEF EntryOK, Known, EntrySet, WordsOrNothing
<1> DEFINE merged == Merged(e.base, e.text, content)
<1>3. merged \in Words(V)
  BY <1>1, MergedType
<1> HIDE DEF merged
<1>4. EntryOK([e EXCEPT !.base = content, !.disk = Nothing], V)
  BY <1>1 DEF EntryOK, Known, EntrySet
<1>5. EntryOK([Changed(e, merged) EXCEPT !.base = merged, !.disk = Nothing], V)
  BY <1>1, <1>3 DEF EntryOK, Known, EntrySet, Changed
<1> QED
  BY <1>2, <1>4, <1>5 DEF External, MergeExternal, merged

\* The echo of the saves in flight ends them.
LEMMA EchoedOK ==
  ASSUME NEW V, V \subseteq Nat, NEW e, EntryOK(e, V), e.state \in {"dirty", "saving"}, e.nonces # {},
         NEW content \in Words(V)
  PROVE  EntryOK(Echoed(e, e.nonces, content), V)
<1> DEFINE merged == Merged(e.snaps[Oldest(e.nonces)], e.text, content)
           f == Forget(e, e.nonces)
<1>1. merged \in Words(V)
  BY MergedType DEF EntryOK, Known, EntrySet
<1>2. Known(f, V) /\ f.nonces = {} /\ f.state = e.state
  <2>1. Known(e, V)
    BY DEF EntryOK
  <2>2. PICK ns : ns = e.nonces
    OBVIOUS
  <2>3. /\ Known(Forget(e, ns), V) /\ Forget(e, ns).nonces = e.nonces \ ns
        /\ Forget(e, ns).state = e.state /\ Forget(e, ns).disk = e.disk
    BY <2>1, ForgetFacts
  <2> QED
    BY <2>2, <2>3
<1> HIDE DEF merged, f
<1>3. EntryOK([f EXCEPT !.state = "clean", !.base = content, !.disk = Nothing], V)
  BY <1>2 DEF EntryOK, Known, EntrySet, WordsOrNothing
<1>4. e.state = "dirty" => EntryOK([f EXCEPT !.base = content], V)
  BY <1>2 DEF EntryOK, Known, EntrySet
<1>5. EntryOK([f EXCEPT !.state = "dirty", !.base = content, !.disk = Nothing], V)
  BY <1>2 DEF EntryOK, Known, EntrySet, WordsOrNothing
<1>6. EntryOK([f EXCEPT !.state = "clean", !.text = content, !.base = content, !.disk = Nothing], V)
  BY <1>2 DEF EntryOK, Known, EntrySet, WordsOrNothing
<1>7. EntryOK([Changed(f, merged) EXCEPT !.base = merged, !.disk = Nothing], V)
  BY <1>1, <1>2 DEF EntryOK, Known, EntrySet, WordsOrNothing, Changed
<1>8. CASE content = e.text
  <2>1. CASE e.state = "saving"
    <3>1. Echoed(e, e.nonces, content) = [f EXCEPT !.state = "clean", !.base = content, !.disk = Nothing]
      BY <1>8, <2>1 DEF Echoed, f, merged
    <3> QED
      BY <1>3, <3>1
  <2>2. CASE e.state = "dirty"
    <3>1. Echoed(e, e.nonces, content) = [f EXCEPT !.base = content]
      BY <1>8, <2>2 DEF Echoed, f, merged
    <3> QED
      BY <1>4, <2>2, <3>1
  <2> QED
    BY <2>1, <2>2
<1>9. CASE content # e.text
  <2>1. CASE merged = e.text
    <3>1. Echoed(e, e.nonces, content) = [f EXCEPT !.state = "dirty", !.base = content, !.disk = Nothing]
      BY <1>9, <2>1 DEF Echoed, f, merged
    <3> QED
      BY <1>5, <3>1
  <2>2. CASE merged # e.text /\ merged = content
    <3>1. Echoed(e, e.nonces, content)
            = [f EXCEPT !.state = "clean", !.text = content, !.base = content, !.disk = Nothing]
      BY <1>9, <2>2 DEF Echoed, f, merged
    <3> QED
      BY <1>6, <3>1
  <2>3. CASE merged # e.text /\ merged # content
    <3>1. Echoed(e, e.nonces, content) = [Changed(f, merged) EXCEPT !.base = merged, !.disk = Nothing]
      BY <1>9, <2>3 DEF Echoed, f, merged
    <3> QED
      BY <1>7, <3>1
  <2> QED
    BY <2>1, <2>2, <2>3
<1> QED
  BY <1>8, <1>9

\* What a message says of the file leaves the entry sound, in every state.
LEMMA DiskChangeOK ==
  ASSUME NEW V, V \subseteq Nat, NEW e, EntryOK(e, V), NEW nonces, NEW content \in Words(V)
  PROVE  EntryOK(HandleDiskChange(e, nonces, content), V)
<1> DEFINE own == nonces \cap e.nonces
<1>1. CASE own # {} /\ own # e.nonces
  <2>1. HandleDiskChange(e, nonces, content) = Forget(e, own)
    BY <1>1 DEF HandleDiskChange
  <2>2. e.nonces \ own # {} /\ e.nonces # {}
    BY <1>1
  <2>3. /\ Known(Forget(e, own), V) /\ Forget(e, own).nonces = e.nonces \ own
        /\ Forget(e, own).state = e.state /\ Forget(e, own).disk = e.disk
    BY ForgetFacts DEF EntryOK
  <2> QED
    BY <2>1, <2>2, <2>3 DEF EntryOK
<1>2. CASE own \in {{}, e.nonces} /\ e.state = "clean"
  BY <1>2 DEF HandleDiskChange
<1>3. CASE own \in {{}, e.nonces} /\ e.state = "diverged"
  <2>1. HandleDiskChange(e, nonces, content) = [e EXCEPT !.disk = content]
    BY <1>3 DEF HandleDiskChange
  <2>2. content # Nothing
    BY NoText
  <2> QED
    BY <2>1, <2>2 DEF EntryOK, Known, EntrySet, WordsOrNothing
<1>4. CASE own = {} /\ e.state \in {"dirty", "saving"}
  <2>1. HandleDiskChange(e, nonces, content) = External(e, content)
    BY <1>4 DEF HandleDiskChange
  <2> QED
    BY <1>4, <2>1, ExternalOK
<1>5. CASE own # {} /\ own = e.nonces /\ e.state \in {"dirty", "saving"}
  <2>1. HandleDiskChange(e, nonces, content) = Echoed(e, e.nonces, content)
    BY <1>5 DEF HandleDiskChange
  <2> QED
    BY <1>5, <2>1, EchoedOK
<1> QED
  BY <1>1, <1>2, <1>3, <1>4, <1>5 DEF EntryOK, Known, EntrySet

\* Either side of a conflict may be taken.
LEMMA DecisionOK ==
  ASSUME NEW V, V \subseteq Nat, NEW e, EntryOK(e, V), e.state = "diverged"
  PROVE  EntryOK(AcceptDisk(e), V) /\ EntryOK(KeepMine(e), V)
<1>1. e.disk \in Words(V) /\ e \in EntrySet(V)
  BY DEF EntryOK, Known, EntrySet, WordsOrNothing
<1>2. EntryOK(AcceptDisk(e), V)
  BY <1>1 DEF EntryOK, Known, EntrySet, WordsOrNothing, NonceSets, AcceptDisk
<1>3. EntryOK(KeepMine(e), V)
  BY <1>1 DEF EntryOK, Known, EntrySet, WordsOrNothing, KeepMine
<1> QED
  BY <1>2, <1>3

-----------------------------------------------------------------------------
(* The file, the server and what is on its way. *)

Post(V) == [nonce : Saves, content : Words(V), format : BOOLEAN]
Response(V) == [nonce : Saves, content : WordsOrNothing(V)]
Fetch(V) == [kind : {"query", "open"}, nonces : NonceSets, content : WordsOrNothing(V)]
Counts == UNION {0 .. n : n \in Reports}

WireOK(V) ==
  /\ posts \in Seq(Post(V)) /\ replies \in Seq(Response(V))
  /\ stash \in [Saves -> WordsOrNothing(V)]
  /\ msgs \in Seq(NonceSets) /\ fetches \in Seq(Fetch(V))

FileOK(V) ==
  /\ disk \in Words(V) /\ data \in Words(V) /\ seen.data \in Words(V)
  /\ events \in Counts /\ registered \in NonceSets /\ used \in NonceSets

\* Edits are counted.
CountOK == typed \in Nat /\ external \in Nat

Parts(V) == WireOK(V) /\ FileOK(V) /\ EntryOK(ed, V) /\ CountOK

\* Words may be more than are used.
LEMMA MoreWords == ASSUME NEW V, NEW W, V \subseteq W, Parts(V) PROVE Parts(W)
<1>1. Words(V) \subseteq Words(W) /\ WordsOrNothing(V) \subseteq WordsOrNothing(W)
  BY DEF Words, WordsOrNothing
<1>2. Post(V) \subseteq Post(W) /\ Response(V) \subseteq Response(W) /\ Fetch(V) \subseteq Fetch(W)
  BY <1>1 DEF Post, Response, Fetch
<1>3. WireOK(W)
  BY <1>1, <1>2 DEF Parts, WireOK
<1>4. EntryOK(ed, W)
  BY <1>1 DEF Parts, EntryOK, Known, EntrySet
<1> QED
  BY <1>1, <1>3, <1>4 DEF Parts, FileOK

\* The words are numbers.
LEMMA PartsOfTypeOK == ASSUME Parts(Nat) PROVE TypeOK
<1>1. Words(Nat) = Contents /\ WordsOrNothing(Nat) = ContentOrNothing
  BY DEF Words, WordsOrNothing, Contents, ContentOrNothing
<1> QED
  BY <1>1 DEF Parts, TypeOK, WireOK, FileOK, EntryOK, Known, EntrySet, Post, Response, Fetch, Counts

\* A write causes some reports, of which fewer and fewer are owed.
LEMMA CountsFacts ==
  /\ 0 \in Counts /\ Reports \subseteq Counts
  /\ \A n \in Counts : n \in Nat /\ (n > 0 => n - 1 \in Counts)
<1>1. Reports \subseteq Nat /\ Reports # {}
  BY EditorAssumption
<1>2. \A n \in Reports : 0 \in 0 .. n /\ n \in 0 .. n
  BY <1>1
<1>3. 0 \in Counts /\ Reports \subseteq Counts
  BY <1>1, <1>2 DEF Counts
<1>4. ASSUME NEW n \in Counts PROVE n \in Nat /\ (n > 0 => n - 1 \in Counts)
  <2>1. PICK m \in Reports : n \in 0 .. m
    BY DEF Counts
  <2>2. n \in Nat /\ (n > 0 => n - 1 \in 0 .. m)
    BY <1>1, <2>1
  <2> QED
    BY <2>1, <2>2 DEF Counts
<1> QED
  BY <1>3, <1>4

\* Formatting and typing give contents.
LEMMA ContentFacts ==
  ASSUME NEW V, Sound(V)
  PROVE  /\ Original \in Words(V)
         /\ \A content \in Words(V) : Formatted(content) \in Words(V)
         /\ \A content \in Words(V), r \in Regions, n \in V : [content EXCEPT ![r] = n] \in Words(V)
BY DEF Sound, Original, Formatted, Words

\* An editor is opened on a file, with nothing on its way.
LEMMA InitParts == ASSUME NEW V, Sound(V), Init PROVE Parts(V)
<1>1. EntryOK(Opened(Original), V)
  BY ContentFacts DEF Opened, EntryOK, Known, EntrySet, NonceSets, WordsOrNothing
<1>2. WireOK(V)
  BY DEF Init, WireOK, WordsOrNothing
<1>3. FileOK(V) /\ CountOK
  BY ContentFacts, CountsFacts DEF Init, FileOK, CountOK, NonceSets
<1> QED
  BY <1>1, <1>2, <1>3 DEF Init, Parts

\* What the user does.
LEMMA UserParts ==
  ASSUME NEW V, Sound(V), Type \/ ExternalWrite => Room(V), Parts(V), User
  PROVE  Parts(V)'
<1>1. WireOK(V) /\ FileOK(V) /\ EntryOK(ed, V) /\ CountOK /\ ed \in EntrySet(V)
  BY DEF Parts, EntryOK, Known
<1>0. V \subseteq Nat
  BY DEF Sound
<1>2. CASE Type
  <2>1. PICK r \in Regions : ed' = Changed(ed, [ed.text EXCEPT ![r] = 2 * (Edits + 1)])
    BY <1>2 DEF Type
  <2>2. 2 * (Edits + 1) \in V /\ ed.text \in Words(V)
    BY <1>1, <1>2 DEF Room, EntrySet
  <2>3. [ed.text EXCEPT ![r] = 2 * (Edits + 1)] \in Words(V)
    BY <2>2, ContentFacts
  <2>4. EntryOK(ed', V)
    BY <1>0, <1>1, <2>1, <2>3, ChangedOK DEF EntryOK
  <2>5. UNCHANGED <<disk, events, registered, wire, data, seen, used, external>> /\ typed' = typed + 1
    BY <1>2 DEF Type
  <2> QED
    BY <1>1, <2>4, <2>5 DEF Parts, WireOK, FileOK, CountOK, wire, EntryOK, Known, EntrySet
<1>3. ASSUME Save, UNCHANGED <<disk, events, registered, replies, stash, msgs, fetches, data, seen, typed, external>>
      PROVE  Parts(V)'
  <2>1. PICK n : n = Oldest(Saves \ used)
    OBVIOUS
  <2>2. n \in Saves
    <3>1. Saves \ used # {} /\ Saves \ used \in SUBSET Saves
      BY <1>1, <1>3 DEF Save, FileOK, NonceSets
    <3> QED
      BY <2>1, <3>1, OldestFacts
  <2>3. /\ used' = used \cup {n} /\ ed' = MarkSaving([ed EXCEPT !.armed = FALSE], n)
        /\ \E format \in Formats :
             posts' = Append(posts, [nonce |-> n, content |-> ed.text, format |-> format])
    BY <1>3, <2>1 DEF Save
  <2>4. EntryOK([ed EXCEPT !.armed = FALSE], V)
    BY <1>1 DEF EntryOK, Known, EntrySet
  <2>5. EntryOK(ed', V)
    BY <1>0, <2>2, <2>3, <2>4, MarkSavingOK
  <2>6. posts' \in Seq(Post(V))
    <3>1. PICK format \in Formats :
            posts' = Append(posts, [nonce |-> n, content |-> ed.text, format |-> format])
      BY <2>3
    <3>2. [nonce |-> n, content |-> ed.text, format |-> format] \in Post(V)
      BY <1>1, <2>2, EditorAssumption DEF Post, EntrySet
    <3> QED
      BY <1>1, <3>1, <3>2 DEF WireOK
  <2>7. used' \in NonceSets
    BY <1>1, <2>2, <2>3 DEF FileOK, NonceSets
  <2> QED
    BY <1>1, <1>3, <2>5, <2>6, <2>7 DEF Parts, WireOK, FileOK, CountOK, EntryOK, Known
<1>4. CASE Autosave
  BY <1>3, <1>4 DEF Autosave, counters
<1>5. CASE SaveNow
  BY <1>3, <1>5 DEF SaveNow
<1>6. CASE Decide
  <2>1. EntryOK(ed', V)
    BY <1>0, <1>1, <1>6, DecisionOK DEF Decide
  <2>2. UNCHANGED <<disk, events, registered, wire, data, seen, used, counters>>
    BY <1>6 DEF Decide
  <2> QED
    BY <1>1, <2>1, <2>2 DEF Parts, WireOK, FileOK, CountOK, wire, counters, EntryOK, Known
<1> QED
  BY <1>2, <1>4, <1>5, <1>6 DEF User

\* What the server and other programs do.
LEMMA ServerParts ==
  ASSUME NEW V, Sound(V), Type \/ ExternalWrite => Room(V), Parts(V), Server
  PROVE  Parts(V)'
<1>1. WireOK(V) /\ FileOK(V) /\ EntryOK(ed, V) /\ CountOK
  BY DEF Parts
<1>2. ASSUME WireOK(V)', FileOK(V)', ed' = ed, external' \in {external, external + 1}, typed' = typed
      PROVE  Parts(V)'
  BY <1>1, <1>2 DEF Parts, CountOK, EntryOK, Known
<1>3. CASE HandleWrite
  <2> DEFINE post == Head(posts)
             content == IF post.format THEN Formatted(post.content) ELSE post.content
  <2>1. post \in Post(V) /\ Tail(posts) \in Seq(Post(V))
    BY <1>1, <1>3 DEF HandleWrite, WireOK
  <2>2. content \in Words(V) /\ post.nonce \in Saves
    BY <2>1, ContentFacts DEF Post
  <2>3. /\ disk' = content /\ events' \in Reports /\ registered' = registered \cup {post.nonce}
        /\ replies' = Append(replies, [nonce |-> post.nonce, content |-> content])
        /\ posts' = Tail(posts)
        /\ UNCHANGED <<stash, msgs, fetches, data, seen, ed, used, typed, external>>
    BY <1>3 DEF HandleWrite, Written, counters
  <2> HIDE DEF post, content
  <2>4. [nonce |-> post.nonce, content |-> content] \in Response(V)
    BY <2>2 DEF Response, WordsOrNothing
  <2>5. FileOK(V)'
    BY <1>1, <2>2, <2>3, CountsFacts DEF FileOK, NonceSets
  <2>6. WireOK(V)'
    BY <1>1, <2>1, <2>3, <2>4 DEF WireOK
  <2> QED
    BY <1>2, <2>3, <2>5, <2>6
<1>4. CASE FailWrite
  <2>1. Head(posts) \in Post(V) /\ Tail(posts) \in Seq(Post(V))
    BY <1>1, <1>4 DEF FailWrite, WireOK
  <2>2. [nonce |-> Head(posts).nonce, content |-> Nothing] \in Response(V)
    BY <2>1 DEF Post, Response, WordsOrNothing
  <2>3. /\ posts' = Tail(posts)
        /\ replies' = Append(replies, [nonce |-> Head(posts).nonce, content |-> Nothing])
        /\ UNCHANGED <<disk, events, registered, stash, msgs, fetches, data, seen, ed, used, typed, external>>
    BY <1>4 DEF FailWrite
  <2>4. FileOK(V)' /\ WireOK(V)'
    BY <1>1, <2>1, <2>2, <2>3 DEF FileOK, WireOK
  <2> QED
    BY <1>2, <2>3, <2>4
<1>5. CASE ExternalWrite
  <2>1. PICK r \in Regions : Written([disk EXCEPT ![r] = 2 * (Edits + 1) + 1])
    BY <1>5 DEF ExternalWrite
  <2>2. 2 * (Edits + 1) + 1 \in V
    BY <1>5 DEF Room
  <2>3. disk' \in Words(V) /\ events' \in Reports
    BY <1>1, <2>1, <2>2, ContentFacts DEF Written, FileOK
  <2>4. UNCHANGED <<registered, wire, data, seen, ed, used, typed>> /\ external' = external + 1
    BY <1>5 DEF ExternalWrite
  <2>5. FileOK(V)' /\ WireOK(V)'
    BY <1>1, <2>3, <2>4, CountsFacts DEF FileOK, WireOK, wire
  <2> QED
    BY <1>2, <2>4, <2>5
<1>6. CASE Report \/ LoseEvent \/ Expire
  <2>1. /\ events' \in {events, 0} \/ (events > 0 /\ events' = events - 1)
        /\ registered' \in {registered, {}}
        /\ msgs' = msgs \/ msgs' = Append(msgs, registered)
        /\ UNCHANGED <<disk, posts, replies, stash, fetches, data, seen, ed, used, typed, external>>
    BY <1>6 DEF Report, LoseEvent, Expire, wire, counters
  <2>2. FileOK(V)'
    BY <1>1, <2>1, CountsFacts DEF FileOK, NonceSets
  <2>3. msgs' \in Seq(NonceSets)
    BY <1>1, <2>1, AppendType DEF FileOK, WireOK
  <2>4. WireOK(V)'
    BY <1>1, <2>1, <2>3 DEF WireOK
  <2> QED
    BY <1>2, <2>1, <2>2, <2>4
<1>7. CASE Read
  <2>1. PICK i \in 1 .. Len(fetches) :
          /\ fetches' = [fetches EXCEPT ![i].content = disk]
          /\ UNCHANGED <<disk, events, registered, posts, replies, stash, msgs, data, seen, ed, used, counters>>
    BY <1>7 DEF Read
  <2>2. fetches[i] \in Fetch(V) /\ disk \in Words(V)
    BY <1>1 DEF WireOK, FileOK
  <2>3. [fetches[i] EXCEPT !.content = disk] \in Fetch(V)
    BY <2>2 DEF Fetch, WordsOrNothing
  <2>4. fetches' \in Seq(Fetch(V))
    BY <1>1, <2>1, <2>3 DEF WireOK
  <2>5. FileOK(V)' /\ WireOK(V)'
    BY <1>1, <2>1, <2>4 DEF FileOK, WireOK
  <2> QED
    BY <1>2, <2>1, <2>5 DEF counters
<1> QED
  BY <1>3, <1>4, <1>5, <1>6, <1>7 DEF Server

\* What arrives at the window, its renders and its timers.
LEMMA ClientParts ==
  ASSUME NEW V, Sound(V), Parts(V), Client
  PROVE  Parts(V)'
<1>1. WireOK(V) /\ FileOK(V) /\ EntryOK(ed, V) /\ CountOK
  BY DEF Parts
<1>2. ASSUME WireOK(V)', FileOK(V)', EntryOK(ed', V), UNCHANGED <<typed, external>> PROVE Parts(V)'
  BY <1>1, <1>2 DEF Parts, CountOK, EntryOK, Known
<1>0. V \subseteq Nat
  BY DEF Sound
<1>3. CASE Reply
  <2>1. Head(replies) \in Response(V) /\ Tail(replies) \in Seq(Response(V))
    BY <1>1, <1>3 DEF Reply, WireOK
  <2>2. /\ \/ stash' = [stash EXCEPT ![Head(replies).nonce] = Head(replies).content] /\ ed' = ed
           \/ stash' = stash /\ ed' = HandleSaveError(ed, Head(replies).nonce)
        /\ replies' = Tail(replies)
        /\ UNCHANGED <<disk, events, registered, posts, msgs, fetches, data, seen, used, typed, external>>
    BY <1>3 DEF Reply, counters
  <2>3. stash' \in [Saves -> WordsOrNothing(V)]
    BY <1>1, <2>1, <2>2 DEF WireOK, Response
  <2>4. EntryOK(ed', V)
    BY <1>0, <1>1, <2>2, SaveErrorOK
  <2>5. FileOK(V)' /\ WireOK(V)'
    BY <1>1, <2>1, <2>2, <2>3 DEF FileOK, WireOK
  <2> QED
    BY <1>2, <2>2, <2>4, <2>5
<1>4. CASE Deliver
  <2> DEFINE nonces == Head(msgs)
             own == {n \in nonces : stash[n] # Nothing}
  <2>1. nonces \in SUBSET Saves /\ Tail(msgs) \in Seq(NonceSets)
    BY <1>1, <1>4 DEF Deliver, WireOK, NonceSets
  <2>2. /\ msgs' = Tail(msgs)
        /\ UNCHANGED <<disk, events, registered, posts, replies, stash, seen, used, typed, external>>
    BY <1>4 DEF Deliver, counters
  <2>3. ed.state = "clean" => EntryOK(Forget(ed, nonces \cap ed.nonces), V)
    <3>1. PICK ns : ns = nonces \cap ed.nonces
      OBVIOUS
    <3>2. /\ Known(Forget(ed, ns), V) /\ Forget(ed, ns).nonces = ed.nonces \ ns
          /\ Forget(ed, ns).state = ed.state /\ Forget(ed, ns).disk = ed.disk
      BY <1>0, <1>1, ForgetFacts DEF EntryOK
    <3> QED
      BY <1>1, <3>1, <3>2 DEF EntryOK
  <2>4. CASE /\ own # {} /\ fetches' = fetches
             /\ \/ /\ ed.state = "clean" /\ ed' = Forget(ed, nonces \cap ed.nonces)
                   /\ data' = stash[Oldest(own)]
                \/ /\ ed' = HandleDiskChange(ed, nonces, stash[Oldest(own)])
                   /\ data' \in {data, stash[Oldest(own)]}
    <3>1. stash[Oldest(own)] \in Words(V)
      <4>1. Oldest(own) \in own
        BY <2>1, <2>4, OldestFacts
      <4> QED
        BY <1>1, <2>1, <4>1 DEF WireOK, WordsOrNothing
    <3>2. EntryOK(ed', V) /\ data' \in Words(V)
      BY <1>0, <1>1, <2>3, <2>4, <3>1, DiskChangeOK DEF FileOK
    <3>3. FileOK(V)' /\ WireOK(V)'
      BY <1>1, <2>1, <2>2, <2>4, <3>2 DEF FileOK, WireOK
    <3> QED
      BY <1>2, <2>2, <3>2, <3>3
  <2>5. CASE /\ \/ /\ ed.state = "clean" /\ ed' = Forget(ed, nonces \cap ed.nonces)
                   /\ fetches' = Refetch
                \/ /\ fetches' = Append(fetches, [kind |-> "open", nonces |-> nonces, content |-> Nothing])
                   /\ ed' = ed
             /\ data' = data
    <3>1. /\ [kind |-> "open", nonces |-> nonces, content |-> Nothing] \in Fetch(V)
          /\ [kind |-> "query", nonces |-> {}, content |-> Nothing] \in Fetch(V)
      BY <2>1 DEF Fetch, NonceSets, WordsOrNothing
    <3>2. Refetch \in Seq(Fetch(V))
      BY <1>1, <3>1, WithoutQueryFacts DEF Refetch, WireOK
    <3>3. fetches' \in Seq(Fetch(V))
      BY <1>1, <2>5, <3>1, <3>2, AppendType DEF WireOK
    <3>4. EntryOK(ed', V)
      BY <1>1, <2>3, <2>5
    <3>5. FileOK(V)' /\ WireOK(V)'
      BY <1>1, <2>1, <2>2, <2>5, <3>3 DEF FileOK, WireOK
    <3> QED
      BY <1>2, <2>2, <3>4, <3>5
  <2> QED
    BY <1>4, <2>4, <2>5 DEF Deliver
<1>5. CASE Land
  <2> DEFINE fetch == Head(fetches)
  <2>1. fetch \in Fetch(V) /\ fetch.content # Nothing /\ Tail(fetches) \in Seq(Fetch(V))
    BY <1>1, <1>5 DEF Land, WireOK
  <2>2. fetch.content \in Words(V)
    BY <2>1 DEF Fetch, WordsOrNothing
  <2>3. /\ data' = fetch.content
        /\ ed' \in {ed, HandleDiskChange(ed, fetch.nonces, fetch.content)}
        /\ fetches' \in {Tail(fetches), WithoutQuery(Tail(fetches))}
        /\ UNCHANGED <<disk, events, registered, posts, replies, stash, msgs, seen, used, typed, external>>
    BY <1>5 DEF Land, counters
  <2> HIDE DEF fetch
  <2>4. EntryOK(ed', V)
    BY <1>0, <1>1, <2>2, <2>3, DiskChangeOK
  <2>5. fetches' \in Seq(Fetch(V))
    BY <2>1, <2>3, WithoutQueryFacts
  <2>6. FileOK(V)' /\ WireOK(V)'
    BY <1>1, <2>2, <2>3, <2>5 DEF FileOK, WireOK
  <2> QED
    BY <1>2, <2>3, <2>4, <2>6
<1>6. CASE Effects
  <2>1. /\ ed' \in {ed, [ed EXCEPT !.base = data, !.text = data], [ed EXCEPT !.base = data, !.text = ed.text]}
        /\ UNCHANGED <<disk, events, registered, wire, data, used, typed, external>>
        /\ seen' = [data |-> data, state |-> ed.state]
    BY <1>6 DEF Effects, counters
  <2>2. ASSUME NEW text \in Words(V) PROVE EntryOK([ed EXCEPT !.base = data, !.text = text], V)
    BY <1>1 DEF EntryOK, Known, EntrySet, FileOK
  <2>3. EntryOK(ed', V)
    <3>1. data \in Words(V) /\ ed.text \in Words(V)
      BY <1>1 DEF FileOK, EntryOK, Known, EntrySet
    <3> QED
      BY <1>1, <2>1, <2>2, <3>1
  <2>4. FileOK(V)' /\ WireOK(V)'
    BY <1>1, <2>1 DEF FileOK, WireOK, wire
  <2> QED
    BY <1>2, <2>1, <2>3, <2>4
<1>7. CASE Timeout
  <2>1. UNCHANGED <<disk, events, registered, wire, data, seen, used, typed, external>>
    BY <1>7 DEF Timeout, counters
  <2>2. EntryOK(ed', V)
    BY <1>0, <1>1, <1>7, SaveErrorOK DEF Timeout
  <2>3. FileOK(V)' /\ WireOK(V)'
    BY <1>1, <2>1 DEF FileOK, WireOK, wire
  <2> QED
    BY <1>2, <2>1, <2>2, <2>3
<1> QED
  BY <1>3, <1>4, <1>5, <1>6, <1>7 DEF Client

\* The words used so far.
Numbers == 0 .. 2 * Edits + 1

\* Every step leaves the parts sound, with the words used until then.
LEMMA StepParts ==
  ASSUME Parts(Numbers), [Next]_vars
  PROVE  Parts(Numbers)'
<1>1. Edits \in Nat
  BY DEF Parts, CountOK, Edits
<1>2. ASSUME NEW n \in Nat PROVE Sound(0 .. 2 * n + 1)
  BY <1>2 DEF Sound
<1>3. CASE Type \/ ExternalWrite
  <2>1. Edits' = Edits + 1
    BY <1>1, <1>3 DEF Type, ExternalWrite, Edits, Parts, CountOK
  <2>2. PICK n \in Nat : n = Edits + 1
    BY <1>1
  <2> DEFINE V == 0 .. 2 * n + 1
  <2>3. Sound(V) /\ Room(V) /\ Numbers \subseteq V /\ Numbers' = V
    <3>1. Sound(V)
      BY <1>2
    <3>2. Room(V)
      BY <1>1, <2>2 DEF Room
    <3>3. Numbers \subseteq V /\ Numbers' = V
      BY <1>1, <2>1, <2>2 DEF Numbers
    <3> QED
      BY <3>1, <3>2, <3>3
  <2>4. Parts(V)
    BY <2>3, MoreWords
  <2> HIDE DEF V
  <2>5. Parts(V)'
    BY <1>3, <2>3, <2>4, UserParts, ServerParts DEF User, Server
  <2> QED
    BY <2>3, <2>5 DEF Parts, WireOK, FileOK, EntryOK, Known, EntrySet, Post, Response, Fetch
<1>4. CASE ~ (Type \/ ExternalWrite)
  <2>1. Edits' = Edits
    BY <1>4 DEF Next, User, Server, Client, Autosave, SaveNow, Decide, HandleWrite, FailWrite, Report,
                LoseEvent, Expire, Read, Reply, Deliver, Land, Effects, Timeout, counters, vars, Edits
  <2>2. PICK n \in Nat : n = Edits
    BY <1>1
  <2> DEFINE V == 0 .. 2 * n + 1
  <2>3. Sound(V) /\ Numbers = V /\ Numbers' = V
    BY <1>2, <2>1, <2>2 DEF Numbers
  <2> HIDE DEF V
  <2>4. Parts(V)
    BY <2>3
  <2>5. Parts(V)'
    <3>1. CASE UNCHANGED vars
      BY <2>4, <3>1 DEF Parts, WireOK, FileOK, CountOK, EntryOK, Known, vars
    <3> QED
      BY <1>4, <2>3, <2>4, <3>1, UserParts, ServerParts, ClientParts DEF Next
  <2> QED
    BY <2>3, <2>5 DEF Parts, WireOK, FileOK, EntryOK, Known, EntrySet, Post, Response, Fetch
<1> QED
  BY <1>3, <1>4

\* An editor that is saving has a save in flight to leave that state by, a clean one has none whose
\* late failure could make it dirty, and what is known of a save is forgotten with it: however saves,
\* failures, echoes, reports by others, merges and conflicts come together.
THEOREM TypeCorrect == Spec => []TypeOK
<1>1. Init => Parts(Numbers)
  <2>1. Sound(0 .. 1)
    BY DEF Sound
  <2>2. Init => Parts(0 .. 1)
    BY <2>1, InitParts
  <2>3. Init => Numbers = 0 .. 1
    BY DEF Init, Numbers, Edits
  <2> QED
    BY <2>2, <2>3
<1>2. Parts(Numbers) /\ [Next]_vars => Parts(Numbers)'
  BY StepParts
<1>3. Parts(Numbers) => TypeOK
  <2>1. Parts(Numbers) => Numbers \subseteq Nat
    BY DEF Numbers
  <2> QED
    BY <2>1, MoreWords, PartsOfTypeOK
<1> QED
  BY <1>1, <1>2, <1>3, PTL DEF Spec

-----------------------------------------------------------------------------
(* What an operation makes of an entry. *)

\* A failed save is in flight no more, and there is something to write.
LEMMA SaveErrorFacts ==
  ASSUME NEW e, EntryOK(e, Nat), NEW n
  PROVE  /\ HandleSaveError(e, n).state \in {"dirty", "saving"}
         /\ HandleSaveError(e, n).nonces = e.nonces \ {n}
<1> DEFINE f == Forget(e, {n})
<1>1. Known(f, Nat) /\ f.nonces = e.nonces \ {n}
  <2>1. Known(e, Nat)
    BY DEF EntryOK
  <2>2. PICK ns : ns = {n}
    OBVIOUS
  <2>3. /\ Known(Forget(e, ns), Nat) /\ Forget(e, ns).nonces = e.nonces \ ns
        /\ Forget(e, ns).state = e.state /\ Forget(e, ns).disk = e.disk
    BY <2>1, ForgetFacts
  <2> QED
    BY <2>2, <2>3
<1> HIDE DEF f
<1>2. [f EXCEPT !.state = IF f.nonces = {} THEN "dirty" ELSE "saving"].nonces = f.nonces
  BY <1>1 DEF Known, EntrySet
<1>3. [f EXCEPT !.state = IF f.nonces = {} THEN "dirty" ELSE "saving"].state \in {"dirty", "saving"}
  BY <1>1 DEF Known, EntrySet
<1> QED
  BY <1>1, <1>2, <1>3 DEF HandleSaveError, f

\* The ways the report of a content ends, with the saves ns of which it may be the echo.
Passes(e, g, ns) ==
  /\ g.nonces = e.nonces \ ns /\ g.state = e.state /\ g.text = e.text /\ g.armed = e.armed
  /\ \A n \in g.nonces : g.snaps[n] = e.snaps[n]
  /\ Superseded(e, ns)
Conflicts(e, g, ns, content) ==
  g.state = "diverged" /\ g.disk = content /\ g.nonces = e.nonces /\ ~Superseded(e, ns)
Keeps(e, g, ns) ==
  /\ e.state \in {"dirty", "saving"} /\ g.nonces = e.nonces /\ g.state = e.state /\ g.text = e.text
  /\ g.armed = e.armed /\ g.snaps = e.snaps /\ ~Superseded(e, ns)
Settles(e, g, ns, content) ==
  /\ e.state # "clean" /\ g.state = "clean" /\ g.text = content /\ g.base = content
  /\ e.nonces # {} /\ e.nonces \subseteq ns /\ g.nonces = {} /\ ~Superseded(e, ns)
Rewrites(e, g, ns) ==
  /\ g.state = "dirty" /\ g.armed /\ g.nonces \in {e.nonces, {}} /\ (g.nonces = {} => e.nonces \subseteq ns)
  /\ ~Superseded(e, ns)
Leaves(e, g, ns, content) ==
  /\ e.state \in {"dirty", "saving"} /\ g.state = "dirty" /\ g.armed = e.armed /\ g.nonces = {}
  /\ e.nonces # {} /\ e.nonces \subseteq ns /\ ~Superseded(e, ns)
  /\ \/ e.state = "dirty"
     \/ content # e.text /\ Merged(e.snaps[Oldest(e.nonces)], e.text, content) = e.text

Outcome(e, g, ns, content) ==
  \/ Passes(e, g, ns) \/ Conflicts(e, g, ns, content) \/ Keeps(e, g, ns)
  \/ Settles(e, g, ns, content) \/ Rewrites(e, g, ns) \/ Leaves(e, g, ns, content)

\* Forgetting saves leaves what the editor shows and what is known of the others.
LEMMA ForgetRest ==
  ASSUME NEW e, Known(e, Nat), NEW ns
  PROVE  /\ Forget(e, ns).text = e.text /\ Forget(e, ns).armed = e.armed
         /\ Forget(e, ns).base = e.base
         /\ \A n \in Forget(e, ns).nonces : Forget(e, ns).snaps[n] = e.snaps[n]
<1>1. /\ Forget(e, ns).text = e.text /\ Forget(e, ns).armed = e.armed /\ Forget(e, ns).base = e.base
      /\ Forget(e, ns).nonces = e.nonces \ ns
  BY DEF Forget, Known, EntrySet
<1>2. \A n \in Saves : Forget(e, ns).snaps[n] = IF n \in ns THEN Nothing ELSE e.snaps[n]
  BY DEF Forget, Known, EntrySet
<1>3. e.nonces \subseteq Saves
  BY DEF Known
<1> QED
  BY <1>1, <1>2, <1>3

\* An external change is merged, or ends in a conflict.
LEMMA ExternalOutcome ==
  ASSUME NEW e, EntryOK(e, Nat), e.state \in {"dirty", "saving"}, NEW ns, ns \cap e.nonces = {},
         NEW content \in Words(Nat)
  PROVE  Outcome(e, External(e, content), ns, content)
<1>1. ~Superseded(e, ns) /\ e \in EntrySet(Nat)
  BY DEF Superseded, EntryOK, Known
<1> DEFINE merged == Merged(e.base, e.text, content)
<1>2. Conflicts(e, [e EXCEPT !.state = "diverged", !.disk = content], ns, content)
  BY <1>1 DEF Conflicts, EntrySet
<1>3. Keeps(e, [e EXCEPT !.base = content, !.disk = Nothing], ns)
  BY <1>1 DEF Keeps, EntrySet
<1> HIDE DEF merged
<1>4. Rewrites(e, [Changed(e, merged) EXCEPT !.base = merged, !.disk = Nothing], ns)
  <2>1. PICK g : g = [Changed(e, merged) EXCEPT !.base = merged, !.disk = Nothing]
    OBVIOUS
  <2>2. g.state = "dirty" /\ g.armed /\ g.nonces = e.nonces
    BY <1>1, <2>1 DEF Changed, EntrySet
  <2> QED
    BY <1>1, <2>1, <2>2 DEF Rewrites
<1> QED
  BY <1>2, <1>3, <1>4 DEF External, MergeExternal, merged, Outcome

\* The echo of the saves in flight ends them, and what it brings is taken, merged or left.
LEMMA EchoedOutcome ==
  ASSUME NEW e, EntryOK(e, Nat), e.state \in {"dirty", "saving"}, NEW ns, e.nonces # {}, e.nonces \subseteq ns,
         NEW content \in Words(Nat)
  PROVE  Outcome(e, Echoed(e, e.nonces, content), ns, content)
<1> DEFINE merged == Merged(e.snaps[Oldest(e.nonces)], e.text, content)
           f == Forget(e, e.nonces)
<1>1. Known(f, Nat) /\ f.nonces = {} /\ f.state = e.state /\ f.text = e.text /\ f.armed = e.armed
  <2>1. Known(e, Nat)
    BY DEF EntryOK
  <2>2. PICK own : own = e.nonces
    OBVIOUS
  <2>3. /\ Known(Forget(e, own), Nat) /\ Forget(e, own).nonces = e.nonces \ own
        /\ Forget(e, own).state = e.state /\ Forget(e, own).disk = e.disk
    BY <2>1, ForgetFacts
  <2>4. /\ Forget(e, own).text = e.text /\ Forget(e, own).armed = e.armed
        /\ Forget(e, own).base = e.base
        /\ \A n \in Forget(e, own).nonces : Forget(e, own).snaps[n] = e.snaps[n]
    BY <2>1, ForgetRest
  <2> QED
    BY <2>2, <2>3, <2>4
<1>2. ~Superseded(e, ns) /\ f \in EntrySet(Nat)
  BY <1>1 DEF Superseded, Known
<1> HIDE DEF merged, f
<1>3. Settles(e, [f EXCEPT !.state = "clean", !.base = content, !.disk = Nothing], ns, content) \/ content # e.text
  BY <1>1, <1>2 DEF Settles, EntrySet
<1>4. Settles(e, [f EXCEPT !.state = "clean", !.text = content, !.base = content, !.disk = Nothing], ns, content)
  BY <1>1, <1>2 DEF Settles, EntrySet
<1>5. Leaves(e, [f EXCEPT !.base = content], ns, content) \/ e.state = "saving"
  BY <1>1, <1>2 DEF Leaves, EntrySet
<1>6. \/ Leaves(e, [f EXCEPT !.state = "dirty", !.base = content, !.disk = Nothing], ns, content)
      \/ content = e.text \/ merged # e.text
  <2>1. PICK g : g = [f EXCEPT !.state = "dirty", !.base = content, !.disk = Nothing]
    OBVIOUS
  <2>2. g.state = "dirty" /\ g.armed = e.armed /\ g.nonces = {}
    BY <1>1, <1>2, <2>1 DEF EntrySet
  <2> QED
    BY <1>2, <2>1, <2>2 DEF Leaves, merged
<1>7. Rewrites(e, [Changed(f, merged) EXCEPT !.base = merged, !.disk = Nothing], ns)
  <2>1. PICK g : g = [Changed(f, merged) EXCEPT !.base = merged, !.disk = Nothing]
    OBVIOUS
  <2>2. g.state = "dirty" /\ g.armed /\ g.nonces = {}
    BY <1>1, <1>2, <2>1 DEF Changed, EntrySet
  <2> QED
    BY <1>2, <2>1, <2>2 DEF Rewrites
<1>8. CASE content = e.text
  <2>1. CASE e.state = "saving"
    <3>1. Echoed(e, e.nonces, content) = [f EXCEPT !.state = "clean", !.base = content, !.disk = Nothing]
      BY <1>8, <2>1 DEF Echoed, f, merged
    <3> QED
      BY <1>3, <1>8, <3>1 DEF Outcome
  <2>2. CASE e.state = "dirty"
    <3>1. Echoed(e, e.nonces, content) = [f EXCEPT !.base = content]
      BY <1>8, <2>2 DEF Echoed, f, merged
    <3> QED
      BY <1>5, <2>2, <3>1 DEF Outcome
  <2> QED
    BY <2>1, <2>2
<1>9. CASE content # e.text
  <2>1. CASE merged = e.text
    <3>1. Echoed(e, e.nonces, content) = [f EXCEPT !.state = "dirty", !.base = content, !.disk = Nothing]
      BY <1>9, <2>1 DEF Echoed, f, merged
    <3> QED
      BY <1>6, <1>9, <2>1, <3>1 DEF Outcome
  <2>2. CASE merged # e.text /\ merged = content
    <3>1. Echoed(e, e.nonces, content)
            = [f EXCEPT !.state = "clean", !.text = content, !.base = content, !.disk = Nothing]
      BY <1>9, <2>2 DEF Echoed, f, merged
    <3> QED
      BY <1>4, <3>1 DEF Outcome
  <2>3. CASE merged # e.text /\ merged # content
    <3>1. Echoed(e, e.nonces, content) = [Changed(f, merged) EXCEPT !.base = merged, !.disk = Nothing]
      BY <1>9, <2>3 DEF Echoed, f, merged
    <3> QED
      BY <1>7, <3>1 DEF Outcome
  <2> QED
    BY <2>1, <2>2, <2>3
<1> QED
  BY <1>8, <1>9

\* What the report of a content makes of an editor.
LEMMA DiskChangeOutcome ==
  ASSUME NEW e, EntryOK(e, Nat), NEW ns, NEW content \in Words(Nat), e.state # "clean"
  PROVE  Outcome(e, HandleDiskChange(e, ns, content), ns, content)
<1> DEFINE own == ns \cap e.nonces
<1>0. Known(e, Nat) /\ e \in EntrySet(Nat)
  BY DEF EntryOK, Known
<1>1. CASE own # {} /\ own # e.nonces
  <2>1. HandleDiskChange(e, ns, content) = Forget(e, own)
    BY <1>1 DEF HandleDiskChange
  <2>2. Superseded(e, ns)
    BY <1>1 DEF Superseded
  <2>3. PICK s : s = own
    OBVIOUS
  <2>4. /\ Known(Forget(e, s), Nat) /\ Forget(e, s).nonces = e.nonces \ s
        /\ Forget(e, s).state = e.state /\ Forget(e, s).disk = e.disk
    BY <1>0, ForgetFacts
  <2>5. /\ Forget(e, s).text = e.text /\ Forget(e, s).armed = e.armed
        /\ Forget(e, s).base = e.base
        /\ \A n \in Forget(e, s).nonces : Forget(e, s).snaps[n] = e.snaps[n]
    BY <1>0, ForgetRest
  <2>6. e.nonces \ s = e.nonces \ ns
    BY <2>3
  <2>7. Passes(e, Forget(e, s), ns)
    BY <2>2, <2>4, <2>5, <2>6 DEF Passes
  <2> QED
    BY <2>1, <2>3, <2>7 DEF Outcome
<1>2. CASE own \in {{}, e.nonces} /\ e.state = "diverged"
  <2>1. HandleDiskChange(e, ns, content) = [e EXCEPT !.disk = content]
    BY <1>2 DEF HandleDiskChange
  <2>2. Conflicts(e, [e EXCEPT !.disk = content], ns, content)
    BY <1>0, <1>2 DEF Conflicts, EntrySet, Superseded
  <2> QED
    BY <2>1, <2>2 DEF Outcome
<1>3. CASE own = {} /\ e.state \in {"dirty", "saving"}
  <2>1. HandleDiskChange(e, ns, content) = External(e, content)
    BY <1>3 DEF HandleDiskChange
  <2> QED
    BY <1>3, <2>1, ExternalOutcome
<1>4. CASE own # {} /\ own = e.nonces /\ e.state \in {"dirty", "saving"}
  <2>1. HandleDiskChange(e, ns, content) = Echoed(e, e.nonces, content)
    BY <1>4 DEF HandleDiskChange
  <2>2. e.nonces # {} /\ e.nonces \subseteq ns
    BY <1>4
  <2> QED
    BY <1>4, <2>1, <2>2, EchoedOutcome
<1> QED
  BY <1>0, <1>1, <1>2, <1>3, <1>4 DEF EntrySet

\* A clean editor leaves what a report brings to the next render.
LEMMA CleanStays ==
  ASSUME NEW e, EntryOK(e, Nat), NEW ns, NEW content, e.state = "clean"
  PROVE  HandleDiskChange(e, ns, content) = e
<1>1. ns \cap e.nonces = {}
  BY DEF EntryOK
<1> QED
  BY <1>1 DEF HandleDiskChange

\* Nothing to forget.
LEMMA ForgetNothing ==
  ASSUME NEW e, EntryOK(e, Nat), NEW ns, e.state = "clean"
  PROVE  /\ Forget(e, ns).state = "clean" /\ Forget(e, ns).text = e.text /\ Forget(e, ns).base = e.base
         /\ Forget(e, ns).nonces = {} /\ Forget(e, ns).armed = e.armed
<1>1. Known(e, Nat) /\ e.nonces = {}
  BY DEF EntryOK
<1>2. /\ Known(Forget(e, ns), Nat) /\ Forget(e, ns).nonces = e.nonces \ ns
      /\ Forget(e, ns).state = e.state /\ Forget(e, ns).disk = e.disk
  BY <1>1, ForgetFacts
<1>3. /\ Forget(e, ns).text = e.text /\ Forget(e, ns).armed = e.armed
      /\ Forget(e, ns).base = e.base
      /\ \A n \in Forget(e, ns).nonces : Forget(e, ns).snaps[n] = e.snaps[n]
  BY <1>1, ForgetRest
<1> QED
  BY <1>1, <1>2, <1>3

-----------------------------------------------------------------------------
(* Saves from the request to the echo. *)

Elements(s) == {s[i] : i \in 1 .. Len(s)}
Sorted(s) == \A i, j \in 1 .. Len(s) : i < j => s[i].nonce < s[j].nonce

\* The elements of a sequence that grows or shrinks.
LEMMA ElementsAppend ==
  ASSUME NEW S, NEW s \in Seq(S), NEW e \in S
  PROVE  Elements(Append(s, e)) = Elements(s) \cup {e}
<1>1. /\ Len(Append(s, e)) = Len(s) + 1 /\ Len(s) \in Nat
      /\ \A i \in 1 .. Len(s) + 1 : Append(s, e)[i] = IF i = Len(s) + 1 THEN e ELSE s[i]
  OBVIOUS
<1> QED
  BY <1>1 DEF Elements

LEMMA ElementsTail ==
  ASSUME NEW S, NEW s \in Seq(S), s # <<>>
  PROVE  /\ Head(s) \in Elements(s) /\ Elements(Tail(s)) \subseteq Elements(s)
         /\ \A e \in Elements(s) : e = Head(s) \/ e \in Elements(Tail(s))
<1>1. /\ Len(s) \in Nat \ {0} /\ Head(s) = s[1] /\ Len(Tail(s)) = Len(s) - 1
      /\ \A i \in 1 .. Len(s) - 1 : Tail(s)[i] = s[i + 1]
  OBVIOUS
<1>2. ASSUME NEW i \in 1 .. Len(s) PROVE s[i] = Head(s) \/ s[i] \in Elements(Tail(s))
  <2>1. CASE i = 1
    BY <1>1, <2>1
  <2>2. CASE i # 1
    <3>1. i - 1 \in 1 .. Len(Tail(s)) /\ Tail(s)[i - 1] = s[i]
      BY <1>1, <2>2
    <3> QED
      BY <3>1 DEF Elements
  <2> QED
    BY <2>1, <2>2
<1>3. Head(s) \in Elements(s) /\ Elements(Tail(s)) \subseteq Elements(s)
  BY <1>1 DEF Elements
<1> QED
  BY <1>2, <1>3 DEF Elements

LEMMA SortedAppend ==
  ASSUME NEW S, NEW s \in Seq(S), NEW e \in S, Sorted(s), \A p \in Elements(s) : p.nonce < e.nonce
  PROVE  Sorted(Append(s, e))
<1>1. /\ Len(Append(s, e)) = Len(s) + 1 /\ Len(s) \in Nat
      /\ \A i \in 1 .. Len(s) + 1 : Append(s, e)[i] = IF i = Len(s) + 1 THEN e ELSE s[i]
  OBVIOUS
<1>2. \A i \in 1 .. Len(s) : s[i].nonce < e.nonce
  BY DEF Elements
<1> QED
  BY <1>1, <1>2 DEF Sorted

LEMMA SortedTail ==
  ASSUME NEW S, NEW s \in Seq(S), s # <<>>, Sorted(s)
  PROVE  Sorted(Tail(s)) /\ \A p \in Elements(Tail(s)) : Head(s).nonce < p.nonce
<1>1. /\ Len(s) \in Nat \ {0} /\ Head(s) = s[1] /\ Len(Tail(s)) = Len(s) - 1
      /\ \A i \in 1 .. Len(s) - 1 : Tail(s)[i] = s[i + 1]
  OBVIOUS
<1>2. \A i \in 1 .. Len(Tail(s)) : Head(s).nonce < Tail(s)[i].nonce
  BY <1>1 DEF Sorted
<1>3. Sorted(Tail(s))
  BY <1>1 DEF Sorted
<1> QED
  BY <1>2, <1>3 DEF Elements

Posted == {p.nonce : p \in Elements(posts)}
Answers == Elements(replies)

\* The saves of the report the window works on.
Carried == IF msgs # <<>> THEN msgs[1] ELSE IF fetches # <<>> THEN fetches[1].nonces ELSE {}

\* Saves no longer on their way to the server.
Earlier == {r.nonce : r \in Answers} \cup {n \in Saves : stash[n] # Nothing} \cup registered \cup Carried

\* A prompt window works on one report at a time.
Lone ==
  /\ msgs = <<>> \/ (Len(msgs) = 1 /\ fetches = <<>>)
  /\ fetches = <<>> \/ Len(fetches) = 1

\* Saves are handled and reported in their order.
InLine ==
  /\ Sorted(posts)
  /\ \A n \in used : \A m \in Saves \ used : n < m
  /\ Posted \cup Earlier \subseteq used
  /\ \A n \in Earlier : \A m \in Posted : n < m
  /\ \A n \in Carried : \A m \in registered : n < m

\* A write that failed is not reported.
Refused == \A r \in Answers : r.content = Nothing => r.nonce \notin registered \cup Carried

\* What is known of save n is what the file holds.
Wrote(n) == stash[n] \in {Nothing, disk} /\ \A r \in Answers : r.nonce = n => r.content = disk

Single(S) == \A m, n \in S : m = n

Owed == ~misled => (registered # {} => events > 0) /\ Single(Carried)

LastWrite == ~misled /\ ~other => \A n \in registered : Single(registered) => Wrote(n)

Echoes == ~misled => msgs = <<>> \/ events > 0 \/ \A n \in Carried : Wrote(n)

Reads == ~misled => fetches = <<>> \/ events > 0 \/ fetches[1].content \in {Nothing, disk}

OwnEcho ==
  ~misled /\ ~other /\ registered = {} /\ Carried # {} =>
    /\ \A n \in Carried : Wrote(n)
    /\ fetches = <<>> \/ fetches[1].content \in {Nothing, disk}

\* A change by someone else, on its way behind the echo of a save, is unlike all the window has seen.
Foreign == ~misled /\ other /\ Carried # {} => disk # data /\ disk # seen.data

Flow ==
  /\ Lone /\ InLine /\ Refused /\ IsFiniteSet(registered)
  /\ Owed /\ LastWrite /\ Echoes /\ Reads /\ OwnEcho /\ Foreign

\* A step that leaves file, server and wire alone.
LEMMA FlowSame ==
  ASSUME Flow, UNCHANGED <<disk, events, registered, posts, replies, stash, msgs, fetches, data, used, other, misled>>,
         UNCHANGED seen \/ seen'.data = data
  PROVE  Flow'
<1>1. Posted' = Posted /\ Answers' = Answers /\ Carried' = Carried
  BY DEF Posted, Answers, Carried
<1>2. Earlier' = Earlier
  BY <1>1 DEF Earlier
<1>3. \A n : Wrote(n)' <=> Wrote(n)
  BY <1>1 DEF Wrote
<1>4. Lone' /\ InLine' /\ Refused' /\ IsFiniteSet(registered')
  BY <1>1, <1>2 DEF Flow, Lone, InLine, Refused
<1>5. Owed' /\ LastWrite' /\ Echoes' /\ Reads' /\ OwnEcho'
  BY <1>1, <1>3 DEF Flow, Owed, LastWrite, Echoes, Reads, OwnEcho
<1>6. Foreign'
  BY <1>1 DEF Flow, Foreign
<1> QED
  BY <1>4, <1>5, <1>6 DEF Flow

\* A save is requested under the oldest nonce that is free, behind all others.
LEMMA SaveFacts ==
  ASSUME Parts(Nat), Flow, Save
  PROVE  \E n \in Saves :
           /\ used' = used \cup {n} /\ ed' = MarkSaving([ed EXCEPT !.armed = FALSE], n)
           /\ \A m \in used : m < n
           /\ \A m \in Saves \ used' : n < m
           /\ Posted' = Posted \cup {n} /\ Sorted(posts')
<1>1. PICK n : n = Oldest(Saves \ used)
  OBVIOUS
<1>2. Saves \ used # {} /\ Saves \ used \in SUBSET Saves /\ Saves \subseteq Nat
  BY EditorAssumption DEF Parts, FileOK, NonceSets, Save
<1>3. n \in Saves \ used
  BY <1>1, <1>2, OldestFacts
<1>4. \A m \in Saves \ used : n =< m
  <2>1. \E k \in Saves \ used : \A m \in Saves \ used : k =< m
    BY <1>2, Least
  <2> QED
    BY <1>1, <2>1 DEF Oldest
<1>5. /\ used' = used \cup {n} /\ ed' = MarkSaving([ed EXCEPT !.armed = FALSE], n)
      /\ \E format \in Formats :
           posts' = Append(posts, [nonce |-> n, content |-> ed.text, format |-> format])
  BY <1>1 DEF Save
<1>6. PICK format \in Formats :
        posts' = Append(posts, [nonce |-> n, content |-> ed.text, format |-> format])
  BY <1>5
<1>7. PICK post : post = [nonce |-> n, content |-> ed.text, format |-> format]
  OBVIOUS
<1>8. post \in Post(Nat) /\ posts \in Seq(Post(Nat)) /\ post.nonce = n
  BY <1>3, <1>6, <1>7, EditorAssumption DEF Parts, WireOK, EntryOK, Known, EntrySet, Post
<1>9. \A m \in used : m < n
  BY <1>3 DEF Flow, InLine
<1>10. \A m \in Saves \ used' : n < m
  <2>1. ASSUME NEW m \in Saves \ used, m # n PROVE n < m
    BY <1>2, <1>3, <1>4, <2>1
  <2> QED
    BY <1>5, <2>1
<1>11. Elements(posts') = Elements(posts) \cup {post}
  BY <1>6, <1>7, <1>8, ElementsAppend
<1>12. Posted' = Posted \cup {n}
  BY <1>8, <1>11 DEF Posted
<1>13. Sorted(posts')
  <2>1. \A p \in Elements(posts) : p.nonce < post.nonce
    BY <1>8, <1>9 DEF Flow, InLine, Posted
  <2> QED
    BY <1>6, <1>7, <1>8, <2>1, SortedAppend DEF Flow, InLine
<1> QED
  BY <1>3, <1>5, <1>9, <1>10, <1>12, <1>13

\* It changes nothing of what is reported.
LEMMA FlowSave ==
  ASSUME Parts(Nat), Flow, Save,
         UNCHANGED <<disk, events, registered, replies, stash, msgs, fetches, data, seen, other, misled>>
  PROVE  Flow'
<1>1. PICK n \in Saves :
        /\ used' = used \cup {n}
        /\ \A m \in used : m < n
        /\ \A m \in Saves \ used' : n < m
        /\ Posted' = Posted \cup {n} /\ Sorted(posts')
  BY SaveFacts
<1>2. Answers' = Answers /\ Carried' = Carried
  BY DEF Answers, Carried
<1>3. Earlier' = Earlier
  BY <1>2 DEF Earlier
<1>4. \A k : Wrote(k)' <=> Wrote(k)
  BY <1>2 DEF Wrote
<1>5. InLine'
  <2>1. \A k \in used' : \A m \in Saves \ used' : k < m
    BY <1>1 DEF Flow, InLine
  <2>2. \A k \in Earlier' : \A m \in Posted' : k < m
    BY <1>1, <1>3 DEF Flow, InLine
  <2> QED
    BY <1>1, <1>2, <1>3, <2>1, <2>2 DEF Flow, InLine
<1>6. Lone' /\ Refused' /\ IsFiniteSet(registered')
  BY <1>2 DEF Flow, Lone, Refused
<1>7. Owed' /\ LastWrite' /\ Echoes' /\ Reads' /\ OwnEcho'
  BY <1>2, <1>4 DEF Flow, Owed, LastWrite, Echoes, Reads, OwnEcho
<1>8. Foreign'
  BY <1>2 DEF Flow, Foreign
<1> QED
  BY <1>5, <1>6, <1>7, <1>8 DEF Flow

\* The next request leaves the line; all behind it are of later saves.
LEMMA NextPost ==
  ASSUME Parts(Nat), Flow, posts # <<>>, posts' = Tail(posts)
  PROVE  /\ Head(posts) \in Post(Nat) /\ Head(posts).nonce \in Posted /\ Sorted(posts')
         /\ Posted' \subseteq Posted
         /\ Posted \subseteq Posted' \cup {Head(posts).nonce}
         /\ \A m \in Posted' : Head(posts).nonce < m
<1>1. posts \in Seq(Post(Nat)) /\ Sorted(posts)
  BY DEF Parts, WireOK, Flow, InLine
<1>2. /\ Head(posts) \in Elements(posts) /\ Elements(posts') \subseteq Elements(posts)
      /\ \A e \in Elements(posts) : e = Head(posts) \/ e \in Elements(Tail(posts))
  BY <1>1, ElementsTail
<1>3. Sorted(posts') /\ \A p \in Elements(posts') : Head(posts).nonce < p.nonce
  BY <1>1, SortedTail
<1>4. Head(posts) \in Post(Nat)
  BY <1>1
<1> QED
  BY <1>2, <1>3, <1>4 DEF Posted

\* One more answer.
LEMMA OneAnswer ==
  ASSUME Parts(Nat), NEW r \in Response(Nat), replies' = Append(replies, r)
  PROVE  Answers' = Answers \cup {r}
<1>1. replies \in Seq(Response(Nat))
  BY DEF Parts, WireOK
<1> QED
  BY <1>1, ElementsAppend DEF Answers

\* Its answer is the first of its save.
LEMMA NewAnswer ==
  ASSUME Parts(Nat), Flow, NEW n \in Posted, NEW r \in Response(Nat), r.nonce = n, Answers' = Answers \cup {r},
         UNCHANGED <<stash, disk>>
  PROVE  /\ n \in Saves /\ n \notin registered /\ n \notin Carried /\ stash[n] = Nothing
         /\ \A a \in Answers : a.nonce # n
         /\ \A k \in registered \cup Carried : Wrote(k) => Wrote(k)'
<1>1. n \in Saves /\ Saves \subseteq Nat
  BY EditorAssumption DEF Response
<1>2. \A k \in Earlier : k < n
  BY DEF Flow, InLine
<1>3. n \notin Earlier
  BY <1>1, <1>2
<1> QED
  BY <1>1, <1>3 DEF Earlier, Wrote

\* The server writes the content of the next request.
LEMMA FlowWrite ==
  ASSUME Parts(Nat), Flow, HandleWrite
  PROVE  Flow'
<1> DEFINE post == Head(posts)
           content == IF post.format THEN Formatted(post.content) ELSE post.content
           r == [nonce |-> post.nonce, content |-> content]
<1>1. /\ posts # <<>> /\ posts' = Tail(posts)
      /\ disk' = content /\ events' \in Reports /\ registered' = registered \cup {post.nonce}
      /\ replies' = Append(replies, r) /\ other' = FALSE
      /\ UNCHANGED <<stash, msgs, fetches, data, seen, ed, used, misled>>
  BY DEF HandleWrite, Written
<1>2. /\ post \in Post(Nat) /\ post.nonce \in Posted /\ Sorted(posts')
      /\ Posted' \subseteq Posted
      /\ \A m \in Posted' : post.nonce < m
  BY <1>1, NextPost
<1>3. content \in Words(Nat) /\ content # Nothing
  <2>1. Sound(Nat)
    BY DEF Sound
  <2> QED
    BY <1>2, <2>1, ContentFacts, NoText DEF Post
<1>4. r \in Response(Nat) /\ r.nonce = post.nonce /\ r.content = content
  BY <1>2, <1>3 DEF Response, Post, WordsOrNothing
<1> HIDE DEF post, content, r
<1>5. Answers' = Answers \cup {r}
  BY <1>1, <1>4, OneAnswer
<1>6. PICK n : n = post.nonce
  OBVIOUS
<1>7. n \in Saves /\ n \notin registered /\ n \notin Carried /\ stash[n] = Nothing /\ \A a \in Answers : a.nonce # n
  <2>1. n \in Saves /\ Saves \subseteq Nat
    BY <1>2, <1>6, EditorAssumption DEF Post
  <2>2. \A k \in Earlier : k < n
    BY <1>2, <1>6 DEF Flow, InLine
  <2>3. n \notin Earlier
    BY <2>1, <2>2
  <2> QED
    BY <2>1, <2>3 DEF Earlier
<1>8. Carried' = Carried /\ events' > 0
  BY <1>1, EditorAssumption DEF Carried
<1>9. InLine'
  <2>1. Earlier' = Earlier \cup {n}
    BY <1>1, <1>4, <1>5, <1>6, <1>8 DEF Earlier
  <2>2. n \in used /\ \A k \in Carried : k < n
    BY <1>2, <1>6 DEF Flow, InLine, Earlier
  <2>3. \A k \in Carried' : \A m \in registered' : k < m
    BY <1>1, <1>6, <1>8, <2>2 DEF Flow, InLine
  <2>4. \A k \in Earlier' : \A m \in Posted' : k < m
    BY <1>2, <1>6, <2>1 DEF Flow, InLine
  <2>5. Posted' \cup Earlier' \subseteq used
    BY <1>2, <2>1, <2>2 DEF Flow, InLine
  <2> QED
    BY <1>1, <1>2, <2>3, <2>4, <2>5 DEF Flow, InLine
<1>10. Refused'
  BY <1>1, <1>3, <1>4, <1>5, <1>6, <1>7, <1>8 DEF Flow, Refused
<1>11. IsFiniteSet(registered')
  BY <1>1, FS_AddElement DEF Flow
<1>12. LastWrite'
  <2>1. Wrote(n)'
    BY <1>1, <1>4, <1>5, <1>7 DEF Wrote
  <2>2. \A k \in registered' : Single(registered)' => k = n
    BY <1>1, <1>6 DEF Single
  <2> QED
    BY <2>1, <2>2 DEF LastWrite
<1>13. Lone' /\ Owed' /\ Echoes' /\ Reads' /\ OwnEcho' /\ Foreign'
  BY <1>1, <1>8 DEF Flow, Lone, Owed, Echoes, Reads, OwnEcho, Foreign
<1> QED
  BY <1>9, <1>10, <1>11, <1>12, <1>13 DEF Flow

\* The server answers the next request with an error.
LEMMA FlowFail ==
  ASSUME Parts(Nat), Flow, FailWrite
  PROVE  Flow'
<1> DEFINE r == [nonce |-> Head(posts).nonce, content |-> Nothing]
<1>1. /\ posts # <<>> /\ posts' = Tail(posts) /\ replies' = Append(replies, r)
      /\ UNCHANGED <<disk, events, registered, stash, msgs, fetches, data, seen, used, other, misled>>
  BY DEF FailWrite
<1>2. /\ Head(posts) \in Post(Nat) /\ Head(posts).nonce \in Posted /\ Sorted(posts')
      /\ Posted' \subseteq Posted
      /\ \A m \in Posted' : Head(posts).nonce < m
  BY <1>1, NextPost
<1>3. PICK n : n = Head(posts).nonce
  OBVIOUS
<1>4. r \in Response(Nat) /\ r.nonce = n
  BY <1>2, <1>3 DEF Response, Post, WordsOrNothing
<1> HIDE DEF r
<1>5. Answers' = Answers \cup {r}
  BY <1>1, <1>4, OneAnswer
<1>6. /\ n \in Saves /\ n \notin registered /\ n \notin Carried
      /\ \A k \in registered \cup Carried : Wrote(k) => Wrote(k)'
  <2>1. n \in Posted /\ UNCHANGED <<stash, disk>>
    BY <1>1, <1>2, <1>3
  <2>2. /\ n \in Saves /\ n \notin registered /\ n \notin Carried /\ stash[n] = Nothing
        /\ \A a \in Answers : a.nonce # n
        /\ \A k \in registered \cup Carried : Wrote(k) => Wrote(k)'
    BY <1>4, <1>5, <2>1, NewAnswer
  <2> QED
    BY <2>2
<1>7. Carried' = Carried
  BY <1>1 DEF Carried
<1>8. InLine'
  <2>1. Earlier' = Earlier \cup {n}
    BY <1>1, <1>4, <1>5, <1>7 DEF Earlier
  <2>2. Posted' \cup Earlier' \subseteq used
    BY <1>2, <1>3, <2>1 DEF Flow, InLine
  <2>3. \A k \in Earlier' : \A m \in Posted' : k < m
    BY <1>2, <1>3, <2>1 DEF Flow, InLine
  <2> QED
    BY <1>1, <1>2, <1>7, <2>2, <2>3 DEF Flow, InLine
<1>9. Refused'
  BY <1>1, <1>4, <1>5, <1>6, <1>7 DEF Flow, Refused
<1>10. Lone' /\ IsFiniteSet(registered') /\ Owed' /\ Reads' /\ Foreign'
  BY <1>1, <1>7 DEF Flow, Lone, Owed, Reads, Foreign
<1>11. LastWrite' /\ Echoes' /\ OwnEcho'
  BY <1>1, <1>6, <1>7 DEF Flow, LastWrite, Echoes, OwnEcho
<1> QED
  BY <1>8, <1>9, <1>10, <1>11 DEF Flow

\* A change by someone else is unlike everything seen so far.
LEMMA FlowExternal ==
  ASSUME Parts(Numbers), Flow, ExternalWrite
  PROVE  Flow'
<1>1. PICK r \in Regions : disk' = [disk EXCEPT ![r] = 2 * (Edits + 1) + 1]
  BY DEF ExternalWrite, Written
<1>2. /\ events' \in Reports /\ other' = TRUE
      /\ UNCHANGED <<registered, posts, replies, stash, msgs, fetches, data, seen, used, misled>>
  BY DEF ExternalWrite, Written, wire
<1>3. disk' # data /\ disk' # seen.data
  <2>1. Edits \in Nat
    BY DEF Parts, CountOK, Edits
  <2>2. ASSUME NEW content \in Words(Numbers) PROVE disk' # content
    <3>1. content[r] \in Numbers
      BY DEF Words
    <3>2. content[r] # 2 * (Edits + 1) + 1
      BY <2>1, <3>1 DEF Numbers
    <3>3. disk'[r] = 2 * (Edits + 1) + 1
      BY <1>1 DEF Parts, FileOK, Words
    <3> QED
      BY <3>2, <3>3
  <2> QED
    BY <2>2 DEF Parts, FileOK
<1>4. Posted' = Posted /\ Answers' = Answers /\ Carried' = Carried /\ events' > 0
  BY <1>2, EditorAssumption DEF Posted, Answers, Carried
<1>5. Earlier' = Earlier
  BY <1>2, <1>4 DEF Earlier
<1>6. Lone' /\ InLine' /\ Refused' /\ IsFiniteSet(registered')
  BY <1>2, <1>4, <1>5 DEF Flow, Lone, InLine, Refused
<1>7. Owed' /\ LastWrite' /\ Echoes' /\ Reads' /\ OwnEcho' /\ Foreign'
  BY <1>2, <1>3, <1>4 DEF Flow, Owed, LastWrite, Echoes, Reads, OwnEcho, Foreign
<1> QED
  BY <1>6, <1>7 DEF Flow

\* Sets with two elements count more than one.
LEMMA AtMostOne ==
  ASSUME NEW S, IsFiniteSet(S), ~ (Cardinality(S) > 1)
  PROVE  Single(S)
<1> SUFFICES ASSUME NEW m \in S, NEW n \in S, m # n PROVE FALSE
  BY DEF Single
<1>1. IsFiniteSet({m}) /\ Cardinality({m}) = 1
  BY FS_Singleton
<1>2. IsFiniteSet({m} \cup {n}) /\ Cardinality({m} \cup {n}) = 2
  <2>1. PICK T : T = {m}
    OBVIOUS
  <2>2. /\ IsFiniteSet(T \cup {n})
        /\ Cardinality(T \cup {n}) = IF n \in T THEN Cardinality(T) ELSE Cardinality(T) + 1
    BY <1>1, <2>1, FS_AddElement
  <2> QED
    BY <1>1, <2>1, <2>2
<1>3. Cardinality({m} \cup {n}) =< Cardinality(S) /\ Cardinality(S) \in Nat
  BY <1>2, FS_Subset, FS_CardinalityType
<1> QED
  BY <1>2, <1>3

\* The watcher tells a prompt window of what was registered.
LEMMA FlowReport ==
  ASSUME Prompt, Parts(Nat), Flow, Report
  PROVE  Flow'
<1>1. /\ events > 0 /\ msgs = <<>> /\ fetches = <<>> /\ events' = events - 1
      /\ msgs' = Append(msgs, registered) /\ registered' = {}
      /\ misled' = (misled \/ (registered # {} /\ (other \/ Cardinality(registered) > 1)))
      /\ UNCHANGED <<disk, posts, replies, stash, fetches, data, seen, ed, used, other>>
  BY DEF Report
<1>2. msgs' # <<>> /\ Len(msgs') = 1 /\ msgs'[1] = registered
  BY <1>1
<1>3. Carried' = registered /\ Carried = {}
  BY <1>1, <1>2 DEF Carried
<1>4. Posted' = Posted /\ Answers' = Answers
  BY <1>1 DEF Posted, Answers
<1>5. \A k : Wrote(k)' <=> Wrote(k)
  BY <1>1, <1>4 DEF Wrote
<1>6. ~misled' => ~misled /\ (registered # {} => ~other) /\ Single(registered)
  <2>1. CASE registered = {}
    BY <1>1, <2>1 DEF Single
  <2>2. CASE registered # {}
    BY <1>1, <2>2, AtMostOne DEF Flow
  <2> QED
    BY <2>1, <2>2
<1>7. ~misled' => \A n \in registered : Wrote(n)
  BY <1>6 DEF Flow, LastWrite
<1>8. InLine'
  <2>1. Earlier' = Earlier
    BY <1>1, <1>3, <1>4 DEF Earlier
  <2> QED
    BY <1>1, <1>4, <2>1 DEF Flow, InLine
<1>9. Lone' /\ Refused' /\ IsFiniteSet(registered')
  BY <1>1, <1>2, <1>3, <1>4, FS_EmptySet DEF Flow, Lone, Refused
<1>10. Owed' /\ LastWrite' /\ Reads' /\ Foreign'
  BY <1>1, <1>3, <1>6 DEF Flow, Owed, LastWrite, Reads, Foreign
<1>11. Echoes' /\ OwnEcho'
  BY <1>1, <1>3, <1>5, <1>7 DEF Echoes, OwnEcho
<1> QED
  BY <1>8, <1>9, <1>10, <1>11 DEF Flow

\* A report that is lost misleads.
LEMMA FlowLose ==
  ASSUME Flow, LoseEvent
  PROVE  Flow'
<1>1. misled' = TRUE /\ UNCHANGED <<disk, registered, posts, replies, stash, msgs, fetches, data, seen, used, other>>
  BY DEF LoseEvent, wire
<1>2. Posted' = Posted /\ Answers' = Answers /\ Carried' = Carried
  BY <1>1 DEF Posted, Answers, Carried
<1>3. Earlier' = Earlier
  BY <1>1, <1>2 DEF Earlier
<1>4. Lone' /\ InLine' /\ Refused' /\ IsFiniteSet(registered')
  BY <1>1, <1>2, <1>3 DEF Flow, Lone, InLine, Refused
<1>5. Owed' /\ LastWrite' /\ Echoes' /\ Reads' /\ OwnEcho' /\ Foreign'
  BY <1>1 DEF Owed, LastWrite, Echoes, Reads, OwnEcho, Foreign
<1> QED
  BY <1>4, <1>5 DEF Flow

\* Nonces are forgotten only where a report was lost.
LEMMA FlowExpire ==
  ASSUME Parts(Nat), Flow, Expire
  PROVE  Flow' /\ misled /\ misled'
<1>1. /\ events = 0 /\ registered # {} /\ registered' = {}
      /\ UNCHANGED <<disk, events, posts, replies, stash, msgs, fetches, data, seen, used, other, misled>>
  BY DEF Expire, wire
<1>2. misled /\ misled'
  BY <1>1 DEF Flow, Owed
<1>3. Posted' = Posted /\ Answers' = Answers /\ Carried' = Carried
  BY <1>1 DEF Posted, Answers, Carried
<1>4. Earlier' \subseteq Earlier
  BY <1>1, <1>3 DEF Earlier
<1>5. Lone' /\ InLine' /\ Refused' /\ IsFiniteSet(registered')
  BY <1>1, <1>3, <1>4, FS_EmptySet DEF Flow, Lone, InLine, Refused
<1>6. Owed' /\ LastWrite' /\ Echoes' /\ Reads' /\ OwnEcho' /\ Foreign'
  BY <1>2 DEF Owed, LastWrite, Echoes, Reads, OwnEcho, Foreign
<1> QED
  BY <1>2, <1>5, <1>6 DEF Flow

\* A sequence of one element.
LEMMA OneElement ==
  ASSUME NEW S, NEW s \in Seq(S), Len(s) = 1
  PROVE  Head(s) = s[1] /\ s[1] \in S /\ Tail(s) = <<>>
<1>1. Head(s) = s[1] /\ s[1] \in S
  OBVIOUS
<1>2. Tail(s) \in Seq(S) /\ Len(Tail(s)) = 0
  OBVIOUS
<1> QED
  BY <1>1, <1>2, EmptySeq

\* What a prompt window works on is all there is.
LEMMA OneRead ==
  ASSUME Parts(Nat), Lone, fetches # <<>>
  PROVE  /\ Len(fetches) = 1 /\ Head(fetches) = fetches[1] /\ fetches[1] \in Fetch(Nat)
         /\ Tail(fetches) = <<>> /\ msgs = <<>> /\ Carried = fetches[1].nonces
<1>1. fetches \in Seq(Fetch(Nat)) /\ Len(fetches) = 1 /\ msgs = <<>>
  BY DEF Parts, WireOK, Lone
<1>2. Head(fetches) = fetches[1] /\ fetches[1] \in Fetch(Nat) /\ Tail(fetches) = <<>>
  BY <1>1, OneElement
<1> QED
  BY <1>1, <1>2 DEF Carried

LEMMA OneMessage ==
  ASSUME Parts(Nat), Lone, msgs # <<>>
  PROVE  /\ Head(msgs) = msgs[1] /\ msgs[1] \in SUBSET Saves
         /\ Tail(msgs) = <<>> /\ fetches = <<>> /\ Carried = Head(msgs)
<1>1. msgs \in Seq(NonceSets) /\ Len(msgs) = 1 /\ fetches = <<>>
  BY DEF Parts, WireOK, Lone
<1>2. Head(msgs) = msgs[1] /\ msgs[1] \in NonceSets /\ Tail(msgs) = <<>>
  BY <1>1, OneElement
<1> QED
  BY <1>1, <1>2 DEF Carried, NonceSets

\* The server answers a read with what the file holds.
LEMMA FlowRead ==
  ASSUME Parts(Nat), Flow, Read
  PROVE  Flow' /\ fetches' # <<>> /\ fetches'[1].content = disk
         /\ fetches # <<>> /\ Carried' = Carried /\ fetches'[1].kind = fetches[1].kind
<1>1. PICK i \in 1 .. Len(fetches) :
        /\ fetches' = [fetches EXCEPT ![i].content = disk]
        /\ UNCHANGED <<disk, events, registered, posts, replies, stash, msgs, data, seen, ed, used,
                       counters, unsent, failed, other, misled>>
  BY DEF Read
<1>2. fetches # <<>> /\ fetches \in Seq(Fetch(Nat))
  BY <1>1 DEF Parts, WireOK
<1>3. /\ Len(fetches) = 1 /\ Head(fetches) = fetches[1] /\ fetches[1] \in Fetch(Nat)
      /\ Tail(fetches) = <<>> /\ msgs = <<>> /\ Carried = fetches[1].nonces
  BY <1>2, OneRead DEF Flow
<1>4. i = 1
  BY <1>3
<1>5. Len(fetches') = 1 /\ fetches' # <<>> /\ fetches'[1] = [fetches[1] EXCEPT !.content = disk]
  BY <1>1, <1>2, <1>3, <1>4
<1>6. /\ fetches'[1].content = disk /\ fetches'[1].nonces = fetches[1].nonces
      /\ fetches'[1].kind = fetches[1].kind
  BY <1>3, <1>5 DEF Fetch
<1>7. Carried' = Carried /\ Posted' = Posted /\ Answers' = Answers
  BY <1>1, <1>3, <1>5, <1>6 DEF Carried, Posted, Answers
<1>8. Earlier' = Earlier
  BY <1>1, <1>7 DEF Earlier
<1>9. \A k : Wrote(k)' <=> Wrote(k)
  BY <1>1, <1>7 DEF Wrote
<1>10. Lone' /\ InLine' /\ Refused' /\ IsFiniteSet(registered')
  BY <1>1, <1>3, <1>5, <1>7, <1>8 DEF Flow, Lone, InLine, Refused
<1>11. Owed' /\ LastWrite' /\ Echoes' /\ Reads'
  BY <1>1, <1>6, <1>7, <1>9 DEF Flow, Owed, LastWrite, Echoes, Reads
<1>12. OwnEcho'
  BY <1>1, <1>6, <1>7, <1>9 DEF Flow, OwnEcho
<1>13. Foreign'
  BY <1>1, <1>7 DEF Flow, Foreign
<1> QED
  BY <1>2, <1>5, <1>6, <1>7, <1>10, <1>11, <1>12, <1>13 DEF Flow

\* An answer is kept for the echo.
LEMMA FlowReply ==
  ASSUME Parts(Nat), Flow, Reply
  PROVE  /\ Flow' /\ Carried' = Carried
         /\ \/ ed' = ed /\ failed' = failed
            \/ /\ failed' = TRUE
               /\ \E n \in Saves \ (Posted \cup registered) : ed' = HandleSaveError(ed, n)
<1> DEFINE r == Head(replies)
<1>1. /\ replies # <<>> /\ replies' = Tail(replies)
      /\ \/ /\ r.content # Nothing /\ stash' = [stash EXCEPT ![r.nonce] = r.content]
            /\ ed' = ed /\ failed' = failed
         \/ /\ r.content = Nothing /\ stash' = stash
            /\ ed' = HandleSaveError(ed, r.nonce) /\ failed' = TRUE
      /\ UNCHANGED <<disk, events, registered, posts, msgs, fetches, data, seen, used, other, misled>>
  BY DEF Reply
<1>2. replies \in Seq(Response(Nat)) /\ stash \in [Saves -> WordsOrNothing(Nat)]
  BY DEF Parts, WireOK
<1>3. r \in Answers /\ Answers' \subseteq Answers /\ r \in Response(Nat)
  <2>1. r \in Response(Nat)
    BY <1>1, <1>2
  <2> QED
    BY <1>1, <1>2, <2>1, ElementsTail DEF Answers
<1> HIDE DEF r
<1>4. r.nonce \in Saves
  BY <1>3 DEF Response
<1>5. Posted' = Posted /\ Carried' = Carried
  BY <1>1 DEF Posted, Carried
<1>6. \A k \in Saves : Wrote(k) => Wrote(k)'
  <2>1. \A k \in Saves : stash'[k] = stash[k] \/ (k = r.nonce /\ stash'[k] = r.content)
    BY <1>1, <1>2, <1>4
  <2> QED
    BY <1>1, <1>3, <2>1 DEF Wrote
<1>7. Earlier' \subseteq Earlier
  <2>1. \A k \in Saves : stash'[k] = stash[k] \/ k = r.nonce
    BY <1>1, <1>2, <1>4
  <2> QED
    BY <1>1, <1>3, <1>5, <2>1 DEF Earlier
<1>8. registered \subseteq Saves /\ Carried \subseteq Saves
  <2>1. registered \subseteq Saves /\ used \subseteq Saves
    BY DEF Parts, FileOK, NonceSets
  <2> QED
    BY <2>1 DEF Flow, InLine, Earlier
<1>9. Lone' /\ InLine' /\ Refused' /\ IsFiniteSet(registered')
  BY <1>1, <1>3, <1>5, <1>7 DEF Flow, Lone, InLine, Refused
<1>10. Owed' /\ Reads' /\ Foreign'
  BY <1>1, <1>5 DEF Flow, Owed, Reads, Foreign
<1>11. LastWrite' /\ Echoes' /\ OwnEcho'
  BY <1>1, <1>5, <1>6, <1>8 DEF Flow, LastWrite, Echoes, OwnEcho
<1>12. r.content = Nothing => r.nonce \in Saves \ (Posted \cup registered)
  <2>1. r.nonce \in Earlier
    BY <1>3 DEF Earlier
  <2>2. r.nonce \notin Posted
    <3>1. \A k \in Posted : r.nonce < k
      BY <2>1 DEF Flow, InLine
    <3>2. r.nonce \in Nat
      BY <1>4, EditorAssumption
    <3>3. ~ (r.nonce < r.nonce)
      BY <3>2
    <3> QED
      BY <3>1, <3>3, Zenon
  <2> QED
    BY <1>3, <1>4, <2>2 DEF Flow, Refused
<1> QED
  BY <1>1, <1>5, <1>9, <1>10, <1>11, <1>12 DEF Flow

\* The window takes the next message: it has the content of one of its saves, or reads the file.
Uses(content) ==
  /\ fetches' = <<>> /\ content \in Words(Nat)
  /\ \E n \in Carried : stash[n] = content
  /\ IF ed.state = "clean"
     THEN ed' = Forget(ed, Carried \cap ed.nonces) /\ data' = content /\ misled' = misled
     ELSE /\ ed' = HandleDiskChange(ed, Carried, content)
          /\ data' = (IF Superseded(ed, Carried) THEN data ELSE content)
          /\ misled' = (misled \/ PassedOver(Carried))

Asks(kind) ==
  /\ fetches' # <<>> /\ Len(fetches') = 1 /\ fetches'[1].content = Nothing /\ fetches'[1].kind = kind
  /\ fetches'[1].nonces = (IF kind = "open" THEN Carried ELSE {})
  /\ data' = data /\ misled' = misled
  /\ IF kind = "query"
     THEN ed.state = "clean" /\ ed' = Forget(ed, Carried \cap ed.nonces)
     ELSE ed.state # "clean" /\ ed' = ed

LEMMA DeliverFacts ==
  ASSUME Parts(Nat), Flow, Deliver
  PROVE  /\ msgs # <<>> /\ msgs' = <<>> /\ fetches = <<>>
         /\ UNCHANGED <<disk, events, registered, posts, replies, stash, seen, used, failed, other>>
         /\ (\E content : Uses(content)) \/ Asks("query") \/ Asks("open")
<1> DEFINE nonces == Head(msgs)
           own == {n \in nonces : stash[n] # Nothing}
<1>1. msgs # <<>> /\ msgs' = Tail(msgs)
      /\ UNCHANGED <<disk, events, registered, posts, replies, stash, seen, used, failed, other>>
  BY DEF Deliver
<1>2. /\ Head(msgs) = msgs[1] /\ msgs[1] \in SUBSET Saves
      /\ Tail(msgs) = <<>> /\ fetches = <<>> /\ Carried = Head(msgs)
  BY <1>1, OneMessage DEF Flow
<1>3. CASE /\ own # {} /\ fetches' = fetches
           /\ IF ed.state = "clean"
              THEN /\ ed' = Forget(ed, nonces \cap ed.nonces) /\ data' = stash[Oldest(own)]
                   /\ misled' = misled
              ELSE /\ ed' = HandleDiskChange(ed, nonces, stash[Oldest(own)])
                   /\ data' = (IF Superseded(ed, nonces) THEN data ELSE stash[Oldest(own)])
                   /\ misled' = (misled \/ PassedOver(nonces))
  <2>1. Oldest(own) \in own
    BY <1>2, <1>3, OldestFacts
  <2>2. PICK content : content = stash[Oldest(own)]
    OBVIOUS
  <2>3. content \in Words(Nat) /\ \E n \in Carried : stash[n] = content
    BY <1>2, <2>1, <2>2 DEF Parts, WireOK, WordsOrNothing
  <2>4. Uses(content)
    BY <1>2, <1>3, <2>2, <2>3 DEF Uses
  <2> QED
    BY <1>1, <1>2, <2>4
<1>4. CASE /\ ed.state = "clean" /\ ed' = Forget(ed, nonces \cap ed.nonces) /\ fetches' = Refetch
           /\ data' = data /\ misled' = misled
  <2>1. fetches' = <<[kind |-> "query", nonces |-> {}, content |-> Nothing]>>
    <3>1. ~ (\E i \in 1 .. Len(fetches) : IsQuery(fetches[i]))
      BY <1>2
    <3>2. WithoutQuery(fetches) = fetches
      BY <3>1, Zenon DEF WithoutQuery
    <3>3. Refetch = Append(fetches, [kind |-> "query", nonces |-> {}, content |-> Nothing])
      BY <3>2, Zenon DEF Refetch
    <3> QED
      BY <1>2, <1>4, <3>3
  <2>2. Asks("query")
    BY <1>2, <1>4, <2>1 DEF Asks
  <2> QED
    BY <1>1, <1>2, <2>2
<1>5. CASE /\ ed.state # "clean" /\ ed' = ed
           /\ fetches' = Append(fetches, [kind |-> "open", nonces |-> nonces, content |-> Nothing])
           /\ data' = data /\ misled' = misled
  <2>1. fetches' = <<[kind |-> "open", nonces |-> nonces, content |-> Nothing]>>
    BY <1>2, <1>5
  <2>2. Asks("open")
    BY <1>2, <1>5, <2>1 DEF Asks
  <2> QED
    BY <1>1, <1>2, <2>2
<1> QED
  BY <1>3, <1>4, <1>5 DEF Deliver

\* The window is done with what it was told, or waits for the file.
LEMMA FlowDeliver ==
  ASSUME Parts(Nat), Flow, Deliver
  PROVE  Flow'
<1>1. /\ msgs # <<>> /\ msgs' = <<>> /\ fetches = <<>>
      /\ UNCHANGED <<disk, events, registered, posts, replies, stash, seen, used, failed, other>>
      /\ (\E content : Uses(content)) \/ Asks("query") \/ Asks("open")
  BY DeliverFacts
<1>2. Lone' /\ (misled => misled')
  <2>1. fetches' = <<>> \/ Len(fetches') = 1
    BY <1>1 DEF Uses, Asks
  <2>2. misled => misled'
    <3>1. CASE \E content : Uses(content)
      <4>1. PICK content : Uses(content)
        BY <3>1
      <4>2. misled' = misled \/ misled' = (misled \/ PassedOver(Carried))
        BY <4>1, Zenon DEF Uses
      <4> QED
        BY <4>2
    <3>2. CASE Asks("query") \/ Asks("open")
      BY <3>2 DEF Asks
    <3> QED
      BY <1>1, <3>1, <3>2
  <2> QED
    BY <1>1, <2>1, <2>2 DEF Lone
<1>3. (Carried' = Carried /\ data' = data) \/ Carried' = {}
  BY <1>1 DEF Uses, Asks, Carried
<1>4. fetches' = <<>> \/ fetches'[1].content = Nothing
  BY <1>1 DEF Uses, Asks
<1>5. Posted' = Posted /\ Answers' = Answers
  BY <1>1 DEF Posted, Answers
<1>6. \A k : Wrote(k)' <=> Wrote(k)
  BY <1>1, <1>5 DEF Wrote
<1>7. Earlier' \subseteq Earlier
  BY <1>1, <1>3, <1>5 DEF Earlier
<1>8. InLine'
  BY <1>1, <1>3, <1>5, <1>7 DEF Flow, InLine
<1>9. Refused' /\ IsFiniteSet(registered')
  BY <1>1, <1>3, <1>5 DEF Flow, Refused
<1>10. Owed' /\ LastWrite'
  BY <1>1, <1>2, <1>3, <1>6 DEF Flow, Owed, LastWrite, Single
<1>11. Echoes' /\ Reads'
  BY <1>1, <1>4 DEF Echoes, Reads
<1>12. OwnEcho'
  BY <1>1, <1>2, <1>3, <1>4, <1>6 DEF Flow, OwnEcho
<1>13. Foreign'
  BY <1>1, <1>2, <1>3 DEF Flow, Foreign
<1> QED
  BY <1>2, <1>8, <1>9, <1>10, <1>11, <1>12, <1>13 DEF Flow

\* What was read arrives, in the cache or through the state machine.
LEMMA LandFacts ==
  ASSUME Parts(Nat), Flow, Land
  PROVE  /\ fetches # <<>> /\ fetches' = <<>> /\ msgs = <<>> /\ msgs' = <<>>
         /\ UNCHANGED <<disk, events, registered, posts, replies, stash, seen, used, failed, other>>
         /\ \E content \in Words(Nat) :
              /\ fetches[1].content = content /\ data' = content
              /\ IF fetches[1].kind = "query"
                 THEN ed' = ed /\ misled' = misled
                 ELSE /\ ed' = HandleDiskChange(ed, Carried, content)
                      /\ misled' = (misled \/ PassedOver(Carried))
<1> DEFINE f == Head(fetches)
<1>1. /\ fetches # <<>> /\ f.content # Nothing /\ data' = f.content
      /\ IF IsQuery(f)
         THEN fetches' = Tail(fetches) /\ ed' = ed /\ misled' = misled
         ELSE /\ ed' = HandleDiskChange(ed, f.nonces, f.content)
              /\ fetches' = WithoutQuery(Tail(fetches))
              /\ misled' = (misled \/ PassedOver(f.nonces))
      /\ UNCHANGED <<disk, events, registered, posts, replies, stash, msgs, seen, used, failed, other>>
  BY DEF Land
<1>2. /\ Len(fetches) = 1 /\ f = fetches[1] /\ fetches[1] \in Fetch(Nat)
      /\ Tail(fetches) = <<>> /\ msgs = <<>> /\ Carried = fetches[1].nonces
  BY <1>1, OneRead DEF Flow
<1> HIDE DEF f
<1>3. WithoutQuery(Tail(fetches)) = <<>>
  <2>1. ~ (\E i \in 1 .. Len(Tail(fetches)) : IsQuery(Tail(fetches)[i]))
    BY <1>2
  <2> QED
    BY <1>2, <2>1, Zenon DEF WithoutQuery
<1>4. PICK content : content = f.content
  OBVIOUS
<1>5. content \in Words(Nat)
  BY <1>1, <1>2, <1>4 DEF Fetch, WordsOrNothing
<1>6. fetches' = <<>>
  BY <1>1, <1>2, <1>3
<1>7. IF fetches[1].kind = "query"
      THEN ed' = ed /\ misled' = misled
      ELSE /\ ed' = HandleDiskChange(ed, Carried, content)
           /\ misled' = (misled \/ PassedOver(Carried))
  BY <1>1, <1>2, <1>4 DEF IsQuery
<1> QED
  BY <1>1, <1>2, <1>4, <1>5, <1>6, <1>7

\* The window is done with the report.
LEMMA FlowLand ==
  ASSUME Parts(Nat), Flow, Land
  PROVE  Flow'
<1>1. /\ fetches # <<>> /\ fetches' = <<>> /\ msgs' = <<>>
      /\ UNCHANGED <<disk, events, registered, posts, replies, stash, seen, used, failed, other>>
      /\ misled => misled'
  BY LandFacts
<1>2. Carried' = {} /\ Posted' = Posted /\ Answers' = Answers
  BY <1>1 DEF Carried, Posted, Answers
<1>3. \A k : Wrote(k)' <=> Wrote(k)
  BY <1>1, <1>2 DEF Wrote
<1>4. Earlier' \subseteq Earlier
  BY <1>1, <1>2 DEF Earlier
<1>5. Lone' /\ InLine' /\ Refused' /\ IsFiniteSet(registered')
  BY <1>1, <1>2, <1>4 DEF Flow, Lone, InLine, Refused
<1>6. Owed' /\ LastWrite'
  BY <1>1, <1>2, <1>3 DEF Flow, Owed, LastWrite, Single
<1>7. Echoes' /\ Reads' /\ OwnEcho' /\ Foreign'
  BY <1>1, <1>2 DEF Echoes, Reads, OwnEcho, Foreign
<1> QED
  BY <1>5, <1>6, <1>7 DEF Flow

\* A render sees what is in the cache.
LEMMA FlowEffects ==
  ASSUME Flow, Effects
  PROVE  Flow'
<1>1. /\ seen'.data = data
      /\ UNCHANGED <<disk, events, registered, posts, replies, stash, msgs, fetches, data, used, other, misled>>
  BY DEF Effects, wire
<1> QED
  BY <1>1, FlowSame

-----------------------------------------------------------------------------
(* The editor and the file. *)

\* Will the window be told of the file once more?
OnWay == events > 0 \/ msgs # <<>> \/ fetches # <<>>

\* Saves behind one that is in flight are in flight.
Later == ~misled => \A n \in ed.nonces : \A m \in Posted \cup registered : n < m => m \in ed.nonces

\* The cache of a clean editor is right, or will be.
Cached == ~misled /\ ed.state = "clean" => OnWay \/ data = disk

\* A conflict is about what the file holds, or will be, and so is the cache.
Conflicting ==
  ~misled /\ ed.state = "diverged" =>
    /\ OnWay \/ ed.disk = disk
    /\ ed.disk = data
    /\ fetches = <<>> \/ fetches[1].kind # "query"

\* The next render will find the cache changed, whatever comes before it.
Unseen ==
  /\ posts = <<>> /\ registered = {} /\ Carried = {}
  /\ disk # seen.data /\ data # seen.data
  /\ fetches = <<>> \/ fetches[1].content # seen.data

\* A clean editor shows what the last render saw, or takes over what the next one sees.
Shown == ~misled /\ ed.state = "clean" => ed.base = ed.text /\ (ed.text = seen.data \/ Unseen)

\* The last of the saves in flight is of what the editor shows.
Sent ==
  ~misled /\ ed.state = "saving" /\ ~ed.armed /\ ~failed =>
    \A k \in ed.nonces \cap (Posted \cup registered \cup Carried) :
      (\A m \in ed.nonces : m =< k) => ed.snaps[k] = ed.text

\* What is to be written is written by a timer, or a save failed.
Due == ~misled /\ ed.state = "dirty" /\ ~ed.armed => failed

Editing ==
  ed.nonces \subseteq used /\ Later /\ Cached /\ Conflicting /\ Shown /\ Sent /\ Due

\* Steps of the server: it moves saves and reports on, and tells of every change.
LEMMA ServerEditing ==
  ASSUME Editing, UNCHANGED <<ed, data, seen, failed, used>>, misled => misled',
         Posted' \cup registered' \subseteq Posted \cup registered,
         Posted' \cup registered' \cup Carried' \subseteq Posted \cup registered \cup Carried,
         misled' \/ OnWay' \/ (disk' = disk /\ ~OnWay),
         posts = <<>> => posts' = <<>>,
         posts = <<>> => registered' \subseteq registered /\ Carried' \subseteq registered \cup Carried,
         posts = <<>> => disk' = disk \/ disk' # seen.data,
         fetches' = <<>> \/ (fetches # <<>> /\ fetches'[1].kind = fetches[1].kind
                             /\ fetches'[1].content \in {fetches[1].content, disk})
  PROVE  Editing'
<1>1. ed.nonces \subseteq used' /\ Later'
  BY DEF Editing, Later
<1>2. Cached'
  BY DEF Editing, Cached
<1>3. Conflicting'
  BY DEF Editing, Conflicting
<1>4. Shown'
  <2>1. Unseen => Unseen'
    BY DEF Unseen
  <2> QED
    BY <2>1 DEF Editing, Shown
<1>5. Sent'
  BY DEF Editing, Sent
<1>6. Due'
  BY DEF Editing, Due
<1> QED
  BY <1>1, <1>2, <1>3, <1>4, <1>5, <1>6 DEF Editing

\* A save that failed leaves something to write, and no save behind it is forgotten.
LEMMA ErrorEditing ==
  ASSUME Parts(Nat), Editing, NEW n \in Saves \ (Posted \cup registered), ed' = HandleSaveError(ed, n),
         failed' = TRUE, UNCHANGED <<used, misled, registered, posts>>
  PROVE  Editing'
<1>1. EntryOK(ed, Nat)
  BY DEF Parts
<1>2. ed'.state \in {"dirty", "saving"} /\ ed'.nonces = ed.nonces \ {n}
  BY <1>1, SaveErrorFacts
<1>3. Posted' = Posted
  BY DEF Posted
<1>4. ed'.nonces \subseteq used' /\ Later'
  BY <1>2, <1>3 DEF Editing, Later
<1>5. Cached' /\ Conflicting' /\ Shown' /\ Sent' /\ Due'
  BY <1>2 DEF Cached, Conflicting, Shown, Sent, Due
<1> QED
  BY <1>4, <1>5 DEF Editing

\* A save starts from what the editor shows, behind all others.
LEMMA SaveEditing ==
  ASSUME Parts(Nat), Flow, Editing, Save,
         UNCHANGED <<disk, events, registered, replies, stash, msgs, fetches, data, seen, failed, misled>>
  PROVE  Editing'
<1>1. PICK n \in Saves :
        /\ used' = used \cup {n} /\ ed' = MarkSaving([ed EXCEPT !.armed = FALSE], n)
        /\ \A m \in used : m < n
        /\ \A m \in Saves \ used' : n < m
        /\ Posted' = Posted \cup {n} /\ Sorted(posts')
  BY SaveFacts
<1>2. ed \in EntrySet(Nat)
  BY DEF Parts, EntryOK, Known
<1>3. /\ ed'.state = "saving" /\ ed'.nonces = ed.nonces \cup {n} /\ ed'.text = ed.text
      /\ ed'.snaps[n] = ed.text
  BY <1>1, <1>2 DEF MarkSaving, EntrySet
<1>4. Posted \cup registered \cup ed.nonces \subseteq used /\ used \subseteq Saves /\ Saves \subseteq Nat
  BY EditorAssumption DEF Flow, InLine, Earlier, Editing, Parts, FileOK, NonceSets
<1>5. Later'
  <2>1. ASSUME ~misled, NEW k \in ed'.nonces, NEW m \in Posted' \cup registered, k < m
        PROVE  m \in ed'.nonces
    <3>1. CASE m = n
      BY <1>3, <3>1
    <3>2. CASE m # n /\ k = n
      BY <1>1, <1>4, <2>1, <3>2
    <3>3. CASE m # n /\ k # n
      BY <1>1, <1>3, <2>1, <3>3 DEF Editing, Later
    <3> QED
      BY <3>1, <3>2, <3>3
  <2> QED
    BY <2>1 DEF Later
<1>6. Sent'
  <2>1. ASSUME NEW k \in ed'.nonces, \A m \in ed'.nonces : m =< k
        PROVE  k = n
    <3>1. n =< k
      BY <1>3, <2>1
    <3>2. k = n \/ k < n
      BY <1>1, <1>3, <1>4, <2>1
    <3>3. k \in Nat /\ n \in Nat
      BY <1>3, <1>4
    <3> QED
      BY <3>1, <3>2, <3>3
  <2> QED
    BY <1>3, <2>1 DEF Sent
<1>7. Cached' /\ Conflicting' /\ Shown' /\ Due'
  BY <1>3 DEF Cached, Conflicting, Shown, Due
<1> QED
  BY <1>1, <1>3, <1>4, <1>5, <1>6, <1>7 DEF Editing

\* What the file held is merged, kept for the conflict, or ends the saves in flight.
LEMMA ArriveEditing ==
  ASSUME Parts(Nat), Flow, Editing, ed.state # "clean", NEW content \in Words(Nat),
         ed' = HandleDiskChange(ed, Carried, content), misled' = (misled \/ PassedOver(Carried)),
         ~Superseded(ed, Carried) => data' = content,
         msgs' = <<>>, fetches' = <<>>,
         UNCHANGED <<disk, events, registered, posts, seen, used, failed>>,
         ~misled => events > 0 \/ content = disk,
         ~misled /\ ~other /\ registered = {} /\ Carried # {} => content = disk
  PROVE  Editing'
<1>1. EntryOK(ed, Nat) /\ registered \subseteq Saves /\ used \subseteq Saves /\ Saves \subseteq Nat
  BY EditorAssumption DEF Parts, FileOK, NonceSets
<1>2. Outcome(ed, ed', Carried, content)
  BY <1>1, DiskChangeOutcome
<1>3. Posted' = Posted /\ Carried' = {} /\ (~misled' => ~misled)
  BY DEF Posted, Carried
<1>4. \A n \in Carried : \A m \in Posted \cup registered : n < m
  BY DEF Flow, InLine, Earlier
<1>5. Carried \subseteq Nat /\ Posted \cup registered \subseteq Nat /\ ed.nonces \subseteq Nat
  BY <1>1 DEF Flow, InLine, Earlier, Editing
<1>6. \A n \in Carried : n \notin Posted \cup registered
  BY <1>4, <1>5
<1>7. ed.nonces \ Carried \subseteq ed'.nonces /\ ed'.nonces \subseteq ed.nonces
  BY <1>2 DEF Outcome, Passes, Conflicts, Keeps, Settles, Rewrites, Leaves
<1>8. ed'.nonces \subseteq used' /\ Later'
  BY <1>3, <1>6, <1>7 DEF Editing, Later
<1>9. Cached'
  <2>1. ed'.state = "clean" => Settles(ed, ed', Carried, content)
    BY <1>2 DEF Outcome, Passes, Conflicts, Keeps, Rewrites, Leaves
  <2> QED
    BY <1>3, <2>1 DEF Cached, OnWay, Settles
<1>10. Conflicting'
  <2>1. ~misled' /\ ed'.state = "diverged" => Conflicts(ed, ed', Carried, content)
    BY <1>2 DEF Outcome, Passes, Keeps, Settles, Rewrites, Leaves, PassedOver
  <2> QED
    BY <1>3, <2>1 DEF Conflicting, OnWay, Conflicts
<1>11. Shown'
  <2>1. SUFFICES ASSUME ~misled', ed'.state = "clean" PROVE ed'.base = ed'.text /\ (ed'.text = seen.data \/ Unseen')
    BY DEF Shown
  <2>2. Settles(ed, ed', Carried, content)
    BY <1>2, <2>1 DEF Outcome, Passes, Conflicts, Keeps, Rewrites, Leaves
  <2>3. PICK n \in ed.nonces : n \in Carried
    BY <2>2 DEF Settles
  <2>4. \A m \in Posted \cup registered : n < m /\ m \in Carried
    BY <1>3, <1>4, <2>1, <2>2, <2>3 DEF Editing, Later, Settles
  <2>5. Posted = {} /\ registered = {}
    BY <1>6, <2>4
  <2>6. posts = <<>>
    <3>1. posts \in Seq(Post(Nat))
      BY DEF Parts, WireOK
    <3>2. posts # <<>> => Head(posts) \in Elements(posts)
      BY <3>1, ElementsTail
    <3> QED
      BY <2>5, <3>2 DEF Posted
  <2>7. content # seen.data => disk # seen.data
    BY <1>3, <2>1, <2>3, <2>5 DEF Flow, Foreign
  <2> QED
    BY <1>3, <2>2, <2>5, <2>6, <2>7 DEF Settles, Unseen
<1>12. Sent'
  <2>1. SUFFICES ASSUME ~misled', ed'.state = "saving", ~ed'.armed, ~failed,
                        NEW k \in ed'.nonces \cap (Posted \cup registered), \A m \in ed'.nonces : m =< k
                 PROVE  ed'.snaps[k] = ed'.text
    BY <1>3 DEF Sent
  <2>2. Passes(ed, ed', Carried) \/ Keeps(ed, ed', Carried)
    BY <1>2, <2>1 DEF Outcome, Conflicts, Settles, Rewrites, Leaves
  <2>3. ed.state = "saving" /\ ~ed.armed /\ ed'.text = ed.text /\ ed'.snaps[k] = ed.snaps[k] /\ k \in ed.nonces
    BY <1>7, <2>1, <2>2 DEF Passes, Keeps
  <2>4. \A m \in ed.nonces : m =< k
    <3>1. ASSUME NEW m \in ed.nonces PROVE m =< k
      <4>1. CASE m \in Carried
        BY <1>4, <1>5, <2>1, <4>1
      <4>2. CASE m \notin Carried
        BY <1>7, <2>1, <4>2
      <4> QED
        BY <4>1, <4>2
    <3> QED
      BY <3>1
  <2> QED
    BY <1>3, <2>1, <2>3, <2>4 DEF Editing, Sent
<1>13. Due'
  <2>1. SUFFICES ASSUME ~misled', ed'.state = "dirty", ~ed'.armed, ~failed PROVE FALSE
    BY DEF Due
  <2>2. Passes(ed, ed', Carried) \/ Keeps(ed, ed', Carried) \/ Leaves(ed, ed', Carried, content)
    BY <1>2, <2>1 DEF Outcome, Conflicts, Settles, Rewrites
  <2>3. CASE ed.state = "dirty"
    BY <1>3, <2>1, <2>2, <2>3 DEF Editing, Due, Passes, Keeps, Leaves
  <2>4. CASE ed.state # "dirty"
    <3>1. Leaves(ed, ed', Carried, content) /\ ed.state = "saving" /\ ~ed.armed
      BY <2>1, <2>2, <2>4 DEF Passes, Keeps, Leaves
    <3>2. PICK n \in ed.nonces : n \in Carried
      BY <3>1 DEF Leaves
    <3>3. Single(Carried) /\ ed.nonces = {n}
      BY <1>3, <2>1, <3>1, <3>2 DEF Flow, Owed, Single, Leaves
    <3>4. \A m \in ed.nonces : m =< n
      BY <1>5, <3>3
    <3>5. ed.snaps[n] = ed.text
      BY <1>3, <2>1, <3>1, <3>2, <3>4 DEF Editing, Sent
    <3>6. Oldest(ed.nonces) = n
      <4>1. Oldest(ed.nonces) \in ed.nonces
        <5>1. ed.nonces \in SUBSET Saves /\ ed.nonces # {}
          BY <1>1, <3>2 DEF EntryOK, Known, EntrySet, NonceSets
        <5> QED
          BY <5>1, OldestFacts
      <4> QED
        BY <3>3, <4>1
    <3>7. content # ed.text /\ Merged(ed.text, ed.text, content) = ed.text
      BY <2>4, <3>1, <3>5, <3>6 DEF Leaves
    <3>8. Merged(ed.text, ed.text, content) = content
      BY DEF Merged, Hunks, Words
    <3> QED
      BY <3>7, <3>8
  <2> QED
    BY <2>3, <2>4
<1> QED
  BY <1>8, <1>9, <1>10, <1>11, <1>12, <1>13 DEF Editing

\* A clean editor leaves its text to the next render.
LEMMA CleanEditing ==
  ASSUME Parts(Nat), Flow, Editing, ed.state = "clean",
         ed' = ed \/ ed' = Forget(ed, Carried \cap ed.nonces),
         misled' = misled, UNCHANGED <<disk, events, registered, posts, seen, used, failed>>,
         data' = data \/ (fetches # <<>> /\ data' = fetches[1].content) \/ Carried # {},
         Carried' = Carried \/ Carried' = {},
         ~misled => OnWay' \/ data' = disk,
         fetches' = <<>> \/ fetches'[1].content = Nothing
  PROVE  Editing'
<1>1. EntryOK(ed, Nat) /\ ed.nonces = {}
  BY DEF Parts, EntryOK
<1>2. ed'.state = "clean" /\ ed'.text = ed.text /\ ed'.base = ed.base /\ ed'.nonces = {}
  <2>1. CASE ed' = ed
    BY <1>1, <2>1
  <2>2. CASE ed' = Forget(ed, Carried \cap ed.nonces)
    <3>1. PICK ns : ns = Carried \cap ed.nonces
      OBVIOUS
    <3>2. /\ Forget(ed, ns).state = "clean" /\ Forget(ed, ns).text = ed.text /\ Forget(ed, ns).base = ed.base
          /\ Forget(ed, ns).nonces = {} /\ Forget(ed, ns).armed = ed.armed
      BY <1>1, ForgetNothing
    <3> QED
      BY <2>2, <3>1, <3>2
  <2> QED
    BY <2>1, <2>2
<1>3. Nothing # seen.data
  BY EditorAssumption, NoText DEF Parts, FileOK
<1>4. Unseen => Unseen'
  BY <1>3 DEF Unseen
<1>5. Shown'
  BY <1>2, <1>4 DEF Editing, Shown
<1>6. ed'.nonces \subseteq used' /\ Later' /\ Cached' /\ Conflicting' /\ Sent' /\ Due'
  BY <1>2 DEF Later, Cached, Conflicting, Sent, Due
<1> QED
  BY <1>5, <1>6 DEF Editing

\* A message is delivered.
LEMMA DeliverEditing ==
  ASSUME Parts(Nat), Flow, Editing, Deliver
  PROVE  Editing'
<1>1. /\ msgs # <<>> /\ msgs' = <<>> /\ fetches = <<>>
      /\ UNCHANGED <<disk, events, registered, posts, replies, stash, seen, used, failed, other>>
      /\ (\E content : Uses(content)) \/ Asks("query") \/ Asks("open")
  BY DeliverFacts
<1>2. CASE \E content : Uses(content)
  <2>1. PICK content : Uses(content)
    BY <1>2
  <2>2. /\ fetches' = <<>> /\ content \in Words(Nat) /\ Carried' = {} /\ Carried # {}
    BY <1>1, <2>1 DEF Uses, Carried
  <2>3. PICK n \in Carried : stash[n] = content
    BY <2>1 DEF Uses
  <2>4. content # Nothing
    BY <2>2, NoText
  <2>5. ~misled => events > 0 \/ content = disk
    BY <1>1, <2>3, <2>4 DEF Flow, Echoes, Wrote
  <2>6. ~misled /\ ~other /\ registered = {} /\ Carried # {} => content = disk
    BY <2>3, <2>4 DEF Flow, OwnEcho, Wrote
  <2>7. CASE ed.state = "clean"
    <3>1. ed' = Forget(ed, Carried \cap ed.nonces) /\ data' = content /\ misled' = misled
      BY <2>1, <2>7 DEF Uses
    <3>2. ~misled => OnWay' \/ data' = disk
      BY <1>1, <2>5, <3>1 DEF OnWay
    <3> QED
      BY <1>1, <2>2, <2>7, <3>1, <3>2, CleanEditing
  <2>8. CASE ed.state # "clean"
    <3>1. /\ ed' = HandleDiskChange(ed, Carried, content) /\ misled' = (misled \/ PassedOver(Carried))
          /\ ~Superseded(ed, Carried) => data' = content
      <4>1. /\ ed' = HandleDiskChange(ed, Carried, content)
            /\ data' = (IF Superseded(ed, Carried) THEN data ELSE content)
            /\ misled' = (misled \/ PassedOver(Carried))
        BY <2>1, <2>8, Zenon DEF Uses
      <4> QED
        BY <4>1, Zenon
    <3> QED
      BY <1>1, <2>2, <2>5, <2>6, <2>8, <3>1, ArriveEditing
  <2> QED
    BY <2>7, <2>8
<1>3. CASE Asks("query")
  <2>1. /\ fetches' # <<>> /\ fetches'[1].content = Nothing /\ fetches'[1].nonces = {}
        /\ data' = data /\ misled' = misled
        /\ ed.state = "clean" /\ ed' = Forget(ed, Carried \cap ed.nonces)
    BY <1>3 DEF Asks
  <2>2. Carried' = {} /\ OnWay'
    BY <1>1, <2>1 DEF Carried, OnWay
  <2> QED
    BY <1>1, <2>1, <2>2, CleanEditing
<1>4. CASE Asks("open")
  <2>1. /\ fetches' # <<>> /\ fetches'[1].content = Nothing /\ fetches'[1].nonces = Carried
        /\ fetches'[1].kind = "open"
        /\ data' = data /\ misled' = misled /\ ed.state # "clean" /\ ed' = ed
    BY <1>4 DEF Asks
  <2>2. Carried' = Carried /\ OnWay' /\ Posted' = Posted
    BY <1>1, <2>1 DEF Carried, OnWay, Posted
  <2>3. ed.nonces \subseteq used' /\ Later' /\ Cached' /\ Conflicting' /\ Shown' /\ Sent' /\ Due'
    BY <1>1, <2>1, <2>2 DEF Editing, Later, Cached, Conflicting, Shown, Sent, Due
  <2> QED
    BY <2>1, <2>3 DEF Editing
<1> QED
  BY <1>1, <1>2, <1>3, <1>4

\* A read lands.
LEMMA LandEditing ==
  ASSUME Parts(Nat), Flow, Editing, Land
  PROVE  Editing'
<1>1. /\ fetches # <<>> /\ fetches' = <<>> /\ msgs = <<>> /\ msgs' = <<>>
      /\ UNCHANGED <<disk, events, registered, posts, replies, stash, seen, used, failed, other>>
  BY LandFacts
<1>2. PICK content \in Words(Nat) :
        /\ fetches[1].content = content /\ data' = content
        /\ IF fetches[1].kind = "query"
           THEN ed' = ed /\ misled' = misled
           ELSE /\ ed' = HandleDiskChange(ed, Carried, content)
                /\ misled' = (misled \/ PassedOver(Carried))
  BY LandFacts
<1>3. content # Nothing
  BY NoText
<1>4. ~misled => events > 0 \/ content = disk
  BY <1>1, <1>2, <1>3 DEF Flow, Reads
<1>5. ~misled /\ ~other /\ registered = {} /\ Carried # {} => content = disk
  BY <1>1, <1>2, <1>3 DEF Flow, OwnEcho
<1>6. Carried' = {}
  BY <1>1 DEF Carried
<1>7. EntryOK(ed, Nat)
  BY DEF Parts
<1>8. CASE ed.state = "clean"
  <2>1. ed' = ed
    BY <1>2, <1>7, <1>8, CleanStays
  <2>2. ~PassedOver(Carried)
    BY <1>8 DEF PassedOver
  <2>3. misled' = misled \/ misled' = (misled \/ PassedOver(Carried))
    BY <1>2, Zenon
  <2>4. (misled => misled') /\ (misled' => misled)
    <3>1. CASE misled' = misled
      BY <3>1
    <3>2. CASE misled' = (misled \/ PassedOver(Carried))
      <4>1. misled => misled'
        BY <3>2
      <4>2. misled' => misled \/ PassedOver(Carried)
        BY <3>2
      <4> QED
        BY <2>2, <4>1, <4>2, Zenon
    <3> QED
      BY <2>3, <3>1, <3>2
  <2>5. ~misled => OnWay' \/ data' = disk
    BY <1>1, <1>2, <1>4 DEF OnWay
  <2>6. Unseen => Unseen'
    BY <1>1, <1>2, <1>6 DEF Unseen
  <2>7. Shown'
    BY <1>1, <1>8, <2>1, <2>4, <2>6 DEF Editing, Shown
  <2>8. ed'.nonces \subseteq used' /\ Later' /\ Cached' /\ Conflicting' /\ Sent' /\ Due'
    BY <1>1, <1>7, <1>8, <2>1, <2>4, <2>5 DEF Editing, EntryOK, Later, Cached, Conflicting, Sent, Due
  <2> QED
    BY <2>7, <2>8 DEF Editing
<1>9. CASE ed.state # "clean" /\ fetches[1].kind = "query"
  <2>1. ed' = ed /\ misled' = misled
    BY <1>2, <1>9
  <2>2. Posted' = Posted
    BY <1>1 DEF Posted
  <2>3. misled \/ ed.state # "diverged"
    BY <1>1, <1>9 DEF Editing, Conflicting
  <2>4. ed'.nonces \subseteq used' /\ Later' /\ Cached' /\ Conflicting' /\ Shown' /\ Sent' /\ Due'
    BY <1>1, <1>6, <1>9, <2>1, <2>2, <2>3 DEF Editing, Later, Cached, Conflicting, Shown, Sent, Due
  <2> QED
    BY <2>4 DEF Editing
<1>10. CASE ed.state # "clean" /\ fetches[1].kind # "query"
  <2>1. ed' = HandleDiskChange(ed, Carried, content) /\ misled' = (misled \/ PassedOver(Carried))
    BY <1>2, <1>10, Zenon
  <2> QED
    BY <1>1, <1>2, <1>4, <1>5, <1>10, <2>1, ArriveEditing
<1> QED
  BY <1>8, <1>9, <1>10

\* A render: a clean editor takes over what it sees.
LEMMA EffectsEditing ==
  ASSUME Parts(Nat), Flow, Editing, Effects
  PROVE  Editing'
<1>1. /\ seen'.data = data
      /\ ed' = IF ed.state # "clean" THEN ed
               ELSE [ed EXCEPT !.base = data, !.text = IF seen.data # data THEN data ELSE @]
      /\ UNCHANGED <<disk, events, registered, posts, replies, stash, msgs, fetches, data, used, failed, misled>>
  BY DEF Effects, wire
<1>2. Carried' = Carried /\ Posted' = Posted
  BY <1>1 DEF Carried, Posted
<1>3. CASE ed.state # "clean"
  <2>1. ed.nonces \subseteq used' /\ Later' /\ Cached' /\ Conflicting' /\ Shown' /\ Sent' /\ Due'
    BY <1>1, <1>2, <1>3 DEF Editing, Later, Cached, Conflicting, OnWay, Shown, Sent, Due
  <2> QED
    BY <1>1, <1>3, <2>1 DEF Editing
<1>4. CASE ed.state = "clean"
  <2>1. ed \in EntrySet(Nat) /\ ed.nonces = {}
    BY <1>4 DEF Parts, EntryOK, Known
  <2>2. PICK text : text = IF seen.data # data THEN data ELSE ed.text
    OBVIOUS
  <2>3. ed' = [ed EXCEPT !.base = data, !.text = text]
    BY <1>1, <1>4, <2>2
  <2>4. ed'.state = "clean" /\ ed'.nonces = {} /\ ed'.text = text /\ ed'.base = data
    BY <1>4, <2>1, <2>3 DEF EntrySet
  <2>5. ~misled => text = data
    BY <1>4, <2>2 DEF Editing, Shown, Unseen
  <2>6. Shown'
    BY <1>1, <2>4, <2>5 DEF Shown
  <2>7. ed'.nonces \subseteq used' /\ Later' /\ Cached' /\ Conflicting' /\ Sent' /\ Due'
    BY <1>1, <1>4, <2>4 DEF Editing, Later, Cached, Conflicting, OnWay, Sent, Due
  <2> QED
    BY <2>6, <2>7 DEF Editing
<1> QED
  BY <1>3, <1>4

\* The user types, or decides a conflict the render has shown.
LEMMA TypeEditing ==
  ASSUME Parts(Nat), Editing, Type
  PROVE  Editing'
<1>1. PICK r \in Regions : ed' = Changed(ed, [ed.text EXCEPT ![r] = 2 * (Edits + 1)])
  BY DEF Type
<1>2. UNCHANGED <<disk, events, registered, posts, replies, stash, msgs, fetches, data, used, misled>>
  BY DEF Type, wire
<1>3. ed \in EntrySet(Nat)
  BY DEF Parts, EntryOK, Known
<1>4. ed'.state = "dirty" /\ ed'.armed /\ ed'.nonces = ed.nonces
  BY <1>1, <1>3 DEF Changed, EntrySet
<1>5. Posted' = Posted
  BY <1>2 DEF Posted
<1>6. ed'.nonces \subseteq used' /\ Later' /\ Cached' /\ Conflicting' /\ Shown' /\ Sent' /\ Due'
  BY <1>2, <1>4, <1>5 DEF Editing, Later, Cached, Conflicting, Shown, Sent, Due
<1> QED
  BY <1>6 DEF Editing

LEMMA DecideEditing ==
  ASSUME Parts(Nat), Editing, Decide
  PROVE  Editing'
<1>1. /\ ed.state = "diverged" /\ seen.data = data /\ ed' \in {AcceptDisk(ed), KeepMine(ed)}
      /\ UNCHANGED <<disk, events, registered, posts, replies, stash, msgs, fetches, data, seen, used, misled>>
  BY DEF Decide, wire
<1>2. ed \in EntrySet(Nat)
  BY DEF Parts, EntryOK, Known
<1>3. Posted' = Posted
  BY <1>1 DEF Posted
<1>4. CASE ed' = AcceptDisk(ed)
  <2>1. ed'.state = "clean" /\ ed'.nonces = {} /\ ed'.base = ed.disk /\ ed'.text = ed.disk
    BY <1>2, <1>4 DEF AcceptDisk, EntrySet
  <2>2. ~misled => ed.disk = data /\ (OnWay \/ data = disk)
    BY <1>1 DEF Editing, Conflicting
  <2>3. ed'.nonces \subseteq used' /\ Later' /\ Cached' /\ Conflicting' /\ Shown' /\ Sent' /\ Due'
    BY <1>1, <2>1, <2>2 DEF Later, Cached, Conflicting, OnWay, Shown, Sent, Due
  <2> QED
    BY <2>3 DEF Editing
<1>5. CASE ed' = KeepMine(ed)
  <2>1. ed'.state = "dirty" /\ ed'.nonces = ed.nonces /\ ed'.armed
    BY <1>2, <1>5 DEF KeepMine, EntrySet
  <2>2. ed'.nonces \subseteq used' /\ Later' /\ Cached' /\ Conflicting' /\ Shown' /\ Sent' /\ Due'
    BY <1>1, <1>3, <2>1 DEF Editing, Later, Cached, Conflicting, Shown, Sent, Due
  <2> QED
    BY <2>2 DEF Editing
<1> QED
  BY <1>1, <1>4, <1>5

\* A save the server never reported is given up.
LEMMA TimeoutEditing ==
  ASSUME Parts(Nat), Editing, Timeout
  PROVE  Editing'
<1>1. PICK n \in ed.nonces : ~OnItsWay(n) /\ ed' = HandleSaveError(ed, n)
  BY DEF Timeout
<1>2. failed' = TRUE /\ UNCHANGED <<used, misled, registered, posts>>
  BY DEF Timeout, wire
<1>3. n \in Saves \ (Posted \cup registered)
  <2>1. n \in Saves
    BY DEF Parts, EntryOK, Known, EntrySet, NonceSets
  <2> QED
    BY <1>1, <2>1 DEF OnItsWay, Posted, Elements
<1> QED
  BY <1>1, <1>2, <1>3, ErrorEditing

\* What the server does, the editor hears of.
LEMMA ServerStep ==
  ASSUME Prompt, Parts(Numbers), Parts(Nat), Flow, Editing, Server
  PROVE  Flow' /\ Editing'
<1>1. Reports \subseteq Nat \ {0}
  BY EditorAssumption
<1>2. CASE HandleWrite
  <2>1. /\ posts # <<>> /\ posts' = Tail(posts) /\ events' \in Reports
        /\ registered' = registered \cup {Head(posts).nonce}
        /\ UNCHANGED <<stash, msgs, fetches, data, seen, ed, used, misled, failed>>
    BY <1>2 DEF HandleWrite, Written
  <2>2. Posted' \subseteq Posted /\ Head(posts).nonce \in Posted
    BY <2>1, NextPost
  <2>3. Carried' = Carried /\ OnWay'
    <3>1. Carried' = Carried
      BY <2>1 DEF Carried
    <3>2. events' > 0
      BY <1>1, <2>1
    <3> QED
      BY <3>1, <3>2 DEF OnWay
  <2>4. Editing'
    BY <2>1, <2>2, <2>3, ServerEditing
  <2> QED
    BY <1>2, <2>4, FlowWrite
<1>3. CASE FailWrite
  <2>1. /\ posts # <<>> /\ posts' = Tail(posts)
        /\ UNCHANGED <<disk, events, registered, stash, msgs, fetches, data, seen, ed, used, misled, failed>>
    BY <1>3 DEF FailWrite
  <2>2. Posted' \subseteq Posted
    BY <2>1, NextPost
  <2>3. Carried' = Carried /\ (OnWay' <=> OnWay)
    BY <2>1 DEF Carried, OnWay
  <2>4. Editing'
    BY <2>1, <2>2, <2>3, ServerEditing
  <2> QED
    BY <1>3, <2>4, FlowFail
<1>4. CASE ExternalWrite
  <2>1. /\ events' \in Reports
        /\ UNCHANGED <<registered, posts, replies, stash, msgs, fetches, data, seen, ed, used, misled, failed>>
    BY <1>4 DEF ExternalWrite, Written, wire
  <2>2. Carried' = Carried /\ Posted' = Posted /\ OnWay'
    BY <1>1, <2>1 DEF Carried, Posted, OnWay
  <2>3. disk' # seen.data
    <3>1. PICK r \in Regions : disk' = [disk EXCEPT ![r] = 2 * (Edits + 1) + 1]
      BY <1>4 DEF ExternalWrite, Written
    <3>2. Edits \in Nat
      BY DEF Parts, CountOK, Edits
    <3>3. seen.data[r] \in Numbers /\ disk'[r] = 2 * (Edits + 1) + 1
      BY <3>1 DEF Parts, FileOK, Words
    <3>4. 2 * (Edits + 1) + 1 \notin Numbers
      BY <3>2 DEF Numbers
    <3> QED
      BY <3>3, <3>4
  <2>4. Editing'
    BY <2>1, <2>2, <2>3, ServerEditing
  <2> QED
    BY <1>4, <2>4, FlowExternal
<1>5. CASE Report
  <2>1. /\ msgs = <<>> /\ fetches = <<>> /\ msgs' = Append(msgs, registered) /\ registered' = {}
        /\ misled => misled'
        /\ UNCHANGED <<disk, posts, replies, stash, fetches, data, seen, ed, used, failed>>
    BY <1>5 DEF Report
  <2>2. msgs' # <<>> /\ msgs'[1] = registered
    BY <2>1
  <2>3. Carried' = registered /\ Posted' = Posted /\ OnWay'
    BY <2>1, <2>2 DEF Carried, Posted, OnWay
  <2>4. Editing'
    BY <2>1, <2>3, ServerEditing
  <2> QED
    BY <1>5, <2>4, FlowReport
<1>6. CASE LoseEvent \/ Expire
  <2>1. /\ registered' \subseteq registered
        /\ UNCHANGED <<disk, posts, replies, stash, msgs, fetches, data, seen, ed, used, failed>>
    BY <1>6 DEF LoseEvent, Expire, wire
  <2>2. Flow' /\ misled'
    <3>1. CASE LoseEvent
      BY <3>1, FlowLose DEF LoseEvent
    <3>2. CASE Expire
      BY <3>2, FlowExpire
    <3> QED
      BY <1>6, <3>1, <3>2
  <2>3. Carried' = Carried /\ Posted' = Posted
    BY <2>1 DEF Carried, Posted
  <2>4. Editing'
    BY <2>1, <2>2, <2>3, ServerEditing
  <2> QED
    BY <2>2, <2>4
<1>7. CASE Read
  <2>1. /\ Flow' /\ fetches' # <<>> /\ fetches'[1].content = disk
        /\ fetches # <<>> /\ Carried' = Carried /\ fetches'[1].kind = fetches[1].kind
    BY <1>7, FlowRead
  <2>2. UNCHANGED <<disk, events, registered, posts, data, seen, ed, used, misled, failed>>
    BY <1>7 DEF Read
  <2>3. Posted' = Posted /\ OnWay'
    BY <2>1, <2>2 DEF Posted, OnWay
  <2>4. Editing'
    BY <2>1, <2>2, <2>3, ServerEditing
  <2> QED
    BY <2>1, <2>4
<1> QED
  BY <1>2, <1>3, <1>4, <1>5, <1>6, <1>7 DEF Server

\* What the user and the window do.
LEMMA WindowStep ==
  ASSUME Parts(Nat), Flow, Editing, User \/ Client
  PROVE  Flow' /\ Editing'
<1>1. ASSUME Save, UNCHANGED <<disk, events, registered, replies, stash, msgs, fetches, data, seen, failed, other, misled>>
      PROVE  Flow' /\ Editing'
  BY <1>1, FlowSave, SaveEditing
<1>2. CASE Autosave \/ SaveNow
  <2>1. Save /\ UNCHANGED <<disk, events, registered, replies, stash, msgs, fetches, data, seen, failed, other, misled>>
    BY <1>2 DEF Autosave, SaveNow
  <2> QED
    BY <1>1, <2>1
<1>3. ASSUME UNCHANGED <<disk, events, registered, wire, data, seen, used, other, misled>>
      PROVE  Flow'
  <2>1. UNCHANGED <<disk, events, registered, posts, replies, stash, msgs, fetches, data, seen, used, other, misled>>
    BY <1>3 DEF wire
  <2> QED
    BY <2>1, FlowSame
<1>4. CASE Type
  BY <1>3, <1>4, TypeEditing DEF Type
<1>5. CASE Decide
  BY <1>3, <1>5, DecideEditing DEF Decide
<1>6. CASE Timeout
  BY <1>3, <1>6, TimeoutEditing DEF Timeout
<1>7. CASE Reply
  <2>1. /\ Flow' /\ Carried' = Carried
        /\ \/ ed' = ed /\ failed' = failed
           \/ /\ failed' = TRUE
              /\ \E n \in Saves \ (Posted \cup registered) : ed' = HandleSaveError(ed, n)
    BY <1>7, FlowReply
  <2>2. UNCHANGED <<disk, events, registered, posts, msgs, fetches, data, seen, used, misled>>
    BY <1>7 DEF Reply
  <2>3. Posted' = Posted /\ (OnWay' <=> OnWay)
    BY <2>2 DEF Posted, OnWay
  <2>4. CASE ed' = ed /\ failed' = failed
    <3>1. Editing'
      BY <2>1, <2>2, <2>3, <2>4, ServerEditing
    <3> QED
      BY <2>1, <3>1
  <2>5. CASE failed' = TRUE /\ \E n \in Saves \ (Posted \cup registered) : ed' = HandleSaveError(ed, n)
    <3>1. PICK n \in Saves \ (Posted \cup registered) : ed' = HandleSaveError(ed, n)
      BY <2>5
    <3>2. Editing'
      BY <2>2, <2>5, <3>1, ErrorEditing
    <3> QED
      BY <2>1, <3>2
  <2> QED
    BY <2>1, <2>4, <2>5
<1>8. CASE Deliver
  BY <1>8, FlowDeliver, DeliverEditing
<1>9. CASE Land
  BY <1>9, FlowLand, LandEditing
<1>10. CASE Effects
  BY <1>10, FlowEffects, EffectsEditing
<1> QED
  BY <1>2, <1>4, <1>5, <1>6, <1>7, <1>8, <1>9, <1>10 DEF User, Client

\* Once everything has arrived the editor and the file agree, whatever was typed, written by others
\* and merged meanwhile, for a window that applies a report before the watcher makes the next one.
THEOREM KeepsInStep ==
  ASSUME Prompt
  PROVE  Spec => []InStep
<1> DEFINE IInv == Parts(Numbers) /\ Flow /\ Editing
<1>1. Init => IInv
  <2>1. Init => Parts(Numbers)
    <3>1. Sound(0 .. 1)
      BY DEF Sound
    <3>2. Init => Parts(0 .. 1)
      BY <3>1, InitParts
    <3>3. Init => Numbers = 0 .. 1
      BY DEF Init, Numbers, Edits
    <3> QED
      BY <3>2, <3>3
  <2>2. ASSUME Init PROVE Flow /\ Editing
    <3>1. Posted = {} /\ Answers = {} /\ Carried = {}
      BY <2>2 DEF Init, Posted, Answers, Carried, Elements
    <3>2. Earlier = {}
      BY <2>2, <3>1 DEF Init, Earlier
    <3>3. Lone /\ InLine /\ Refused /\ IsFiniteSet(registered)
      BY <2>2, <3>1, <3>2, FS_EmptySet DEF Init, Lone, InLine, Sorted, Refused
    <3>4. Owed /\ LastWrite /\ Echoes /\ Reads /\ OwnEcho /\ Foreign
      BY <2>2, <3>1 DEF Init, Owed, Single, LastWrite, Echoes, Reads, OwnEcho, Foreign
    <3>5. ed.state = "clean" /\ ed.nonces = {} /\ ed.base = Original /\ ed.text = Original
      BY <2>2 DEF Init, Opened
    <3>6. ed.nonces \subseteq used /\ Later /\ Cached /\ Conflicting /\ Shown /\ Sent /\ Due
      BY <2>2, <3>1, <3>5 DEF Init, Later, Cached, Conflicting, Shown, Sent, Due
    <3> QED
      BY <3>3, <3>4, <3>6 DEF Flow, Editing
  <2> QED
    BY <2>1, <2>2
<1>2. IInv /\ [Next]_vars => IInv'
  <2> SUFFICES ASSUME Parts(Numbers), Flow, Editing, [Next]_vars PROVE IInv'
    OBVIOUS
  <2>1. Parts(Numbers)'
    BY StepParts
  <2>2. Parts(Nat)
    <3>1. Numbers \subseteq Nat
      BY DEF Numbers
    <3> QED
      BY <3>1, MoreWords
  <2>3. Flow' /\ Editing'
    <3>1. CASE UNCHANGED vars
      <4>1. UNCHANGED <<disk, events, registered, posts, replies, stash, msgs, fetches, data, seen, ed, used, other,
                        misled, failed>>
        BY <3>1 DEF vars
      <4>2. Flow'
        BY <4>1, FlowSame
      <4>3. Posted' = Posted /\ Carried' = Carried /\ (OnWay' <=> OnWay)
        BY <4>1 DEF Posted, Carried, OnWay
      <4>4. Editing'
        BY <4>1, <4>3, ServerEditing
      <4> QED
        BY <4>2, <4>4
    <3> QED
      BY <2>2, <3>1, ServerStep, WindowStep DEF Next
  <2> QED
    BY <2>1, <2>3
<1>3. IInv => InStep
  <2> SUFFICES ASSUME Flow, Editing, Quiet, ~misled
               PROVE  /\ ed.state = "clean" => ed.text = disk /\ ed.base = disk
                      /\ ed.state = "dirty" => failed
                      /\ ed.state = "diverged" => ed.disk = disk
    BY DEF InStep
  <2>1. ~OnWay /\ ~ed.armed /\ seen.data = data
    BY DEF Quiet, OnWay
  <2>2. ed.state = "clean" => ed.text = disk /\ ed.base = disk
    BY <2>1 DEF Editing, Cached, Shown, Unseen
  <2>3. ed.state = "dirty" => failed
    BY <2>1 DEF Editing, Due
  <2>4. ed.state = "diverged" => ed.disk = disk
    BY <2>1 DEF Editing, Conflicting
  <2> QED
    BY <2>2, <2>3, <2>4
<1> QED
  BY <1>1, <1>2, <1>3, PTL DEF Spec
=============================================================================
