----------------------------- MODULE StoreSync -----------------------------
(***************************************************************************)
(* One persisted store (settings, keybindings, ui, ...) in several windows *)
(* (packages/loxel/src/store/server-storage.ts, store-sync.ts): a change   *)
(* is written 500 ms after the last one, as the whole store; the server    *)
(* (routes.ts) saves it and broadcasts it; the other windows apply it,     *)
(* and, as zustand's persist wraps setState, write it again.               *)
(*                                                                         *)
(* A value of the store is a number: Default before the store is loaded,   *)
(* Saved for what the database holds at first, a new one for each change.  *)
(* A write's nonce is known to the page that made it and to no other:      *)
(* `from' names that page's window, or Nobody once the page is gone.       *)
(***************************************************************************)
EXTENDS Naturals, Sequences

CONSTANTS
  Windows,
  MaxChanges,   \* bound: changes made by users
  MaxOpens,     \* bound: pages loaded
  MaxFaults,    \* bound: dropped sockets and server restarts
  None, Nobody, \* no value; the page a write is from, once it is gone
  SameShape     \* does the store's SyncTarget.getState have the keys of its partialize?

ASSUME StoresAssumption ==
  /\ MaxChanges \in Nat /\ MaxOpens \in Nat /\ MaxFaults \in Nat
  /\ SameShape \in BOOLEAN
  /\ None \notin Nat /\ Nobody \notin Windows

Default == 0
Saved == 1
Written == 1 .. MaxChanges + 1
Values == Written \cup {Default}

VARIABLES
  row,       \* the row of the store in stores.db
  phase,     \* "closed", "loading" until getItem has answered, "open"
  read,      \* the row that the answer to a loading page's getItem carries
  mem,       \* the store in each window
  pending,   \* pendingValue: the value that waits for the 500 ms timer
  puts,      \* the window's PUTs on their way, oldest first
  conn,      \* is the window's app socket up?
  inbox,     \* store_updated messages on their way to the window
  behind,    \* did an update or a write of the window get lost, with nothing since to make up for it?
  changes, opens, faults

vars == <<row, phase, read, mem, pending, puts, conn, inbox, behind, changes, opens, faults>>

Update == [value : Written, from : Windows \cup {Nobody}]

TypeOK ==
  /\ row \in Written
  /\ phase \in [Windows -> {"closed", "loading", "open"}]
  /\ read \in [Windows -> Written \cup {None}]
  /\ mem \in [Windows -> Values]
  /\ pending \in [Windows -> Written \cup {None}]
  /\ puts \in [Windows -> Seq(Update)]
  /\ conn \in [Windows -> BOOLEAN]
  /\ inbox \in [Windows -> Seq(Update)]
  /\ behind \in [Windows -> BOOLEAN]
  /\ changes \in 0 .. MaxChanges
  /\ opens \in 0 .. MaxOpens
  /\ faults \in 0 .. MaxFaults
  /\ \A w \in Windows : ~conn[w] => inbox[w] = <<>>
  /\ \A w \in Windows : read[w] # None => phase[w] = "loading"
  /\ \A w \in Windows :
       phase[w] = "closed" => pending[w] = None /\ mem[w] = Default /\ ~conn[w] /\ ~behind[w]

Init ==
  /\ row = Saved
  /\ phase = [w \in Windows |-> "closed"]
  /\ read = [w \in Windows |-> None]
  /\ mem = [w \in Windows |-> Default]
  /\ pending = [w \in Windows |-> None]
  /\ puts = [w \in Windows |-> <<>>]
  /\ conn = [w \in Windows |-> FALSE]
  /\ inbox = [w \in Windows |-> <<>>]
  /\ behind = [w \in Windows |-> FALSE]
  /\ changes = 0
  /\ opens = 0
  /\ faults = 0

-----------------------------------------------------------------------------
(* A page's store. *)

\* The page of w loads: persist calls getItem, and the app socket connects meanwhile.
Open(w) ==
  /\ phase[w] = "closed" /\ opens < MaxOpens
  /\ opens' = opens + 1
  /\ phase' = [phase EXCEPT ![w] = "loading"]
  /\ UNCHANGED <<row, read, mem, pending, puts, conn, inbox, behind, changes, faults>>

\* The server reads the row for the page's getItem.
Read(w) ==
  /\ phase[w] = "loading" /\ read[w] = None
  /\ read' = [read EXCEPT ![w] = row]
  /\ UNCHANGED <<row, phase, mem, pending, puts, conn, inbox, behind, changes, opens, faults>>

\* The answer is merged over the store, whatever has happened to it since the page was loaded.
Hydrate(w) ==
  /\ phase[w] = "loading" /\ read[w] # None
  /\ phase' = [phase EXCEPT ![w] = "open"]
  /\ mem' = [mem EXCEPT ![w] = read[w]]
  /\ read' = [read EXCEPT ![w] = None]
  /\ behind' = [behind EXCEPT ![w] = @ \/ mem[w] # Default]
  /\ UNCHANGED <<row, pending, puts, conn, inbox, changes, opens, faults>>

\* The user changes something: setItem keeps the whole store for the timer.
Change(w) ==
  /\ phase[w] # "closed" /\ changes < MaxChanges
  /\ changes' = changes + 1
  /\ mem' = [mem EXCEPT ![w] = changes + 2]
  /\ pending' = [pending EXCEPT ![w] = changes + 2]
  /\ UNCHANGED <<row, phase, read, puts, conn, inbox, behind, opens, faults>>

\* flush: the timer fires.
Flush(w) ==
  /\ pending[w] # None
  /\ puts' = [puts EXCEPT ![w] = Append(@, [value |-> pending[w], from |-> w])]
  /\ pending' = [pending EXCEPT ![w] = None]
  /\ UNCHANGED <<row, phase, read, mem, conn, inbox, behind, changes, opens, faults>>

\* The PUTs of a page that goes away, the last one sent by pagehide.
LeftBehind(w) ==
  LET last == IF pending[w] = None THEN <<>> ELSE <<[value |-> pending[w], from |-> w]>>
      all == puts[w] \o last
  IN  [i \in 1 .. Len(all) |-> [all[i] EXCEPT !.from = Nobody]]

\* mutant: the timer is left running when the page goes away
ClosePending(w) ==
  /\ phase[w] # "closed"
  /\ phase' = [phase EXCEPT ![w] = "closed"]
  /\ puts' = [puts EXCEPT ![w] = LeftBehind(w)]
  /\ conn' = [conn EXCEPT ![w] = FALSE]
  /\ inbox' = [inbox EXCEPT ![w] = <<>>]
  /\ read' = [read EXCEPT ![w] = None]
  /\ mem' = [mem EXCEPT ![w] = Default]
  /\ behind' = [behind EXCEPT ![w] = FALSE]
  /\ UNCHANGED <<row, pending, changes, opens, faults>>

\* The page of w is closed, or goes away to be loaded again.
Close(w) ==
  /\ phase[w] # "closed"
  /\ phase' = [phase EXCEPT ![w] = "closed"]
  /\ puts' = [puts EXCEPT ![w] = LeftBehind(w)]
  /\ pending' = [pending EXCEPT ![w] = None]
  /\ conn' = [conn EXCEPT ![w] = FALSE]
  /\ inbox' = [inbox EXCEPT ![w] = <<>>]
  /\ read' = [read EXCEPT ![w] = None]
  /\ mem' = [mem EXCEPT ![w] = Default]
  /\ behind' = [behind EXCEPT ![w] = FALSE]
  /\ UNCHANGED <<row, changes, opens, faults>>

-----------------------------------------------------------------------------
(* The server. *)

\* Broadcasts that a window without a socket never gets, although what it read is older.
Misses(v) ==
  /\ ~conn[v]
  /\ phase[v] = "open" \/ read[v] # None

\* handleRequest, PUT /api/stores/:key: the value is saved and sent to every client, the writer
\* included.
HandlePut(w) ==
  /\ puts[w] # <<>>
  /\ LET put == Head(puts[w])
         InStepAgain(v) == /\ put.from = v /\ put.value = mem[v]
                           /\ pending[v] = None /\ Len(puts[v]) = 1
     IN  /\ row' = put.value
         /\ inbox' = [v \in Windows |-> IF conn[v] THEN Append(inbox[v], put) ELSE inbox[v]]
         /\ behind' = [v \in Windows |-> /\ ~InStepAgain(v)
                                         /\ behind[v] \/ (v # put.from /\ Misses(v))]
  /\ puts' = [puts EXCEPT ![w] = Tail(@)]
  /\ UNCHANGED <<phase, read, mem, pending, conn, changes, opens, faults>>

-----------------------------------------------------------------------------
(* store_updated *)

\* mutant: an applied update is not written again
ApplyQuietly(w, value) ==
  /\ mem' = [mem EXCEPT ![w] = value]
  /\ UNCHANGED pending

\* mutant: an update equal to the store is applied all the same
ApplyAlways(w, value) ==
  /\ mem' = [mem EXCEPT ![w] = value]
  /\ pending' = [pending EXCEPT ![w] = value]

\* applyStoreUpdate: reconcile finds an equal value identical, provided the keys are the same;
\* any other is set, and setState calls setItem.
Apply(w, value) ==
  IF value = mem[w] /\ SameShape
  THEN UNCHANGED <<mem, pending>>
  ELSE /\ mem' = [mem EXCEPT ![w] = value]
       /\ pending' = [pending EXCEPT ![w] = value]

\* ws-bridge: a nonce of this page's own is consumed, anything else is applied.
Deliver(w) ==
  /\ inbox[w] # <<>>
  /\ inbox' = [inbox EXCEPT ![w] = Tail(@)]
  /\ IF Head(inbox[w]).from = w
     THEN UNCHANGED <<mem, pending, behind>>
     ELSE /\ Apply(w, Head(inbox[w]).value)
          /\ behind' = [behind EXCEPT ![w] =
                          @ /\ (phase[w] = "loading" \/ Head(inbox[w]).value = mem[w])]
  /\ UNCHANGED <<row, phase, read, puts, conn, changes, opens, faults>>

-----------------------------------------------------------------------------
(* The app socket, and the server process. *)

Connect(w) ==
  /\ phase[w] # "closed" /\ ~conn[w]
  /\ conn' = [conn EXCEPT ![w] = TRUE]
  /\ UNCHANGED <<row, phase, read, mem, pending, puts, inbox, behind, changes, opens, faults>>

LosesUpdates(w) == \E i \in 1 .. Len(inbox[w]) : inbox[w][i].from # w

LosesWrites(w) == \E i \in 1 .. Len(puts[w]) : puts[w][i].from = w

\* The socket of w goes down with what is on its way; the reconnect does not ask for the store.
Drop(w) ==
  /\ conn[w] /\ faults < MaxFaults
  /\ faults' = faults + 1
  /\ conn' = [conn EXCEPT ![w] = FALSE]
  /\ inbox' = [inbox EXCEPT ![w] = <<>>]
  /\ behind' = [behind EXCEPT ![w] = @ \/ LosesUpdates(w)]
  /\ UNCHANGED <<row, phase, read, mem, pending, puts, changes, opens>>

\* The server goes down and is started again: the sockets go with it, PUTs on their way fail (their
\* nonces are forgotten and nothing is sent again), and a page that is loading goes on without the
\* row.
Restart ==
  /\ faults < MaxFaults
  /\ faults' = faults + 1
  /\ conn' = [w \in Windows |-> FALSE]
  /\ inbox' = [w \in Windows |-> <<>>]
  /\ puts' = [w \in Windows |-> <<>>]
  /\ phase' = [w \in Windows |->
                 IF phase[w] = "loading" /\ read[w] = None THEN "open" ELSE phase[w]]
  /\ behind' = [w \in Windows |-> \/ behind[w] \/ LosesUpdates(w) \/ LosesWrites(w)
                                  \/ phase[w] = "loading" /\ read[w] = None]
  /\ UNCHANGED <<row, read, mem, pending, changes, opens>>

-----------------------------------------------------------------------------
Next ==
  \/ \E w \in Windows :
       \/ Open(w) \/ Read(w) \/ Hydrate(w) \/ Change(w) \/ Flush(w) \/ Close(w)
       \/ HandlePut(w) \/ Deliver(w) \/ Connect(w) \/ Drop(w)
  \/ Restart

Spec == Init /\ [][Next]_vars

\* Timers fire, requests are handled and messages arrive; nothing is assumed of users or faults.
Fairness ==
  \A w \in Windows :
    WF_vars(Read(w)) /\ WF_vars(Hydrate(w)) /\ WF_vars(Flush(w)) /\ WF_vars(HandlePut(w))
      /\ WF_vars(Deliver(w)) /\ WF_vars(Connect(w))

FairSpec == Spec /\ Fairness

-----------------------------------------------------------------------------
(* Properties. *)

Quiet(w) == pending[w] = None /\ puts[w] = <<>> /\ inbox[w] = <<>>

\* Once a window has nothing left to write and nothing left to apply it shows what is saved, so the
\* windows agree (STATE_AND_STORAGE.md: "every window ... reads the same values"), whatever
\* order their writes and the broadcasts took; unless a broadcast or a write was lost meanwhile.
AgreeWhenQuiet ==
  \A w \in Windows : phase[w] = "open" /\ ~behind[w] /\ Quiet(w) => mem[w] = row

\* Everything on its way repeats what every window shows already.
EchoesOnly ==
  \E v \in Values : \A w \in Windows :
    /\ phase[w] = "open" => mem[w] = v
    /\ phase[w] # "loading"
    /\ pending[w] \in {None, v}
    /\ \A i \in 1 .. Len(puts[w]) : puts[w][i].value = v
    /\ \A i \in 1 .. Len(inbox[w]) : inbox[w][i].value = v

\* Windows that agree stop writing: what one applied and wrote again is an echo to the others, and is
\* not applied a second time (store-sync.ts: "skip setState when the incoming state matches the
\* current state (echo suppression)").
EchoesDie == []<>(EchoesOnly => \A w \in Windows : Quiet(w))
=============================================================================
