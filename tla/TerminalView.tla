---------------------------- MODULE TerminalView ----------------------------
(***************************************************************************)
(* What a terminal promises, whatever happens to its sockets: a window     *)
(* shows a prefix of what some spawn of the shell wrote.  It may lag, and  *)
(* jump ahead when it is given a snapshot, but it never goes back to an    *)
(* older spawn or an earlier point, except by starting from nothing with a *)
(* fresh xterm.                                                            *)
(***************************************************************************)
EXTENDS Integers

CONSTANTS Windows, MaxEpoch

VARIABLES
  written,   \* bytes each spawn has written
  view       \* what each window shows: the first `upto' bytes of spawn `epoch'

Blank == [epoch |-> 0, upto |-> 0]

Init ==
  /\ written = [e \in 1 .. MaxEpoch |-> 0]
  /\ view = [w \in Windows |-> Blank]

Write ==
  /\ \E e \in 1 .. MaxEpoch :
       /\ written'[e] > written[e]
       /\ written' = [written EXCEPT ![e] = written'[e]]
  /\ UNCHANGED view

Ahead(u, v) == v.epoch > u.epoch \/ (v.epoch = u.epoch /\ v.upto >= u.upto)

Show(w) ==
  /\ view' = [view EXCEPT ![w] = view'[w]]
  /\ \/ view'[w] = Blank
     \/ /\ view'[w].epoch \in 1 .. MaxEpoch
        /\ view'[w].upto \in 0 .. written[view'[w].epoch]
        /\ Ahead(view[w], view'[w])
  /\ UNCHANGED written

Next == Write \/ \E w \in Windows : Show(w)

Spec == Init /\ [][Next]_<<written, view>>
=============================================================================
