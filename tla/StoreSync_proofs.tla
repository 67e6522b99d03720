-------------------------- MODULE StoreSync_proofs --------------------------
(***************************************************************************)
(* The windows of a store agree with the row, for any number of windows,   *)
(* changes, pages and faults.  The invariant behind it follows a change of *)
(* a window on its way to the row: in the timer, then last among the       *)
(* window's writes, then in the row; and the row on its way to a window:   *)
(* in the answer of getItem, then among the updates not yet applied.       *)
(***************************************************************************)
EXTENDS StoreSync, TLAPS

\* A window's writes are its own, after those of the page that it replaced.
OwnWritesLast(v) ==
  \A i \in 1 .. Len(puts[v]) :
    /\ puts[v][i].from \in {v, Nobody}
    /\ puts[v][i].from = v => \A j \in i .. Len(puts[v]) : puts[v][j].from = v

\* A page that has nothing of its own yet has nothing to write.
Untouched(v) ==
  phase[v] = "closed" \/ (phase[v] = "loading" /\ mem[v] = Default)
    => pending[v] = None /\ ~LosesWrites(v)

InStep(v) == phase[v] = "open" /\ ~behind[v]

WaitsAsShown(v) == InStep(v) /\ pending[v] # None => pending[v] = mem[v]

LastAsShown(v) ==
  InStep(v) /\ pending[v] = None /\ LosesWrites(v) => puts[v][Len(puts[v])].value = mem[v]

\* No update on its way to v tells it of anything but x.
NoNews(v, x) == \A i \in 1 .. Len(inbox[v]) : inbox[v][i].from # v => inbox[v][i].value = x

ShowsRow(v) ==
  InStep(v) /\ pending[v] = None /\ ~LosesWrites(v) /\ NoNews(v, mem[v]) => mem[v] = row

ReadsRow(v) ==
  phase[v] = "loading" /\ read[v] # None /\ ~behind[v] /\ mem[v] = Default /\ NoNews(v, read[v])
    => read[v] = row

OnItsWay(v) ==
  /\ OwnWritesLast(v) /\ Untouched(v)
  /\ WaitsAsShown(v) /\ LastAsShown(v)
  /\ ShowsRow(v) /\ ReadsRow(v)

IInv == TypeOK /\ \A v \in Windows : OnItsWay(v)
-----------------------------------------------------------------------------
(* Sequences. *)

\* What Append leaves alone and what it adds.
LEMMA AppendFacts ==
  ASSUME NEW S, NEW s \in Seq(S), NEW e \in S
  PROVE  /\ Append(s, e) \in Seq(S) /\ Len(Append(s, e)) = Len(s) + 1
         /\ \A i \in 1 .. Len(s) : Append(s, e)[i] = s[i]
         /\ Append(s, e)[Len(s) + 1] = e
OBVIOUS

\* The elements of the tail are those of the sequence after the first.
LEMMA TailFacts ==
  ASSUME NEW S, NEW s \in Seq(S), s # <<>>
  PROVE  /\ Tail(s) \in Seq(S) /\ Len(s) \in Nat \ {0} /\ Len(Tail(s)) = Len(s) - 1
         /\ \A i \in 1 .. Len(Tail(s)) : Tail(s)[i] = s[i + 1]
         /\ Head(s) = s[1] /\ Head(s) \in S
OBVIOUS

\* The writes that a page leaves behind when it goes away are updates, none of them its own.
LEMMA LeftBehindFacts ==
  ASSUME TypeOK, NEW w \in Windows
  PROVE  /\ LeftBehind(w) \in Seq(Update)
         /\ \A i \in 1 .. Len(LeftBehind(w)) : LeftBehind(w)[i].from = Nobody
<1> DEFINE last == IF pending[w] = None THEN <<>> ELSE <<[value |-> pending[w], from |-> w]>>
           all == puts[w] \o last
<1>1. last \in Seq(Update)
  <2>1. CASE pending[w] = None
    BY <2>1
  <2>2. CASE pending[w] # None
    <3>1. [value |-> pending[w], from |-> w] \in Update
      BY <2>2 DEF TypeOK, Update
    <3>2. <<[value |-> pending[w], from |-> w]>> \in Seq(Update)
      BY <3>1
    <3>3. QED
      BY <2>2, <3>2
  <2>3. QED
    BY <2>1, <2>2
<1>2. all \in Seq(Update)
  BY <1>1 DEF TypeOK
<1> HIDE DEF all
<1>3. \A i \in 1 .. Len(all) : all[i] \in Update
  BY <1>2
<1>4. LeftBehind(w) = [i \in 1 .. Len(all) |-> [all[i] EXCEPT !.from = Nobody]]
  BY DEF LeftBehind, all
<1>5. \A i \in 1 .. Len(all) : /\ [all[i] EXCEPT !.from = Nobody] \in Update
                              /\ [all[i] EXCEPT !.from = Nobody].from = Nobody
  BY <1>3 DEF Update
<1>6. Len(all) \in Nat
  BY <1>2
<1>7. LeftBehind(w) \in Seq(Update) /\ Len(LeftBehind(w)) = Len(all)
  BY <1>4, <1>5, <1>6
<1>8. QED
  BY <1>4, <1>5, <1>7
-----------------------------------------------------------------------------
(* Types. *)

\* What is on its way to a window and what it writes are updates.
LEMMA Sequences ==
  ASSUME TypeOK, NEW w \in Windows
  PROVE  /\ puts[w] \in Seq(Update) /\ inbox[w] \in Seq(Update)
         /\ puts[w] # <<>> => Head(puts[w]) \in Update /\ Tail(puts[w]) \in Seq(Update)
         /\ inbox[w] # <<>> => Head(inbox[w]) \in Update /\ Tail(inbox[w]) \in Seq(Update)
<1>1. puts[w] \in Seq(Update) /\ inbox[w] \in Seq(Update)
  BY DEF TypeOK
<1>2. QED
  BY <1>1, TailFacts

LEMMA InitType == Init => TypeOK
BY StoresAssumption DEF Init, TypeOK, Default, Saved, Written, Values

\* That a closed window lost no write of its own at a restart takes the rest of the invariant.
LEMMA TypeStep ==
  ASSUME IInv, [Next]_vars
  PROVE  TypeOK'
<1> TypeOK
  BY DEF IInv
<1> USE StoresAssumption DEF Values, Default, Written
<1>1. ASSUME NEW w \in Windows, Open(w) PROVE TypeOK'
  <2>1. opens' \in 0 .. MaxOpens
    BY <1>1 DEF TypeOK, Open
  <2>2. /\ phase' \in [Windows -> {"closed", "loading", "open"}]
        /\ \A v \in Windows : /\ phase[v] = "loading" => phase'[v] = "loading"
                              /\ phase'[v] = "closed" => phase[v] = "closed"
    BY <1>1 DEF TypeOK, Open
  <2>3. QED
    BY <1>1, <2>1, <2>2 DEF TypeOK, Open
<1>2. ASSUME NEW w \in Windows, Read(w) PROVE TypeOK'
  BY <1>2 DEF TypeOK, Read
<1>3. ASSUME NEW w \in Windows, Hydrate(w) PROVE TypeOK'
  BY <1>3 DEF TypeOK, Hydrate
<1>4. ASSUME NEW w \in Windows, Change(w) PROVE TypeOK'
  BY <1>4 DEF TypeOK, Change
<1>5. ASSUME NEW w \in Windows, Flush(w) PROVE TypeOK'
  <2>1. [value |-> pending[w], from |-> w] \in Update
    BY <1>5 DEF Flush, TypeOK, Update
  <2>2. Append(puts[w], [value |-> pending[w], from |-> w]) \in Seq(Update)
    BY <2>1, Sequences, AppendFacts
  <2>3. QED
    BY <1>5, <2>2 DEF TypeOK, Flush
<1>6. ASSUME NEW w \in Windows, Close(w) PROVE TypeOK'
  BY <1>6, LeftBehindFacts DEF TypeOK, Close
<1>7. ASSUME NEW w \in Windows, HandlePut(w) PROVE TypeOK'
  <2>1. Head(puts[w]) \in Update /\ Tail(puts[w]) \in Seq(Update)
    BY <1>7, Sequences DEF HandlePut
  <2>2. \A v \in Windows : Append(inbox[v], Head(puts[w])) \in Seq(Update)
    BY <2>1, Sequences, AppendFacts
  <2>3. inbox' \in [Windows -> Seq(Update)] /\ \A v \in Windows : ~conn'[v] => inbox'[v] = <<>>
    BY <1>7, <2>2 DEF HandlePut, TypeOK
  <2>4. row' \in Written
    BY <1>7, <2>1 DEF HandlePut, Update
  <2>5. behind' \in [Windows -> BOOLEAN] /\ \A v \in Windows : phase'[v] = "closed" => ~behind'[v]
    BY <1>7 DEF HandlePut, TypeOK, Misses
  <2>6. puts' \in [Windows -> Seq(Update)]
    BY <1>7, <2>1 DEF HandlePut, TypeOK
  <2>7. QED
    BY <1>7, <2>3, <2>4, <2>5, <2>6 DEF TypeOK, HandlePut
<1>8. ASSUME NEW w \in Windows, Deliver(w) PROVE TypeOK'
  <2>1. Head(inbox[w]) \in Update /\ Tail(inbox[w]) \in Seq(Update) /\ phase[w] # "closed"
    BY <1>8, Sequences DEF Deliver, TypeOK
  <2>2. QED
    BY <1>8, <2>1 DEF TypeOK, Deliver, Apply, Update
<1>9. ASSUME NEW w \in Windows, Connect(w) PROVE TypeOK'
  BY <1>9 DEF TypeOK, Connect
<1>10. ASSUME NEW w \in Windows, Drop(w) PROVE TypeOK'
  BY <1>10 DEF TypeOK, Drop
<1>11. CASE Restart
  <2>1. /\ faults < MaxFaults /\ faults' = faults + 1
        /\ UNCHANGED <<row, read, mem, pending, changes, opens>>
    BY <1>11 DEF Restart
  <2>2. faults' \in 0 .. MaxFaults
    BY <2>1 DEF TypeOK
  <2>3. /\ phase' \in [Windows -> {"closed", "loading", "open"}]
        /\ \A v \in Windows : /\ phase[v] = "loading" /\ read[v] # None => phase'[v] = "loading"
                              /\ phase'[v] = "closed" => phase[v] = "closed"
    BY <1>11 DEF TypeOK, Restart
  <2>4. puts' \in [Windows -> Seq(Update)] /\ inbox' = [v \in Windows |-> <<>>]
    BY <1>11 DEF TypeOK, Restart
  <2>5. conn' = [v \in Windows |-> FALSE]
    BY <1>11 DEF Restart
  <2>6. /\ behind' \in [Windows -> BOOLEAN]
        /\ \A v \in Windows : phase[v] = "closed" => ~behind'[v]
    <3>1. \A v \in Windows : phase[v] = "closed" => ~LosesUpdates(v) /\ ~LosesWrites(v)
      BY DEF IInv, TypeOK, LosesUpdates, OnItsWay, Untouched
    <3>2. QED
      BY <1>11, <3>1 DEF TypeOK, Restart
  <2>7. \A v \in Windows : inbox'[v] = <<>> /\ ~conn'[v]
    BY <2>4, <2>5
  <2>8. \A v \in Windows :
          /\ read[v] # None => phase[v] = "loading"
          /\ phase[v] = "closed" => pending[v] = None /\ mem[v] = Default
    BY DEF TypeOK
  <2>9. \A v \in Windows :
          /\ read'[v] # None => phase'[v] = "loading"
          /\ phase'[v] = "closed"
               => pending'[v] = None /\ mem'[v] = Default /\ ~conn'[v] /\ ~behind'[v]
    BY <2>1, <2>3, <2>6, <2>7, <2>8
  <2>10. conn' \in [Windows -> BOOLEAN] /\ inbox' \in [Windows -> Seq(Update)]
    BY <2>4, <2>5
  <2>11. QED
    BY <2>1, <2>2, <2>3, <2>4, <2>6, <2>7, <2>8, <2>9, <2>10 DEF TypeOK
<1>12. CASE UNCHANGED vars
  BY <1>12 DEF TypeOK, vars
<1>13. QED
  BY <1>1, <1>2, <1>3, <1>4, <1>5, <1>6, <1>7, <1>8, <1>9, <1>10, <1>11, <1>12 DEF Next

-----------------------------------------------------------------------------
(* The invariant. *)

LEMMA InitIInv == Init => IInv
<1> SUFFICES ASSUME Init PROVE IInv
  OBVIOUS
<1>1. \A v \in Windows : OnItsWay(v)
  BY StoresAssumption
  DEF Init, OnItsWay, OwnWritesLast, Untouched, WaitsAsShown, LastAsShown, ShowsRow, ReadsRow, InStep,
      LosesWrites
<1>2. QED
  BY <1>1, InitType DEF IInv

\* A step that another window takes with its own store only.
LEMMA Elsewhere ==
  ASSUME NEW v \in Windows, OnItsWay(v), row' = row,
         phase'[v] = phase[v], read'[v] = read[v], mem'[v] = mem[v], pending'[v] = pending[v],
         puts'[v] = puts[v], inbox'[v] = inbox[v], behind'[v] = behind[v]
  PROVE  OnItsWay(v)'
BY DEF OnItsWay, OwnWritesLast, Untouched, WaitsAsShown, LastAsShown, ShowsRow, ReadsRow, InStep,
       LosesWrites, NoNews

LEMMA OpenStep ==
  ASSUME TypeOK, NEW w \in Windows, NEW v \in Windows, OnItsWay(v), Open(w)
  PROVE  OnItsWay(v)'
<1>1. CASE v # w
  BY <1>1, Elsewhere DEF Open, TypeOK
<1>2. CASE v = w
  BY <1>2
  DEF Open, TypeOK, OnItsWay, OwnWritesLast, Untouched, WaitsAsShown, LastAsShown, ShowsRow,
      ReadsRow, InStep, LosesWrites, NoNews
<1>3. QED
  BY <1>1, <1>2

LEMMA ReadStep ==
  ASSUME TypeOK, NEW w \in Windows, NEW v \in Windows, OnItsWay(v), Read(w)
  PROVE  OnItsWay(v)'
<1>1. CASE v # w
  BY <1>1, Elsewhere DEF Read, TypeOK
<1>2. CASE v = w
  BY <1>2
  DEF Read, TypeOK, OnItsWay, OwnWritesLast, Untouched, WaitsAsShown, LastAsShown, ShowsRow,
      ReadsRow, InStep, LosesWrites, NoNews
<1>3. QED
  BY <1>1, <1>2

\* What an untouched page is given is the row, or an update tells it otherwise.
LEMMA HydrateStep ==
  ASSUME TypeOK, NEW w \in Windows, NEW v \in Windows, OnItsWay(v), Hydrate(w)
  PROVE  OnItsWay(v)'
<1>1. CASE v # w
  BY <1>1, Elsewhere DEF Hydrate, TypeOK
<1>2. CASE v = w
  <2>1. InStep(v)' => ~behind[v] /\ mem[v] = Default
    BY <1>2 DEF Hydrate, TypeOK, InStep
  <2>2. InStep(v)' => pending'[v] = None /\ ~LosesWrites(v)'
    BY <1>2, <2>1 DEF Hydrate, TypeOK, OnItsWay, Untouched, LosesWrites
  <2>3. ShowsRow(v)'
    BY <1>2, <2>1 DEF Hydrate, TypeOK, OnItsWay, ReadsRow, ShowsRow, NoNews
  <2>4. OwnWritesLast(v)' /\ Untouched(v)' /\ ReadsRow(v)'
    BY <1>2 DEF Hydrate, TypeOK, OnItsWay, OwnWritesLast, Untouched, ReadsRow
  <2>5. QED
    BY <2>2, <2>3, <2>4 DEF OnItsWay, WaitsAsShown, LastAsShown
<1>3. QED
  BY <1>1, <1>2

LEMMA ChangeStep ==
  ASSUME TypeOK, NEW w \in Windows, NEW v \in Windows, OnItsWay(v), Change(w)
  PROVE  OnItsWay(v)'
<1>1. CASE v # w
  BY <1>1, Elsewhere DEF Change, TypeOK
<1>2. CASE v = w
  <2>1. mem'[v] = changes + 2 /\ pending'[v] = changes + 2 /\ pending'[v] # None
        /\ mem'[v] # Default
    BY <1>2, StoresAssumption DEF Change, TypeOK, Default
  <2>2. OwnWritesLast(v)' /\ Untouched(v)'
    BY <1>2, <2>1 DEF Change, TypeOK, OnItsWay, OwnWritesLast, Untouched
  <2>3. QED
    BY <2>1, <2>2 DEF OnItsWay, WaitsAsShown, LastAsShown, ShowsRow, ReadsRow
<1>3. QED
  BY <1>1, <1>2

\* The change that waited is the last write on its way.
LEMMA FlushStep ==
  ASSUME TypeOK, NEW w \in Windows, NEW v \in Windows, OnItsWay(v), Flush(w)
  PROVE  OnItsWay(v)'
<1>1. CASE v # w
  BY <1>1, Elsewhere DEF Flush, TypeOK
<1>2. CASE v = w
  <2> DEFINE put == [value |-> pending[v], from |-> v]
             s == puts[v]
  <2>1. put \in Update /\ s \in Seq(Update) /\ put.from = v /\ put.value = pending[v]
    BY <1>2 DEF Flush, TypeOK, Update
  <2>2. puts'[v] = Append(s, put)
    BY <1>2 DEF Flush, TypeOK
  <2> HIDE DEF put
  <2>3. /\ Len(puts'[v]) = Len(s) + 1 /\ puts'[v][Len(s) + 1] = put /\ Len(s) \in Nat
        /\ \A i \in 1 .. Len(s) : puts'[v][i] = s[i]
    BY <2>1, <2>2, AppendFacts
  <2>4. OwnWritesLast(v)'
    <3> SUFFICES ASSUME NEW i \in 1 .. Len(puts'[v])
                 PROVE  /\ puts'[v][i].from \in {v, Nobody}
                        /\ puts'[v][i].from = v
                             => \A j \in i .. Len(puts'[v]) : puts'[v][j].from = v
      BY DEF OwnWritesLast
    <3>1. CASE i = Len(s) + 1
      BY <2>1, <2>3, <3>1
    <3>2. CASE i \in 1 .. Len(s)
      <4>1. puts'[v][i] = s[i] /\ s[i].from \in {v, Nobody}
        BY <2>3, <3>2 DEF OnItsWay, OwnWritesLast
      <4>2. ASSUME s[i].from = v, NEW j \in i .. Len(puts'[v]) PROVE puts'[v][j].from = v
        <5>1. CASE j = Len(s) + 1
          BY <2>1, <2>3, <5>1
        <5>2. CASE j # Len(s) + 1
          <6>1. j \in i .. Len(s) /\ j \in 1 .. Len(s)
            BY <2>3, <3>2, <5>2
          <6>2. QED
            BY <2>3, <3>2, <4>2, <6>1 DEF OnItsWay, OwnWritesLast
        <5>3. QED
          BY <5>1, <5>2
      <4>3. QED
        BY <4>1, <4>2
    <3>3. QED
      BY <2>3, <3>1, <3>2
  <2>5. LosesWrites(v)'
    BY <2>1, <2>3 DEF LosesWrites
  <2>6. ~(phase[v] = "closed" \/ (phase[v] = "loading" /\ mem[v] = Default))
    BY <1>2 DEF OnItsWay, Untouched, Flush
  <2>7. phase' = phase /\ mem' = mem /\ behind' = behind /\ pending'[v] = None /\ pending[v] # None
    BY <1>2 DEF Flush, TypeOK
  <2>8. LastAsShown(v)'
    BY <2>1, <2>3, <2>7 DEF OnItsWay, LastAsShown, WaitsAsShown, InStep
  <2>9. QED
    BY <2>4, <2>5, <2>6, <2>7, <2>8 DEF OnItsWay, Untouched, WaitsAsShown, ShowsRow, ReadsRow
<1>3. QED
  BY <1>1, <1>2

LEMMA CloseStep ==
  ASSUME TypeOK, NEW w \in Windows, NEW v \in Windows, OnItsWay(v), Close(w)
  PROVE  OnItsWay(v)'
<1>1. CASE v # w
  BY <1>1, Elsewhere DEF Close, TypeOK
<1>2. CASE v = w
  <2>1. phase'[v] = "closed" /\ pending'[v] = None /\ puts'[v] = LeftBehind(v)
    BY <1>2 DEF Close, TypeOK
  <2>2. \A i \in 1 .. Len(puts'[v]) : puts'[v][i].from = Nobody /\ Nobody # v
    BY <2>1, LeftBehindFacts, StoresAssumption
  <2>3. OwnWritesLast(v)' /\ ~LosesWrites(v)'
    BY <2>2 DEF OwnWritesLast, LosesWrites
  <2>4. QED
    BY <2>1, <2>3 DEF OnItsWay, Untouched, WaitsAsShown, LastAsShown, ShowsRow, ReadsRow, InStep
<1>3. QED
  BY <1>1, <1>2
LEMMA ConnectStep ==
  ASSUME TypeOK, NEW w \in Windows, NEW v \in Windows, OnItsWay(v), Connect(w)
  PROVE  OnItsWay(v)'
BY Elsewhere DEF Connect, TypeOK

\* An update that a window applies either tells it nothing new, or becomes a write of its own.
LEMMA DeliverStep ==
  ASSUME TypeOK, NEW w \in Windows, NEW v \in Windows, OnItsWay(v), Deliver(w)
  PROVE  OnItsWay(v)'
<1>1. CASE v # w
  <2>1. mem'[v] = mem[v] /\ pending'[v] = pending[v]
    BY <1>1 DEF Deliver, Apply, TypeOK
  <2>2. QED
    BY <1>1, <2>1, Elsewhere DEF Deliver, TypeOK
<1>2. CASE v = w
  <2> DEFINE s == inbox[v]
             head == Head(inbox[v])
  <2>1. /\ s \in Seq(Update) /\ Len(s) \in Nat \ {0} /\ Len(inbox'[v]) = Len(s) - 1
        /\ \A i \in 1 .. Len(inbox'[v]) : inbox'[v][i] = s[i + 1]
        /\ head = s[1] /\ head \in Update
    BY <1>2, Sequences, TailFacts DEF Deliver, TypeOK
  <2>2. /\ phase' = phase /\ puts' = puts /\ read' = read /\ row' = row
        /\ phase[v] # "closed" /\ (LosesWrites(v)' <=> LosesWrites(v))
    BY <1>2 DEF Deliver, TypeOK, LosesWrites
  <2>3. OwnWritesLast(v)'
    BY <2>2 DEF OnItsWay, OwnWritesLast
  <2> HIDE DEF head
  <2>4. CASE head.from = v \/ (head.value = mem[v] /\ SameShape)
    <3>1. mem'[v] = mem[v] /\ pending'[v] = pending[v]
      BY <1>2, <2>4 DEF Deliver, Apply, head
    <3>2. behind'[v] = behind[v]
      BY <1>2, <2>4 DEF Deliver, TypeOK, head
    <3>3. NoNews(v, mem[v])' => NoNews(v, mem[v])
      <4> SUFFICES ASSUME NoNews(v, mem[v])', NEW i \in 1 .. Len(s), s[i].from # v
                   PROVE  s[i].value = mem[v]
        BY <3>1 DEF NoNews
      <4>1. CASE i = 1
        BY <2>1, <2>4, <4>1
      <4>2. CASE i # 1
        <5>1. i - 1 \in 1 .. Len(inbox'[v]) /\ inbox'[v][i - 1] = s[i]
          BY <2>1, <4>2
        <5>2. QED
          BY <5>1, <3>1 DEF NoNews
      <4>3. QED
        BY <4>1, <4>2
    <3>4. Untouched(v)' /\ WaitsAsShown(v)' /\ LastAsShown(v)'
      BY <2>2, <3>1, <3>2 DEF OnItsWay, Untouched, WaitsAsShown, LastAsShown, InStep
    <3>5. ShowsRow(v)'
      BY <2>2, <3>1, <3>2, <3>3 DEF OnItsWay, ShowsRow, InStep
    <3>6. ReadsRow(v)'
      <4>1. mem[v] = Default => head.from = v
        BY <2>1, <2>4, StoresAssumption DEF Update, Written, Default
      <4>2. mem[v] = Default => (NoNews(v, read[v])' => NoNews(v, read[v]))
        <5> SUFFICES ASSUME mem[v] = Default, NoNews(v, read[v])', NEW i \in 1 .. Len(s),
                            s[i].from # v
                     PROVE  s[i].value = read[v]
          BY DEF NoNews
        <5>1. i - 1 \in 1 .. Len(inbox'[v]) /\ inbox'[v][i - 1] = s[i]
          BY <2>1, <4>1
        <5>2. QED
          BY <5>1, <2>2 DEF NoNews
      <4>3. QED
        BY <2>2, <3>1, <3>2, <4>2 DEF OnItsWay, ReadsRow
    <3>7. QED
      BY <2>3, <3>4, <3>5, <3>6 DEF OnItsWay
  <2>5. CASE ~(head.from = v \/ (head.value = mem[v] /\ SameShape))
    <3>1. mem'[v] = head.value /\ pending'[v] = head.value
      BY <1>2, <2>5 DEF Deliver, Apply, TypeOK, head
    <3>2. head.value \in Written /\ head.value # None /\ head.value # Default
      BY <2>1, StoresAssumption DEF Update, Written, Default
    <3>3. Untouched(v)'
      BY <2>2, <3>1, <3>2 DEF Untouched
    <3>4. QED
      BY <2>3, <3>1, <3>2, <3>3 DEF OnItsWay, WaitsAsShown, LastAsShown, ShowsRow, ReadsRow
  <2>6. QED
    BY <2>4, <2>5
<1>3. QED
  BY <1>1, <1>2

\* The server saves a write and sends it to every window: its own last write of all leaves the
\* writer in step, and any other window is told, or counts as behind.
LEMMA HandlePutStep ==
  ASSUME TypeOK, NEW w \in Windows, NEW v \in Windows, OnItsWay(v), OnItsWay(w), HandlePut(w)
  PROVE  OnItsWay(v)'
<1> DEFINE put == Head(puts[w])
<1>1. /\ puts[w] \in Seq(Update) /\ Len(puts[w]) \in Nat \ {0} /\ put \in Update
      /\ put = puts[w][1] /\ put.from \in {w, Nobody}
  <2>1. puts[w] \in Seq(Update) /\ puts[w] # <<>>
    BY DEF HandlePut, TypeOK
  <2>2. QED
    BY <2>1, TailFacts DEF OnItsWay, OwnWritesLast
<1>2. /\ phase' = phase /\ read' = read /\ mem' = mem /\ pending' = pending
      /\ row' = put.value /\ puts'[w] = Tail(puts[w])
      /\ inbox'[v] = IF conn[v] THEN Append(inbox[v], put) ELSE inbox[v]
      /\ behind'[v] = /\ ~(put.from = v /\ put.value = mem[v] /\ pending[v] = None /\ Len(puts[v]) = 1)
                      /\ behind[v] \/ (v # put.from /\ Misses(v))
  BY DEF HandlePut, TypeOK
<1> HIDE DEF put
<1>3. /\ Len(puts'[w]) = Len(puts[w]) - 1
      /\ \A i \in 1 .. Len(puts'[w]) : puts'[w][i] = puts[w][i + 1]
  BY <1>1, <1>2, TailFacts
<1>4. OwnWritesLast(v)'
  <2>1. CASE v # w
    BY <2>1 DEF HandlePut, TypeOK, OnItsWay, OwnWritesLast
  <2>2. CASE v = w
    <3> SUFFICES ASSUME NEW i \in 1 .. Len(puts'[v])
                 PROVE  /\ puts'[v][i].from \in {v, Nobody}
                        /\ puts'[v][i].from = v
                             => \A j \in i .. Len(puts'[v]) : puts'[v][j].from = v
      BY DEF OwnWritesLast
    <3>1. i + 1 \in 1 .. Len(puts[v]) /\ puts'[v][i] = puts[v][i + 1]
      BY <1>1, <1>3, <2>2
    <3>2. ASSUME puts[v][i + 1].from = v, NEW j \in i .. Len(puts'[v]) PROVE puts'[v][j].from = v
      <4>1. j + 1 \in (i + 1) .. Len(puts[v]) /\ puts'[v][j] = puts[v][j + 1]
        BY <1>1, <1>3, <2>2
      <4>2. QED
        BY <3>1, <3>2, <4>1 DEF OnItsWay, OwnWritesLast
    <3>3. QED
      BY <3>1, <3>2 DEF OnItsWay, OwnWritesLast
  <2>3. QED
    BY <2>1, <2>2
<1>5. /\ LosesWrites(v)' => LosesWrites(v)
      /\ LosesWrites(v)' => /\ puts'[v][Len(puts'[v])] = puts[v][Len(puts[v])]
                            /\ ~(put.from = v /\ Len(puts[v]) = 1)
  <2>1. CASE v # w
    BY <1>1, <2>1, StoresAssumption DEF HandlePut, TypeOK, LosesWrites
  <2>2. CASE v = w
    <3> SUFFICES ASSUME NEW i \in 1 .. Len(puts'[v]), puts'[v][i].from = v
                 PROVE  /\ LosesWrites(v) /\ Len(puts[v]) # 1
                        /\ puts'[v][Len(puts'[v])] = puts[v][Len(puts[v])]
      BY DEF LosesWrites
    <3>1. i + 1 \in 1 .. Len(puts[v]) /\ puts'[v][i] = puts[v][i + 1] /\ Len(puts[v]) # 1
      BY <1>1, <1>3, <2>2
    <3>2. Len(puts'[v]) \in 1 .. Len(puts'[v]) /\ Len(puts'[v]) + 1 = Len(puts[v])
      BY <1>1, <1>3, <2>2
    <3>3. QED
      BY <1>3, <2>2, <3>1, <3>2 DEF LosesWrites
  <2>3. QED
    BY <2>1, <2>2
\* The last of the window's own writes was what it shows, if it is in step.
<1>6. ASSUME put.from = v, ~LosesWrites(v)'
      PROVE  v = w /\ Len(puts[v]) = 1 /\ LosesWrites(v)
  <2>1. v = w
    BY <1>1, <1>6, StoresAssumption
  <2>2. LosesWrites(v)
    BY <1>1, <1>6, <2>1 DEF LosesWrites
  <2>3. ASSUME Len(puts[v]) # 1 PROVE FALSE
    <3> DEFINE n == Len(puts[w])
               m == Len(puts'[w])
    <3>1. n \in Nat \ {0} /\ n # 1 /\ m = n - 1
      BY <1>1, <1>3, <2>1, <2>3
    <3> HIDE DEF n, m
    <3>2. 1 \in 1 .. m /\ 2 \in 1 .. n
      BY <3>1
    <3>3. 1 \in 1 .. Len(puts'[v]) /\ 2 \in 1 .. Len(puts[v]) /\ puts'[v][1] = puts[v][2]
      BY <1>3, <2>1, <3>2 DEF n, m
    <3>4. puts[v][2].from = v
      BY <1>1, <1>6, <2>1, <3>3 DEF OnItsWay, OwnWritesLast
    <3>5. QED
      BY <1>6, <3>3, <3>4 DEF LosesWrites
  <2>4. QED
    BY <2>1, <2>2, <2>3
<1>7. Untouched(v)'
  BY <1>2, <1>5 DEF OnItsWay, Untouched
<1>8. WaitsAsShown(v)'
  BY <1>2 DEF OnItsWay, WaitsAsShown, InStep
<1>9. LastAsShown(v)'
  BY <1>2, <1>5 DEF OnItsWay, LastAsShown, InStep
\* A window with its socket up is told of the write.
<1>10. conn[v] => \E i \in 1 .. Len(inbox'[v]) : inbox'[v][i] = put
  <2>1. inbox[v] \in Seq(Update) /\ Len(inbox[v]) + 1 \in 1 .. Len(inbox[v]) + 1
    BY DEF TypeOK
  <2>2. conn[v] => Len(inbox'[v]) = Len(inbox[v]) + 1 /\ inbox'[v][Len(inbox[v]) + 1] = put
    BY <1>1, <1>2, <2>1, AppendFacts
  <2>3. QED
    BY <2>1, <2>2
<1>11. ShowsRow(v)'
  <2> SUFFICES ASSUME InStep(v)', pending[v] = None, ~LosesWrites(v)', NoNews(v, mem[v])'
               PROVE  mem[v] = row'
    BY <1>2 DEF ShowsRow
  <2>1. CASE put.from = v
    <3>1. Len(puts[v]) = 1 /\ LosesWrites(v) /\ put = puts[v][Len(puts[v])]
      BY <1>1, <1>6, <2>1
    <3>2. CASE put.value = mem[v]
      BY <1>2, <3>2
    <3>3. CASE put.value # mem[v]
      <4>1. ~behind[v]
        BY <1>2, <3>3 DEF InStep
      <4>2. QED
        BY <1>2, <3>1, <3>3, <4>1 DEF OnItsWay, LastAsShown, InStep
    <3>4. QED
      BY <3>2, <3>3
  <2>2. CASE put.from # v
    <3>1. conn[v]
      BY <1>2, <2>2 DEF InStep, Misses
    <3>2. put.value = mem'[v]
      BY <1>10, <2>2, <3>1 DEF NoNews
    <3>3. QED
      BY <1>2, <3>2
  <2>3. QED
    BY <2>1, <2>2
<1>12. ReadsRow(v)'
  <2> SUFFICES ASSUME phase[v] = "loading", read[v] # None, ~behind'[v], mem[v] = Default,
                      NoNews(v, read[v])'
               PROVE  read[v] = row'
    BY <1>2 DEF ReadsRow
  <2>1. put.from # v
    <3>1. ~LosesWrites(v)
      BY DEF OnItsWay, Untouched
    <3>2. QED
      BY <1>1, <1>5, <1>6, <3>1
  <2>2. conn[v]
    BY <1>2, <2>1 DEF Misses
  <2>3. put.value = read'[v]
    BY <1>10, <2>1, <2>2 DEF NoNews
  <2>4. QED
    BY <1>2, <2>3
<1>13. QED
  BY <1>4, <1>7, <1>8, <1>9, <1>11, <1>12 DEF OnItsWay

\* What a dropped socket takes with it either tells the window nothing new, or leaves it behind.
LEMMA DropStep ==
  ASSUME TypeOK, NEW w \in Windows, NEW v \in Windows, OnItsWay(v), Drop(w)
  PROVE  OnItsWay(v)'
<1>1. CASE v # w
  BY <1>1, Elsewhere DEF Drop, TypeOK
<1>2. CASE v = w
  <2>1. /\ UNCHANGED <<row, phase, read, mem, pending, puts>>
        /\ behind'[v] <=> behind[v] \/ LosesUpdates(v)
    BY <1>2 DEF Drop, TypeOK
  <2>2. LosesWrites(v)' <=> LosesWrites(v)
    BY <2>1 DEF LosesWrites
  <2>3. ASSUME ~behind'[v] PROVE NoNews(v, mem[v]) /\ NoNews(v, read[v])
    BY <2>1, <2>3 DEF NoNews, LosesUpdates
  <2>4. ShowsRow(v)' /\ ReadsRow(v)'
    BY <2>1, <2>2, <2>3 DEF OnItsWay, ShowsRow, ReadsRow, InStep
  <2>5. OwnWritesLast(v)' /\ Untouched(v)' /\ WaitsAsShown(v)' /\ LastAsShown(v)'
    BY <2>1, <2>2 DEF OnItsWay, OwnWritesLast, Untouched, WaitsAsShown, LastAsShown, InStep
  <2>6. QED
    BY <2>4, <2>5 DEF OnItsWay
<1>3. QED
  BY <1>1, <1>2

\* A restart loses the writes on their way as well; a page that never got its answer is behind.
LEMMA RestartStep ==
  ASSUME TypeOK, NEW v \in Windows, OnItsWay(v), Restart
  PROVE  OnItsWay(v)'
<1>1. /\ UNCHANGED <<row, read, mem, pending>> /\ puts'[v] = <<>>
      /\ phase'[v] = IF phase[v] = "loading" /\ read[v] = None THEN "open" ELSE phase[v]
      /\ behind'[v] <=> \/ behind[v] \/ LosesUpdates(v) \/ LosesWrites(v)
                        \/ phase[v] = "loading" /\ read[v] = None
  BY DEF Restart, TypeOK
<1>2. ~LosesWrites(v)' /\ OwnWritesLast(v)'
  BY <1>1 DEF LosesWrites, OwnWritesLast
<1>3. ASSUME ~behind'[v]
      PROVE  /\ NoNews(v, mem[v]) /\ NoNews(v, read[v]) /\ phase'[v] = phase[v]
             /\ ~behind[v] /\ ~LosesWrites(v)
  BY <1>1, <1>3 DEF NoNews, LosesUpdates
<1>4. ShowsRow(v)' /\ ReadsRow(v)'
  BY <1>1, <1>3 DEF OnItsWay, ShowsRow, ReadsRow, InStep
<1>5. WaitsAsShown(v)' /\ LastAsShown(v)'
  BY <1>1, <1>2, <1>3 DEF OnItsWay, WaitsAsShown, LastAsShown, InStep
<1>6. Untouched(v)'
  BY <1>1, <1>2 DEF OnItsWay, Untouched
<1>7. QED
  BY <1>2, <1>4, <1>5, <1>6 DEF OnItsWay

LEMMA StepIInv ==
  ASSUME IInv, [Next]_vars
  PROVE  IInv'
<1>1. TypeOK /\ \A v \in Windows : OnItsWay(v)
  BY DEF IInv
<1>2. ASSUME NEW v \in Windows PROVE OnItsWay(v)'
  <2>1. CASE \E w \in Windows : \/ Open(w) \/ Read(w) \/ Hydrate(w) \/ Change(w) \/ Flush(w)
                                 \/ Close(w) \/ HandlePut(w) \/ Deliver(w) \/ Connect(w) \/ Drop(w)
    BY <1>1, <2>1, OpenStep, ReadStep, HydrateStep, ChangeStep, FlushStep, CloseStep, HandlePutStep,
       DeliverStep, ConnectStep, DropStep
  <2>2. CASE Restart
    BY <1>1, <2>2, RestartStep
  <2>3. CASE UNCHANGED vars
    BY <1>1, <2>3, Elsewhere DEF vars
  <2>4. QED
    BY <2>1, <2>2, <2>3 DEF Next
<1>3. QED
  BY <1>2, TypeStep DEF IInv

THEOREM Invariant == Spec => []IInv
<1>1. IInv /\ [Next]_vars => IInv'
  BY StepIInv
<1>2. QED
  BY InitIInv, <1>1, PTL DEF Spec

\* Type correctness of a store in its windows, at the server and on the way between them.
THEOREM TypeCorrect == Spec => []TypeOK
<1>1. IInv => TypeOK
  BY DEF IInv
<1>2. QED
  BY Invariant, <1>1, PTL

\* A window with nothing left to write and nothing left to apply shows what is saved, unless it has
\* lost a broadcast or a write and has applied and written nothing since.
THEOREM Agreement == Spec => []AgreeWhenQuiet
<1>1. IInv => AgreeWhenQuiet
  <2> SUFFICES ASSUME IInv, NEW w \in Windows, phase[w] = "open", ~behind[w], Quiet(w)
               PROVE  mem[w] = row
    BY DEF AgreeWhenQuiet
  <2>1. ~LosesWrites(w) /\ NoNews(w, mem[w])
    BY DEF Quiet, LosesWrites, NoNews
  <2>2. QED
    BY <2>1 DEF IInv, OnItsWay, ShowsRow, InStep, Quiet
<1>2. QED
  BY Invariant, <1>1, PTL
=============================================================================
