--------------------------- MODULE MarketFeedsProofs ---------------------------
(***************************************************************************)
(* Proofs about the history store in MarketFeeds, for every capacity of the  *)
(* channel, every size of the table, any number of snapshots and faults.     *)
(***************************************************************************)
EXTENDS MarketFeeds, Collections

Snap == [id : Nat, size : Nat]
Waiting == ToSet(queue)
Rows == DOMAIN rows

Types ==
  /\ clock \in Nat /\ taken \in Nat
  /\ queue \in Seq(Snap)
  /\ Rows \subseteq Nat /\ rows = [t \in Rows |-> rows[t]]
  /\ \A t \in Rows : rows[t].id \in Nat

\* What was taken, and what of it is empty.
Numbered ==
  /\ real \subseteq 1..taken /\ excused \subseteq 1..taken
  /\ \A s \in Waiting : s.id \in 1..taken /\ (s.size > 0 <=> s.id \in real)
  /\ \A t \in Rows : rows[t].id \in real

\* The channel is in order, and behind the table; the table is in the order of
\* its timestamps as long as the clock is.
InOrder ==
  /\ Rising(queue)
  /\ \A t \in Rows, s \in Waiting : rows[t].id < s.id
  /\ ~back => /\ \A t \in Rows : t <= clock
              /\ \A t, u \in Rows : t < u => rows[t].id < rows[u].id

IInv == Types /\ Numbered /\ InOrder /\ HistoryIsLatest

-----------------------------------------------------------------------------
LEMMA HeldIds ==
  ASSUME Types
  PROVE  Held = {s.id : s \in Waiting} \cup {rows[t].id : t \in Rows}
<1>1. {queue[k].id : k \in DOMAIN queue} = {s.id : s \in Waiting}
  BY DEF Waiting, ToSet
<1> QED BY <1>1 DEF Held, Rows

\* Most actions touch neither the channel nor the table nor the clock.
LEMMA ElsewhereKeepsIInv ==
  ASSUME IInv, UNCHANGED <<queue, rows, taken, real, excused, time>>
  PROVE  IInv'
<1>1. UNCHANGED <<queue, rows, taken, real, excused, clock, back>>
  BY DEF time
<1> QED
  BY <1>1 DEF IInv, Types, Numbered, InOrder, HistoryIsLatest, Held, Waiting, Rows, Rising

-----------------------------------------------------------------------------
LEMMA InitIInv == Init => IInv
<1> SUFFICES ASSUME Init PROVE IInv
  OBVIOUS
<1>1. /\ clock = 1 /\ back = FALSE /\ taken = 0 /\ real = {} /\ excused = {}
      /\ queue = << >> /\ rows = << >>
  BY DEF Init
<1>2. Waiting = {} /\ Rows = {}
  BY <1>1 DEF Waiting, Rows, ToSet
<1>3. Types
  <2>1. rows = [t \in Rows |-> rows[t]]
    BY <1>1 DEF Rows
  <2> QED BY <1>1, <1>2, <2>1 DEF Types
<1>4. Rising(queue)
  BY <1>1 DEF Rising
<1>5. HistoryIsLatest
  BY <1>1 DEF HistoryIsLatest
<1> QED BY <1>1, <1>2, <1>3, <1>4, <1>5 DEF IInv, Numbered, InOrder

\* A snapshot gets the next number; the channel takes it, or it is excused.
LEMMA SnapshotKeepsIInv ==
  ASSUME FeedsAssumption, IInv, Snapshot
  PROVE  IInv'
<1>1. taken \in Nat /\ taken' = taken + 1 /\ UNCHANGED <<rows, clock, back>>
  BY DEF Snapshot, IInv, Types, time
<1>2. PICK size \in {0} \cup (IF fresh THEN 1..BIGGEST ELSE {}) :
        /\ real' = IF size > 0 THEN real \cup {taken'} ELSE real
        /\ Offer([id |-> taken', size |-> size])
  BY DEF Snapshot
<1> DEFINE s == [id |-> taken', size |-> size]
<1>3. size \in Nat /\ s \in Snap /\ s.id = taken + 1 /\ s.size = size
  BY <1>1, FeedsAssumption DEF Snap, FeedsAssumption
<1>4. \/ queue' = Append(queue, s) /\ excused' = excused
      \/ queue' = queue /\ excused' = excused \cup {s.id}
  BY <1>2 DEF Offer
<1>5. /\ real' \subseteq real \cup {s.id} /\ real \subseteq real'
      /\ (s.size > 0 <=> s.id \in real')
  <2>1. s.id \notin real
    BY <1>1, <1>3 DEF IInv, Numbered
  <2> QED BY <1>1, <1>2, <1>3, <2>1
<1> HIDE DEF s
<1>6. queue \in Seq(Snap) /\ (\A c \in Waiting : c.id \in 1..taken) /\ Waiting \subseteq Snap
  BY DEF IInv, Types, Numbered, Waiting, ToSet
<1>7. /\ queue' \in Seq(Snap) /\ Rising(queue)'
      /\ Waiting' \subseteq Waiting \cup {s}
      /\ \/ Waiting' = Waiting \cup {s} /\ excused' = excused
         \/ Waiting' = Waiting /\ excused' = excused \cup {s.id}
  <2>1. Below(ToSet(queue), {s})
    BY <1>1, <1>3, <1>6 DEF Below, Waiting
  <2>2. Rising(queue)
    BY DEF IInv, InOrder
  <2>3. CASE queue' = Append(queue, s) /\ excused' = excused
    <3>1. /\ Append(queue, s) \in Seq(Snap) /\ Rising(Append(queue, s))
          /\ ToSet(Append(queue, s)) = ToSet(queue) \cup {s}
      BY <1>3, <1>6, <2>1, <2>2, NumberedAppend
    <3> QED BY <2>3, <3>1 DEF Waiting, Rising
  <2>4. CASE queue' = queue /\ excused' = excused \cup {s.id}
    BY <1>6, <2>2, <2>4 DEF Waiting, Rising
  <2> QED BY <1>4, <2>3, <2>4
<1>8. Rows' = Rows /\ \A t \in Rows : rows[t].id \in real /\ rows[t].id \in 1..taken
  BY <1>1 DEF Rows, IInv, Numbered
<1>9. Types'
  BY <1>1, <1>7, <1>8 DEF IInv, Types
<1>10. Numbered'
  <2>1. real' \subseteq 1..taken' /\ excused' \subseteq 1..taken'
    <3>1. 1..taken \subseteq 1..taken' /\ s.id \in 1..taken'
      BY <1>1, <1>3
    <3>2. real \subseteq 1..taken /\ excused \subseteq 1..taken
      BY DEF IInv, Numbered
    <3> QED BY <1>5, <1>7, <3>1, <3>2
  <2>2. ASSUME NEW c \in Waiting' PROVE c.id \in 1..taken' /\ (c.size > 0 <=> c.id \in real')
    <3>1. CASE c \in Waiting
      <4>1. c.id \in 1..taken /\ (c.size > 0 <=> c.id \in real)
        BY <3>1 DEF IInv, Numbered
      <4>2. c.id # s.id
        BY <1>1, <1>3, <4>1
      <4>3. c.id \in real' <=> c.id \in real
        BY <1>5, <4>2
      <4> QED BY <1>1, <4>1, <4>3
    <3>2. CASE c = s
      BY <1>1, <1>3, <1>5, <3>2
    <3> QED BY <1>7, <3>1, <3>2
  <2> QED BY <1>1, <1>5, <1>8, <2>1, <2>2 DEF Numbered
<1>11. InOrder'
  <2>1. ASSUME NEW t \in Rows, NEW c \in Waiting' PROVE rows[t].id < c.id
    BY <1>1, <1>3, <1>7, <1>8 DEF IInv, InOrder
  <2> QED BY <1>1, <1>7, <1>8, <2>1 DEF IInv, InOrder
<1>12. HistoryIsLatest'
  <2> SUFFICES ASSUME ~back
               PROVE  \E k \in 0..taken' : \A id \in real' : id \in Held' <=> id > k /\ id \notin excused'
    BY <1>1 DEF HistoryIsLatest
  <2>1. PICK k \in 0..taken : \A id \in real : id \in Held <=> id > k /\ id \notin excused
    BY DEF IInv, HistoryIsLatest
  <2>2. Held = {c.id : c \in Waiting} \cup {rows[t].id : t \in Rows}
    BY HeldIds DEF IInv
  <2>3. Held' = {c.id : c \in Waiting'} \cup {rows[t].id : t \in Rows}
    <3>1. {queue'[i].id : i \in DOMAIN queue'} = {c.id : c \in Waiting'}
      BY DEF Waiting, ToSet
    <3> QED BY <1>1, <3>1 DEF Held, Rows
  <2>4. \A id \in real : id \in 1..taken /\ id # s.id
    BY <1>1, <1>3 DEF IInv, Numbered
  <2>5. s.id \notin Held /\ s.id \notin excused /\ s.id > k
    <3>1. s.id \notin Held
      BY <1>1, <1>3, <1>6, <1>8, <2>2
    <3> QED BY <1>1, <1>3, <3>1 DEF IInv, Numbered
  <2>6. ASSUME NEW id \in real' PROVE id \in Held' <=> id > k /\ id \notin excused'
    <3>1. \/ Held' = Held \cup {s.id} /\ excused' = excused
          \/ Held' = Held /\ excused' = excused \cup {s.id}
      BY <1>7, <2>2, <2>3
    <3> QED BY <1>5, <2>1, <2>4, <2>5, <3>1
  <2> QED BY <1>1, <2>6
<1> QED BY <1>9, <1>10, <1>11, <1>12 DEF IInv

\* The first of the channel becomes a row, or is passed over, or excused.
LEMMA InsertKeepsIInv ==
  ASSUME IInv, Insert
  PROVE  IInv'
<1> DEFINE s == Head(queue)
<1>1. /\ queue # << >> /\ queue' = Tail(queue) /\ queue \in Seq(Snap)
      /\ UNCHANGED <<taken, real, clock, back>> /\ taken \in Nat /\ clock \in Nat
  BY DEF Insert, time, IInv, Types
<1>2. \/ s.size = 0 /\ rows' = rows /\ excused' = excused
      \/ s.size > 0 /\ rows' = rows /\ excused' = excused \cup {s.id}
      \/ /\ s.size > 0 /\ clock \notin Rows /\ excused' = excused
         /\ rows' = [t \in Rows \cup {clock} |-> IF t = clock THEN s ELSE rows[t]]
  BY DEF Insert, Rows
<1>3. /\ s \in Snap /\ Tail(queue) \in Seq(Snap) /\ ToSet(queue) = {s} \cup ToSet(Tail(queue))
      /\ Rising(Tail(queue)) /\ Below({s}, ToSet(Tail(queue)))
  <2>1. Rising(queue)
    BY DEF IInv, InOrder
  <2> QED BY <1>1, <2>1, NumberedTail
<1> HIDE DEF s
<1>4. /\ queue' \in Seq(Snap) /\ Rising(queue)' /\ Waiting = {s} \cup Waiting'
      /\ \A c \in Waiting' : s.id < c.id
  BY <1>1, <1>3 DEF Waiting, Below, Rising
<1>5. s.id \in Nat /\ s.id \in 1..taken /\ (s.size > 0 <=> s.id \in real) /\ s.size \in Nat
  BY <1>3, <1>4 DEF IInv, Numbered, Snap
<1>6. \A t \in Rows : rows[t].id \in real /\ rows[t].id \in Nat /\ rows[t].id < s.id
  BY <1>4 DEF IInv, Numbered, InOrder, Types
<1>7. rows = [t \in Rows |-> rows[t]] /\ Rows \subseteq Nat
  BY DEF IInv, Types
<1>8. \/ Rows' = Rows /\ rows' = rows
      \/ /\ s.size > 0 /\ clock \notin Rows /\ excused' = excused
         /\ Rows' = Rows \cup {clock} /\ rows'[clock] = s
         /\ rows' = [t \in Rows' |-> rows'[t]] /\ \A t \in Rows : rows'[t] = rows[t]
  <2>1. CASE rows' = rows
    BY <2>1 DEF Rows
  <2>2. CASE /\ s.size > 0 /\ clock \notin Rows /\ excused' = excused
             /\ rows' = [t \in Rows \cup {clock} |-> IF t = clock THEN s ELSE rows[t]]
    <3>1. Rows' = Rows \cup {clock}
      BY <2>2 DEF Rows
    <3> QED BY <2>2, <3>1
  <2> QED BY <1>2, <2>1, <2>2
<1>9. Types'
  BY <1>1, <1>4, <1>5, <1>6, <1>7, <1>8 DEF IInv, Types
<1>10. Numbered'
  <2>1. excused' \subseteq 1..taken
    BY <1>2, <1>5 DEF IInv, Numbered
  <2>2. \A t \in Rows' : rows'[t].id \in real
    BY <1>5, <1>6, <1>8
  <2> QED BY <1>1, <1>4, <2>1, <2>2 DEF IInv, Numbered
<1>11. InOrder'
  <2>1. \A t \in Rows', c \in Waiting' : rows'[t].id < c.id
    <3>1. ASSUME NEW t \in Rows', NEW c \in Waiting' PROVE rows'[t].id < c.id
      <4>1. c \in Waiting /\ s.id < c.id
        BY <1>4
      <4>2. t \in Rows => rows[t].id < c.id
        BY <4>1 DEF IInv, InOrder
      <4> QED BY <1>8, <4>1, <4>2
    <3> QED BY <3>1
  <2>2. ASSUME ~back
        PROVE  /\ \A t \in Rows' : t <= clock
               /\ \A t, u \in Rows' : t < u => rows'[t].id < rows'[u].id
    <3>1. /\ \A t \in Rows : t <= clock
          /\ \A t, u \in Rows : t < u => rows[t].id < rows[u].id
      BY <2>2 DEF IInv, InOrder
    <3>2. CASE Rows' = Rows /\ rows' = rows
      BY <3>1, <3>2
    <3>3. CASE /\ Rows' = Rows \cup {clock} /\ rows'[clock] = s
               /\ \A t \in Rows : rows'[t] = rows[t]
      <4>1. \A t \in Rows' : t <= clock
        BY <1>1, <3>1, <3>3
      <4>2. ASSUME NEW t \in Rows', NEW u \in Rows', t < u PROVE rows'[t].id < rows'[u].id
        <5>1. t \in Rows
          BY <1>1, <1>7, <3>3, <4>1, <4>2
        <5>2. CASE u = clock
          BY <1>6, <3>3, <5>1, <5>2
        <5>3. CASE u \in Rows
          BY <3>1, <3>3, <4>2, <5>1, <5>3
        <5> QED BY <3>3, <5>2, <5>3
      <4> QED BY <4>1, <4>2
    <3> QED BY <1>8, <3>2, <3>3
  <2> QED BY <1>1, <1>4, <2>1, <2>2 DEF InOrder
<1>12. HistoryIsLatest'
  <2> SUFFICES ASSUME ~back
               PROVE  \E k \in 0..taken : \A id \in real : id \in Held' <=> id > k /\ id \notin excused'
    BY <1>1 DEF HistoryIsLatest
  <2>1. PICK k \in 0..taken : \A id \in real : id \in Held <=> id > k /\ id \notin excused
    BY DEF IInv, HistoryIsLatest
  <2>2. Held = {c.id : c \in Waiting} \cup {rows[t].id : t \in Rows}
    BY HeldIds DEF IInv
  <2>3. Held' = {c.id : c \in Waiting'} \cup {rows'[t].id : t \in Rows'}
    <3>1. {queue'[i].id : i \in DOMAIN queue'} = {c.id : c \in Waiting'}
      BY DEF Waiting, ToSet
    <3> QED BY <3>1 DEF Held, Rows
  <2>4. Held = {s.id} \cup {c.id : c \in Waiting'} \cup {rows[t].id : t \in Rows}
    BY <1>4, <2>2
  <2>5. s.id \notin {c.id : c \in Waiting'} /\ s.id \notin {rows[t].id : t \in Rows}
    BY <1>4, <1>5, <1>6
  <2>6. CASE s.size = 0 /\ rows' = rows /\ excused' = excused
    <3>1. Held' = Held \ {s.id} /\ s.id \notin real
      BY <1>5, <2>3, <2>4, <2>5, <2>6 DEF Rows
    <3> QED BY <2>1, <2>6, <3>1
  <2>7. CASE s.size > 0 /\ rows' = rows /\ excused' = excused \cup {s.id}
    <3>1. Held' = Held \ {s.id}
      BY <2>3, <2>4, <2>5, <2>7 DEF Rows
    <3> QED BY <2>1, <2>7, <3>1
  <2>8. CASE /\ Rows' = Rows \cup {clock} /\ rows'[clock] = s /\ excused' = excused
             /\ \A t \in Rows : rows'[t] = rows[t]
    <3>1. {rows'[t].id : t \in Rows'} = {s.id} \cup {rows[t].id : t \in Rows}
      BY <2>8
    <3>2. Held' = Held
      BY <2>3, <2>4, <3>1
    <3> QED BY <2>1, <2>8, <3>2
  <2>9. \/ s.size = 0 /\ rows' = rows /\ excused' = excused
        \/ s.size > 0 /\ rows' = rows /\ excused' = excused \cup {s.id}
        \/ /\ Rows' = Rows \cup {clock} /\ rows'[clock] = s /\ excused' = excused
           /\ \A t \in Rows : rows'[t] = rows[t]
    <3>1. CASE /\ s.size > 0 /\ clock \notin Rows /\ excused' = excused
               /\ rows' = [t \in Rows \cup {clock} |-> IF t = clock THEN s ELSE rows[t]]
      <4>1. Rows' = Rows \cup {clock}
        BY <3>1 DEF Rows
      <4> QED BY <3>1, <4>1
    <3> QED BY <1>2, <3>1
  <2> QED BY <2>6, <2>7, <2>8, <2>9
<1> QED BY <1>9, <1>10, <1>11, <1>12 DEF IInv

\* The row that is deleted is the oldest snapshot held: those after it remain.
LEMMA TrimKeepsIInv ==
  ASSUME IInv, Trim
  PROVE  IInv'
<1>1. UNCHANGED <<queue, taken, real, excused, clock, back>>
  BY DEF Trim, time
<1>2. CASE UNCHANGED rows
  BY <1>1, <1>2, ElsewhereKeepsIInv DEF time
<1>3. CASE rows' = Without(Min(Rows))
  <2>1. CASE Rows = {}
    <3>1. Rows' = {} /\ rows' = [t \in Rows' |-> rows'[t]]
      BY <1>3, <2>1 DEF Without, Rows
    <3>2. Types' /\ Numbered' /\ InOrder'
      BY <1>1, <2>1, <3>1 DEF IInv, Types, Numbered, InOrder, Waiting, Rising
    <3>3. Held' = Held
      BY <1>1, <2>1, <3>1 DEF Held, Rows
    <3> QED BY <1>1, <3>2, <3>3 DEF IInv, HistoryIsLatest
  <2>2. CASE Rows # {}
    <3> DEFINE m == Min(Rows)
    <3>1. /\ Rows \subseteq Nat /\ taken \in Nat /\ rows = [t \in Rows |-> rows[t]]
          /\ \A t \in Rows : rows[t].id \in Nat
      BY DEF IInv, Types
    <3>2. m \in Rows /\ \A t \in Rows : m <= t
      BY <2>2, <3>1, Minimum
    <3>3. /\ Rows' = Rows \ {m} /\ rows' = [t \in Rows' |-> rows'[t]]
          /\ \A t \in Rows' : rows'[t] = rows[t]
      <4>1. rows' = [t \in Rows \ {m} |-> rows[t]]
        BY <1>3 DEF Without, Rows
      <4> HIDE DEF m
      <4>2. Rows' = Rows \ {m}
        BY <4>1 DEF Rows
      <4> QED BY <4>1, <4>2
    <3> HIDE DEF m
    <3>4. Types'
      BY <1>1, <3>1, <3>3 DEF IInv, Types
    <3>5. Numbered'
      BY <1>1, <3>3 DEF IInv, Numbered, Waiting
    <3>6. InOrder'
      <4>1. Rising(queue)' /\ Waiting' = Waiting
        BY <1>1 DEF IInv, InOrder, Rising, Waiting
      <4> QED BY <1>1, <3>3, <4>1 DEF IInv, InOrder
    <3>7. HistoryIsLatest'
      <4> SUFFICES ASSUME ~back
                   PROVE  \E k \in 0..taken : \A id \in real :
                            id \in Held' <=> id > k /\ id \notin excused
        BY <1>1 DEF HistoryIsLatest
      <4>1. PICK k \in 0..taken : \A id \in real : id \in Held <=> id > k /\ id \notin excused
        BY DEF IInv, HistoryIsLatest
      <4>2. Held = {c.id : c \in Waiting} \cup {rows[t].id : t \in Rows}
        BY HeldIds DEF IInv
      <4>3. Held' = {c.id : c \in Waiting} \cup {rows[t].id : t \in Rows'}
        <5>1. {queue'[i].id : i \in DOMAIN queue'} = {c.id : c \in Waiting}
          BY <1>1 DEF Waiting, ToSet
        <5>2. Held' = {c.id : c \in Waiting} \cup {rows'[t].id : t \in Rows'}
          BY <5>1 DEF Held, Rows
        <5> QED BY <3>3, <5>2
      <4>4. rows[m].id \in real /\ rows[m].id \in Held /\ rows[m].id \in 0..taken
        BY <3>1, <3>2, <4>2 DEF IInv, Numbered
      <4>5. rows[m].id > k
        BY <4>1, <4>4
      <4>6. \A c \in Waiting : c.id \in Nat /\ c.id > rows[m].id
        BY <3>1, <3>2 DEF IInv, InOrder, Numbered
      <4>7. \A t \in Rows' : t \in Rows /\ rows[t].id > rows[m].id
        <5>1. ASSUME NEW t \in Rows' PROVE t \in Rows /\ rows[t].id > rows[m].id
          <6>1. t \in Rows /\ m < t
            BY <3>1, <3>2, <3>3
          <6> QED BY <3>1, <3>2, <6>1 DEF IInv, InOrder
        <5> QED BY <5>1
      <4>8. \A id \in Held' : id \in Held /\ id > rows[m].id
        BY <4>2, <4>3, <4>6, <4>7
      <4>9. \A id \in Held : id = rows[m].id \/ id \in Held'
        BY <3>3, <4>2, <4>3
      <4>10. ASSUME NEW id \in real PROVE id \in Held' <=> id > rows[m].id /\ id \notin excused
        <5>1. id \in Nat
          BY <3>1 DEF IInv, Numbered
        <5> QED BY <4>1, <4>4, <4>5, <4>8, <4>9, <5>1
      <4> QED BY <4>4, <4>10
    <3> QED BY <3>4, <3>5, <3>6, <3>7 DEF IInv
  <2> QED BY <2>1, <2>2
<1> QED BY <1>2, <1>3 DEF Trim, Rows

\* Going forward the clock stays at the newest row or above.
LEMMA ClockTickKeepsIInv ==
  ASSUME IInv, ClockTick
  PROVE  IInv'
<1>1. UNCHANGED <<queue, rows, taken, real, excused>>
  BY DEF ClockTick, history
<1>2. /\ clock \in Nat /\ clock' \in Nat
      /\ \/ back' = TRUE
         \/ back' = back /\ clock' = clock + 1
  BY DEF ClockTick, IInv, Types
<1>3. Types'
  BY <1>1, <1>2 DEF IInv, Types, Rows
<1>4. Numbered'
  BY <1>1 DEF IInv, Numbered, Waiting, Rows
<1>5. InOrder'
  <2>1. Rising(queue)' /\ Waiting' = Waiting /\ Rows' = Rows /\ Rows \subseteq Nat
    BY <1>1 DEF IInv, Types, InOrder, Rising, Waiting, Rows
  <2> QED BY <1>1, <1>2, <2>1 DEF IInv, InOrder
<1>6. HistoryIsLatest'
  BY <1>1, <1>2 DEF IInv, HistoryIsLatest, Held
<1> QED BY <1>3, <1>4, <1>5, <1>6 DEF IInv

\* A crash empties the channel, and excuses what was in it.
LEMMA CrashKeepsIInv ==
  ASSUME IInv, Crash
  PROVE  IInv'
<1>1. /\ queue' = << >> /\ excused' = excused \cup {queue[k].id : k \in DOMAIN queue}
      /\ UNCHANGED <<rows, taken, real, clock, back>>
  BY DEF Crash, time
<1>2. Waiting' = {} /\ Rows' = Rows
  BY <1>1 DEF Waiting, Rows, ToSet
<1>3. excused' = excused \cup {c.id : c \in Waiting}
  BY <1>1 DEF Waiting, ToSet
<1>4. Types'
  BY <1>1, <1>2 DEF IInv, Types
<1>5. Numbered'
  BY <1>1, <1>2, <1>3 DEF IInv, Numbered
<1>6. InOrder'
  BY <1>1, <1>2 DEF IInv, InOrder, Rising
<1>7. HistoryIsLatest'
  <2> SUFFICES ASSUME ~back
               PROVE  \E k \in 0..taken : \A id \in real : id \in Held' <=> id > k /\ id \notin excused'
    BY <1>1 DEF HistoryIsLatest
  <2>1. PICK k \in 0..taken : \A id \in real : id \in Held <=> id > k /\ id \notin excused
    BY DEF IInv, HistoryIsLatest
  <2>2. Held = {c.id : c \in Waiting} \cup {rows[t].id : t \in Rows}
    BY HeldIds DEF IInv
  <2>3. Held' = {rows[t].id : t \in Rows}
    BY <1>1, <1>2 DEF Held, Rows
  <2>4. \A t \in Rows, c \in Waiting : rows[t].id # c.id
    BY DEF IInv, InOrder, Types, Numbered
  <2> QED BY <1>3, <2>1, <2>2, <2>3, <2>4
<1> QED BY <1>4, <1>5, <1>6, <1>7 DEF IInv

LEMMA StepKeepsIInv ==
  ASSUME FeedsAssumption, IInv, [Next]_vars
  PROVE  IInv'
<1>1. CASE \/ DiscoverOnce \/ Discover \/ Dial \/ DialUrl \/ Dialed
  BY <1>1, ElsewhereKeepsIInv DEF DiscoverOnce, Discover, Dial, DialUrl, Dialed, history
<1>2. CASE \/ Drop \/ LoseSilently \/ Notice \/ Moved \/ Wake \/ SetUrl \/ Vanish \/ Return
  BY <1>2, ElsewhereKeepsIInv DEF Drop, LoseSilently, Notice, Moved, Wake, SetUrl, Vanish, Return, history
<1>3. CASE \/ Trade \/ Whole \/ BybitMessage \/ AsterPoll \/ Age
  BY <1>3, ElsewhereKeepsIInv DEF Trade, Whole, BybitMessage, AsterPoll, Age, history
<1>4. CASE CheckSize
  BY <1>4, ElsewhereKeepsIInv DEF CheckSize
<1>5. CASE UNCHANGED vars
  BY <1>5, ElsewhereKeepsIInv DEF vars, history
<1> QED
  BY <1>1, <1>2, <1>3, <1>4, <1>5, SnapshotKeepsIInv, InsertKeepsIInv, TrimKeepsIInv,
     ClockTickKeepsIInv, CrashKeepsIInv DEF Next

-----------------------------------------------------------------------------
\* The invariant the history rests on: its numbers rise from the table to the
\* end of the channel.
THEOREM Inductive == Spec => []IInv
<1>1. FeedsAssumption
  BY FeedsAssumption
<1> QED BY <1>1, InitIInv, StepKeepsIInv, PTL DEF Spec

\* What add_snapshot and trim_oldest_until_under leave is the latest of what
\* was handed on, whatever was dropped, refused, failed or lost in a crash.
THEOREM HistoryKept == Spec => []HistoryIsLatest
<1>1. IInv => HistoryIsLatest
  BY DEF IInv
<1> QED BY <1>1, Inductive, PTL

-----------------------------------------------------------------------------
(* The feeds and their quotes. *)

Places == {"discover", "connect", "dialing", "open", "live", "sleep"}

\* Where a task may be, and what it knows.
Tasks ==
  /\ bound \in Scenarios
  /\ feed \in [at : Places, tries : 0..4, url : bound.urls \cup {NOWHERE}]
  /\ reachable \in BOOLEAN /\ symbols \in BOOLEAN /\ silent \in BOOLEAN
  /\ url \in bound.urls \cup {NOWHERE} /\ unseen \in BOOLEAN

\* What an exchange offers, and what is kept of it.
Quotes ==
  /\ book \subseteq bound.prices /\ book # {} /\ told \subseteq bound.prices
  /\ \A k \in DOMAIN quote : quote[k].price \in bound.prices
  /\ kind = "Binance" \/ Len(quote) <= DEPTH
  /\ fresh \in BOOLEAN
  /\ QuoteIsNoBetter

FeedInv == Tasks /\ Quotes

LEMMA InitFeedInv == ASSUME FeedsAssumption, Init PROVE FeedInv
<1>1. /\ bound \in Scenarios /\ reachable = TRUE /\ feed = First /\ symbols = (kind = "Listener")
      /\ silent = FALSE /\ url = NOWHERE /\ unseen = FALSE /\ book = bound.prices /\ told = {}
      /\ quote = << >> /\ fresh = FALSE
  BY DEF Init
<1>2. Tasks
  <2>1. symbols \in BOOLEAN
    BY <1>1
  <2>2. feed \in [at : Places, tries : 0..4, url : bound.urls \cup {NOWHERE}]
    BY <1>1 DEF First, Places
  <2> QED BY <1>1, <2>1, <2>2 DEF Tasks
<1>3. bound.prices # {} /\ DEPTH \in Nat
  BY <1>1 DEF FeedsAssumption
<1>4. Quotes
  <2>1. Len(quote) <= DEPTH /\ DOMAIN quote = {}
    BY <1>1, <1>3
  <2>2. QuoteIsNoBetter
    BY <1>1 DEF QuoteIsNoBetter
  <2> QED BY <1>1, <1>3, <2>1, <2>2 DEF Quotes
<1> QED BY <1>2, <1>4 DEF FeedInv

\* A side has a level for each of the lowest prices, best first.
LEMMA SideOf ==
  ASSUME FeedsAssumption, bound \in Scenarios,
         NEW prices \in SUBSET bound.prices, prices # {}, NEW there
  PROVE  LET side == Side(prices, there) IN
           /\ side # << >> /\ \A k \in DOMAIN side : side[k].price \in prices
           /\ kind = "Binance" \/ Len(side) <= DEPTH
           /\ Min(prices) \in prices
           /\ Head(side) = [price |-> Min(prices), size |-> IF Min(prices) \in there THEN 1 ELSE 0]
<1> DEFINE side == Side(prices, there)
           n == Depth(prices)
<1>1. /\ prices \subseteq Nat /\ IsFiniteSet(prices)
      /\ Cardinality(prices) \in Nat \ {0} /\ DEPTH \in Nat \ {0}
  <2>1. bound.prices \subseteq Nat /\ IsFiniteSet(bound.prices) /\ DEPTH \in Nat \ {0}
    BY DEF FeedsAssumption
  <2> QED BY <2>1, FS_Subset, FS_CardinalityType, FS_EmptySet
<1>2. /\ n \in Nat \ {0} /\ n <= Cardinality(prices)
      /\ kind = "Binance" \/ n <= DEPTH
  <2>1. CASE kind = "Binance"
    BY <1>1, <2>1 DEF Depth
  <2>2. CASE kind # "Binance"
    <3> DEFINE T == {DEPTH, Cardinality(prices)}
    <3>1. T \subseteq Nat /\ T # {}
      BY <1>1
    <3>2. Min(T) \in T /\ \A t \in T : Min(T) <= t
      <4> HIDE DEF T
      <4> QED BY <3>1, Minimum
    <3>3. n = Min(T)
      BY <2>2 DEF Depth
    <3> HIDE DEF n
    <3> QED BY <1>1, <3>2, <3>3
  <2> QED BY <2>1, <2>2
<1> HIDE DEF n
<1>3. ASSUME NEW k \in 1..n
      PROVE  /\ Lowest(prices, k) \in prices
             /\ Cardinality({q \in prices : q < Lowest(prices, k)}) = k - 1
  <2>1. k \in 1..Cardinality(prices)
    BY <1>1, <1>2
  <2>2. \E p \in prices : Cardinality({q \in prices : q < p}) = k - 1
    BY <1>1, <2>1, Ranked
  <2> QED BY <2>2 DEF Lowest
<1>4. /\ DOMAIN side = 1..n /\ side # << >>
      /\ \A k \in 1..n : side[k] = [price |-> Lowest(prices, k),
                                    size |-> IF Lowest(prices, k) \in there THEN 1 ELSE 0]
      /\ side \in Seq([price : prices, size : {0, 1}]) /\ Len(side) = n
  <2>1. side = [k \in 1..n |-> [price |-> Lowest(prices, k),
                                size |-> IF Lowest(prices, k) \in there THEN 1 ELSE 0]]
    BY DEF Side, n
  <2>2. \A k \in 1..n : [price |-> Lowest(prices, k),
                         size |-> IF Lowest(prices, k) \in there THEN 1 ELSE 0]
                          \in [price : prices, size : {0, 1}]
    BY <1>3
  <2> HIDE DEF side
  <2>3. side \in [1..n -> [price : prices, size : {0, 1}]]
    BY <2>1, <2>2
  <2>4. side \in Seq([price : prices, size : {0, 1}]) /\ Len(side) = n /\ DOMAIN side = 1..n
    <3> DEFINE L == [price : prices, size : {0, 1}]
    <3>1. n \in Nat /\ n > 0 /\ DOMAIN side = 1..n
      BY <1>2, <2>3
    <3>2. side \in Seq(L)
      <4>1. \E m \in Nat : side \in [1..m -> L]
        BY <2>3, <3>1
      <4> HIDE DEF L
      <4> QED BY <4>1, SeqDef
    <3>3. Len(side) \in Nat /\ DOMAIN side = 1..Len(side)
      <4> HIDE DEF L
      <4> QED BY <3>2, LenProperties
    <3>4. n \in 1..Len(side)
      BY <3>1, <3>3
    <3>5. Len(side) \in 1..n
      BY <3>1, <3>3, <3>4
    <3> QED BY <3>1, <3>2, <3>3, <3>4, <3>5
  <2>5. side # << >>
    BY <1>2, <2>4
  <2> QED BY <2>1, <2>4, <2>5
<1> HIDE DEF side
<1>5. Min(prices) \in prices /\ Lowest(prices, 1) = Min(prices)
  <2>1. Min(prices) \in prices /\ \A p \in prices : Min(prices) <= p
    BY <1>1, Minimum
  <2> DEFINE low == Lowest(prices, 1)
             under == {q \in prices : q < low}
  <2>2. low \in prices /\ Cardinality(under) = 0
    <3>1. 1 \in 1..n
      BY <1>2
    <3> QED BY <1>3, <3>1
  <2>3. IsFiniteSet(under)
    BY <1>1, FS_Subset
  <2>4. under = {}
    <3> HIDE DEF under
    <3> QED BY <2>2, <2>3, FS_EmptySet
  <2>5. ~(Min(prices) < low)
    BY <2>1, <2>4
  <2> HIDE DEF low
  <2>6. low \in Nat /\ Min(prices) \in Nat /\ Min(prices) <= low
    BY <1>1, <2>1, <2>2
  <2>7. low = Min(prices)
    BY <2>5, <2>6
  <2> QED BY <2>1, <2>7 DEF low
<1>6. Head(side) = side[1] /\ 1 \in 1..n
  BY <1>2, <1>4
<1>7. \A k \in DOMAIN side : side[k].price \in prices
  BY <1>3, <1>4
<1> QED BY <1>2, <1>4, <1>5, <1>6, <1>7 DEF side

\* A quote of the book as it is, or of what changed in it.
LEMMA QuoteStep ==
  ASSUME FeedsAssumption, FeedInv, UNCHANGED <<bound, book>>, told' \subseteq bound.prices,
         NEW prices \in SUBSET bound.prices, prices # {}, Quote(Side(prices, book)),
         prices = book \/ kind = "Bybit"
  PROVE  Quotes'
<1> DEFINE side == Side(prices, book)
<1>1. /\ side # << >> /\ \A k \in DOMAIN side : side[k].price \in prices
      /\ kind = "Binance" \/ Len(side) <= DEPTH
      /\ Min(prices) \in prices
      /\ Head(side) = [price |-> Min(prices), size |-> IF Min(prices) \in book THEN 1 ELSE 0]
  BY SideOf DEF FeedInv, Tasks
<1> HIDE DEF side
<1>2. quote' = side /\ quoted' = book /\ fresh' = TRUE
  BY DEF Quote, side
<1>3. kind' = kind /\ bound' = bound /\ book' = book
  BY DEF kind
<1>4. QuoteIsNoBetter'
  <2>1. CASE prices = book
    <3>1. Head(side) = [price |-> Min(book), size |-> 1] /\ Min(book) \in Nat
      BY <1>1, <2>1 DEF FeedInv, Tasks, FeedsAssumption
    <3> QED BY <1>2, <1>3, <3>1 DEF QuoteIsNoBetter
  <2>2. CASE kind = "Bybit"
    <3>1. ASSUME Min(prices) \in book PROVE Min(prices) >= Min(book)
      <4>1. book \subseteq Nat /\ book # {}
        BY DEF FeedInv, Tasks, Quotes, FeedsAssumption
      <4>2. Min(book) <= Min(prices) /\ Min(book) \in Nat /\ Min(prices) \in Nat
        BY <3>1, <4>1, Minimum
      <4> QED BY <4>2
    <3>2. Head(side).size = 0 \/ Head(side).price >= Min(book)
      BY <1>1, <3>1
    <3> QED BY <1>2, <1>3, <2>2, <3>2 DEF QuoteIsNoBetter
  <2> QED BY <2>1, <2>2
<1> QED BY <1>1, <1>2, <1>3, <1>4 DEF FeedInv, Quotes

\* Steps of the task that leave the market alone.
LEMMA TaskStep ==
  ASSUME FeedsAssumption, FeedInv,
         \/ DiscoverOnce \/ Discover \/ Dial \/ DialUrl \/ Dialed
         \/ Drop \/ LoseSilently \/ Notice \/ Moved \/ Wake \/ SetUrl \/ Vanish \/ Return
  PROVE  FeedInv'
<1>1. UNCHANGED <<bound, market>>
  BY DEF DiscoverOnce, Discover, Dial, DialUrl, Dialed, Drop, LoseSilently, Notice, Moved, Wake,
         SetUrl, Vanish, Return
<1>2. Quotes'
  BY <1>1 DEF FeedInv, Quotes, QuoteIsNoBetter, market, kind
<1>3. Tasks
  BY DEF FeedInv
<1>4. CASE DiscoverOnce
  <2>1. symbols' \in BOOLEAN
    BY <1>3, <1>4 DEF DiscoverOnce, Tasks
  <2>2. feed' \in [at : Places, tries : 0..4, url : bound.urls \cup {NOWHERE}]
    BY <1>3, <1>4 DEF DiscoverOnce, Tasks, At, Places
  <2> QED BY <1>1, <1>2, <1>3, <1>4, <2>1, <2>2 DEF DiscoverOnce, Tasks, FeedInv, watch
<1>5. CASE Discover
  <2>1. symbols' \in BOOLEAN
    BY <1>3, <1>5 DEF Discover, Tasks
  <2>2. feed' \in [at : Places, tries : 0..4, url : bound.urls \cup {NOWHERE}]
    <3>1. CASE symbols' \/ feed.tries = 4
      BY <1>3, <1>5, <3>1 DEF Discover, Tasks, At, Places
    <3>2. CASE ~(symbols' \/ feed.tries = 4)
      BY <1>3, <1>5, <3>2 DEF Discover, Tasks
    <3> QED BY <3>1, <3>2
  <2> QED BY <1>1, <1>2, <1>3, <1>5, <2>1, <2>2 DEF Discover, Tasks, FeedInv, watch
<1>6. CASE Dial
  BY <1>1, <1>2, <1>3, <1>6 DEF Dial, Tasks, FeedInv, At, Places, watch
<1>7. CASE DialUrl
  BY <1>1, <1>2, <1>3, <1>7 DEF DialUrl, Tasks, FeedInv, Places
<1>8. CASE Dialed
  BY <1>1, <1>2, <1>3, <1>8 DEF Dialed, Tasks, FeedInv, At, Places, watch
<1>9. CASE Drop \/ LoseSilently \/ Notice
  BY <1>1, <1>2, <1>3, <1>9 DEF Drop, LoseSilently, Notice, Tasks, FeedInv, At, Places, watch
<1>10. CASE Moved \/ Wake
  BY <1>1, <1>2, <1>3, <1>10 DEF Moved, Wake, Tasks, FeedInv, At, Places
<1>11. CASE SetUrl
  BY <1>1, <1>2, <1>3, <1>11 DEF SetUrl, Tasks, FeedInv, task
<1>12. CASE Vanish \/ Return
  BY <1>1, <1>2, <1>3, <1>12 DEF Vanish, Return, Tasks, FeedInv, task, watch
<1> QED BY <1>2, <1>4, <1>5, <1>6, <1>7, <1>8, <1>9, <1>10, <1>11, <1>12 DEF FeedInv

\* Steps of the exchange and messages of it.
LEMMA MarketStep ==
  ASSUME FeedsAssumption, FeedInv, Trade \/ Whole \/ BybitMessage \/ AsterPoll \/ Age
  PROVE  FeedInv'
<1>1. Tasks /\ Quotes /\ book \subseteq bound.prices /\ book # {} /\ told \subseteq bound.prices
  BY DEF FeedInv, Quotes
<1>2. UNCHANGED <<bound, reachable, symbols, silent, url, unseen>>
  BY DEF Trade, Whole, BybitMessage, AsterPoll, Age, task, watch
<1>3. Tasks'
  <2>1. feed' = feed \/ feed' = At("live")
    BY DEF Trade, Whole, BybitMessage, AsterPoll, Age, task
  <2> QED BY <1>1, <1>2, <2>1 DEF Tasks, At, Places
<1> SUFFICES Quotes'
  BY <1>3 DEF FeedInv
<1>4. CASE Trade
  <2>1. /\ book' \subseteq bound.prices /\ book' # {}
        /\ UNCHANGED <<bound, told, quote, quoted, fresh>>
    BY <1>4 DEF Trade
  <2>2. QuoteIsNoBetter'
    BY <1>1, <2>1 DEF Quotes, QuoteIsNoBetter, kind
  <2> QED BY <1>1, <2>1, <2>2 DEF Quotes, kind
<1>5. CASE Whole
  <2>1. Quote(Side(book, book)) /\ UNCHANGED <<bound, book, told>>
    BY <1>5 DEF Whole
  <2> QED BY <1>1, <2>1, QuoteStep
<1>6. CASE AsterPoll
  <2>1. Quote(Side(book, book)) /\ UNCHANGED <<bound, book, told>>
    BY <1>6 DEF AsterPoll
  <2> QED BY <1>1, <2>1, QuoteStep
<1>7. CASE BybitMessage
  <2>1. told' \subseteq bound.prices /\ UNCHANGED <<bound, book>> /\ kind = "Bybit"
    BY <1>1, <1>7 DEF BybitMessage
  <2>2. CASE Quote(Side(book, book))
    BY <1>1, <2>1, <2>2, QuoteStep
  <2>3. CASE \E prices \in SUBSET bound.prices : prices # {} /\ Quote(Side(prices, book))
    BY <2>1, <2>3, QuoteStep
  <2>4. CASE UNCHANGED <<quote, quoted, fresh>>
    BY <1>1, <2>1, <2>4 DEF Quotes, QuoteIsNoBetter, kind
  <2>5. \A resized \in SUBSET (told \cap book) :
           (told \ book) \cup (book \ told) \cup resized \in SUBSET bound.prices
    BY <1>1
  <2> QED BY <1>7, <2>2, <2>3, <2>4, <2>5 DEF BybitMessage, Delta
<1>8. CASE Age
  BY <1>1, <1>2, <1>8 DEF Age, Quotes, QuoteIsNoBetter, kind
<1> QED BY <1>4, <1>5, <1>6, <1>7, <1>8

LEMMA StepKeepsFeedInv ==
  ASSUME FeedsAssumption, FeedInv, [Next]_vars
  PROVE  FeedInv'
<1>1. CASE UNCHANGED <<bound, reachable, task, watch, market>>
  BY <1>1 DEF FeedInv, Tasks, Quotes, QuoteIsNoBetter, kind, task, watch, market
<1>2. CASE Crash
  <2>1. /\ feed' = First /\ symbols' = (kind = "Listener") /\ silent' = FALSE /\ unseen' = FALSE
        /\ quote' = << >> /\ fresh' = FALSE /\ UNCHANGED <<bound, reachable, url, book, told>>
    BY <1>2 DEF Crash
  <2>2. Tasks'
    <3>1. symbols' \in BOOLEAN
      BY <2>1
    <3>2. feed' \in [at : Places, tries : 0..4, url : bound.urls \cup {NOWHERE}]
      BY <2>1 DEF First, Places
    <3> QED BY <2>1, <3>1, <3>2 DEF FeedInv, Tasks
  <2>3. Quotes'
    <3>1. DOMAIN quote' = {} /\ Len(quote') <= DEPTH
      BY <2>1 DEF FeedsAssumption
    <3>2. QuoteIsNoBetter'
      BY <2>1 DEF QuoteIsNoBetter
    <3> QED BY <2>1, <3>1, <3>2 DEF FeedInv, Quotes
  <2> QED BY <2>2, <2>3 DEF FeedInv
<1>3. CASE Snapshot \/ Insert \/ CheckSize \/ Trim \/ ClockTick \/ UNCHANGED vars
  BY <1>1, <1>3 DEF Snapshot, Insert, CheckSize, Trim, ClockTick, vars
<1> QED BY <1>2, <1>3, TaskStep, MarketStep DEF Next

LEMMA FeedInvKept == Spec => []FeedInv
<1>1. FeedsAssumption
  BY FeedsAssumption
<1>2. Init => FeedInv
  BY <1>1, InitFeedInv
<1>3. FeedInv /\ [Next]_vars => FeedInv'
  BY <1>1, StepKeepsFeedInv
<1> QED BY <1>2, <1>3, PTL DEF Spec

\* What a feed shows as best is the best of its book, or in a message of Bybit
\* that holds only what changed, one that is no better (update_market_data,
\* the levels of bybit.rs).
THEOREM BestIsTrue == Spec => []QuoteIsNoBetter
<1>1. FeedInv => QuoteIsNoBetter
  BY DEF FeedInv, Quotes
<1> QED BY <1>1, FeedInvKept, PTL

-----------------------------------------------------------------------------
(* The size of the table. *)

TotalOf(r) == SumFunction([t \in DOMAIN r |-> r[t].size])

\* What the table holds is bounded, and grows by no more than one snapshot.
Sizes ==
  /\ Len(queue) <= CAPACITY /\ \A s \in Waiting : s.size <= BIGGEST
  /\ writer \in {"idle", "check", "trim"} /\ cut \in Nat
  /\ clock \in 1..LastMs /\ back \in BOOLEAN
  /\ Rows \subseteq 1..LastMs
  /\ \A t \in Rows : rows[t].size \in Nat /\ rows[t].size <= BIGGEST
  /\ CapKept

\* A row more and a row less.
LEMMA TotalRows ==
  ASSUME NEW r, IsFiniteSet(DOMAIN r), \A t \in DOMAIN r : r[t].size \in Nat
  PROVE  /\ TotalOf(r) \in Nat /\ (DOMAIN r = {} => TotalOf(r) = 0)
         /\ \A q, t : /\ t \in DOMAIN r /\ DOMAIN q = DOMAIN r \ {t}
                      /\ \A u \in DOMAIN q : q[u] = r[u]
                      => TotalOf(r) = TotalOf(q) + r[t].size
<1> DEFINE f == [t \in DOMAIN r |-> r[t].size]
<1>1. DOMAIN f = DOMAIN r /\ \A t \in DOMAIN r : f[t] = r[t].size
  OBVIOUS
<1>2. TotalOf(r) = SumFunctionOnSet(f, DOMAIN r)
  BY <1>1 DEF TotalOf, SumFunction
<1> HIDE DEF f
<1>3. \A t \in DOMAIN r : f[t] \in Nat
  BY <1>1
<1>4. /\ TotalOf(r) \in Nat /\ (DOMAIN r = {} => TotalOf(r) = 0)
      /\ \A t \in DOMAIN r : TotalOf(r) = SumFunctionOnSet(f, DOMAIN r \ {t}) + f[t]
  BY <1>2, <1>3, SumOver
<1>5. ASSUME NEW q, NEW t \in DOMAIN r, DOMAIN q = DOMAIN r \ {t}, \A u \in DOMAIN q : q[u] = r[u]
      PROVE  TotalOf(r) = TotalOf(q) + r[t].size
  <2> DEFINE g == [u \in DOMAIN q |-> q[u].size]
  <2>1. DOMAIN g = DOMAIN q /\ \A u \in DOMAIN q : g[u] = f[u] /\ g[u] \in Nat
    BY <1>1, <1>3, <1>5
  <2>2. TotalOf(q) = SumFunctionOnSet(g, DOMAIN q)
    BY <2>1 DEF TotalOf, SumFunction
  <2> HIDE DEF g
  <2>3. IsFiniteSet(DOMAIN q)
    BY <1>5, FS_RemoveElement
  <2>4. SumFunctionOnSet(g, DOMAIN q) = SumFunctionOnSet(f, DOMAIN q)
    BY <2>1, <2>3, SumSame
  <2> QED BY <1>1, <1>4, <1>5, <2>2, <2>4
<1> QED BY <1>4, <1>5

LEMMA Room ==
  ASSUME FeedsAssumption, NEW n \in Nat, NEW a \in Nat, NEW d \in Nat, d <= BIGGEST
  PROVE  /\ a <= CAP + BIGGEST * (n + 0) => a + d <= CAP + BIGGEST * (n + 1)
         /\ (a <= TARGET \/ a <= CAP) => a <= CAP + BIGGEST * (n + 0)
         /\ a + d <= CAP + BIGGEST * (n + 1) => a <= CAP + BIGGEST * (n + 1)
<1>1. BIGGEST \in Nat /\ CAP \in Nat /\ TARGET \in Nat /\ TARGET <= CAP
  BY DEF FeedsAssumption
<1> DEFINE p == BIGGEST * n
<1>2. p \in Nat /\ BIGGEST * (n + 0) = p /\ BIGGEST * (n + 1) = p + BIGGEST
  BY <1>1
<1> HIDE DEF p
<1> QED BY <1>1, <1>2

LEMMA ElsewhereKeepsSizes ==
  ASSUME Sizes, UNCHANGED <<queue, writer, rows, cut, clock, back>>
  PROVE  Sizes'
BY DEF Sizes, Waiting, Rows, CapKept, Total

\* A cleanup that fails leaves the row it was run for, and counts.
LEMMA GiveUpKeepsCap ==
  ASSUME Sizes, writer \in {"check", "trim"}, GiveUp, rows' = rows
  PROVE  cut' \in Nat /\ writer' = "idle" /\ CapKept'
<1>1. cut \in Nat /\ cut' = cut + 1 /\ writer' = "idle" /\ Total' = Total
  BY DEF Sizes, GiveUp, Total
<1>2. Total <= CAP + BIGGEST * (cut + 1)
  BY DEF Sizes, CapKept
<1>3. cut' + 0 = cut + 1
  BY <1>1
<1>4. Total' <= CAP + BIGGEST * (cut' + 0)
  BY <1>1, <1>2, <1>3
<1> QED BY <1>1, <1>4 DEF CapKept

LEMMA StoreStep ==
  ASSUME FeedsAssumption, IInv, Sizes, Insert \/ CheckSize \/ Trim
  PROVE  Sizes'
<1>1. /\ UNCHANGED <<clock, back>> /\ clock \in 1..LastMs /\ back \in BOOLEAN /\ cut \in Nat
      /\ Total = TotalOf(rows) /\ Total' = TotalOf(rows')
      /\ \A t \in Rows : rows[t].size \in Nat /\ rows[t].size <= BIGGEST
  BY DEF Insert, CheckSize, Trim, time, Sizes, Total, TotalOf
<1>2. IsFiniteSet(Rows) /\ Rows \subseteq 1..LastMs /\ Rows \subseteq Nat
  <2>1. LastMs \in Int /\ 1 \in Int
    BY DEF FeedsAssumption
  <2>2. IsFiniteSet(1..LastMs)
    BY <2>1, FS_Interval
  <2>3. Rows \subseteq 1..LastMs
    BY DEF Sizes
  <2>4. 1..LastMs \subseteq Nat
    BY <2>1
  <2> QED BY <2>2, <2>3, <2>4, FS_Subset
<1>3. /\ TotalOf(rows) \in Nat /\ (Rows = {} => TotalOf(rows) = 0)
      /\ \A q, t : /\ t \in Rows /\ DOMAIN q = Rows \ {t} /\ \A u \in DOMAIN q : q[u] = rows[u]
                   => TotalOf(rows) = TotalOf(q) + rows[t].size
  BY <1>1, <1>2, TotalRows DEF Rows
<1>4. CASE Insert
  <2> DEFINE s == Head(queue)
  <2>1. queue # << >> /\ queue' = Tail(queue) /\ queue \in Seq(Snap) /\ UNCHANGED cut /\ writer = "idle"
    BY <1>4 DEF Insert, IInv, Types
  <2>2. /\ Tail(queue) \in Seq(Snap) /\ Len(Tail(queue)) = Len(queue) - 1 /\ s \in Snap
        /\ ToSet(queue) = {s} \cup ToSet(Tail(queue)) /\ Len(queue) \in Nat
    <3>1. Len(queue) \in Nat
      BY <2>1
    <3> QED BY <2>1, <3>1, NumberedTail
  <2>3. /\ s.size \in Nat /\ s.size <= BIGGEST /\ CAPACITY \in Nat
        /\ Len(queue') <= CAPACITY /\ \A c \in Waiting' : c.size <= BIGGEST
    BY <2>1, <2>2 DEF Sizes, Waiting, Snap, FeedsAssumption
  <2>4. CASE UNCHANGED <<rows, writer>>
    BY <1>1, <1>2, <2>1, <2>3, <2>4 DEF Sizes, CapKept, Rows, Total
  <2>5. CASE /\ clock \notin Rows /\ writer' = "check"
             /\ rows' = [t \in Rows \cup {clock} |-> IF t = clock THEN s ELSE rows[t]]
    <3>1. Rows' = Rows \cup {clock} /\ rows'[clock] = s /\ \A t \in Rows : rows'[t] = rows[t]
      BY <2>5 DEF Rows
    <3> HIDE DEF s
    <3>2. /\ Rows' \subseteq 1..LastMs /\ IsFiniteSet(Rows')
          /\ \A t \in Rows' : rows'[t].size \in Nat /\ rows'[t].size <= BIGGEST
      BY <1>1, <1>2, <2>3, <3>1, FS_AddElement
    <3>3. \A q, t : /\ t \in Rows' /\ DOMAIN q = Rows' \ {t} /\ \A u \in DOMAIN q : q[u] = rows'[u]
                    => TotalOf(rows') = TotalOf(q) + rows'[t].size
      BY <3>2, TotalRows DEF Rows
    <3>4. Rows = Rows' \ {clock} /\ Rows = DOMAIN rows
      BY <2>5, <3>1 DEF Rows
    <3>5. TotalOf(rows') = TotalOf(rows) + s.size
      BY <3>1, <3>3, <3>4
    <3>6. CapKept'
      <4>1. TotalOf(rows) <= CAP + BIGGEST * (cut + 0)
        BY <1>1, <2>1 DEF Sizes, CapKept
      <4>2. TotalOf(rows') <= CAP + BIGGEST * (cut + 1)
        <5>1. cut \in Nat /\ TotalOf(rows) \in Nat /\ s.size \in Nat /\ s.size <= BIGGEST
          BY <1>1, <1>3, <2>3
        <5>2. TotalOf(rows) + s.size <= CAP + BIGGEST * (cut + 1)
          BY <4>1, <5>1, Room
        <5> QED BY <3>5, <5>2
      <4> QED BY <1>1, <2>1, <2>5, <4>2 DEF CapKept
    <3> QED BY <1>1, <2>1, <2>3, <2>5, <3>2, <3>6 DEF Sizes
  <2> QED BY <1>4, <2>4, <2>5 DEF Insert, Rows
<1>5. CASE CheckSize
  <2>1. UNCHANGED <<queue, rows>> /\ Total' = Total /\ writer = "check"
    BY <1>1, <1>5 DEF CheckSize
  <2>2. cut' \in Nat /\ writer' \in {"idle", "check", "trim"} /\ CapKept'
    <3>1. CASE Total > CAP /\ writer' = "trim" /\ UNCHANGED cut
      BY <1>1, <1>5, <2>1, <3>1 DEF Sizes, CapKept
    <3>2. CASE Total <= CAP /\ Done
      <4>1. cut' = 0 /\ writer' = "idle"
        BY <3>2 DEF Done
      <4>2. Total <= CAP + BIGGEST * (0 + 0)
        <5>1. Total \in Nat /\ CAP \in Nat /\ BIGGEST \in Nat
          BY <1>1, <1>3 DEF FeedsAssumption
        <5> QED BY <3>2, <5>1
      <4> QED BY <2>1, <4>1, <4>2 DEF CapKept
    <3>3. CASE GiveUp
      BY <1>1, <2>1, <3>3, GiveUpKeepsCap
    <3> QED BY <1>5, <3>1, <3>2, <3>3 DEF CheckSize
  <2> QED BY <1>1, <2>1, <2>2 DEF Sizes, Waiting, Rows
<1>6. CASE Trim
  <2>1. UNCHANGED queue /\ writer = "trim"
    BY <1>6 DEF Trim
  <2>2. CASE Total > TARGET /\ rows' = Without(Min(DOMAIN rows)) /\ UNCHANGED <<writer, cut>>
    <3>1. rows' = Without(Min(Rows)) /\ UNCHANGED <<writer, cut>>
      BY <2>2 DEF Rows
    <3>2. Rows # {}
      <4>1. TARGET \in Nat
        BY DEF FeedsAssumption
      <4> QED BY <1>1, <1>3, <2>2, <4>1
    <3>3. Min(Rows) \in Rows
      BY <1>2, <3>2, Minimum
    <3> DEFINE m == Min(Rows)
    <3>4. rows' = [r \in Rows \ {m} |-> rows[r]]
      BY <3>1 DEF Without, Rows
    <3> HIDE DEF m
    <3>5. /\ Rows' = Rows \ {m} /\ DOMAIN rows' = Rows \ {m} /\ m \in Rows
          /\ \A u \in DOMAIN rows' : rows'[u] = rows[u]
      BY <3>3, <3>4 DEF Rows, m
    <3>6. TotalOf(rows) = TotalOf(rows') + rows[m].size
      BY <1>3, <3>5
    <3>7. TotalOf(rows') \in Nat
      <4>1. IsFiniteSet(DOMAIN rows') /\ \A t \in DOMAIN rows' : rows'[t].size \in Nat
        BY <1>1, <1>2, <3>5, FS_RemoveElement
      <4> QED BY <4>1, TotalRows
    <3>8. CapKept'
      <4>1. Total <= CAP + BIGGEST * (cut + 1)
        BY <2>1 DEF Sizes, CapKept
      <4>2. /\ cut \in Nat /\ rows[m].size \in Nat /\ rows[m].size <= BIGGEST
            /\ TotalOf(rows') + rows[m].size <= CAP + BIGGEST * (cut + 1)
        BY <1>1, <3>5, <3>6, <4>1
      <4>3. Total' <= CAP + BIGGEST * (cut + 1)
        BY <1>1, <3>7, <4>2, Room
      <4> QED BY <2>1, <3>1, <4>3 DEF CapKept
    <3>9. Rows' \subseteq 1..LastMs /\ \A t \in Rows' : rows'[t].size \in Nat /\ rows'[t].size <= BIGGEST
      BY <1>1, <1>2, <3>5
    <3> QED BY <1>1, <2>1, <3>1, <3>8, <3>9 DEF Sizes, Waiting
  <2>3. CASE Total <= TARGET /\ Done /\ UNCHANGED rows
    <3>1. cut' = 0 /\ writer' = "idle" /\ UNCHANGED rows
      BY <2>3 DEF Done
    <3>2. CapKept'
      <4>1. Total <= CAP + BIGGEST * (0 + 0)
        <5>1. Total \in Nat /\ CAP \in Nat /\ TARGET \in Nat /\ BIGGEST \in Nat /\ TARGET <= CAP
          BY <1>1, <1>3 DEF FeedsAssumption
        <5> QED BY <2>3, <5>1
      <4>2. Total' <= CAP + BIGGEST * (0 + 0)
        BY <1>1, <3>1, <4>1
      <4> QED BY <3>1, <4>2 DEF CapKept
    <3> QED BY <1>1, <2>1, <3>1, <3>2 DEF Sizes, Waiting, Rows
  <2>4. CASE GiveUp /\ UNCHANGED rows
    <3>1. cut' \in Nat /\ writer' = "idle" /\ CapKept'
      BY <1>1, <2>1, <2>4, GiveUpKeepsCap
    <3> QED BY <1>1, <2>1, <2>4, <3>1 DEF Sizes, Waiting, Rows
  <2> QED BY <1>6, <2>2, <2>3, <2>4 DEF Trim
<1> QED BY <1>4, <1>5, <1>6

\* A crash in add_snapshot leaves the row, and counts.
LEMMA CrashKeepsSizes ==
  ASSUME FeedsAssumption, Sizes, Crash
  PROVE  Sizes'
<1>1. /\ queue' = << >> /\ writer' = "idle" /\ cut' = IF writer = "idle" THEN cut ELSE cut + 1
      /\ UNCHANGED <<rows, clock, back>>
  BY DEF Crash, time
<1>2. Waiting' = {} /\ Len(queue') <= CAPACITY
  BY <1>1 DEF Waiting, ToSet, FeedsAssumption
<1>3. cut \in Nat /\ cut' \in Nat
  BY <1>1 DEF Sizes
<1>4. CapKept'
  <2>1. cut' + 0 = cut + (IF writer = "idle" THEN 0 ELSE 1)
    BY <1>1, <1>3
  <2>2. Total' <= CAP + BIGGEST * (cut' + 0)
    <3>1. Total' = Total
      BY <1>1 DEF Total
    <3> QED BY <2>1, <3>1 DEF Sizes, CapKept
  <2> QED BY <1>1, <2>2 DEF CapKept
<1> QED BY <1>1, <1>2, <1>3, <1>4 DEF Sizes, Rows

LEMMA SnapshotKeepsSizes ==
  ASSUME FeedsAssumption, IInv, Sizes, Snapshot
  PROVE  Sizes'
<1>1. UNCHANGED <<writer, rows, cut, clock, back>> /\ queue \in Seq(Snap) /\ taken' \in Nat
  BY DEF Snapshot, time, IInv, Types
<1>2. PICK size \in {0} \cup (IF fresh THEN 1..BIGGEST ELSE {}) : Offer([id |-> taken', size |-> size])
  BY DEF Snapshot
<1>a. CAPACITY \in Nat
  BY DEF FeedsAssumption
<1>b. [id |-> taken', size |-> size] \in Snap /\ size <= BIGGEST
  BY <1>1, <1>2 DEF Snap, FeedsAssumption
<1>c. Len(queue) \in Nat
  BY <1>1
<1>d. \A c \in Snap : /\ Len(Append(queue, c)) = Len(queue) + 1
                      /\ ToSet(Append(queue, c)) = ToSet(queue) \cup {c}
  <2> TAKE c \in Snap
  <2>1. queue \in Seq(Snap)
    BY <1>1
  <2>2. ToSet(Append(queue, c)) = ToSet(queue) \cup {c}
    BY <2>1, ElementsOfAppend
  <2>3. Len(Append(queue, c)) = Len(queue) + 1
    BY <2>1
  <2> QED BY <2>2, <2>3
<1>3. PICK s \in Snap : s = [id |-> taken', size |-> size] /\ s.size <= BIGGEST
  BY <1>b
<1>4. \/ queue' = Append(queue, s) /\ Len(queue) < CAPACITY
      \/ queue' = queue
  BY <1>2, <1>3 DEF Offer
<1>5. Len(queue') <= CAPACITY /\ \A c \in Waiting' : c.size <= BIGGEST
  <2>1. CASE queue' = Append(queue, s) /\ Len(queue) < CAPACITY
    <3>1. Len(queue') = Len(queue) + 1 /\ ToSet(queue') = ToSet(queue) \cup {s} /\ Len(queue) \in Nat
      BY <1>c, <1>d, <2>1
    <3> QED BY <1>a, <1>3, <2>1, <3>1 DEF Sizes, Waiting
  <2>2. CASE queue' = queue
    BY <2>2 DEF Sizes, Waiting
  <2> QED BY <1>4, <2>1, <2>2
<1> QED BY <1>1, <1>5 DEF Sizes, Rows, CapKept, Total

LEMMA StepKeepsSizes ==
  ASSUME FeedsAssumption, IInv, Sizes, [Next]_vars
  PROVE  Sizes'
<1>1. CASE \/ DiscoverOnce \/ Discover \/ Dial \/ DialUrl \/ Dialed
  BY <1>1, ElsewhereKeepsSizes DEF DiscoverOnce, Discover, Dial, DialUrl, Dialed, history, time
<1>2. CASE \/ Drop \/ LoseSilently \/ Notice \/ Moved \/ Wake \/ SetUrl \/ Vanish \/ Return
  BY <1>2, ElsewhereKeepsSizes
     DEF Drop, LoseSilently, Notice, Moved, Wake, SetUrl, Vanish, Return, history, time
<1>3. CASE \/ Trade \/ Whole \/ BybitMessage \/ AsterPoll \/ Age \/ UNCHANGED vars
  BY <1>3, ElsewhereKeepsSizes DEF Trade, Whole, BybitMessage, AsterPoll, Age, vars, history, time
<1>4. CASE ClockTick
  <2>1. UNCHANGED <<queue, writer, rows, cut>>
    BY <1>4 DEF ClockTick, history
  <2>2. clock' \in 1..LastMs /\ back' \in BOOLEAN
    <3>1. clock \in 1..LastMs /\ LastMs \in Nat
      BY DEF Sizes, FeedsAssumption
    <3>2. back \in BOOLEAN
      BY DEF Sizes
    <3>3. \/ clock < LastMs /\ clock' = clock + 1 /\ back' = back
          \/ clock' \in 1..(clock - 1) /\ back' = TRUE
      BY <1>4 DEF ClockTick
    <3>4. clock' \in 1..LastMs
      BY <3>1, <3>3
    <3>5. back' \in BOOLEAN
      BY <3>2, <3>3
    <3> QED BY <3>4, <3>5
  <2> QED BY <2>1, <2>2 DEF Sizes, Waiting, Rows, CapKept, Total
<1> QED
  BY <1>1, <1>2, <1>3, <1>4, SnapshotKeepsSizes, StoreStep, CrashKeepsSizes DEF Next

LEMMA InitSizes == ASSUME FeedsAssumption, Init PROVE Sizes
<1>1. queue = << >> /\ rows = << >> /\ clock = 1 /\ back = FALSE /\ writer = "idle" /\ cut = 0
  BY DEF Init
<1>2. Waiting = {} /\ Rows = {} /\ Len(queue) <= CAPACITY /\ LastMs \in Nat \ {0}
  BY <1>1 DEF Waiting, Rows, ToSet, FeedsAssumption
<1>3. CapKept
  <2>1. Total = 0
    <3>1. IsFiniteSet(DOMAIN rows) /\ DOMAIN rows = {}
      BY <1>2, FS_EmptySet DEF Rows
    <3>2. TotalOf(rows) = 0
      BY <3>1, TotalRows
    <3> QED BY <3>2 DEF Total, TotalOf
  <2>2. 0 <= CAP + BIGGEST * (0 + 0)
    <3>1. CAP \in Nat /\ BIGGEST \in Nat
      BY DEF FeedsAssumption
    <3> QED BY <3>1
  <2> QED BY <1>1, <2>1, <2>2 DEF CapKept
<1>4. clock \in 1..LastMs /\ cut \in Nat
  BY <1>1, <1>2
<1>5. back \in BOOLEAN
  BY <1>1
<1> QED BY <1>1, <1>2, <1>3, <1>4, <1>5 DEF Sizes

LEMMA SizesKept == Spec => []Sizes
<1>1. FeedsAssumption
  BY FeedsAssumption
<1>2. Init => Sizes
  BY <1>1, InitSizes
<1>3. IInv /\ Sizes /\ [Next]_vars => Sizes'
  BY <1>1, StepKeepsSizes
<1> QED BY <1>2, <1>3, Inductive, PTL DEF Spec

\* The table never passes its cap by more than the snapshots whose size was not
\* yet looked at: the one being added, and one for each cleanup that a crash or
\* an error of the database has ended early since the last that succeeded.
THEOREM CapIsKept == Spec => []CapKept
<1>1. Sizes => CapKept
  BY DEF Sizes
<1> QED BY <1>1, SizesKept, PTL

\* The task, the quote, the channel and the table stay within their types and
\* bounds (TypeOK).
THEOREM TypeCorrect == Spec => []TypeOK
<1>1. FeedInv /\ Sizes /\ IInv => TypeOK
  <2> SUFFICES ASSUME FeedInv, Sizes, IInv PROVE TypeOK
    OBVIOUS
  <2>1. /\ feed.at \in Places /\ feed.tries \in 0..4 /\ feed.url \in bound.urls \cup {NOWHERE}
    BY DEF FeedInv, Tasks
  <2>2. {reachable, symbols, silent, unseen, fresh, back} \subseteq BOOLEAN
    BY DEF FeedInv, Tasks, Quotes, Sizes
  <2>3. real \cup excused \subseteq 1..taken
    BY DEF IInv, Numbered
  <2> QED BY <2>1, <2>2, <2>3 DEF TypeOK, FeedInv, Quotes, Sizes, Places, Rows
<1> QED BY <1>1, FeedInvKept, SizesKept, Inductive, PTL

=============================================================================
