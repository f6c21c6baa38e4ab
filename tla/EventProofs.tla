---------------------------- MODULE EventProofs ----------------------------
(***************************************************************************)
(* Proofs about the event manager.  The table, the batch and the channel   *)
(* hold three stretches of the events, each in the order of Emit and all   *)
(* before the next (OrderInv); since no event is in two of them, a batch   *)
(* that cannot be written is lost as a whole and nothing else is.          *)
(***************************************************************************)
EXTENDS EventManager, SequenceTheorems, TLAPS

Increasing(s) == \A i, k \in DOMAIN s : i < k => s[i] < s[k]
Before(s, t) == \A i \in DOMAIN s, k \in DOMAIN t : s[i] < t[k]

OrderInv ==
    /\ Increasing(table) /\ Increasing(batch) /\ Increasing(in)
    /\ Before(table, batch) /\ Before(table, in) /\ Before(batch, in)
    /\ \A s \in {table, batch, in} : \A i \in DOMAIN s : s[i] < next

\* A batch that is not full does not wait for writeBatch in the loop.
RoomInv == pc = "select" => Len(batch) < BatchSize

EventInv == TypeOK /\ RoomInv /\ OrderInv

-----------------------------------------------------------------------------
\* Two stretches in order, one before the other, make one in order.
LEMMA IncreasingConcat ==
    ASSUME NEW s \in Seq(Int), NEW t \in Seq(Int),
           Increasing(s), Increasing(t), Before(s, t)
    PROVE  /\ Increasing(s \o t)
           /\ \A i \in DOMAIN (s \o t) :
                \/ \E k \in DOMAIN s : (s \o t)[i] = s[k]
                \/ \E k \in DOMAIN t : (s \o t)[i] = t[k]
<1>1. /\ s \o t \in Seq(Int) /\ Len(s \o t) = Len(s) + Len(t)
      /\ Len(s) \in Nat /\ Len(t) \in Nat
  OBVIOUS
<1>2. /\ DOMAIN s = 1 .. Len(s) /\ DOMAIN t = 1 .. Len(t)
      /\ DOMAIN (s \o t) = 1 .. Len(s) + Len(t)
  BY <1>1
<1>3. \A i \in 1 .. Len(s) + Len(t) :
        (s \o t)[i] = IF i <= Len(s) THEN s[i] ELSE t[i - Len(s)]
  OBVIOUS
<1>4. \A i \in 1 .. Len(s) + Len(t) :
        \/ i \in 1 .. Len(s)
        \/ i - Len(s) \in 1 .. Len(t) /\ i > Len(s)
  BY <1>1
<1>5. Increasing(s \o t)
  <2> SUFFICES ASSUME NEW i \in 1 .. Len(s) + Len(t),
                      NEW k \in 1 .. Len(s) + Len(t), i < k
               PROVE  (s \o t)[i] < (s \o t)[k]
    BY <1>2 DEF Increasing
  <2>0. i \in Nat /\ k \in Nat /\ 1 <= i /\ 1 <= k /\ k <= Len(s) + Len(t)
    BY <1>1
  <2>1. CASE k <= Len(s)
    <3>1. i \in 1 .. Len(s) /\ k \in 1 .. Len(s) /\ i <= Len(s)
      BY <1>1, <2>0, <2>1
    <3>2. s[i] < s[k]
      BY <1>2, <3>1 DEF Increasing
    <3> QED  BY <1>3, <2>1, <3>1, <3>2
  <2>2. CASE i > Len(s)
    <3>1. /\ i - Len(s) \in 1 .. Len(t) /\ k - Len(s) \in 1 .. Len(t)
          /\ i - Len(s) < k - Len(s)
          /\ ~(i <= Len(s)) /\ ~(k <= Len(s))
      BY <1>1, <2>0, <2>2
    <3>2. t[i - Len(s)] < t[k - Len(s)]
      BY <1>2, <3>1 DEF Increasing
    <3> QED  BY <1>3, <3>1, <3>2
  <2>3. CASE i <= Len(s) /\ k > Len(s)
    <3>1. /\ i \in 1 .. Len(s) /\ k - Len(s) \in 1 .. Len(t)
          /\ i <= Len(s) /\ ~(k <= Len(s))
      BY <1>1, <2>0, <2>3
    <3>2. s[i] < t[k - Len(s)]
      BY <1>2, <3>1 DEF Before
    <3> QED  BY <1>3, <3>1, <3>2
  <2> QED  BY <1>1, <2>0, <2>1, <2>2, <2>3
<1> QED  BY <1>2, <1>3, <1>4, <1>5

\* An appended sequence, one index at a time.
LEMMA AppendIndex ==
    ASSUME NEW S, NEW s \in Seq(S), NEW e \in S
    PROVE  /\ Append(s, e) \in Seq(S)
           /\ Len(Append(s, e)) = Len(s) + 1
           /\ \A i \in DOMAIN s : i \in DOMAIN Append(s, e) /\ Append(s, e)[i] = s[i]
           /\ \A i \in DOMAIN Append(s, e) :
                \/ i \in DOMAIN s /\ Append(s, e)[i] = s[i]
                \/ i = Len(s) + 1 /\ Append(s, e)[i] = e
           /\ \A i, k \in DOMAIN Append(s, e) : i < k => i \in DOMAIN s
<1>1. /\ Append(s, e) \in Seq(S) /\ Len(Append(s, e)) = Len(s) + 1
      /\ Append(s, e)[Len(s) + 1] = e
      /\ \A i \in 1 .. Len(s) : Append(s, e)[i] = s[i]
  BY AppendProperties
<1>2. /\ Len(s) \in Nat /\ DOMAIN s = 1 .. Len(s)
      /\ DOMAIN Append(s, e) = 1 .. Len(s) + 1
  BY <1>1, LenProperties
<1>3. \A i \in 1 .. Len(s) + 1 : i \in 1 .. Len(s) \/ i = Len(s) + 1
  BY <1>2
<1>4. \A i, k \in 1 .. Len(s) + 1 : i < k => i \in 1 .. Len(s)
  BY <1>2
<1>5. \A i \in 1 .. Len(s) : i \in 1 .. Len(s) + 1
  BY <1>2
<1>. QED  BY <1>1, <1>2, <1>3, <1>4, <1>5

-----------------------------------------------------------------------------
\* The steps of the loop, and the others, keep the types.
LEMMA EventTypes ==
    ASSUME TypeOK, RoomInv, [Next]_vars
    PROVE  TypeOK' /\ RoomInv'
<1>. USE EventAssumption DEF TypeOK, RoomInv, Numbers
<1>1. CASE Emit
  <2>1. next \in 1 .. MaxEvents /\ next' \in 1 .. MaxEvents + 1
    BY <1>1 DEF Emit
  <2>2. /\ Append(in, next) \in Seq(1 .. MaxEvents)
        /\ Len(Append(in, next)) = Len(in) + 1 /\ Len(in) \in Nat
    BY <2>1, AppendProperties, LenProperties
  <2>3. in' \in Seq(1 .. MaxEvents) /\ Len(in') <= ChanCap
    <3>1. CASE Len(in) < ChanCap
      <4>1. in' = Append(in, next)
        BY <1>1, <3>1 DEF Emit
      <4>. QED  BY <2>2, <3>1, <4>1
    <3>2. CASE ~(Len(in) < ChanCap)
      BY <1>1, <3>2 DEF Emit
    <3>. QED  BY <3>1, <3>2
  <2>. QED  BY <1>1, <2>1, <2>3 DEF Emit
<1>2. CASE Receive
  <2>1. /\ Head(in) \in 1 .. MaxEvents
        /\ Tail(in) \in Seq(1 .. MaxEvents) /\ Len(Tail(in)) <= ChanCap
    BY <1>2 DEF Receive
  <2>2. /\ Append(batch, Head(in)) \in Seq(1 .. MaxEvents)
        /\ Len(Append(batch, Head(in))) = Len(batch) + 1
        /\ Len(batch) + 1 <= BatchSize
    BY <1>2, <2>1 DEF Receive
  <2>. QED  BY <1>2, <2>1, <2>2 DEF Receive
<1>3. CASE TickerFires \/ ExitLoop \/ Close \/ UNCHANGED vars
  BY <1>3 DEF TickerFires, ExitLoop, Close, vars
<1>4. CASE WriteBatch
  BY <1>4 DEF WriteBatch, Writing, AfterWrite
<1>5. CASE WriteFails
  BY <1>5 DEF WriteFails, Writing, AfterWrite
<1>6. CASE Crash
  <2>1. <<>> \in Seq(1 .. MaxEvents) /\ Len(<<>>) = 0
    OBVIOUS
  <2>2. crashes' \in 0 .. MaxCrashes
    BY <1>6 DEF Crash
  <2>3. 0 <= ChanCap /\ 0 < BatchSize
    OBVIOUS
  <2>4. in' = <<>> /\ batch' = <<>>
    BY <1>6 DEF Crash
  <2>5. /\ in' \in Seq(1 .. MaxEvents) /\ Len(in') <= ChanCap
        /\ batch' \in Seq(1 .. MaxEvents) /\ Len(batch') < BatchSize
        /\ Len(batch') <= BatchSize
    BY <2>1, <2>3, <2>4
  <2>. QED  BY <1>6, <2>2, <2>5 DEF Crash
<1>. QED
  BY <1>1, <1>2, <1>3, <1>4, <1>5, <1>6 DEF Next, Loop

\* What is compared is a number.
LEMMA EntriesAreInts ==
    ASSUME TypeOK
    PROVE  /\ next \in Int
           /\ \A i \in DOMAIN table : table[i] \in Int
           /\ \A i \in DOMAIN batch : batch[i] \in Int
           /\ \A i \in DOMAIN in : in[i] \in Int
  BY EventAssumption DEF TypeOK, Numbers

\* Events move from the channel to the batch and from there to the table, in
\* front of those that come after them and behind those that went before.
LEMMA EventOrder ==
    ASSUME TypeOK, OrderInv, [Next]_vars
    PROVE  OrderInv'
<1>. USE EventAssumption DEF TypeOK, OrderInv, Numbers
<1>0. /\ next \in Int
      /\ \A i \in DOMAIN table : table[i] \in Int
      /\ \A i \in DOMAIN batch : batch[i] \in Int
      /\ \A i \in DOMAIN in : in[i] \in Int
  BY EntriesAreInts
<1>1. CASE Emit
  <2>0. /\ next' = next + 1 /\ UNCHANGED <<table, batch>>
        /\ \A i \in DOMAIN table : table[i] < next + 1
        /\ \A i \in DOMAIN batch : batch[i] < next + 1
        /\ \A i \in DOMAIN in : in[i] < next + 1
    BY <1>0, <1>1 DEF Emit
  <2>1. CASE UNCHANGED in
    BY <2>0, <2>1 DEF Increasing, Before
  <2>2. CASE in' = Append(in, next)
    <3>0. next \in 1 .. MaxEvents /\ in \in Seq(1 .. MaxEvents)
      BY <1>1 DEF Emit
    <3>1. \A i \in DOMAIN in' : \/ i \in DOMAIN in /\ in'[i] = in[i]
                                \/ i = Len(in) + 1 /\ in'[i] = next
      BY <2>2, <3>0, AppendIndex
    <3>2. /\ \A i, k \in DOMAIN in' : i < k => i \in DOMAIN in
          /\ \A i \in DOMAIN in : in'[i] = in[i]
      BY <2>2, <3>0, AppendIndex
    <3>3. Increasing(in')
      BY <3>1, <3>2 DEF Increasing
    <3>4. Before(table, in') /\ Before(batch, in')
      BY <3>1 DEF Before
    <3>5. \A i \in DOMAIN in' : in'[i] < next + 1
      BY <1>0, <2>0, <3>1
    <3>. QED  BY <2>0, <3>3, <3>4, <3>5
  <2>. QED  BY <1>1, <2>1, <2>2 DEF Emit
<1>2. CASE Receive
  <2>1. \A i \in DOMAIN in' : i + 1 \in DOMAIN in /\ in'[i] = in[i + 1]
    BY <1>2 DEF Receive
  <2>2. 1 \in DOMAIN in /\ Head(in) = in[1]
    BY <1>2 DEF Receive
  <2>0. /\ batch' = Append(batch, in[1]) /\ in[1] \in 1 .. MaxEvents
        /\ batch \in Seq(1 .. MaxEvents)
    BY <1>2, <2>2 DEF Receive
  <2>3. \A i \in DOMAIN batch' : \/ i \in DOMAIN batch /\ batch'[i] = batch[i]
                                 \/ i = Len(batch) + 1 /\ batch'[i] = in[1]
    BY <2>0, AppendIndex
  <2>4. /\ \A i, k \in DOMAIN batch' : i < k => i \in DOMAIN batch
        /\ \A i \in DOMAIN batch : batch'[i] = batch[i]
    BY <2>0, AppendIndex
  <2>5. Increasing(in')
    <3>1. \A i, k \in DOMAIN in' : i < k => i + 1 < k + 1
      BY <1>2 DEF Receive
    <3>. QED  BY <2>1, <3>1 DEF Increasing
  <2>6. Increasing(batch')
    BY <2>2, <2>3, <2>4 DEF Increasing, Before
  <2>7. Before(table, in') /\ Before(table, batch')
    BY <2>1, <2>2, <2>3 DEF Before
  <2>8. Before(batch', in')
    <3>1. \A i \in DOMAIN in' : 1 < i + 1
      BY <1>2 DEF Receive
    <3>. QED  BY <2>1, <2>2, <2>3, <3>1 DEF Before, Increasing
  <2>9. /\ \A i \in DOMAIN in' : in'[i] < next
        /\ \A i \in DOMAIN batch' : batch'[i] < next
    BY <2>1, <2>2, <2>3
  <2>. QED  BY <1>2, <2>5, <2>6, <2>7, <2>8, <2>9 DEF Receive
<1>3. CASE TickerFires \/ ExitLoop \/ Close \/ UNCHANGED vars
  BY <1>3 DEF TickerFires, ExitLoop, Close, vars
<1>4. CASE WriteBatch
  <2>1. /\ table \in Seq(Int) /\ batch \in Seq(Int)
        /\ Increasing(table) /\ Increasing(batch) /\ Before(table, batch)
    OBVIOUS
  <2>2. /\ Increasing(table')
        /\ \A i \in DOMAIN table' :
             \/ \E k \in DOMAIN table : table'[i] = table[k]
             \/ \E k \in DOMAIN batch : table'[i] = batch[k]
    BY <1>4, <2>1, IncreasingConcat DEF WriteBatch
  <2>3. Before(table', in)
    BY <2>2 DEF Before
  <2>4. \A i \in DOMAIN table' : table'[i] < next
    BY <2>2
  <2>5. DOMAIN batch' = {}
    BY <1>4 DEF WriteBatch
  <2>. QED  BY <1>4, <2>2, <2>3, <2>4, <2>5 DEF WriteBatch, Increasing, Before
<1>5. CASE WriteFails
  BY <1>5 DEF WriteFails, Increasing, Before
<1>6. CASE Crash
  BY <1>6 DEF Crash, Increasing, Before
<1>. QED
  BY <1>1, <1>2, <1>3, <1>4, <1>5, <1>6 DEF Next, Loop

-----------------------------------------------------------------------------
\* EventInv is an inductive invariant: the three stretches stay in order
\* across crashes, failed writes and a Close at any moment.
THEOREM EventsCorrect == Spec => []EventInv
<1>1. Init => EventInv
  <2>1. ASSUME Init
        PROVE  TypeOK /\ RoomInv
    <3>1. <<>> \in Seq(1 .. MaxEvents) /\ Len(<<>>) = 0
      OBVIOUS
    <3>2. /\ 0 <= ChanCap /\ 0 < BatchSize /\ 0 \in 0 .. MaxCrashes
          /\ 1 \in 1 .. MaxEvents + 1
      BY EventAssumption
    <3>3. /\ in \in Seq(1 .. MaxEvents) /\ Len(in) <= ChanCap
          /\ batch \in Seq(1 .. MaxEvents) /\ Len(batch) < BatchSize
          /\ Len(batch) <= BatchSize
          /\ table \in Seq(1 .. MaxEvents)
      BY <2>1, <3>1, <3>2, EventAssumption DEF Init
    <3>. QED  BY <2>1, <3>2, <3>3 DEF Init, TypeOK, Numbers, RoomInv
  <2>2. ASSUME Init
        PROVE  OrderInv
    BY <2>2 DEF Init, OrderInv, Increasing, Before
  <2>. QED  BY <2>1, <2>2 DEF EventInv
<1>2. EventInv /\ [Next]_vars => EventInv'
  BY EventTypes, EventOrder DEF EventInv
<1>. QED
  BY <1>1, <1>2, PTL DEF Spec

\* The channel and the batch stay within their capacities.
THEOREM EventTypeOK == Spec => []TypeOK
<1>1. EventInv => TypeOK
  BY DEF EventInv
<1>. QED
  BY <1>1, EventsCorrect, PTL

\* The three stretches together are what InOrderOnce speaks of.
LEMMA OrderOfAll ==
    ASSUME EventInv
    PROVE  InOrderOnce
<1>. USE DEF EventInv, TypeOK, OrderInv, Numbers
<1>0. table \in Seq(Int) /\ batch \in Seq(Int) /\ in \in Seq(Int)
  <2>1. 1 .. MaxEvents \subseteq Int
    BY EventAssumption
  <2>2. /\ table \in Seq(1 .. MaxEvents) /\ batch \in Seq(1 .. MaxEvents)
        /\ in \in Seq(1 .. MaxEvents)
    OBVIOUS
  <2>. QED  BY <2>1, <2>2, SeqMonotonic
<1>1. /\ table \in Seq(Int) /\ batch \in Seq(Int) /\ in \in Seq(Int)
      /\ table \o batch \in Seq(Int)
  BY <1>0, ConcatProperties
<1>2. /\ Increasing(table \o batch)
      /\ \A i \in DOMAIN (table \o batch) :
           \/ \E k \in DOMAIN table : (table \o batch)[i] = table[k]
           \/ \E k \in DOMAIN batch : (table \o batch)[i] = batch[k]
  BY <1>1, IncreasingConcat
<1>3. Before(table \o batch, in)
  BY <1>2 DEF Before
<1>4. /\ Increasing((table \o batch) \o in)
      /\ \A i \in DOMAIN ((table \o batch) \o in) :
           \/ \E k \in DOMAIN (table \o batch) :
                ((table \o batch) \o in)[i] = (table \o batch)[k]
           \/ \E k \in DOMAIN in : ((table \o batch) \o in)[i] = in[k]
  BY <1>1, <1>2, <1>3, IncreasingConcat
<1>5. \A i \in DOMAIN (table \o batch) : (table \o batch)[i] < next
  BY <1>2
<1>6. \A i \in DOMAIN ((table \o batch) \o in) :
        ((table \o batch) \o in)[i] < next
  BY <1>4, <1>5
<1>. QED  BY <1>4, <1>6 DEF InOrderOnce, Increasing

\* What is recorded is recorded in the order of Emit and once, whatever the
\* channel sheds, the database refuses or a crash loses.
THEOREM RecordedInOrder == Spec => []InOrderOnce
<1>1. EventInv => InOrderOnce
  BY OrderOfAll
<1>. QED
  BY <1>1, EventsCorrect, PTL

\* A step that is no crash loses a whole batch that could not be written, or
\* nothing.
THEOREM LossIsByBatch == Spec => LostByBatch
<1>. DEFINE Lost == InFlight \ (InFlight' \cup ToSet(table'))
            ByBatch == crashes' = crashes =>
                         (Lost # {} => Writing /\ Lost = ToSet(batch))
<1>1. ASSUME EventInv, [Next]_vars
      PROVE  ByBatch
  <2>. USE <1>1 DEF EventInv, TypeOK, OrderInv, Numbers
  <2>0. SUFFICES ASSUME crashes' = crashes
                 PROVE  Lost # {} => Writing /\ Lost = ToSet(batch)
    OBVIOUS
  <2>1. CASE Emit
    <3>1. \A i \in DOMAIN in : i \in DOMAIN in' /\ in'[i] = in[i]
      BY <2>1 DEF Emit
    <3>. QED  BY <2>1, <3>1 DEF Emit, InFlight, ToSet
  <2>2. CASE Receive
    <3>1. \A i \in DOMAIN in :
            \/ in[i] = in[1]
            \/ i - 1 \in DOMAIN in' /\ in'[i - 1] = in[i]
      BY <2>2 DEF Receive
    <3>2. /\ \A i \in DOMAIN batch : i \in DOMAIN batch' /\ batch'[i] = batch[i]
          /\ Len(batch) + 1 \in DOMAIN batch' /\ batch'[Len(batch) + 1] = in[1]
      BY <2>2 DEF Receive
    <3>. QED  BY <3>1, <3>2 DEF InFlight, ToSet
  <2>3. CASE TickerFires \/ ExitLoop \/ Close \/ UNCHANGED vars
    BY <2>3 DEF TickerFires, ExitLoop, Close, vars, InFlight
  <2>4. CASE WriteBatch
    <3>1. \A i \in DOMAIN batch :
            /\ Len(table) + i \in DOMAIN table'
            /\ table'[Len(table) + i] = batch[i]
      BY <2>4 DEF WriteBatch
    <3>. QED  BY <2>4, <3>1 DEF WriteBatch, InFlight, ToSet
  <2>5. CASE WriteFails
    <3>1. ToSet(batch) \cap (ToSet(in) \cup ToSet(table)) = {}
      <4>1. /\ \A i \in DOMAIN table, k \in DOMAIN batch : table[i] # batch[k]
            /\ \A i \in DOMAIN batch, k \in DOMAIN in : batch[i] # in[k]
        <5>1. /\ \A i \in DOMAIN table : table[i] \in Int
              /\ \A i \in DOMAIN batch : batch[i] \in Int
              /\ \A i \in DOMAIN in : in[i] \in Int
          BY <1>1, EntriesAreInts DEF EventInv
        <5>2. \A x, y \in Int : x < y => x # y
          OBVIOUS
        <5>3. Before(table, batch) /\ Before(batch, in)
          OBVIOUS
        <5>. QED  BY <5>1, <5>2, <5>3, Zenon DEF Before
      <4>. QED  BY <4>1 DEF ToSet
    <3>2. InFlight' = ToSet(in) /\ ToSet(table') = ToSet(table) /\ Writing
      BY <2>5 DEF WriteFails, InFlight, ToSet
    <3>. QED  BY <3>1, <3>2 DEF InFlight
  <2>6. CASE Crash
    BY <2>6, <2>0 DEF Crash
  <2>. QED
    BY <2>1, <2>2, <2>3, <2>4, <2>5, <2>6 DEF Next, Loop
<1>2. EventInv /\ [Next]_vars => [ByBatch]_vars
  BY <1>1
<1>. QED
  BY <1>2, EventsCorrect, PTL DEF Spec, LostByBatch

-----------------------------------------------------------------------------
\* A transaction adds a batch behind what is recorded.
LEMMA WriteBatchRecords ==
    ASSUME EventInv, EventInv', WriteBatch
    PROVE  Recorded!Record
<1>1. /\ table \in Seq(Numbers) /\ batch \in Seq(Numbers)
      /\ Len(batch) <= BatchSize /\ next \in Int
      /\ table' = table \o batch /\ next' = next
  BY EventAssumption DEF EventInv, TypeOK, WriteBatch
<1>2. /\ table' \in Seq(Numbers) /\ Len(table') = Len(table) + Len(batch)
      /\ \A i \in 1 .. Len(table) + Len(batch) :
            table'[i] = IF i <= Len(table) THEN table[i] ELSE batch[i - Len(table)]
  BY <1>1, ConcatProperties
<1>3. Len(table) \in Nat /\ Len(batch) \in Nat /\ BatchSize \in Nat
  BY <1>1, LenProperties, EventAssumption
<1>4. IsPrefix(table, table')
  <2>1. SubSeq(table', 1, Len(table)) = table
    BY <1>1, <1>2, <1>3
  <2>2. SubSeq(table, 1, Len(table)) = table
    BY <1>1
  <2>. QED  BY <1>2, <1>3, <2>1, <2>2 DEF IsPrefix
<1>5. Len(table') <= Len(table) + BatchSize
  BY <1>1, <1>2, <1>3
<1>6. \A i, k \in DOMAIN table' : i < k => table'[i] < table'[k]
  BY DEF EventInv, OrderInv, Increasing
<1>7. \A i \in DOMAIN table' : table'[i] \in 1 .. next - 1
  <2>1. \A i \in DOMAIN table' : table'[i] \in Numbers /\ table'[i] < next
    BY <1>1, <1>2 DEF EventInv, OrderInv
  <2>. QED  BY <1>1, <2>1 DEF Numbers
<1>8. next' - 1 = next - 1
  BY <1>1
<1>. QED  BY <1>4, <1>5, <1>6, <1>7, <1>8
          DEF Recorded!Record, IsPrefix, Recorded!IsPrefix

\* Readers of the table see a journal, across failed writes and crashes.
THEOREM ImplementsJournal == Spec => JournalSpec
<1>1. Init => Recorded!Init
  BY DEF Init, Recorded!Init
<1>2. EventInv /\ EventInv' /\ [Next]_vars => [Recorded!Next]_(Recorded!vars)
  <2>. SUFFICES ASSUME EventInv, EventInv', [Next]_vars
                PROVE  [Recorded!Next]_(Recorded!vars)
    OBVIOUS
  <2>1. CASE Emit
    <3>1. next' - 1 = (next - 1) + 1 /\ table' = table
      BY <2>1, EventAssumption DEF Emit, EventInv, TypeOK
    <3>. QED  BY <3>1 DEF Recorded!Next, Recorded!Emit
  <2>2. CASE WriteBatch
    BY <2>2, WriteBatchRecords DEF Recorded!Next
  <2>3. CASE UNCHANGED <<next, table>>
    BY <2>3 DEF Recorded!vars
  <2>. QED
    BY <2>1, <2>2, <2>3 DEF Next, Loop, Receive, TickerFires, ExitLoop,
       WriteFails, Close, Crash, vars
<1>. QED
  BY <1>1, <1>2, EventsCorrect, PTL DEF Spec, JournalSpec, Recorded!Spec
=============================================================================
