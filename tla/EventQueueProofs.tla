-------------------------- MODULE EventQueueProofs --------------------------
(* What schedule() adds to the heap: the lemmas every layer's proofs cite. *)
EXTENDS EventQueue, TLAPS

\* The pushed entries carry the accepted calls, none before the clock, and are
\* numbered from the counter on without repetition.
LEMMA PushedEntries ==
    ASSUME NEW batch, NEW width \in Nat, NEW n \in 0..width, NEW from \in Nat, NEW t \in Int,
           DOMAIN batch \subseteq 1..width,
           \A i \in DOMAIN batch : batch[i].time \in Int,
           Accepts(batch, width, t, n)
    PROVE  /\ \A e \in Entries(batch, n, from) :
                /\ \E i \in DOMAIN batch :
                        e = [time |-> batch[i].time, seq |-> from + i - 1,
                             event |-> batch[i].event]
                /\ e.time \in Int /\ e.time >= t
                /\ e.seq \in Nat /\ from <= e.seq /\ e.seq < from + n
           /\ \A e, f \in Entries(batch, n, from) : e.seq = f.seq => e = f
  <1> DEFINE S == {k \in DOMAIN batch : k <= n}
             entry(i) == [time |-> batch[i].time, seq |-> from + i - 1, event |-> batch[i].event]
  <1>1. \A i \in S : i \in DOMAIN batch /\ i \in 1..n /\ batch[i].time \in Int /\ batch[i].time >= t
    BY DEF Accepts
  <1>2. \A i \in S : entry(i).time = batch[i].time /\ entry(i).seq = from + i - 1
    OBVIOUS
  <1>3. \A e \in Entries(batch, n, from) : \E i \in S : e = entry(i)
    BY DEF Entries
  <1> HIDE DEF S
  <1>4. \A i, j \in S : entry(i).seq = entry(j).seq => i = j
    BY <1>1, <1>2
  <1>5. \A i \in S : /\ entry(i).time \in Int /\ entry(i).time >= t
                     /\ entry(i).seq \in Nat /\ from <= entry(i).seq /\ entry(i).seq < from + n
    BY <1>1, <1>2
  <1>6. \A e, f \in Entries(batch, n, from) : e.seq = f.seq => e = f
    <2> HIDE DEF entry
    <2> QED
      BY <1>3, <1>4
  <1>7. ASSUME NEW e \in Entries(batch, n, from)
        PROVE  /\ \E i \in DOMAIN batch : e = entry(i)
               /\ e.time \in Int /\ e.time >= t
               /\ e.seq \in Nat /\ from <= e.seq /\ e.seq < from + n
    <2>1. PICK i \in S : e = entry(i)
      BY <1>3
    <2> HIDE DEF entry
    <2> QED
      BY <1>1, <1>5, <2>1
  <1> QED
    BY <1>6, <1>7

\* A batch that is not before the clock is pushed completely.
LEMMA CausalPush ==
    ASSUME NEW rest, NEW batch, NEW width \in Nat, NEW t \in Int,
           DOMAIN batch \subseteq 1..width,
           \A i \in DOMAIN batch : batch[i].time \in Int /\ batch[i].time >= t,
           Push(rest, batch, width, t)
    PROVE  /\ heap' = rest \cup Entries(batch, width, sequence)
           /\ sequence' = sequence + width
           /\ raised' = FALSE
           /\ Accepts(batch, width, t, width)
  <1>1. PICK n \in 0..width :
            /\ Accepts(batch, width, t, n)
            /\ heap' = rest \cup Entries(batch, n, sequence)
            /\ sequence' = sequence + n
            /\ raised' = (n < width)
    BY DEF Push
  <1>2. n = width
    <2> SUFFICES ASSUME n < width PROVE FALSE
      OBVIOUS
    <2>1. n + 1 \in DOMAIN batch /\ batch[n + 1].time < t
      BY <1>1 DEF Accepts
    <2>2. batch[n + 1].time \in Int /\ batch[n + 1].time >= t
      BY <2>1
    <2> QED
      BY <2>1, <2>2
  <1>3. (n < width) = FALSE
    BY <1>2
  <1>4. heap' = rest \cup Entries(batch, width, sequence) /\ Accepts(batch, width, t, width)
    BY <1>1, <1>2, Zenon
  <1>5. sequence' = sequence + width
    BY <1>1, <1>2, Zenon
  <1> QED
    BY <1>1, <1>3, <1>4, <1>5, Zenon

\* Handlers without a schedule() call leave the rest of the heap alone.
LEMMA NothingPushed ==
    ASSUME NEW rest, NEW t \in Int, Push(rest, NoEvents, 0, t)
    PROVE  heap' = rest /\ sequence' = sequence + 0 /\ raised' = FALSE
  <1>1. DOMAIN NoEvents = {}
    BY DEF NoEvents
  <1>2. Entries(NoEvents, 0, sequence) = {}
    BY <1>1 DEF Entries
  <1> QED
    BY <1>1, <1>2, CausalPush

\* The entry the k-th call of a batch puts on the heap, and those of them all.
NewEntry(call, k) == [time |-> call.time, seq |-> sequence + k - 1, event |-> call.event]
NewEntries(batch) == {NewEntry(batch[i], i) : i \in DOMAIN batch}

\* Every pending event is an E that is yet to come, numbered below the counter.
QueueOf(E) ==
    /\ heap \subseteq [time : Nat, seq : Nat, event : E]
    /\ \A f \in heap : f.seq < sequence /\ now <= f.time
    /\ sequence \in Nat /\ now \in Nat /\ raised = FALSE

\* A handler that schedules nothing for the past replaces its event by one
\* new entry per call.
LEMMA CausalProcess ==
    ASSUME NEW E, QueueOf(E), NEW e, NEW batch, NEW width \in Nat,
           DOMAIN batch \subseteq 1..width,
           \A i \in DOMAIN batch : batch[i].time \in Nat /\ batch[i].event \in E,
           \A i \in DOMAIN batch : batch[i].time >= e.time,
           Process(e, batch, width)
    PROVE  /\ e \in heap /\ now' = e.time /\ raised' = FALSE
           /\ heap' = (heap \ {e}) \cup NewEntries(batch)
           /\ heap' \subseteq [time : Nat, seq : Nat, event : E]
           /\ \A f \in heap' : f.seq < sequence' /\ now' <= f.time
           /\ sequence' \in Nat /\ now' \in Nat /\ now <= now'
           /\ \A i \in DOMAIN batch : NewEntry(batch[i], i) \notin heap
           /\ \A i, j \in DOMAIN batch : i # j => NewEntry(batch[i], i) # NewEntry(batch[j], j)
  <1>1. /\ IsNext(e) /\ e \in heap /\ now' = e.time /\ Push(heap \ {e}, batch, width, e.time)
        /\ \A f \in heap \ {e} : e.time <= f.time
        /\ e.time \in Nat /\ now <= e.time
    <2>1. IsNext(e) /\ now' = e.time /\ Push(heap \ {e}, batch, width, e.time)
      BY DEF Process
    <2>2. e \in heap /\ \A f \in heap \ {e} : Precedes(e, f)
      BY <2>1 DEF IsNext
    <2>3. \A f \in heap : f.time \in Nat /\ now <= f.time
      BY DEF QueueOf
    <2>4. ASSUME NEW f \in heap \ {e} PROVE e.time <= f.time
      <3>1. e.time < f.time \/ e.time = f.time
        BY <2>2 DEF Precedes
      <3>2. e.time \in Nat /\ f.time \in Nat
        BY <2>2, <2>3
      <3> QED
        BY <3>1, <3>2
    <2> QED
      BY <2>1, <2>2, <2>3, <2>4
  <1>2. /\ heap' = (heap \ {e}) \cup Entries(batch, width, sequence)
        /\ sequence' = sequence + width /\ raised' = FALSE
    <2>1. \A i \in DOMAIN batch : batch[i].time \in Int /\ batch[i].time >= e.time
      OBVIOUS
    <2>2. e.time \in Int /\ Push(heap \ {e}, batch, width, e.time)
      BY <1>1
    <2> DEFINE rest == heap \ {e}
               t == e.time
    <2>3. t \in Int /\ Push(rest, batch, width, t) /\ \A i \in DOMAIN batch : batch[i].time \in Int /\ batch[i].time >= t
      BY <2>1, <2>2
    <2>4. heap' = rest \cup Entries(batch, width, sequence) /\ sequence' = sequence + width /\ raised' = FALSE
      <3> HIDE DEF rest, t
      <3> QED
        BY <2>3, CausalPush
    <2> QED
      BY <2>4
  <1>3. Entries(batch, width, sequence) = {NewEntry(batch[i], i) : i \in DOMAIN batch}
    <2> DEFINE S == {k \in DOMAIN batch : k <= width}
    <2>1. S = DOMAIN batch
      OBVIOUS
    <2>2. Entries(batch, width, sequence) = {NewEntry(batch[i], i) : i \in S}
      BY DEF Entries, NewEntry
    <2> HIDE DEF S
    <2> QED
      BY <2>1, <2>2
  <1>4. \A i \in DOMAIN batch :
            /\ NewEntry(batch[i], i) \in [time : Nat, seq : Nat, event : E]
            /\ NewEntry(batch[i], i).seq = sequence + i - 1 /\ i \in 1..width
            /\ NewEntry(batch[i], i).time = batch[i].time
    <2> SUFFICES ASSUME NEW i \in DOMAIN batch
                 PROVE  /\ NewEntry(batch[i], i) \in [time : Nat, seq : Nat, event : E]
                        /\ NewEntry(batch[i], i).seq = sequence + i - 1 /\ i \in 1..width
                        /\ NewEntry(batch[i], i).time = batch[i].time
      OBVIOUS
    <2>1. i \in 1..width /\ sequence + i - 1 \in Nat
      BY DEF QueueOf
    <2> QED
      BY <2>1 DEF NewEntry
  <1>5. \A i \in DOMAIN batch : NewEntry(batch[i], i) \notin heap
    BY <1>4 DEF QueueOf
  <1>6. \A i, j \in DOMAIN batch : i # j => NewEntry(batch[i], i) # NewEntry(batch[j], j)
    BY <1>4 DEF QueueOf
  <1>7. heap' \subseteq [time : Nat, seq : Nat, event : E]
    BY <1>2, <1>3, <1>4 DEF QueueOf
  <1>8. ASSUME NEW f \in heap' PROVE f.seq < sequence' /\ now' <= f.time
    <2>1. CASE f \in heap \ {e}
      <3>1. f.seq < sequence /\ f.seq \in Nat /\ sequence \in Nat
        BY <2>1 DEF QueueOf
      <3> QED
        BY <1>1, <1>2, <2>1, <3>1
    <2>2. CASE \E i \in DOMAIN batch : f = NewEntry(batch[i], i)
      BY <1>1, <1>2, <1>4, <2>2 DEF QueueOf
    <2> QED
      BY <1>2, <1>3, <1>8, <2>1, <2>2
  <1> QED
    BY <1>1, <1>2, <1>3, <1>5, <1>6, <1>7, <1>8 DEF QueueOf, NewEntries

FirstEntry(call, k) == [time |-> call.time, seq |-> k - 1, event |-> call.event]
FirstEntries(batch) == {FirstEntry(batch[i], i) : i \in DOMAIN batch}

\* A constructor that schedules nothing before time 0 starts with all its calls
\* pending.
LEMMA CausalInit ==
    ASSUME NEW E, NEW batch, NEW width \in Nat, DOMAIN batch \subseteq 1..width,
           \A i \in DOMAIN batch : batch[i].time \in Nat /\ batch[i].event \in E,
           QueueInit(batch, width)
    PROVE  QueueOf(E) /\ now = 0 /\ heap = FirstEntries(batch)
  <1>1. PICK n \in 0..width :
            /\ Accepts(batch, width, 0, n) /\ heap = Entries(batch, n, 0)
            /\ sequence = n /\ now = 0 /\ raised = (n < width)
    BY DEF QueueInit
  <1>2. n = width
    <2> SUFFICES ASSUME n < width PROVE FALSE
      OBVIOUS
    <2>1. n + 1 \in DOMAIN batch /\ batch[n + 1].time < 0
      BY <1>1 DEF Accepts
    <2>2. batch[n + 1].time \in Nat
      BY <2>1
    <2> QED
      BY <2>1, <2>2
  <1>3. (n < width) = FALSE
    BY <1>2
  <1>4. raised = FALSE
    BY <1>1, <1>3, Zenon
  <1>5. heap = FirstEntries(batch)
    <2> DEFINE S == {k \in DOMAIN batch : k <= width}
    <2>1. S = DOMAIN batch
      OBVIOUS
    <2>2. \A i \in DOMAIN batch : 0 + i - 1 = i - 1
      OBVIOUS
    <2>3. Entries(batch, width, 0) = {[time |-> batch[i].time, seq |-> 0 + i - 1, event |-> batch[i].event] : i \in S}
      BY DEF Entries
    <2> HIDE DEF S
    <2>4. Entries(batch, width, 0) = FirstEntries(batch)
      BY <2>1, <2>2, <2>3 DEF FirstEntries, FirstEntry
    <2> QED
      BY <1>1, <1>2, <2>4
  <1>6. \A i \in DOMAIN batch : i \in 1..width /\ i - 1 \in Nat /\ i - 1 < width
    OBVIOUS
  <1>7. \A f \in heap : f \in [time : Nat, seq : Nat, event : E] /\ f.seq < sequence /\ now <= f.time
    <2> SUFFICES ASSUME NEW i \in DOMAIN batch, NEW f, f = FirstEntry(batch[i], i)
                 PROVE  /\ f \in [time : Nat, seq : Nat, event : E]
                        /\ f.seq < sequence /\ now <= f.time
      BY <1>5 DEF FirstEntries
    <2>1. f.time = batch[i].time /\ f.seq = i - 1 /\ f \in [time : Nat, seq : Nat, event : E]
      BY <1>6 DEF FirstEntry
    <2> QED
      BY <1>1, <1>2, <1>6, <2>1
  <1> QED
    BY <1>1, <1>4, <1>5, <1>7 DEF QueueOf
=============================================================================
