--------------------------- MODULE EventLoopProofs ---------------------------
(***************************************************************************)
(* Order, no event lost, and the calendar the loop implements: for every   *)
(* set of kinds, any handlers, every max_time and every interleaving of    *)
(* runs and outside calls.                                                 *)
(***************************************************************************)
EXTENDS EventLoop, EventQueueProofs, SequenceTheorems, FiniteSetTheorems

\* What is in the heap comes after all that was processed, and every number
\* below the counter is given out at most once.
Ordered ==
    /\ \A i \in 1..Len(log), e \in heap : Precedes(log[i], e)
    /\ \A i \in 1..Len(log) : log[i].seq < sequence
    /\ \A e \in heap : e.seq < sequence
    /\ \A e, f \in heap : e.seq = f.seq => e = f

LoopInv == TypeOK /\ Causal /\ LogOrdered /\ Ordered

\* The numeric content of the type invariant, without the records around it.
LEMMA Typing ==
    ASSUME LoopInv
    PROVE  /\ sequence \in Nat /\ now \in Int
           /\ log \in Seq(Entry) /\ Len(log) \in Nat
           /\ \A e \in heap : e \in Entry /\ e.time \in Int /\ e.seq \in Nat
           /\ \A i \in 1..Len(log) : /\ log[i] \in Entry /\ log[i].time \in Int
                                     /\ log[i].seq \in Nat /\ log[i].time <= now
  <1>1. /\ sequence \in Nat /\ now \in Int /\ log \in Seq(Entry)
        /\ \A e \in heap : e \in Entry
    BY DEF LoopInv, TypeOK
  <1>2. Len(log) \in Nat /\ \A i \in 1..Len(log) : log[i] \in Entry
    BY <1>1
  <1>3. \A e \in Entry : e.time \in Int /\ e.seq \in Nat
    BY DEF Entry
  <1>4. \A i \in 1..Len(log) : log[i].time <= now
    BY DEF LoopInv, Causal
  <1> QED
    BY <1>1, <1>2, <1>3, <1>4

\* schedule() adds well-typed entries, not before the clock and numbered from
\* the counter on.
LEMMA PushedCalls ==
    ASSUME NEW batch, NEW width \in Nat, NEW n \in 0..width, NEW t \in Int, sequence \in Nat,
           batch \in [1..width -> Call], Accepts(batch, width, t, n)
    PROVE  /\ \A e \in Entries(batch, n, sequence) :
                e \in Entry /\ e.time \in Int /\ e.seq \in Nat
                /\ e.time >= t /\ sequence <= e.seq /\ e.seq < sequence + n
           /\ \A e, f \in Entries(batch, n, sequence) : e.seq = f.seq => e = f
  <1>1. \A i \in 1..width : batch[i].time \in Int /\ batch[i].event \in Kinds
    BY LoopAssumption DEF Call, LoopAssumption
  <1>2. DOMAIN batch = 1..width
    OBVIOUS
  <1>3. /\ \A e \in Entries(batch, n, sequence) :
                /\ \E i \in DOMAIN batch :
                        e = [time |-> batch[i].time, seq |-> sequence + i - 1,
                             event |-> batch[i].event]
                /\ e.time \in Int /\ e.time >= t
                /\ e.seq \in Nat /\ sequence <= e.seq /\ e.seq < sequence + n
        /\ \A e, f \in Entries(batch, n, sequence) : e.seq = f.seq => e = f
    BY <1>1, <1>2, PushedEntries
  <1>4. ASSUME NEW e \in Entries(batch, n, sequence) PROVE e \in Entry
    <2>1. PICK i \in 1..width : e = [time |-> batch[i].time, seq |-> sequence + i - 1,
                                     event |-> batch[i].event]
      BY <1>2, <1>3
    <2>2. e.seq \in Nat /\ e.seq = sequence + i - 1
      BY <1>3, <2>1
    <2> QED
      BY <1>1, <2>1, <2>2 DEF Entry
  <1> QED
    BY <1>3, <1>4

\* The calls of a handler are a finite sequence.
LEMMA BatchesAreFunctions ==
    ASSUME NEW batch \in Batches
    PROVE  Len(batch) \in Nat /\ batch \in [1..Len(batch) -> Call]
  <1>1. PICK n \in Nat : batch \in [1..n -> Call]
    BY LoopAssumption DEF Batches, LoopAssumption
  <1>2. batch \in Seq(Call)
    BY <1>1, SeqDef
  <1> QED
    BY <1>2, LenProperties

\* A new loop has no events, no log and a clock at zero.
LEMMA InitInv == Init => LoopInv
  <1> SUFFICES ASSUME Init PROVE LoopInv
    OBVIOUS
  <1>1. DOMAIN NoEvents = {}
    BY DEF NoEvents
  <1>2. PICK n \in 0..0 : heap = Entries(NoEvents, n, 0) /\ sequence = n /\ now = 0
                          /\ raised = (n < 0)
    BY DEF Init, QueueInit
  <1>3. heap = {}
    BY <1>1, <1>2 DEF Entries
  <1>4. sequence = 0 /\ now = 0 /\ raised \in BOOLEAN
    BY <1>2
  <1>5. log = <<>> /\ Len(log) = 0 /\ dropped = {} /\ running = FALSE
    BY DEF Init
  <1>6. maxTime \in Nat \cup {NoLimit}
    BY LoopAssumption DEF Init, LoopAssumption
  <1>7. TypeOK
    <2>1. log \in Seq(Entry)
      BY <1>5, EmptySeq
    <2>2. running \in BOOLEAN /\ dropped \in SUBSET Entry /\ heap \in SUBSET Entry
      BY <1>3, <1>5
    <2> QED
      BY <1>4, <1>6, <2>1, <2>2 DEF TypeOK
  <1>8. Causal /\ LogOrdered /\ Ordered
    BY <1>3, <1>5 DEF Causal, LogOrdered, Ordered
  <1> QED
    BY <1>7, <1>8 DEF LoopInv

\* A call from outside run() adds an entry behind everything processed.
LEMMA ScheduleInv ==
    ASSUME LoopInv, NEW call \in Call, Schedule(call)
    PROVE  LoopInv'
  <1> DEFINE batch == <<call>>
  <1>1. PICK n \in 0..1 :
            /\ Accepts(batch, 1, now, n)
            /\ heap' = heap \cup Entries(batch, n, sequence)
            /\ sequence' = sequence + n
            /\ raised' = (n < 1)
    BY DEF Schedule, Push
  <1>2. /\ UNCHANGED <<now, log, dropped, running, maxTime>>
        /\ batch \in [1..1 -> Call]
    BY DEF Schedule
  <1> HIDE DEF batch
  <1> DEFINE new == Entries(batch, n, sequence)
  <1>3. /\ \A e \in new : e \in Entry /\ e.time \in Int /\ e.seq \in Nat
                          /\ e.time >= now /\ sequence <= e.seq /\ e.seq < sequence + n
        /\ \A e, f \in new : e.seq = f.seq => e = f
        /\ heap' = heap \cup new
    BY <1>1, <1>2, PushedCalls, Typing
  <1> HIDE DEF new
  <1>4. TypeOK'
    <2>1. heap' \in SUBSET Entry
      BY <1>3 DEF LoopInv, TypeOK
    <2>2. sequence' \in Nat /\ raised' \in BOOLEAN
      BY <1>1, Typing
    <2> QED
      BY <1>2, <2>1, <2>2 DEF LoopInv, TypeOK
  <1>5. Causal'
    BY <1>2, <1>3 DEF LoopInv, Causal
  <1>6. LogOrdered'
    BY <1>2 DEF LoopInv, LogOrdered, Precedes
  <1>7. Ordered'
    <2>1. \A i \in 1..Len(log), e \in new : Precedes(log[i], e)
      BY <1>3, Typing DEF Precedes, LoopInv, Ordered
    <2>2. \A e, f \in heap \cup new : e.seq = f.seq => e = f
      BY <1>3, Typing DEF LoopInv, Ordered
    <2>3. \A e \in heap \cup new : e.seq < sequence + n
      BY <1>3, Typing DEF LoopInv, Ordered
    <2>4. \A i \in 1..Len(log) : log[i].seq < sequence + n
      BY Typing DEF LoopInv, Ordered
    <2> QED
      BY <1>1, <1>2, <1>3, <2>1, <2>2, <2>3, <2>4 DEF LoopInv, Ordered, Precedes
  <1> QED
    BY <1>4, <1>5, <1>6, <1>7 DEF LoopInv

\* Processing the head appends the least entry of the heap to the log, and
\* what its handler schedules comes after it.
LEMMA FireInv ==
    ASSUME LoopInv, NEW e \in heap, NEW batch \in Batches, Fire(e, batch)
    PROVE  LoopInv'
  <1> DEFINE width == Len(batch)
  <1>1. PICK n \in 0..width :
            /\ Accepts(batch, width, e.time, n)
            /\ heap' = (heap \ {e}) \cup Entries(batch, n, sequence)
            /\ sequence' = sequence + n
            /\ raised' = (n < width)
    BY DEF Fire, Process, Push
  <1>2. /\ now' = e.time /\ log' = Append(log, e) /\ UNCHANGED <<dropped, maxTime>>
        /\ running' = ~raised'
        /\ \A f \in heap \ {e} : Precedes(e, f)
    BY DEF Fire, Process, IsNext
  <1>3. /\ e \in Entry /\ e.time \in Int /\ e.seq \in Nat
        /\ e.time >= now /\ e.seq < sequence
    BY Typing DEF LoopInv, Causal, Ordered
  <1> DEFINE new == Entries(batch, n, sequence)
  <1>4. width \in Nat /\ batch \in [1..width -> Call]
    BY BatchesAreFunctions
  <1> HIDE DEF width
  <1>5. /\ \A f \in new : f \in Entry /\ f.time \in Int /\ f.seq \in Nat
                          /\ f.time >= e.time /\ sequence <= f.seq /\ f.seq < sequence + n
        /\ \A f, g \in new : f.seq = g.seq => f = g
        /\ heap' = (heap \ {e}) \cup new
    BY <1>1, <1>3, <1>4, PushedCalls, Typing
  <1> HIDE DEF new
  <1>6. /\ log' \in Seq(Entry) /\ Len(log') = Len(log) + 1
        /\ \A i \in 1..Len(log) : log'[i] = log[i]
        /\ log'[Len(log) + 1] = e
    BY <1>2, <1>3, Typing
  <1>7. \A i \in 1..Len(log') : i \in 1..Len(log) \/ i = Len(log) + 1
    BY <1>6, Typing
  <1>8. n \in Nat /\ sequence \in Nat
    BY <1>4, Typing
  <1>9. TypeOK'
    <2>1. heap' \in SUBSET Entry
      BY <1>5, Typing
    <2>2. sequence' \in Nat /\ raised' \in BOOLEAN /\ now' \in Int
      BY <1>1, <1>2, <1>3, <1>8
    <2>3. running' \in BOOLEAN
      BY <1>2, <2>2
    <2> QED
      BY <1>2, <1>6, <2>1, <2>2, <2>3 DEF LoopInv, TypeOK
  <1>10. Causal'
    <2>1. \A f \in heap' : f.time >= e.time
      <3>1. ASSUME NEW f \in heap \ {e} PROVE f.time >= e.time
        <4>1. Precedes(e, f) /\ f.time \in Int
          BY <1>2, Typing
        <4> QED
          BY <1>3, <4>1 DEF Precedes
      <3> QED
        BY <1>5, <3>1
    <2>2. \A i \in 1..Len(log') : log'[i].time <= e.time
      BY <1>3, <1>6, <1>7, Typing
    <2> QED
      BY <2>1, <2>2, <1>2 DEF Causal
  <1>11. \A i \in 1..Len(log) : Precedes(log[i], e)
    BY DEF LoopInv, Ordered
  <1>12. LogOrdered'
    <2> SUFFICES ASSUME NEW i \in 1..Len(log'), NEW j \in 1..Len(log'), i < j
                 PROVE  Precedes(log'[i], log'[j])
      BY DEF LogOrdered, Precedes
    <2>1. i \in 1..Len(log) /\ log'[i] = log[i]
      BY <1>6, <1>7, Typing
    <2>2. CASE j = Len(log) + 1
      BY <2>1, <2>2, <1>6, <1>11
    <2>3. CASE j \in 1..Len(log)
      BY <2>1, <2>3, <1>6 DEF LoopInv, LogOrdered
    <2> QED
      BY <2>2, <2>3, <1>7
  <1>13. Ordered'
    <2>1. \A f \in new : Precedes(e, f)
      BY <1>3, <1>5, <1>8 DEF Precedes
    <2>2. \A f \in heap' : Precedes(e, f)
      BY <2>1, <1>2, <1>5
    <2>3. \A i \in 1..Len(log), f \in new : Precedes(log[i], f)
      <3> SUFFICES ASSUME NEW i \in 1..Len(log), NEW f \in new PROVE Precedes(log[i], f)
        OBVIOUS
      <3>1. /\ log[i].time \in Int /\ log[i].seq \in Nat
            /\ log[i].time <= now /\ log[i].seq < sequence /\ now \in Int
        BY Typing DEF LoopInv, Ordered
      <3>2. f.time \in Int /\ f.seq \in Nat /\ f.time >= e.time /\ sequence <= f.seq
        BY <1>5
      <3> QED
        BY <1>3, <1>8, <3>1, <3>2 DEF Precedes
    <2>4. \A i \in 1..Len(log), f \in heap' : Precedes(log[i], f)
      BY <2>3, <1>5 DEF LoopInv, Ordered
    <2>5. \A i \in 1..Len(log'), f \in heap' : Precedes(log'[i], f)
      BY <2>2, <2>4, <1>6, <1>7
    <2>6. \A f, g \in heap' : f.seq = g.seq => f = g
      BY <1>5, <1>8, Typing DEF LoopInv, Ordered
    <2>7. \A f \in heap' : f.seq < sequence + n
      BY <1>5, <1>8, Typing DEF LoopInv, Ordered
    <2>8. \A i \in 1..Len(log) : log[i].seq < sequence + n
      BY <1>8, Typing DEF LoopInv, Ordered
    <2>9. e.seq < sequence + n
      BY <1>3, <1>8
    <2>10. \A i \in 1..Len(log') : log'[i].seq < sequence + n
      BY <2>8, <2>9, <1>6, <1>7
    <2> QED
      BY <2>5, <2>6, <2>7, <2>10, <1>1 DEF Ordered, Precedes
  <1> QED
    BY <1>9, <1>10, <1>12, <1>13 DEF LoopInv

\* An entry beyond max_time leaves the heap and nothing else changes.
LEMMA CutOffInv ==
    ASSUME LoopInv, NEW e \in heap, CutOff(e)
    PROVE  LoopInv'
  <1>1. heap' = heap \ {e} /\ dropped' = dropped \cup {e} /\ running' = FALSE
        /\ UNCHANGED <<sequence, now, raised, log, maxTime>>
    BY DEF CutOff
  <1>2. TypeOK'
    BY <1>1 DEF LoopInv, TypeOK
  <1>3. Causal' /\ LogOrdered' /\ Ordered'
    BY <1>1 DEF LoopInv, Causal, LogOrdered, Ordered, Precedes
  <1> QED
    BY <1>2, <1>3 DEF LoopInv

\* Starting or ending a run, and stuttering, leave events and log alone.
LEMMA QuietInv ==
    ASSUME LoopInv, UNCHANGED <<heap, sequence, now, log, dropped, maxTime>>,
           raised' \in BOOLEAN, running' \in BOOLEAN
    PROVE  LoopInv'
  <1>1. TypeOK'
    BY DEF LoopInv, TypeOK
  <1>2. Causal' /\ LogOrdered' /\ Ordered'
    BY DEF LoopInv, Causal, LogOrdered, Ordered, Precedes
  <1> QED
    BY <1>1, <1>2 DEF LoopInv

\* Every step of the loop and of its clients keeps the order of events.
LEMMA NextInv == LoopInv /\ [Next]_vars => LoopInv'
  <1> SUFFICES ASSUME LoopInv, [Next]_vars PROVE LoopInv'
    OBVIOUS
  <1>0. raised \in BOOLEAN /\ running \in BOOLEAN
    BY DEF LoopInv, TypeOK
  <1>1. ASSUME NEW call \in Call, Schedule(call) PROVE LoopInv'
    BY <1>1, ScheduleInv
  <1>2. CASE StartRun
    BY <1>2, QuietInv DEF StartRun
  <1>3. ASSUME NEW e \in heap, NEW batch \in Batches, Fire(e, batch) PROVE LoopInv'
    BY <1>3, FireInv
  <1>4. ASSUME NEW e \in heap, CutOff(e) PROVE LoopInv'
    BY <1>4, CutOffInv
  <1>5. CASE Drained
    BY <1>0, <1>5, QuietInv DEF Drained
  <1>6. CASE UNCHANGED vars
    BY <1>0, <1>6, QuietInv DEF vars
  <1> QED
    BY <1>1, <1>2, <1>3, <1>4, <1>5, <1>6 DEF Next

\* The order of the log with what makes it inductive.
LEMMA LoopInvariant == Spec => []LoopInv
  BY InitInv, NextInv, PTL DEF Spec

\* Every loop state is well-typed, whatever the clients schedule.
THEOREM LoopTypeOK == Spec => []TypeOK
  <1>1. LoopInv => TypeOK
    BY DEF LoopInv
  <1> QED
    BY <1>1, LoopInvariant, PTL

\* Events are processed in the order of their times and, within an instant,
\* in the order they were scheduled: loop.py's "stable FIFO ordering", for
\* every client of the loop.
THEOREM LogIsOrdered == Spec => []LogOrdered
  <1>1. LoopInv => LogOrdered
    BY DEF LoopInv
  <1> QED
    BY <1>1, LoopInvariant, PTL

\* loop.py's "no acausal effects": no event ever waits for a time that has
\* passed, and the clock never falls behind what was processed.
THEOREM LoopIsCausal == Spec => []Causal
  <1>1. LoopInv => Causal
    BY DEF LoopInv
  <1> QED
    BY <1>1, LoopInvariant, PTL

-----------------------------------------------------------------------------
\* Every number below the counter is held by one entry only, in the heap, at
\* one place of the log or among the dropped ones, and by no second of these.
Held == (\A e \in dropped : e.seq < sequence)
        /\ (\A i, j \in 1..Len(log) : log[i].seq = log[j].seq => i = j)
        /\ (\A e, f \in dropped : e.seq = f.seq => e = f)
        /\ (\A e \in heap, i \in 1..Len(log) : e.seq # log[i].seq)
        /\ (\A e \in heap, f \in dropped : e.seq # f.seq)
        /\ (\A e \in dropped, i \in 1..Len(log) : e.seq # log[i].seq)

Accounted(s) ==
    \/ \E e \in heap : e.seq = s
    \/ \E i \in 1..Len(log) : log[i].seq = s
    \/ \E e \in dropped : e.seq = s

Complete == \A s \in 0..(sequence - 1) : Accounted(s)

Placed == Held /\ Complete

\* A dense batch leaves no gap between the numbers it takes.
LEMMA PushedNumbers ==
    ASSUME NEW batch, NEW width \in Nat, NEW n \in 0..width, NEW from \in Nat,
           DOMAIN batch = 1..width, NEW s \in from..(from + n - 1)
    PROVE  \E e \in Entries(batch, n, from) : e.seq = s
  <1> DEFINE i == s - from + 1
             e == [time |-> batch[i].time, seq |-> from + i - 1, event |-> batch[i].event]
  <1>1. i \in DOMAIN batch /\ i <= n /\ from + i - 1 = s
    OBVIOUS
  <1>2. e \in Entries(batch, n, from)
    BY <1>1 DEF Entries
  <1> QED
    BY <1>1, <1>2

\* Dropped entries have numbers below the counter.
LEMMA DroppedTyping ==
    ASSUME LoopInv, Placed
    PROVE  \A e \in dropped : e.seq \in Nat /\ e.seq < sequence
  <1>1. \A e \in dropped : e \in Entry
    BY DEF LoopInv, TypeOK
  <1> QED
    BY <1>1 DEF Entry, Placed, Held

\* Nothing has been given a number yet, but for what the heap starts with.
LEMMA PlacedInit == Init => Placed
  <1> SUFFICES ASSUME Init PROVE Placed
    OBVIOUS
  <1>1. PICK n \in 0..0 : heap = Entries(NoEvents, n, 0) /\ sequence = n
    BY DEF Init, QueueInit
  <1>2. heap = {} /\ sequence = 0
    BY <1>1 DEF Entries, NoEvents
  <1>3. log = <<>> /\ Len(log) = 0 /\ dropped = {}
    BY DEF Init
  <1> QED
    BY <1>2, <1>3 DEF Placed, Held, Complete, Accounted

\* A call from outside run() takes fresh numbers.
LEMMA PlacedSchedule ==
    ASSUME LoopInv, Placed, NEW call \in Call, Schedule(call)
    PROVE  Placed'
  <1> DEFINE batch == <<call>>
  <1>1. PICK n \in 0..1 :
            /\ Accepts(batch, 1, now, n)
            /\ heap' = heap \cup Entries(batch, n, sequence)
            /\ sequence' = sequence + n
    BY DEF Schedule, Push
  <1>2. UNCHANGED <<log, dropped>> /\ batch \in [1..1 -> Call] /\ DOMAIN batch = 1..1
    BY DEF Schedule
  <1> HIDE DEF batch
  <1> DEFINE new == Entries(batch, n, sequence)
  <1>3. \A e \in new : e.seq \in Nat /\ sequence <= e.seq
    BY <1>1, <1>2, PushedCalls, Typing
  <1>4. \A s \in sequence..(sequence + n - 1) : \E e \in new : e.seq = s
    <2>1. PICK width \in Nat : width = 1
      OBVIOUS
    <2>2. sequence \in Nat /\ n \in 0..width /\ DOMAIN batch = 1..width
      BY <1>2, <2>1, Typing
    <2> HIDE DEF new
    <2> SUFFICES ASSUME NEW s \in sequence..(sequence + n - 1)
                 PROVE  \E e \in Entries(batch, n, sequence) : e.seq = s
      BY DEF new
    <2> QED
      BY <2>2, PushedNumbers
  <1>5. heap' = heap \cup new
    BY <1>1
  <1> HIDE DEF new
  <1>6. sequence \in Nat /\ n \in Nat
    BY Typing
  <1>7. \A e \in dropped : e.seq \in Nat /\ e.seq < sequence
    BY DroppedTyping
  <1>8. \A i \in 1..Len(log) : log[i].seq \in Nat /\ log[i].seq < sequence
    BY Typing DEF LoopInv, Ordered
  <1>9. Held'
    <2>1. \A e \in dropped : e.seq < sequence + n
      BY <1>6, <1>7
    <2>2. \A e \in heap \cup new, i \in 1..Len(log) : e.seq # log[i].seq
      BY <1>3, <1>6, <1>8 DEF Placed, Held
    <2>3. \A e \in heap \cup new, f \in dropped : e.seq # f.seq
      BY <1>3, <1>6, <1>7 DEF Placed, Held
    <2> QED
      BY <1>1, <1>2, <1>5, <2>1, <2>2, <2>3 DEF Placed, Held
  <1>10. ASSUME NEW s \in 0..(sequence + n - 1) PROVE Accounted(s)'
    <2>1. CASE s < sequence
      <3>1. s \in 0..(sequence - 1)
        BY <2>1, <1>6
      <3>2. Accounted(s)
        BY <3>1 DEF Placed, Complete
      <3> QED
        BY <3>2, <1>2, <1>5 DEF Accounted
    <2>2. CASE s >= sequence
      <3>1. s \in sequence..(sequence + n - 1)
        BY <2>2, <1>6
      <3> QED
        BY <3>1, <1>4, <1>5 DEF Accounted
    <2> QED
      BY <2>1, <2>2, <1>6
  <1> QED
    <2>1. sequence' - 1 = sequence + n - 1
      BY <1>1, <1>6
    <2>2. Complete'
      BY <1>10, <2>1 DEF Complete, Accounted
    <2> QED
      BY <1>9, <2>2 DEF Placed

\* The head moves from the heap to the log, and its handler's calls take
\* fresh numbers.
LEMMA PlacedFire ==
    ASSUME LoopInv, Placed, NEW e \in heap, NEW batch \in Batches, Fire(e, batch)
    PROVE  Placed'
  <1> DEFINE width == Len(batch)
  <1>1. PICK n \in 0..width :
            /\ Accepts(batch, width, e.time, n)
            /\ heap' = (heap \ {e}) \cup Entries(batch, n, sequence)
            /\ sequence' = sequence + n
    BY DEF Fire, Process, Push
  <1>2. log' = Append(log, e) /\ UNCHANGED dropped
    BY DEF Fire
  <1>3. e \in Entry /\ e.time \in Int /\ e.seq \in Nat /\ e.seq < sequence
    BY Typing DEF LoopInv, Ordered
  <1>4. width \in Nat /\ batch \in [1..width -> Call] /\ DOMAIN batch = 1..width
    BY BatchesAreFunctions
  <1> HIDE DEF width
  <1> DEFINE new == Entries(batch, n, sequence)
  <1>5. \A f \in new : f.seq \in Nat /\ sequence <= f.seq
    BY <1>1, <1>3, <1>4, PushedCalls, Typing
  <1>6. \A s \in sequence..(sequence + n - 1) : \E f \in new : f.seq = s
    BY <1>1, <1>4, PushedNumbers, Typing
  <1>7. heap' = (heap \ {e}) \cup new
    BY <1>1
  <1> HIDE DEF new
  <1>8. sequence \in Nat /\ n \in Nat
    BY Typing, <1>4
  <1>9. \A f \in dropped : f.seq \in Nat /\ f.seq < sequence
    BY DroppedTyping
  <1>10. \A i \in 1..Len(log) : log[i].seq \in Nat /\ log[i].seq < sequence
    BY Typing DEF LoopInv, Ordered
  <1>11. /\ Len(log) \in Nat /\ Len(log') = Len(log) + 1
         /\ \A i \in 1..Len(log) : log'[i] = log[i]
         /\ log'[Len(log) + 1] = e
    BY <1>2, <1>3, Typing
  <1>12. /\ \A i \in 1..Len(log') : i \in 1..Len(log) \/ i = Len(log) + 1
         /\ \A i \in 1..Len(log) : i \in 1..Len(log')
         /\ Len(log) + 1 \in 1..Len(log')
    BY <1>11
  <1>13. \A f \in heap \ {e} : f.seq # e.seq
    BY DEF LoopInv, Ordered
  <1>14. Held'
    <2>1. \A f \in dropped : f.seq < sequence + n
      BY <1>8, <1>9
    <2>2. \A i, j \in 1..Len(log') : log'[i].seq = log'[j].seq => i = j
      <3>1. \A i \in 1..Len(log) : log[i].seq # e.seq
        BY DEF Placed, Held
      <3>2. \A i, j \in 1..Len(log) : log[i].seq = log[j].seq => i = j
        BY DEF Placed, Held
      <3> QED
        BY <3>1, <3>2, <1>11, <1>12
    <2>3. \A f \in heap', i \in 1..Len(log') : f.seq # log'[i].seq
      <3>1. \A f \in heap \ {e}, i \in 1..Len(log) : f.seq # log[i].seq
        BY DEF Placed, Held
      <3>2. \A f \in new, i \in 1..Len(log) : f.seq # log[i].seq
        BY <1>5, <1>8, <1>10
      <3>3. \A f \in new : f.seq # e.seq
        BY <1>3, <1>5, <1>8
      <3> QED
        BY <3>1, <3>2, <3>3, <1>7, <1>11, <1>12, <1>13
    <2>4. \A f \in heap', g \in dropped : f.seq # g.seq
      <3>1. \A f \in heap \ {e}, g \in dropped : f.seq # g.seq
        BY DEF Placed, Held
      <3>2. \A f \in new, g \in dropped : f.seq # g.seq
        BY <1>5, <1>8, <1>9
      <3> QED
        BY <3>1, <3>2, <1>7
    <2>5. \A f \in dropped, i \in 1..Len(log') : f.seq # log'[i].seq
      <3>1. \A f \in dropped, i \in 1..Len(log) : f.seq # log[i].seq
        BY DEF Placed, Held
      <3>2. \A f \in dropped : f.seq # e.seq
        BY DEF Placed, Held
      <3> QED
        BY <3>1, <3>2, <1>11, <1>12
    <2>6. \A f, g \in dropped : f.seq = g.seq => f = g
      BY DEF Placed, Held
    <2> QED
      BY <1>1, <1>2, <2>1, <2>2, <2>3, <2>4, <2>5, <2>6 DEF Held
  <1>15. ASSUME NEW s \in 0..(sequence + n - 1) PROVE Accounted(s)'
    <2>1. CASE s < sequence
      <3>1. s \in 0..(sequence - 1)
        BY <2>1, <1>8
      <3>2. Accounted(s)
        BY <3>1 DEF Placed, Complete
      <3>3. CASE s = e.seq
        BY <3>3, <1>11, <1>12 DEF Accounted
      <3>4. CASE \E f \in heap \ {e} : f.seq = s
        BY <3>4, <1>7 DEF Accounted
      <3>5. CASE \E i \in 1..Len(log) : log[i].seq = s
        BY <3>5, <1>11, <1>12 DEF Accounted
      <3>6. CASE \E f \in dropped : f.seq = s
        BY <3>6, <1>2 DEF Accounted
      <3> QED
        BY <3>2, <3>3, <3>4, <3>5, <3>6 DEF Accounted
    <2>2. CASE s >= sequence
      <3>1. s \in sequence..(sequence + n - 1)
        BY <2>2, <1>8
      <3> QED
        BY <3>1, <1>6, <1>7 DEF Accounted
    <2> QED
      BY <2>1, <2>2, <1>8
  <1> QED
    <2>1. sequence' - 1 = sequence + n - 1
      BY <1>1, <1>8
    <2>2. Complete'
      BY <1>15, <2>1 DEF Complete, Accounted
    <2> QED
      BY <1>14, <2>2 DEF Placed

\* The head moves from the heap to the dropped entries.
LEMMA PlacedCutOff ==
    ASSUME LoopInv, Placed, NEW e \in heap, CutOff(e)
    PROVE  Placed'
  <1>1. heap' = heap \ {e} /\ dropped' = dropped \cup {e} /\ UNCHANGED <<sequence, log>>
    BY DEF CutOff
  <1>2. e.seq < sequence /\ \A f \in heap \ {e} : f.seq # e.seq
    BY DEF LoopInv, Ordered
  <1>3. Held'
    BY <1>1, <1>2 DEF Placed, Held
  <1>4. ASSUME NEW s \in 0..(sequence - 1) PROVE Accounted(s)'
    <2>1. Accounted(s)
      BY DEF Placed, Complete
    <2> QED
      BY <1>1, <2>1 DEF Accounted
  <1> QED
    BY <1>1, <1>3, <1>4 DEF Placed, Complete, Accounted

\* Starting or ending a run, and stuttering, move no entry.
LEMMA PlacedQuiet ==
    ASSUME Placed, UNCHANGED <<heap, sequence, log, dropped>>
    PROVE  Placed'
  BY DEF Placed, Held, Complete, Accounted

\* Every step leaves each accepted event in one place.
LEMMA PlacedNext == LoopInv /\ Placed /\ [Next]_vars => Placed'
  <1> SUFFICES ASSUME LoopInv, Placed, [Next]_vars PROVE Placed'
    OBVIOUS
  <1>1. ASSUME NEW call \in Call, Schedule(call) PROVE Placed'
    BY <1>1, PlacedSchedule
  <1>2. CASE StartRun
    BY <1>2, PlacedQuiet DEF StartRun
  <1>3. ASSUME NEW e \in heap, NEW batch \in Batches, Fire(e, batch) PROVE Placed'
    BY <1>3, PlacedFire
  <1>4. ASSUME NEW e \in heap, CutOff(e) PROVE Placed'
    BY <1>4, PlacedCutOff
  <1>5. CASE Drained
    BY <1>5, PlacedQuiet DEF Drained
  <1>6. CASE UNCHANGED vars
    BY <1>6, PlacedQuiet DEF vars
  <1> QED
    BY <1>1, <1>2, <1>3, <1>4, <1>5, <1>6 DEF Next

\* A number held by one place is counted there and nowhere else.
LEMMA CountedOnce ==
    ASSUME LoopInv, Placed, NEW s \in 0..(sequence - 1)
    PROVE  Cardinality({e \in heap : e.seq = s})
             + Cardinality({i \in 1..Len(log) : log[i].seq = s})
             + Cardinality({e \in dropped : e.seq = s}) = 1
  <1> DEFINE H == {e \in heap : e.seq = s}
             L == {i \in 1..Len(log) : log[i].seq = s}
             D == {e \in dropped : e.seq = s}
  <1>1. /\ \A e, f \in H : e = f
        /\ \A i, j \in L : i = j
        /\ \A e, f \in D : e = f
    BY DEF LoopInv, Ordered, Placed, Held
  <1>2. /\ H # {} => L = {} /\ D = {}
        /\ L # {} => D = {}
    BY DEF Placed, Held
  <1>3. H # {} \/ L # {} \/ D # {}
    BY DEF Placed, Complete, Accounted
  <1>4. /\ H # {} => Cardinality(H) = 1
        /\ L # {} => Cardinality(L) = 1
        /\ D # {} => Cardinality(D) = 1
    <2> HIDE DEF H, L, D
    <2>1. ASSUME NEW S, S # {}, \A a, b \in S : a = b PROVE Cardinality(S) = 1
      <3>1. PICK a : a \in S
        BY <2>1
      <3>2. S = {a}
        BY <2>1, <3>1
      <3> QED
        BY <3>2, FS_Singleton
    <2> QED
      BY <1>1, <2>1
  <1> HIDE DEF H, L, D
  <1>5. Cardinality({}) = 0
    BY FS_EmptySet
  <1>6. Cardinality(H) + Cardinality(L) + Cardinality(D) = 1
    <2>1. CASE H # {}
      BY <1>2, <1>4, <1>5, <2>1
    <2>2. CASE L # {} /\ H = {}
      BY <1>2, <1>4, <1>5, <2>2
    <2>3. CASE D # {} /\ L = {} /\ H = {}
      BY <1>4, <1>5, <2>3
    <2> QED
      BY <1>3, <2>1, <2>2, <2>3
  <1> QED
    BY <1>6 DEF H, L, D

\* Every event schedule() accepted is still pending, was processed once, or was
\* popped by a run max_time cut short: none is lost and none runs twice, for
\* every client, every max_time and every sequence of runs.
THEOREM NoEventIsLost == Spec => []NothingLost
  <1>1. LoopInv /\ Placed => NothingLost
    BY CountedOnce DEF NothingLost
  <1> QED
    BY <1>1, LoopInvariant, PlacedInit, PlacedNext, PTL DEF Spec

-----------------------------------------------------------------------------
\* q lists the set S in the order of the numbers rank gives to its elements.
Lists(q, S, rank) ==
    /\ q \in Seq(S)
    /\ \A i, j \in DOMAIN q : i < j => rank[q[i]] < rank[q[j]]
    /\ \A x \in S : \E i \in DOMAIN q : q[i] = x

Below(S, rank, x) == {y \in S : rank[y] < rank[x]}

\* A list has its elements once, in the order of their numbers.
LEMMA ListOrder ==
    ASSUME NEW S, NEW rank, \A x \in S : rank[x] \in Int, NEW q, Lists(q, S, rank)
    PROVE  /\ Len(q) \in Nat /\ DOMAIN q = 1..Len(q) /\ \A i \in DOMAIN q : q[i] \in S
           /\ \A i, j \in DOMAIN q : q[i] = q[j] => i = j
           /\ \A i, j \in DOMAIN q : rank[q[i]] < rank[q[j]] <=> i < j
  <1>1. /\ Len(q) \in Nat /\ DOMAIN q = 1..Len(q) /\ \A i \in DOMAIN q : q[i] \in S
    BY LenProperties DEF Lists
  <1>2. \A i, j \in DOMAIN q : i < j => rank[q[i]] < rank[q[j]]
    BY DEF Lists
  <1> QED
    BY <1>1, <1>2

\* A set that makes up the first n places of a list has n elements.
LEMMA ListedCount ==
    ASSUME NEW q, NEW n \in Nat, NEW T,
           \A i \in 1..n : q[i] \in T, \A i, j \in 1..n : q[i] = q[j] => i = j,
           \A x \in T : \E i \in 1..n : q[i] = x
    PROVE  IsFiniteSet(T) /\ Cardinality(T) = n
  <1> DEFINE f == [i \in 1..n |-> q[i]]
  <1>1. f \in [1..n -> T] /\ \A i \in 1..n : f[i] = q[i]
    OBVIOUS
  <1> HIDE DEF f
  <1>2. f \in Bijection(1..n, T)
    BY <1>1 DEF Bijection, Injection, IsInjective, Surjection
  <1>3. ExistsBijection(1..n, T)
    BY <1>2 DEF ExistsBijection
  <1>4. IsFiniteSet(1..n) /\ Cardinality(1..n) = n
    BY FS_Interval
  <1> QED
    BY <1>3, <1>4, FS_Bijection

\* The list is as long as the set is large,
LEMMA ListLength ==
    ASSUME NEW S, NEW rank, \A x \in S : rank[x] \in Int, NEW q, Lists(q, S, rank)
    PROVE  IsFiniteSet(S) /\ Cardinality(S) = Len(q)
  <1>1. /\ Len(q) \in Nat /\ DOMAIN q = 1..Len(q) /\ \A i \in DOMAIN q : q[i] \in S
        /\ \A i, j \in DOMAIN q : q[i] = q[j] => i = j
    BY ListOrder
  <1>2. \A x \in S : \E i \in 1..Len(q) : q[i] = x
    BY <1>1 DEF Lists
  <1> QED
    BY <1>1, <1>2, ListedCount

\* and the i-th element is the one with i - 1 elements below it.
LEMMA Ranks ==
    ASSUME NEW S, NEW rank, \A x \in S : rank[x] \in Int, NEW q, Lists(q, S, rank),
           NEW j \in 1..Len(q)
    PROVE  Cardinality(Below(S, rank, q[j])) = j - 1
  <1>1. /\ Len(q) \in Nat /\ DOMAIN q = 1..Len(q) /\ \A i \in DOMAIN q : q[i] \in S
        /\ \A i, k \in DOMAIN q : q[i] = q[k] => i = k
        /\ \A i, k \in DOMAIN q : rank[q[i]] < rank[q[k]] <=> i < k
    BY ListOrder
  <1>2. PICK T : T = Below(S, rank, q[j])
    OBVIOUS
  <1>3. \A i \in 1..(j - 1) : i \in DOMAIN q /\ i < j
    BY <1>1
  <1>4. \A i \in 1..(j - 1) : q[i] \in T
    BY <1>1, <1>2, <1>3 DEF Below
  <1>5. ASSUME NEW x \in T PROVE \E i \in 1..(j - 1) : q[i] = x
    <2>1. x \in S /\ rank[x] < rank[q[j]]
      BY <1>2 DEF Below
    <2>2. PICK i \in DOMAIN q : q[i] = x
      BY <2>1 DEF Lists
    <2>3. i < j
      BY <1>1, <2>1, <2>2
    <2> QED
      BY <1>1, <2>2, <2>3
  <1>6. j - 1 \in Nat /\ \A i, k \in 1..(j - 1) : q[i] = q[k] => i = k
    BY <1>1, <1>3
  <1> QED
    BY <1>2, <1>4, <1>5, <1>6, ListedCount

\* No other element has as many below it.
LEMMA TheRanked ==
    ASSUME NEW S, NEW rank, \A x \in S : rank[x] \in Int, NEW q, Lists(q, S, rank),
           NEW i \in 1..Len(q), NEW x \in S, Cardinality(Below(S, rank, x)) = i - 1
    PROVE  x = q[i]
  <1>1. Len(q) \in Nat /\ DOMAIN q = 1..Len(q)
    BY ListOrder
  <1>2. PICK j \in 1..Len(q) : q[j] = x
    BY <1>1 DEF Lists
  <1>3. Cardinality(Below(S, rank, q[j])) = j - 1
    BY Ranks
  <1> QED
    BY <1>1, <1>2, <1>3

\* Every finite set whose elements have different numbers can be listed.
LEMMA Listed ==
    ASSUME NEW S, IsFiniteSet(S), NEW rank, \A x \in S : rank[x] \in Int,
           \A x, y \in S : rank[x] = rank[y] => x = y
    PROVE  \E q : Lists(q, S, rank)
  <1> DEFINE n == Cardinality(S)
             g == [x \in S |-> Cardinality(Below(S, rank, x)) + 1]
  <1>1. n \in Nat
    BY FS_CardinalityType
  <1>2. ASSUME NEW x \in S
        PROVE  /\ IsFiniteSet(Below(S, rank, x)) /\ Cardinality(Below(S, rank, x)) \in Nat
               /\ Cardinality(Below(S, rank, x)) < n
    <2>1. Below(S, rank, x) \in SUBSET (S \ {x})
      BY DEF Below
    <2>2. IsFiniteSet(S \ {x}) /\ Cardinality(S \ {x}) = n - 1
      BY FS_RemoveElement
    <2>3. IsFiniteSet(Below(S, rank, x)) /\ Cardinality(Below(S, rank, x)) <= n - 1
      BY <2>1, <2>2, FS_Subset
    <2> QED
      BY <1>1, <2>3, FS_CardinalityType
  <1>3. ASSUME NEW x \in S, NEW y \in S, rank[x] < rank[y]
        PROVE  Cardinality(Below(S, rank, x)) < Cardinality(Below(S, rank, y))
    <2>1. x \in Below(S, rank, y)
      BY <1>3 DEF Below
    <2>2. Below(S, rank, x) \in SUBSET (Below(S, rank, y) \ {x})
      BY <1>3 DEF Below
    <2>3. /\ IsFiniteSet(Below(S, rank, y) \ {x})
          /\ Cardinality(Below(S, rank, y) \ {x}) = Cardinality(Below(S, rank, y)) - 1
      BY <1>2, <2>1, FS_RemoveElement
    <2>4. Cardinality(Below(S, rank, x)) <= Cardinality(Below(S, rank, y) \ {x})
      BY <2>2, <2>3, FS_Subset
    <2> QED
      BY <1>2, <2>3, <2>4
  <1>4. /\ g \in [S -> 1..n]
        /\ \A x \in S : g[x] = Cardinality(Below(S, rank, x)) + 1
    BY <1>1, <1>2
  <1> HIDE DEF g, n
  <1>5. \A x, y \in S : rank[x] < rank[y] => g[x] < g[y]
    BY <1>2, <1>3, <1>4
  <1>6. \A x, y \in S : g[x] = g[y] => x = y
    <2> SUFFICES ASSUME NEW x \in S, NEW y \in S, x # y PROVE g[x] # g[y]
      OBVIOUS
    <2>1. rank[x] < rank[y] \/ rank[y] < rank[x]
      OBVIOUS
    <2>2. g[x] \in Int /\ g[y] \in Int
      BY <1>4
    <2> QED
      BY <1>5, <2>1, <2>2
  <1>7. \A i \in 1..n : \E x \in S : g[x] = i
    <2>1. g \in Injection(S, 1..n)
      BY <1>4, <1>6 DEF Injection, IsInjective
    <2>2. IsFiniteSet(1..n) /\ Cardinality(1..n) = n
      BY <1>1, FS_Interval
    <2>3. g \in Surjection(S, 1..n)
      BY <2>1, <2>2, FS_Injection DEF n
    <2> QED
      BY <2>3 DEF Surjection
  <1> DEFINE q == [i \in 1..n |-> CHOOSE x \in S : g[x] = i]
  <1>8. q \in [1..n -> S] /\ \A i \in 1..n : g[q[i]] = i
    BY <1>7
  <1> HIDE DEF q
  <1>9. q \in Seq(S) /\ DOMAIN q = 1..n
    BY <1>1, <1>8, SeqDef
  <1>10. ASSUME NEW i \in DOMAIN q, NEW j \in DOMAIN q, i < j PROVE rank[q[i]] < rank[q[j]]
    <2>1. q[i] \in S /\ q[j] \in S /\ g[q[i]] = i /\ g[q[j]] = j /\ i \in Int /\ j \in Int
      BY <1>1, <1>8, <1>9
    <2>2. ~(rank[q[j]] < rank[q[i]])
      BY <1>5, <1>10, <2>1
    <2>3. rank[q[i]] # rank[q[j]]
      BY <1>10, <2>1
    <2>4. rank[q[i]] \in Int /\ rank[q[j]] \in Int
      BY <2>1
    <2> QED
      BY <2>2, <2>3, <2>4
  <1>11. \A x \in S : \E i \in DOMAIN q : q[i] = x
    <2> SUFFICES ASSUME NEW x \in S PROVE q[g[x]] = x /\ g[x] \in 1..n
      BY <1>9
    <2>1. g[x] \in 1..n
      BY <1>4
    <2> QED
      BY <1>6, <1>8, <2>1
  <1> QED
    BY <1>9, <1>10, <1>11 DEF Lists

\* A list that goes on with elements of higher numbers.
LEMMA ListedOn ==
    ASSUME NEW S, NEW T, NEW rank, \A x \in S \cup T : rank[x] \in Int,
           \A x \in S, y \in T : rank[x] < rank[y],
           NEW q, Lists(q, S, rank), NEW r, Lists(r, T, rank)
    PROVE  Lists(q \o r, S \cup T, rank)
  <1>1. /\ Len(q) \in Nat /\ DOMAIN q = 1..Len(q) /\ \A i \in DOMAIN q : q[i] \in S
    BY ListOrder
  <1>2. /\ Len(r) \in Nat /\ DOMAIN r = 1..Len(r) /\ \A i \in DOMAIN r : r[i] \in T
    BY ListOrder
  <1>3. q \in Seq(S \cup T) /\ r \in Seq(S \cup T)
    BY <1>1, <1>2, SeqDef DEF Lists
  <1>4. /\ q \o r \in Seq(S \cup T) /\ Len(q \o r) = Len(q) + Len(r)
        /\ DOMAIN (q \o r) = 1..(Len(q) + Len(r))
        /\ \A i \in 1..(Len(q) + Len(r)) :
                (q \o r)[i] = IF i <= Len(q) THEN q[i] ELSE r[i - Len(q)]
    BY <1>3, ConcatProperties, LenProperties
  <1> DEFINE p == q \o r
  <1>5. /\ \A i \in DOMAIN q : i \in DOMAIN p /\ p[i] = q[i]
        /\ \A i \in DOMAIN r : Len(q) + i \in DOMAIN p /\ p[Len(q) + i] = r[i]
        /\ \A i \in DOMAIN p : i \in DOMAIN q \/ (i > Len(q) /\ i - Len(q) \in DOMAIN r /\ p[i] = r[i - Len(q)])
    BY <1>1, <1>2, <1>4
  <1>6. DOMAIN p \subseteq Int
    BY <1>1, <1>2, <1>4
  <1>7. p \in Seq(S \cup T)
    BY <1>4
  <1> HIDE DEF p
  <1>8. ASSUME NEW i \in DOMAIN p, NEW j \in DOMAIN p, i < j PROVE rank[p[i]] < rank[p[j]]
    <2>1. CASE i \in DOMAIN q /\ j \in DOMAIN q
      BY <1>5, <1>8, <2>1 DEF Lists
    <2>2. CASE i \in DOMAIN q /\ j \notin DOMAIN q
      BY <1>1, <1>2, <1>5, <2>2
    <2>3. CASE i \notin DOMAIN q
      <3>1. i > Len(q) /\ j > Len(q) /\ j \notin DOMAIN q
        BY <1>1, <1>5, <1>6, <1>8, <2>3
      <3>2. i - Len(q) \in DOMAIN r /\ j - Len(q) \in DOMAIN r /\ i - Len(q) < j - Len(q)
        BY <1>1, <1>5, <1>6, <1>8, <2>3, <3>1
      <3>3. p[i] = r[i - Len(q)] /\ p[j] = r[j - Len(q)]
        BY <1>5, <2>3, <3>1
      <3> QED
        BY <3>2, <3>3 DEF Lists
    <2> QED
      BY <2>1, <2>2, <2>3
  <1>9. ASSUME NEW x \in S \cup T PROVE \E i \in DOMAIN p : p[i] = x
    <2>1. CASE x \in S
      BY <1>5, <2>1 DEF Lists
    <2>2. CASE x \in T
      BY <1>5, <2>2 DEF Lists
    <2> QED
      BY <2>1, <2>2
  <1>10. Lists(p, S \cup T, rank)
    BY <1>7, <1>8, <1>9 DEF Lists
  <1> QED
    BY <1>10 DEF p

-----------------------------------------------------------------------------
Numbers(H) == [e \in H |-> e.seq]

Due(H, t) == {e \in H : e.time = t}

\* A set of pending entries with different numbers.
Pending(H) ==
    /\ IsFiniteSet(H) /\ H \subseteq Entry
    /\ \A e \in H : e.time \in -1..Horizon
    /\ \A e, f \in H : e.seq = f.seq => e = f

\* What is due at an instant can be listed by number.
LEMMA DueIsListed ==
    ASSUME NEW H, Pending(H), NEW t
    PROVE  \E q : Lists(q, Due(H, t), Numbers(H))
  <1>1. IsFiniteSet(Due(H, t)) /\ \A e \in Due(H, t) : e \in H /\ Numbers(H)[e] = e.seq /\ e.seq \in Int
    <2>1. Due(H, t) \in SUBSET H
      BY DEF Due
    <2>2. IsFiniteSet(Due(H, t))
      BY <2>1, FS_Subset DEF Pending
    <2> QED
      BY <2>1, <2>2 DEF Pending, Entry, Numbers
  <1>2. \A e, f \in Due(H, t) : Numbers(H)[e] = Numbers(H)[f] => e = f
    BY <1>1 DEF Pending
  <1> QED
    BY <1>1, <1>2, Listed

\* The agenda of an instant names the events of that list.
LEMMA DueInOrder ==
    ASSUME NEW H, Pending(H), NEW t, NEW q, Lists(q, Due(H, t), Numbers(H))
    PROVE  /\ DueAt(H, t) = [k \in DOMAIN q |-> q[k].event]
           /\ DueAt(H, t) \in Seq(Kinds) /\ Len(DueAt(H, t)) = Len(q)
           /\ DueAt(H, t) = <<>> <=> Due(H, t) = {}
  <1> DEFINE D == {e \in H : e.time = t}
  <1>1. D = Due(H, t)
    BY DEF Due
  <1>2. \A e \in D : e \in H /\ e \in Entry /\ Numbers(H)[e] = e.seq /\ e.seq \in Int
    BY DEF Pending, Numbers, Entry
  <1> HIDE DEF D
  <1>3. Lists(q, D, Numbers(H)) /\ \A e \in D : Numbers(H)[e] \in Int
    BY <1>1, <1>2
  <1>4. /\ Len(q) \in Nat /\ DOMAIN q = 1..Len(q) /\ \A i \in DOMAIN q : q[i] \in D
        /\ IsFiniteSet(D) /\ Cardinality(D) = Len(q)
    BY <1>3, ListOrder, ListLength
  <1>5. ASSUME NEW i \in 1..Len(q)
        PROVE  (CHOOSE x \in D : Cardinality({y \in D : y.seq < x.seq}) = i - 1) = q[i]
    <2>1. \A x \in D : Below(D, Numbers(H), x) = {y \in D : y.seq < x.seq}
      BY <1>2 DEF Below
    <2>2. q[i] \in D /\ Cardinality({y \in D : y.seq < q[i].seq}) = i - 1
      <3>1. Cardinality(Below(D, Numbers(H), q[i])) = i - 1
        BY <1>3, Ranks
      <3> QED
        BY <1>4, <2>1, <3>1
    <2>3. ASSUME NEW x \in D, Cardinality({y \in D : y.seq < x.seq}) = i - 1 PROVE x = q[i]
      <3>1. Cardinality(Below(D, Numbers(H), x)) = i - 1
        BY <2>1, <2>3
      <3> QED
        BY <1>3, <3>1, TheRanked
    <2> QED
      BY <2>2, <2>3
  <1> DEFINE due == [i \in 1..Cardinality(D) |->
                        CHOOSE x \in D : Cardinality({y \in D : y.seq < x.seq}) = i - 1]
  <1>6. DueAt(H, t) = [k \in DOMAIN due |-> due[k].event]
    BY DEF DueAt, Sorted, D
  <1>7. DOMAIN due = DOMAIN q /\ \A k \in DOMAIN q : due[k] = q[k]
    BY <1>4, <1>5
  <1> HIDE DEF due
  <1>8. DueAt(H, t) = [k \in DOMAIN q |-> q[k].event]
    BY <1>6, <1>7
  <1>9. DueAt(H, t) \in [1..Len(q) -> Kinds]
    BY <1>2, <1>4, <1>8 DEF Entry
  <1>10. DueAt(H, t) \in Seq(Kinds) /\ Len(DueAt(H, t)) = Len(q)
    BY <1>4, <1>9, SeqDef, LenProperties
  <1>11. DueAt(H, t) = <<>> <=> D = {}
    <2>1. DueAt(H, t) = <<>> <=> Len(q) = 0
      BY <1>10, EmptySeq
    <2> QED
      BY <1>4, <2>1, FS_EmptySet
  <1> QED
    BY <1>1, <1>8, <1>10, <1>11

Identity(P) == [i \in P |-> i]

\* The calls of a batch that are due at an instant, and the events some calls of
\* a batch name.
DueCalls(batch, n, t) == {i \in 1..n : batch[i].time = t}
Named(batch, r) == [k \in DOMAIN r |-> batch[r[k]].event]

\* The agenda of t under H continues that under G by the calls P of a batch.
Continued(G, H, batch, P, t) ==
    \E r : /\ Lists(r, P, Identity(P))
           /\ DueAt(H, t) = DueAt(G, t) \o Named(batch, r)

\* The calls at the places P, in their order.
InOrder(calls, P) ==
    [k \in 1..Cardinality(P) |->
        calls[CHOOSE i \in P : Cardinality({j \in P : j < i}) = k - 1][2]]

Kinded(calls, r) == [k \in DOMAIN r |-> calls[r[k]][2]]

\* The calls of a batch that are due at an instant, in their order.
LEMMA CallsInOrder ==
    ASSUME NEW calls, NEW n \in Nat, DOMAIN calls = 1..n,
           NEW P, P \subseteq DOMAIN calls, NEW r, Lists(r, P, Identity(P))
    PROVE  InOrder(calls, P) = Kinded(calls, r)
  <1>1. \A i \in P : Identity(P)[i] = i /\ i \in Int
    BY DEF Identity
  <1>2. /\ Len(r) \in Nat /\ DOMAIN r = 1..Len(r) /\ \A i \in DOMAIN r : r[i] \in P
        /\ Cardinality(P) = Len(r)
    <2>1. PICK rank : rank = Identity(P)
      OBVIOUS
    <2>2. Lists(r, P, rank) /\ \A x \in P : rank[x] \in Int
      BY <1>1, <2>1
    <2> QED
      BY <2>2, ListOrder, ListLength
  <1>3. ASSUME NEW k \in 1..Len(r)
        PROVE  (CHOOSE i \in P : Cardinality({j \in P : j < i}) = k - 1) = r[k]
    <2>1. \A x \in P : Below(P, Identity(P), x) = {j \in P : j < x}
      BY <1>1 DEF Below
    <2>2. r[k] \in P /\ Cardinality({j \in P : j < r[k]}) = k - 1
      <3>1. Cardinality(Below(P, Identity(P), r[k])) = k - 1
        BY <1>1, Ranks
      <3> QED
        BY <1>2, <2>1, <3>1
    <2>3. ASSUME NEW i \in P, Cardinality({j \in P : j < i}) = k - 1 PROVE i = r[k]
      <3>1. Cardinality(Below(P, Identity(P), i)) = k - 1
        BY <2>1, <2>3
      <3>2. \A x \in P : Identity(P)[x] \in Int
        BY <1>1
      <3> QED
        BY <3>1, <3>2, TheRanked
    <2> QED
      BY <2>2, <2>3
  <1> DEFINE nth(k) == CHOOSE i \in P : Cardinality({j \in P : j < i}) = k - 1
  <1>4. \A k \in DOMAIN r : nth(k) = r[k]
    BY <1>2, <1>3
  <1> HIDE DEF nth
  <1>5. [k \in 1..Cardinality(P) |-> calls[nth(k)][2]] = [k \in DOMAIN r |-> calls[r[k]][2]]
    BY <1>2, <1>4
  <1> QED
    BY <1>5 DEF nth, InOrder, Kinded

\* A list depends on the numbers of its elements only.
LEMMA SameRanks ==
    ASSUME NEW S, NEW rank, NEW other, NEW q, Lists(q, S, rank),
           \A x \in S : other[x] = rank[x]
    PROVE  Lists(q, S, other)
  <1>1. \A i \in DOMAIN q : q[i] \in S
    BY LenProperties DEF Lists
  <1> QED
    BY <1>1 DEF Lists

Events(q) == [k \in DOMAIN q |-> q[k].event]

\* The events of two lists one after the other.
LEMMA EventsJoined ==
    ASSUME NEW S, NEW q \in Seq(S), NEW r \in Seq(S)
    PROVE  Events(q \o r) = Events(q) \o Events(r)
  <1>1. /\ Len(q) \in Nat /\ DOMAIN q = 1..Len(q) /\ Len(r) \in Nat /\ DOMAIN r = 1..Len(r)
        /\ q \o r \in Seq(S) /\ Len(q \o r) = Len(q) + Len(r)
        /\ DOMAIN (q \o r) = 1..(Len(q) + Len(r))
        /\ \A i \in 1..(Len(q) + Len(r)) :
                (q \o r)[i] = IF i <= Len(q) THEN q[i] ELSE r[i - Len(q)]
    BY ConcatProperties, LenProperties
  <1> DEFINE V == {q[k].event : k \in DOMAIN q} \cup {r[k].event : k \in DOMAIN r}
  <1>2. Events(q) \in [1..Len(q) -> V] /\ Events(r) \in [1..Len(r) -> V]
    BY <1>1 DEF Events
  <1> HIDE DEF V
  <1>3. Events(q) \in Seq(V) /\ Events(r) \in Seq(V) /\ Len(Events(q)) = Len(q) /\ Len(Events(r)) = Len(r)
    BY <1>1, <1>2, SeqDef, LenProperties
  <1>4. /\ DOMAIN (Events(q) \o Events(r)) = 1..(Len(q) + Len(r))
        /\ \A i \in 1..(Len(q) + Len(r)) :
                (Events(q) \o Events(r))[i] = IF i <= Len(q) THEN Events(q)[i] ELSE Events(r)[i - Len(q)]
    BY <1>3, ConcatProperties, LenProperties
  <1>5. \A i \in 1..(Len(q) + Len(r)) : Events(q \o r)[i] = (Events(q) \o Events(r))[i]
    <2> SUFFICES ASSUME NEW i \in 1..(Len(q) + Len(r))
                 PROVE  Events(q \o r)[i] = (Events(q) \o Events(r))[i]
      OBVIOUS
    <2>1. Events(q \o r)[i] = (q \o r)[i].event
      BY <1>1 DEF Events
    <2>2. CASE i <= Len(q)
      <3>1. (q \o r)[i] = q[i] /\ Events(q)[i] = q[i].event
        BY <1>1, <2>2 DEF Events
      <3> QED
        BY <1>4, <2>1, <2>2, <3>1
    <2>3. CASE ~(i <= Len(q))
      <3>1. i - Len(q) \in DOMAIN r
        BY <1>1, <2>3
      <3>2. (q \o r)[i] = r[i - Len(q)] /\ Events(r)[i - Len(q)] = r[i - Len(q)].event
        BY <1>1, <2>3, <3>1 DEF Events
      <3> QED
        BY <1>4, <2>1, <2>3, <3>1, <3>2
    <2> QED
      BY <2>2, <2>3
  <1>6. DOMAIN Events(q \o r) = 1..(Len(q) + Len(r))
    BY <1>1 DEF Events
  <1>7. /\ Events(q \o r) = [i \in DOMAIN Events(q \o r) |-> Events(q \o r)[i]]
        /\ Events(q) \o Events(r)
            = [i \in DOMAIN (Events(q) \o Events(r)) |-> (Events(q) \o Events(r))[i]]
    <2>1. Events(q) \o Events(r) \in Seq(V)
      BY <1>3, ConcatProperties
    <2> QED
      BY <2>1, LenProperties DEF Events
  <1> QED
    BY <1>4, <1>5, <1>6, <1>7

\* A batch is entered behind what is due at each instant, in the order of its
\* calls.
LEMMA PushedDue ==
    ASSUME NEW rest, Pending(rest), NEW from \in Nat, \A e \in rest : e.seq < from,
           NEW width \in Nat, NEW batch \in [1..width -> Call], NEW n \in 0..width, NEW t
    PROVE  /\ Pending(rest \cup Entries(batch, n, from))
           /\ Continued(rest, rest \cup Entries(batch, n, from), batch, DueCalls(batch, n, t), t)
  <1> DEFINE P == {i \in 1..n : batch[i].time = t}
             entry(i) == [time |-> batch[i].time, seq |-> from + i - 1, event |-> batch[i].event]
             new == Entries(batch, n, from)
             H == rest \cup new
  <1>1. new = {entry(i) : i \in 1..n} /\ n \in Nat
    <2>1. {k \in DOMAIN batch : k <= n} = 1..n
      OBVIOUS
    <2> QED
      BY <2>1 DEF Entries
  <1>2. ASSUME NEW i \in 1..n
        PROVE  /\ entry(i).time = batch[i].time /\ entry(i).seq = from + i - 1
               /\ entry(i).event = batch[i].event /\ entry(i) \in Entry
               /\ entry(i).time \in -1..Horizon /\ i \in Int /\ from + i - 1 >= from
               /\ from + i - 1 \in Nat
    <2>1. batch[i] \in Call /\ from + i - 1 \in Nat /\ from + i - 1 >= from
      OBVIOUS
    <2> QED
      BY <2>1, LoopAssumption DEF Entry, Call, LoopAssumption
  <1> HIDE DEF entry
  <1>3. Pending(H)
    <2>1. IsFiniteSet(new)
      <3> DEFINE f == [i \in 1..n |-> entry(i)]
      <3>1. f \in Surjection(1..n, new)
        BY <1>1 DEF Surjection
      <3>2. IsFiniteSet(1..n)
        BY <1>1, FS_Interval
      <3> QED
        BY <3>1, <3>2, FS_Surjection
    <2>2. IsFiniteSet(H)
      BY <2>1, FS_Union DEF Pending
    <2>3. \A e \in new : e \in Entry /\ e.time \in -1..Horizon /\ e.seq \in Nat /\ e.seq >= from
      BY <1>1, <1>2
    <2>4. \A e, f \in new : e.seq = f.seq => e = f
      BY <1>1, <1>2
    <2>5. \A e \in rest, f \in new : e.seq # f.seq
      BY <2>3 DEF Pending, Entry
    <2> HIDE DEF new
    <2> QED
      BY <2>2, <2>3, <2>4, <2>5 DEF Pending
  <1>4. PICK r : Lists(r, P, Identity(P))
    <2>1. IsFiniteSet(P)
      <3>1. IsFiniteSet(1..n)
        BY <1>1, FS_Interval
      <3> QED
        BY <3>1, FS_Subset
    <2>2. \A i \in P : Identity(P)[i] = i /\ i \in Int
      BY DEF Identity
    <2> HIDE DEF P
    <2> QED
      BY <2>1, <2>2, Listed
  <1>5. PICK q : Lists(q, Due(rest, t), Numbers(rest))
    BY DueIsListed
  <1> DEFINE s == [k \in DOMAIN r |-> entry(r[k])]
             T == {entry(i) : i \in P}
  <1>6. /\ Len(r) \in Nat /\ DOMAIN r = 1..Len(r) /\ \A k \in DOMAIN r : r[k] \in P
        /\ \A j, k \in DOMAIN r : j < k => r[j] < r[k]
        /\ \A i \in P : \E k \in DOMAIN r : r[k] = i
    <2>1. \A i \in P : Identity(P)[i] = i /\ i \in Int
      BY DEF Identity
    <2> HIDE DEF P
    <2>2. PICK rank : rank = Identity(P)
      OBVIOUS
    <2>3. Lists(r, P, rank) /\ \A i \in P : rank[i] = i /\ rank[i] \in Int
      BY <1>4, <2>1, <2>2
    <2>4. /\ Len(r) \in Nat /\ DOMAIN r = 1..Len(r) /\ \A k \in DOMAIN r : r[k] \in P
          /\ \A j, k \in DOMAIN r : rank[r[j]] < rank[r[k]] <=> j < k
      BY <2>3, ListOrder
    <2> QED
      BY <2>3, <2>4 DEF Lists
  <1>7. \A e \in rest : Numbers(H)[e] = e.seq /\ Numbers(rest)[e] = e.seq /\ e.seq \in Int
    BY DEF Numbers, Pending, Entry
  <1>8. \A i \in P : i \in 1..n /\ entry(i) \in T /\ Numbers(H)[entry(i)] = from + i - 1
    BY <1>1, <1>2 DEF Numbers
  <1>9. Lists(s, T, Numbers(H))
    <2>1. s \in [1..Len(r) -> T] /\ \A k \in DOMAIN r : s[k] = entry(r[k])
      BY <1>6
    <2> HIDE DEF s
    <2>2. s \in Seq(T) /\ DOMAIN s = DOMAIN r
      BY <1>6, <2>1, SeqDef
    <2>3. \A j, k \in DOMAIN s : j < k => Numbers(H)[s[j]] < Numbers(H)[s[k]]
      <3> SUFFICES ASSUME NEW j \in DOMAIN r, NEW k \in DOMAIN r, j < k
                   PROVE  Numbers(H)[s[j]] < Numbers(H)[s[k]]
        BY <2>2
      <3>1. r[j] \in 1..n /\ r[k] \in 1..n /\ r[j] < r[k]
        BY <1>6, <1>8
      <3>2. Numbers(H)[s[j]] = from + r[j] - 1 /\ Numbers(H)[s[k]] = from + r[k] - 1
        BY <1>6, <1>8, <2>1
      <3> QED
        BY <3>1, <3>2
    <2>4. \A x \in T : \E k \in DOMAIN s : s[k] = x
      BY <1>6, <2>1, <2>2
    <2> QED
      BY <2>2, <2>3, <2>4 DEF Lists
  <1>10. Lists(q, Due(rest, t), Numbers(H))
    <2>1. \A x \in Due(rest, t) : Numbers(H)[x] = Numbers(rest)[x]
      BY <1>7 DEF Due
    <2>2. PICK other : other = Numbers(H)
      OBVIOUS
    <2> QED
      BY <1>5, <2>1, <2>2, SameRanks
  <1>11. Due(H, t) = Due(rest, t) \cup T
    BY <1>1, <1>2 DEF Due
  <1>12. Lists(q \o s, Due(H, t), Numbers(H))
    <2>1. \A x \in Due(rest, t) : Numbers(H)[x] \in Int /\ Numbers(H)[x] < from
      <3>1. \A x \in Due(rest, t) : x \in rest
        BY DEF Due
      <3> HIDE DEF H
      <3> QED
        BY <1>7, <3>1
    <2>2. \A x \in T : Numbers(H)[x] \in Int /\ Numbers(H)[x] >= from
      <3>1. \A x \in T : \E i \in 1..n : Numbers(H)[x] = from + i - 1
        BY <1>8
      <3> HIDE DEF H, T
      <3> QED
        BY <1>2, <3>1
    <2>3. PICK rank : rank = Numbers(H)
      OBVIOUS
    <2> HIDE DEF T, s, H
    <2>4. \A x \in Due(rest, t) \cup T : rank[x] \in Int
      BY <2>1, <2>2, <2>3
    <2>5. \A x \in Due(rest, t), y \in T : rank[x] < rank[y]
      BY <2>1, <2>2, <2>3
    <2>6. Lists(q \o s, Due(rest, t) \cup T, rank)
      BY <1>9, <1>10, <2>3, <2>4, <2>5, ListedOn
    <2> QED
      BY <1>11, <2>3, <2>6
  <1> HIDE DEF H, T, P
  <1>13. DueAt(H, t) = Events(q \o s) /\ DueAt(rest, t) = Events(q)
    <2>1. PICK p : p = q \o s
      OBVIOUS
    <2>2. Lists(p, Due(H, t), Numbers(H))
      BY <1>12, <2>1
    <2> HIDE DEF s
    <2>3. DueAt(H, t) = Events(p)
      BY <1>3, <2>2, DueInOrder DEF Events
    <2>4. DueAt(rest, t) = Events(q)
      BY <1>5, DueInOrder DEF Events
    <2> QED
      BY <2>1, <2>3, <2>4
  <1>14. Events(q \o s) = Events(q) \o Events(s)
    <2>1. s \in Seq(T) /\ q \in Seq(Due(rest, t))
      BY <1>9, <1>5 DEF Lists
    <2>2. s \in Seq(T \cup Due(rest, t)) /\ q \in Seq(T \cup Due(rest, t))
      <3>1. PICK l \in Nat, m \in Nat : s \in [1..l -> T] /\ q \in [1..m -> Due(rest, t)]
        BY <2>1, LenProperties
      <3> HIDE DEF s
      <3>2. s \in [1..l -> T \cup Due(rest, t)] /\ q \in [1..m -> T \cup Due(rest, t)]
        BY <3>1
      <3> QED
        BY <3>2, SeqDef
    <2> HIDE DEF s
    <2> QED
      BY <2>2, EventsJoined
  <1>15. Events(s) = [k \in DOMAIN r |-> batch[r[k]].event]
    <2>1. \A k \in DOMAIN r : entry(r[k]).event = batch[r[k]].event
      BY <1>2, <1>6, <1>8
    <2> QED
      BY <2>1 DEF Events
  <1> QED
    BY <1>3, <1>4, <1>13, <1>14, <1>15 DEF H, P, DueCalls, Named, Continued

\* Taking the least entry of an instant takes the first of what is due then.
LEMMA TakenDue ==
    ASSUME NEW H, Pending(H), NEW e \in H,
           \A f \in H \ {e} : f.time = e.time => e.seq < f.seq
    PROVE  /\ Pending(H \ {e})
           /\ DueAt(H, e.time) # <<>> /\ DueAt(H, e.time)[1] = e.event
           /\ DueAt(H \ {e}, e.time) = Tail(DueAt(H, e.time))
           /\ \A t : t # e.time => DueAt(H \ {e}, t) = DueAt(H, t)
  <1> DEFINE G == H \ {e}
  <1>1. Pending(G)
    <2>1. IsFiniteSet(G)
      BY FS_RemoveElement DEF Pending
    <2> QED
      BY <2>1 DEF Pending
  <1>2. /\ \A f \in H : Numbers(H)[f] = f.seq /\ f.seq \in Int
        /\ \A f \in G : Numbers(G)[f] = Numbers(H)[f]
    BY DEF Numbers, Pending, Entry
  <1>3. PICK low, numbers : low = Numbers(G) /\ numbers = Numbers(H)
    OBVIOUS
  <1>4. ASSUME NEW t, t # e.time PROVE DueAt(G, t) = DueAt(H, t)
    <2>1. PICK q : Lists(q, Due(H, t), numbers)
      BY <1>3, DueIsListed
    <2>2. Due(G, t) = Due(H, t) /\ \A x \in Due(H, t) : x \in G
      BY <1>4 DEF Due
    <2>3. \A x \in Due(H, t) : low[x] = numbers[x]
      BY <1>2, <1>3, <2>2
    <2> HIDE DEF G
    <2>4. Lists(q, Due(G, t), low)
      BY <2>1, <2>2, <2>3, SameRanks
    <2>5. DueAt(H, t) = Events(q)
      BY <1>3, <2>1, DueInOrder DEF Events
    <2>6. DueAt(G, t) = Events(q)
      BY <1>1, <1>3, <2>4, DueInOrder DEF Events
    <2> QED
      BY <2>5, <2>6
  <1>5. PICK D, q : D = Due(H, e.time) /\ Lists(q, D, numbers)
    BY <1>3, DueIsListed
  <1>6. e \in D /\ Due(G, e.time) = D \ {e} /\ D \subseteq H
    BY <1>5 DEF Due
  <1>7. \A x \in D : numbers[x] \in Int /\ (x # e => numbers[e] < numbers[x])
    BY <1>2, <1>3, <1>5 DEF Due
  <1>8. /\ Len(q) \in Nat /\ DOMAIN q = 1..Len(q) /\ \A i \in DOMAIN q : q[i] \in D
        /\ \A i, j \in DOMAIN q : q[i] = q[j] => i = j
        /\ \A i, j \in DOMAIN q : numbers[q[i]] < numbers[q[j]] <=> i < j
    BY <1>5, <1>7, ListOrder
  <1>9. 1 \in DOMAIN q /\ q[1] = e
    <2>1. PICK i \in DOMAIN q : q[i] = e
      BY <1>5, <1>6 DEF Lists
    <2>2. 1 \in DOMAIN q /\ i \in Int /\ i >= 1
      BY <1>8, <2>1
    <2>3. q[1] \in D /\ ~(numbers[e] < numbers[q[1]])
      BY <1>8, <2>1, <2>2
    <2> QED
      BY <1>7, <2>2, <2>3
  <1>10. q \in Seq(D) /\ q # <<>>
    BY <1>5, <1>9 DEF Lists
  <1>11. /\ Tail(q) \in Seq(D) /\ Len(Tail(q)) = Len(q) - 1 /\ DOMAIN Tail(q) = 1..(Len(q) - 1)
         /\ \A i \in 1..(Len(q) - 1) : Tail(q)[i] = q[i + 1] /\ i + 1 \in DOMAIN q /\ i \in Int
    BY <1>8, <1>10, HeadTailProperties, LenProperties
  <1>12. Lists(Tail(q), D \ {e}, low)
    <2>1. \A i \in 1..(Len(q) - 1) : Tail(q)[i] \in D \ {e}
      BY <1>8, <1>9, <1>11
    <2>2. Tail(q) \in Seq(D \ {e})
      <3>1. Tail(q) = [i \in 1..(Len(q) - 1) |-> Tail(q)[i]] /\ Len(q) - 1 \in Nat
        <4>1. Len(q) - 1 \in Nat
          BY <1>8, <1>9
        <4>2. Tail(q) \in [1..(Len(q) - 1) -> D]
          BY <1>11, LenProperties
        <4> QED
          BY <4>1, <4>2
      <3>2. Tail(q) \in [1..(Len(q) - 1) -> D \ {e}]
        BY <2>1, <3>1
      <3> QED
        BY <3>1, <3>2, SeqDef
    <2>3. \A x \in D \ {e} : low[x] = numbers[x]
      BY <1>2, <1>3, <1>6
    <2>4. \A i, j \in DOMAIN Tail(q) : i < j => low[Tail(q)[i]] < low[Tail(q)[j]]
      BY <1>8, <1>11, <2>1, <2>3
    <2>5. ASSUME NEW x \in D \ {e} PROVE \E i \in DOMAIN Tail(q) : Tail(q)[i] = x
      <3>1. PICK j \in DOMAIN q : q[j] = x
        BY <1>5 DEF Lists
      <3>2. j # 1
        BY <1>9, <3>1
      <3>3. j - 1 \in 1..(Len(q) - 1) /\ (j - 1) + 1 = j
        BY <1>8, <3>2
      <3> QED
        BY <1>11, <3>1, <3>3
    <2> QED
      BY <2>2, <2>4, <2>5 DEF Lists
  <1>13. DueAt(H, e.time) = Events(q)
    BY <1>3, <1>5, DueInOrder DEF Events
  <1>14. DueAt(G, e.time) = Events(Tail(q))
    <2> HIDE DEF G
    <2>1. PICK p : p = Tail(q)
      OBVIOUS
    <2>2. Lists(p, Due(G, e.time), Numbers(G))
      BY <1>3, <1>6, <1>12, <2>1
    <2>3. DueAt(G, e.time) = Events(p)
      BY <1>1, <2>2, DueInOrder DEF Events
    <2> QED
      BY <2>1, <2>3
  <1>15. Events(Tail(q)) = Tail(Events(q)) /\ Events(q)[1] = e.event /\ Events(q) # <<>>
    <2>1. Events(q) \in Seq(Kinds) /\ Len(Events(q)) = Len(q) /\ DOMAIN Events(q) = 1..Len(q)
      <3>1. DueAt(H, e.time) \in Seq(Kinds) /\ Len(DueAt(H, e.time)) = Len(q)
        BY <1>3, <1>5, DueInOrder
      <3> QED
        BY <1>8, <1>13, <3>1 DEF Events
    <2>2. Events(q)[1] = e.event /\ Events(q) # <<>>
      BY <1>8, <1>9, <2>1 DEF Events
    <2>3. /\ Tail(Events(q)) \in Seq(Kinds) /\ DOMAIN Tail(Events(q)) = 1..(Len(q) - 1)
          /\ \A i \in 1..(Len(q) - 1) : Tail(Events(q))[i] = Events(q)[i + 1]
      BY <1>8, <2>1, <2>2, HeadTailProperties, LenProperties
    <2>4. \A i \in 1..(Len(q) - 1) : Events(Tail(q))[i] = Tail(Events(q))[i]
      <3> SUFFICES ASSUME NEW i \in 1..(Len(q) - 1)
                   PROVE  Events(Tail(q))[i] = Tail(Events(q))[i]
        OBVIOUS
      <3>1. Events(Tail(q))[i] = q[i + 1].event
        BY <1>11 DEF Events
      <3>2. Events(q)[i + 1] = q[i + 1].event
        BY <1>11 DEF Events
      <3> QED
        BY <2>3, <3>1, <3>2
    <2>5. DOMAIN Events(Tail(q)) = 1..(Len(q) - 1)
      BY <1>11 DEF Events
    <2>6. /\ Tail(Events(q)) = [i \in 1..(Len(q) - 1) |-> Tail(Events(q))[i]]
          /\ Events(Tail(q)) = [i \in 1..(Len(q) - 1) |-> Events(Tail(q))[i]]
      <3>1. Tail(Events(q)) = [i \in 1..(Len(q) - 1) |-> Tail(Events(q))[i]]
        BY <2>3, LenProperties
      <3>2. Events(Tail(q)) = [i \in 1..(Len(q) - 1) |-> Events(Tail(q))[i]]
        BY <2>5 DEF Events
      <3> QED
        BY <3>1, <3>2
    <2> QED
      BY <2>2, <2>4, <2>6
  <1> QED
    BY <1>1, <1>4, <1>13, <1>14, <1>15

Agenda(H) == [t \in -1..Horizon |-> DueAt(H, t)]

\* The calls a batch makes of which the first n are accepted, as the calendar
\* names them.
Made(batch, n) == [i \in 1..n |-> <<batch[i].time, batch[i].event>>]

\* The calendar counts with the same operator.
LEMMA SameCardinality == \A S : Abstract!Cardinality(S) = Cardinality(S)
  BY DEF Abstract!Cardinality, Cardinality

\* The entries H have the agenda of G with the calls entered.
Grown(G, H, calls) ==
    Pending(H) /\ Agenda(H) = Abstract!Entered(Agenda(G), calls)

\* Pushing a batch enters its accepted calls.
LEMMA AgendaPushed ==
    ASSUME NEW rest, Pending(rest), NEW from \in Nat, \A e \in rest : e.seq < from,
           NEW width \in Nat, NEW batch \in [1..width -> Call], NEW n \in 0..width
    PROVE  Grown(rest, rest \cup Entries(batch, n, from), Made(batch, n))
  <1>1. PICK calls, H : calls = Made(batch, n) /\ H = rest \cup Entries(batch, n, from)
    OBVIOUS
  <1>2. n \in Nat /\ DOMAIN calls = 1..n
        /\ \A i \in 1..n : calls[i][1] = batch[i].time /\ calls[i][2] = batch[i].event
    BY <1>1 DEF Made
  <1>3. ASSUME NEW t \in -1..Horizon, NEW P, P = {i \in DOMAIN calls : calls[i][1] = t}
        PROVE  DueAt(H, t) = DueAt(rest, t) \o InOrder(calls, P)
    <2>1. P = DueCalls(batch, n, t)
      BY <1>2, <1>3 DEF DueCalls
    <2>2. PICK r : /\ Lists(r, P, Identity(P))
                   /\ DueAt(H, t) = DueAt(rest, t) \o Named(batch, r)
      <3>1. Continued(rest, rest \cup Entries(batch, n, from), batch, DueCalls(batch, n, t), t)
        BY PushedDue
      <3> QED
        BY <1>1, <2>1, <3>1 DEF Continued
    <2>3. \A i \in DOMAIN r : r[i] \in DueCalls(batch, n, t)
      BY <2>1, <2>2, LenProperties DEF Lists
    <2>4. Named(batch, r) = Kinded(calls, r)
      BY <1>2, <2>3 DEF Named, Kinded, DueCalls
    <2>5. InOrder(calls, P) = Kinded(calls, r)
      BY <1>2, <1>3, <2>2, CallsInOrder
    <2> QED
      BY <2>2, <2>4, <2>5
  <1> DEFINE P(t) == {i \in DOMAIN calls : calls[i][1] = t}
  <1>4. Abstract!Entered(Agenda(rest), calls)
            = [t \in -1..Horizon |-> Agenda(rest)[t] \o InOrder(calls, P(t))]
    BY DEF Abstract!Entered, InOrder, Abstract!Cardinality, Cardinality
  <1>5. Pending(H)
    BY <1>1, PushedDue
  <1> HIDE DEF P
  <1>6. Agenda(H) = [t \in -1..Horizon |-> Agenda(rest)[t] \o InOrder(calls, P(t))]
    BY <1>3 DEF Agenda, P
  <1> QED
    BY <1>1, <1>4, <1>5, <1>6 DEF Grown

\* Taking the head of the heap takes the oldest event of the earliest instant.
LEMMA AgendaTaken ==
    ASSUME NEW H, Pending(H), NEW e \in H, \A f \in H \ {e} : Precedes(e, f)
    PROVE  /\ Pending(H \ {e}) /\ e.time \in -1..Horizon
           /\ Agenda(H \ {e}) = [Agenda(H) EXCEPT ![e.time] = Tail(@)]
           /\ Agenda(H)[e.time] # <<>> /\ Agenda(H)[e.time][1] = e.event
           /\ \A u \in -1..Horizon : u < e.time => Agenda(H)[u] = <<>>
  <1>1. \A f \in H : f.time \in -1..Horizon /\ f.seq \in Int
    BY DEF Pending, Entry
  <1>2. \A f \in H \ {e} : f.time = e.time => e.seq < f.seq
    BY <1>1 DEF Precedes
  <1>3. /\ Pending(H \ {e})
        /\ DueAt(H, e.time) # <<>> /\ DueAt(H, e.time)[1] = e.event
        /\ DueAt(H \ {e}, e.time) = Tail(DueAt(H, e.time))
        /\ \A t : t # e.time => DueAt(H \ {e}, t) = DueAt(H, t)
    BY <1>2, TakenDue
  <1>4. e.time \in -1..Horizon
    BY <1>1
  <1>5. ASSUME NEW u \in -1..Horizon, u < e.time PROVE DueAt(H, u) = <<>>
    <2>1. Due(H, u) = {}
      BY <1>1, <1>5 DEF Due, Precedes
    <2>2. PICK q : Lists(q, Due(H, u), Numbers(H))
      BY DueIsListed
    <2> QED
      BY <2>1, <2>2, DueInOrder
  <1>6. Agenda(H \ {e}) = [Agenda(H) EXCEPT ![e.time] = Tail(@)]
    BY <1>3, <1>4 DEF Agenda
  <1> QED
    BY <1>3, <1>4, <1>5, <1>6 DEF Agenda

\* Nothing is due when nothing is pending.
LEMMA AgendaEmpty == Agenda({}) = [t \in -1..Horizon |-> <<>>] /\ Pending({})
  <1>1. Pending({})
    BY FS_EmptySet DEF Pending
  <1>2. ASSUME NEW t \in -1..Horizon PROVE DueAt({}, t) = <<>>
    <2>1. Due({}, t) = {}
      BY DEF Due
    <2>2. PICK q : Lists(q, Due({}, t), Numbers({}))
      BY <1>1, DueIsListed
    <2> QED
      BY <1>1, <2>1, <2>2, DueInOrder
  <1> QED
    BY <1>1, <1>2 DEF Agenda

\* The accepted calls of a batch are calls the calendar takes.
LEMMA MadeCalls ==
    ASSUME NEW width \in Nat, NEW batch \in [1..width -> Call], NEW n \in 0..width,
           NEW t \in Int, Accepts(batch, width, t, n), NEW most \in Nat, width <= most
    PROVE  Made(batch, n) \in Abstract!Calls(most) /\ Abstract!NotBefore(Made(batch, n), t)
  <1>1. n \in 0..most
    OBVIOUS
  <1>2. \A i \in 1..n : i \in 1..width /\ batch[i] \in Call /\ batch[i].time >= t
    BY DEF Accepts
  <1>3. \A i \in 1..n : <<batch[i].time, batch[i].event>> \in (-1..Horizon) \X Kinds
    BY <1>2 DEF Call
  <1>4. Made(batch, n) \in [1..n -> (-1..Horizon) \X Kinds]
    BY <1>3 DEF Made
  <1>5. Abstract!NotBefore(Made(batch, n), t)
    BY <1>2 DEF Made, Abstract!NotBefore
  <1>6. Made(batch, n) \in Abstract!Calls(most)
    BY <1>1, <1>4 DEF Abstract!Calls
  <1> QED
    BY <1>5, <1>6

History(q) == [i \in DOMAIN q |-> <<q[i].time, q[i].event>>]

\* The history grows with the log.
LEMMA HistoryGrows ==
    ASSUME NEW q \in Seq(Entry), NEW e \in Entry
    PROVE  History(Append(q, e)) = Append(History(q), <<e.time, e.event>>)
  <1>1. /\ Len(q) \in Nat /\ DOMAIN q = 1..Len(q)
        /\ Append(q, e) \in Seq(Entry) /\ DOMAIN Append(q, e) = 1..(Len(q) + 1)
        /\ \A i \in 1..Len(q) : Append(q, e)[i] = q[i]
        /\ Append(q, e)[Len(q) + 1] = e
    BY LenProperties, AppendProperties
  <1> DEFINE S == {<<q[i].time, q[i].event>> : i \in DOMAIN q} \cup {<<e.time, e.event>>}
  <1>2. History(q) \in [1..Len(q) -> S]
    BY <1>1 DEF History
  <1>3. \A i \in 1..Len(q) : History(q)[i] = <<q[i].time, q[i].event>>
    BY <1>1 DEF History
  <1>4. <<e.time, e.event>> \in S
    OBVIOUS
  <1>5. PICK x : x = <<e.time, e.event>>
    OBVIOUS
  <1> HIDE DEF S
  <1>6. History(q) \in Seq(S) /\ Len(History(q)) = Len(q)
    BY <1>1, <1>2, SeqDef, LenProperties
  <1>7. /\ Append(History(q), x) \in Seq(S) /\ DOMAIN Append(History(q), x) = 1..(Len(q) + 1)
        /\ \A i \in 1..Len(q) : Append(History(q), x)[i] = History(q)[i]
        /\ Append(History(q), x)[Len(q) + 1] = x
    BY <1>1, <1>4, <1>5, <1>6, LenProperties, AppendProperties
  <1>8. \A i \in 1..(Len(q) + 1) :
            History(Append(q, e))[i] = Append(History(q), x)[i]
    <2>1. \A i \in 1..(Len(q) + 1) : i \in 1..Len(q) \/ i = Len(q) + 1
      BY <1>1
    <2>2. \A i \in 1..(Len(q) + 1) :
            History(Append(q, e))[i] = <<Append(q, e)[i].time, Append(q, e)[i].event>>
      BY <1>1 DEF History
    <2>3. ASSUME NEW i \in 1..Len(q)
          PROVE  History(Append(q, e))[i] = Append(History(q), x)[i]
      <3>1. i \in 1..(Len(q) + 1)
        BY <1>1
      <3>2. /\ History(Append(q, e))[i] = <<Append(q, e)[i].time, Append(q, e)[i].event>>
            /\ Append(q, e)[i] = q[i]
        BY <1>1, <2>2, <3>1
      <3>3. Append(History(q), x)[i] = <<q[i].time, q[i].event>>
        BY <1>3, <1>7
      <3> QED
        BY <3>2, <3>3
    <2>4. History(Append(q, e))[Len(q) + 1] = Append(History(q), x)[Len(q) + 1]
      <3>1. Len(q) + 1 \in 1..(Len(q) + 1)
        BY <1>1
      <3>2. /\ History(Append(q, e))[Len(q) + 1]
                 = <<Append(q, e)[Len(q) + 1].time, Append(q, e)[Len(q) + 1].event>>
            /\ Append(q, e)[Len(q) + 1] = e
        BY <1>1, <2>2, <3>1
      <3> QED
        BY <1>5, <1>7, <3>2
    <2> QED
      BY <2>1, <2>3, <2>4
  <1>9. DOMAIN History(Append(q, e)) = 1..(Len(q) + 1)
    BY <1>1 DEF History
  <1>10. /\ History(Append(q, e)) = [i \in 1..(Len(q) + 1) |-> History(Append(q, e))[i]]
         /\ Append(History(q), x) = [i \in 1..(Len(q) + 1) |-> Append(History(q), x)[i]]
    <2>1. Append(History(q), x) = [i \in 1..(Len(q) + 1) |-> Append(History(q), x)[i]]
      BY <1>7, LenProperties
    <2>2. History(Append(q, e)) = [i \in 1..(Len(q) + 1) |-> History(Append(q, e))[i]]
      BY <1>9 DEF History
    <2> QED
      BY <2>1, <2>2
  <1> QED
    BY <1>5, <1>8, <1>10

Waiting == Pending(heap)

\* A new loop is an empty calendar.
LEMMA CalendarInit == Init => Abstract!Init /\ Waiting
  <1> SUFFICES ASSUME Init PROVE Abstract!Init /\ Waiting
    OBVIOUS
  <1>1. PICK n \in 0..0 : heap = Entries(NoEvents, n, 0) /\ now = 0
    BY DEF Init, QueueInit
  <1>2. heap = {}
    BY <1>1 DEF Entries, NoEvents
  <1>3. log = <<>> /\ running = FALSE /\ maxTime \in -1..Horizon \cup {NoLimit}
    BY LoopAssumption DEF Init, LoopAssumption
  <1>4. [i \in DOMAIN log |-> <<log[i].time, log[i].event>>] = <<>>
    BY <1>3
  <1>5. [t \in -1..Horizon |-> DueAt(heap, t)] = [t \in -1..Horizon |-> <<>>] /\ Waiting
    BY <1>2, AgendaEmpty DEF Agenda, Waiting
  <1> QED
    BY <1>1, <1>3, <1>4, <1>5 DEF Abstract!Init

\* schedule() from outside a run enters its call, or nothing when it refuses it.
LEMMA ScheduleEnters ==
    ASSUME LoopInv, Waiting, NEW call \in Call, Schedule(call)
    PROVE  Abstract!Next /\ Waiting'
  <1> DEFINE batch == <<call>>
  <1>1. PICK n \in 0..1 :
            /\ Accepts(batch, 1, now, n)
            /\ heap' = heap \cup Entries(batch, n, sequence)
    BY DEF Schedule, Push
  <1>2. ~running /\ UNCHANGED <<now, log, dropped, running, maxTime>> /\ batch \in [1..1 -> Call]
    BY DEF Schedule
  <1> HIDE DEF batch
  <1>3. sequence \in Nat /\ now \in Int /\ \A e \in heap : e.seq < sequence
    BY Typing DEF LoopInv, Ordered
  <1>4. PICK calls : calls = Made(batch, n)
    OBVIOUS
  <1>5. Pending(heap') /\ Agenda(heap') = Abstract!Entered(Agenda(heap), calls)
    <2>1. Grown(heap, heap \cup Entries(batch, n, sequence), Made(batch, n))
      <3>1. PICK width : width = 1
        OBVIOUS
      <3>2. Pending(heap) /\ width \in Nat /\ batch \in [1..width -> Call] /\ n \in 0..width
        BY <1>1, <1>2, <3>1 DEF Waiting
      <3> QED
        BY <1>3, <3>2, AgendaPushed
    <2> QED
      BY <1>1, <1>4, <2>1 DEF Grown
  <1>6. calls \in Abstract!Calls(1) /\ Abstract!NotBefore(calls, now)
    <2>1. PICK width : width = 1
      OBVIOUS
    <2>2. /\ width \in Nat /\ batch \in [1..width -> Call] /\ n \in 0..width /\ width <= 1
          /\ Accepts(batch, width, now, n)
      BY <1>1, <1>2, <2>1
    <2> QED
      BY <1>3, <1>4, <2>2, MadeCalls
  <1>7. Abstract!Enter(calls)
    BY <1>2, <1>5, <1>6 DEF Abstract!Enter, Agenda
  <1> QED
    BY <1>5, <1>6, <1>7 DEF Abstract!Next, Waiting

\* Processing the head takes the oldest event of the earliest instant and
\* enters what its handler schedules.
LEMMA FireTakes ==
    ASSUME LoopInv, Waiting, NEW e \in heap, NEW batch \in Batches, Fire(e, batch)
    PROVE  Abstract!Next /\ Waiting'
  <1>1. PICK n \in 0..Len(batch) :
            /\ Accepts(batch, Len(batch), e.time, n)
            /\ heap' = (heap \ {e}) \cup Entries(batch, n, sequence)
            /\ raised' = (n < Len(batch))
    BY DEF Fire, Process, Push
  <1>2. /\ running /\ Within(e.time) /\ now' = e.time /\ log' = Append(log, e)
        /\ UNCHANGED maxTime /\ running' = ~raised'
        /\ \A f \in heap \ {e} : Precedes(e, f)
    BY DEF Fire, Process, IsNext
  <1>3. Len(batch) \in Nat /\ batch \in [1..Len(batch) -> Call] /\ Len(batch) <= MaxBatch
    <2>1. PICK k \in 0..MaxBatch : batch \in [1..k -> Call]
      BY DEF Batches
    <2>2. k \in Nat /\ batch \in Seq(Call)
      BY <2>1, LoopAssumption, SeqDef DEF LoopAssumption
    <2>3. Len(batch) = k
      BY <2>1, <2>2, LenProperties
    <2> QED
      BY <2>1, <2>2, <2>3
  <1>4. /\ sequence \in Nat /\ \A f \in heap : f.seq < sequence
        /\ e \in Entry /\ e.time \in Int /\ log \in Seq(Entry) /\ MaxBatch \in Nat
    BY Typing, LoopAssumption DEF LoopInv, Ordered, LoopAssumption
  <1>5. /\ Pending(heap \ {e}) /\ e.time \in -1..Horizon
        /\ Agenda(heap \ {e}) = [Agenda(heap) EXCEPT ![e.time] = Tail(@)]
        /\ Agenda(heap)[e.time] # <<>> /\ Agenda(heap)[e.time][1] = e.event
        /\ \A u \in -1..Horizon : u < e.time => Agenda(heap)[u] = <<>>
    BY <1>2, AgendaTaken DEF Waiting
  <1>6. PICK calls, rest, width :
            calls = Made(batch, n) /\ rest = heap \ {e} /\ width = Len(batch)
    OBVIOUS
  <1>7. /\ Pending(heap')
        /\ Agenda(heap') = Abstract!Entered([Agenda(heap) EXCEPT ![e.time] = Tail(@)], calls)
    <2>1. /\ Pending(rest) /\ \A f \in rest : f.seq < sequence
          /\ width \in Nat /\ batch \in [1..width -> Call] /\ n \in 0..width
      BY <1>3, <1>4, <1>5, <1>6
    <2>2. Grown(rest, rest \cup Entries(batch, n, sequence), Made(batch, n))
      BY <1>4, <2>1, AgendaPushed
    <2> QED
      BY <1>1, <1>5, <1>6, <2>2 DEF Grown
  <1>8. calls \in Abstract!Calls(MaxBatch) /\ Abstract!NotBefore(calls, e.time)
    BY <1>1, <1>3, <1>4, <1>6, MadeCalls
  <1>9. History(log') = Append(History(log), <<e.time, e.event>>)
    BY <1>2, <1>4, HistoryGrows
  <1>10. Abstract!Earliest(e.time) /\ Abstract!InLimit(e.time)
    BY <1>2, <1>5 DEF Abstract!Earliest, Abstract!InLimit, Agenda, Within
  <1>11. running' \in BOOLEAN
    BY <1>1, <1>2
  <1>12. Abstract!Take(e.time, calls)
    BY <1>2, <1>5, <1>7, <1>8, <1>9, <1>10, <1>11 DEF Abstract!Take, Agenda, History
  <1> QED
    BY <1>5, <1>7, <1>8, <1>12 DEF Abstract!Next, Waiting

\* A run cut short loses the one event that showed it the limit.
LEMMA CutOffEnds ==
    ASSUME LoopInv, Waiting, NEW e \in heap, CutOff(e)
    PROVE  Abstract!Next /\ Waiting'
  <1>1. /\ running /\ ~Within(e.time) /\ heap' = heap \ {e} /\ running' = FALSE
        /\ UNCHANGED <<now, log, maxTime>> /\ \A f \in heap \ {e} : Precedes(e, f)
    BY DEF CutOff, IsNext
  <1>2. /\ Pending(heap \ {e}) /\ e.time \in -1..Horizon
        /\ Agenda(heap \ {e}) = [Agenda(heap) EXCEPT ![e.time] = Tail(@)]
        /\ Agenda(heap)[e.time] # <<>>
        /\ \A u \in -1..Horizon : u < e.time => Agenda(heap)[u] = <<>>
    BY <1>1, AgendaTaken DEF Waiting
  <1>3. Abstract!Earliest(e.time) /\ ~Abstract!InLimit(e.time)
    BY <1>1, <1>2 DEF Abstract!Earliest, Abstract!InLimit, Agenda, Within
  <1>4. Abstract!End
    BY <1>1, <1>2, <1>3 DEF Abstract!End, Agenda
  <1> QED
    BY <1>1, <1>2, <1>4 DEF Abstract!Next, Waiting

\* A drained loop has nothing left at any instant.
LEMMA DrainedEnds ==
    ASSUME Waiting, Drained
    PROVE  Abstract!Next /\ Waiting'
  <1>1. running /\ heap = {} /\ running' = FALSE /\ UNCHANGED <<heap, now, log, maxTime>>
    BY DEF Drained
  <1>2. Agenda(heap) = [t \in -1..Horizon |-> <<>>] /\ Agenda(heap') = Agenda(heap)
    BY <1>1, AgendaEmpty
  <1>3. Abstract!End
    BY <1>1, <1>2 DEF Abstract!End, Agenda
  <1> QED
    BY <1>1, <1>3 DEF Abstract!Next, Waiting

\* Every behaviour of the loop is one of the calendar: clients that only know
\* of first-come-first-served lists of events never notice the heap, the
\* sequence numbers, a run that max_time cut short or an event refused.
THEOREM LoopIsACalendar == Spec => ImplementsCalendar
  <1>1. ASSUME LoopInv, Waiting, [Next]_vars
        PROVE  [Abstract!Next]_(Abstract!vars) /\ Waiting'
    <2>1. ASSUME NEW call \in Call, Schedule(call) PROVE Abstract!Next /\ Waiting'
      BY <1>1, <2>1, ScheduleEnters
    <2>2. CASE StartRun
      <3>1. Abstract!Start
        BY <2>2 DEF StartRun, Abstract!Start
      <3> QED
        BY <1>1, <2>2, <3>1 DEF StartRun, Abstract!Next, Waiting
    <2>3. ASSUME NEW e \in heap, NEW batch \in Batches, Fire(e, batch)
          PROVE  Abstract!Next /\ Waiting'
      BY <1>1, <2>3, FireTakes
    <2>4. ASSUME NEW e \in heap, CutOff(e) PROVE Abstract!Next /\ Waiting'
      BY <1>1, <2>4, CutOffEnds
    <2>5. CASE Drained
      BY <1>1, <2>5, DrainedEnds
    <2>6. CASE UNCHANGED vars
      BY <1>1, <2>6 DEF vars, Abstract!vars, Waiting
    <2> QED
      BY <1>1, <2>1, <2>2, <2>3, <2>4, <2>5, <2>6 DEF Next
  <1> QED
    BY <1>1, CalendarInit, LoopInvariant, PTL DEF Spec, ImplementsCalendar, Abstract!Spec
=============================================================================
