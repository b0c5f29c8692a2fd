--------------------------- MODULE MicroMeetProofs ---------------------------
(***************************************************************************)
(* The block reservation of the passing loop and its boundary contract     *)
(* with the macro simulation, for any number of trains, any entry times,   *)
(* priorities and running times, and both policies.                        *)
(***************************************************************************)
EXTENDS MicroValidation, EventQueueProofs, Extremes, SequenceTheorems, FiniteSetTheorems

Keys == Blocks \cup {"LOOP"}

\* What TypeOK does not say of the queues: their requests are for a section of
\* the route, ranked by the train's priority and numbered without repetition.
Queued ==
    /\ counter \in Nat
    /\ DOMAIN waiters = Keys
    /\ \A k \in Keys : \A w \in waiters[k] :
        /\ w.seq \in Nat /\ w.step \in 1..3
        /\ w.prio = -scenario.trains[w.train].priority
    /\ \A k \in Keys : \A v, w \in waiters[k] : v.seq = w.seq => v = w

\* Every section but the end of the route is cleared.
Cleared == \A e \in heap : e.event.kind = "clear" => e.event.step \in 1..3

MeetInv == scenario \in Scenarios /\ TypeOK /\ HoldsItsBlock /\ Queued /\ Cleared

-----------------------------------------------------------------------------
\* What the assumption says of the scenario that runs.
LEMMA ScenarioTyping ==
    ASSUME scenario \in Scenarios
    PROVE  /\ Trains = 1..Len(scenario.trains)
           /\ Len(scenario.trains) \in Nat
           /\ \A t \in Trains : /\ scenario.trains[t].entry \in Nat
                                /\ scenario.trains[t].priority \in Int
                                /\ t \in Nat /\ t # Free
           /\ \A b \in Blocks : scenario.running[b] \in Nat
  <1>1. scenario.trains \in Seq(MicroMeetTrain) /\ scenario.running \in [Blocks -> Nat \ {0}]
    BY ScenariosAssumption DEF ScenariosAssumption
  <1>2. Len(scenario.trains) \in Nat /\ Trains = 1..Len(scenario.trains)
    BY <1>1, LenProperties DEF Trains
  <1>3. \A t \in Trains : scenario.trains[t] \in MicroMeetTrain /\ t \in Nat /\ t # Free
    BY <1>1, <1>2 DEF Free
  <1>4. \A r \in MicroMeetTrain : r.entry \in Nat /\ r.priority \in Int
    BY DEF MicroMeetTrain
  <1> QED
    BY <1>1, <1>2, <1>3, <1>4

\* A route has two approaches and the loop in between.
LEMMA Routes ==
    \A t : /\ Len(Route(t)) = 3
           /\ Route(t)[1] \in {"west_approach", "east_approach"}
           /\ Route(t)[2] = "LOOP"
           /\ Route(t)[3] \in {"west_approach", "east_approach"}
  BY DEF Route

\* A train asks for a block of the zone or for any loop track; at the loop it
\* is given a loop track.
LEMMA Targets ==
    ASSUME MeetInv, NEW t \in Trains, NEW step \in 1..3
    PROVE  /\ TargetBlock(t, step) \in Keys
           /\ Route(t)[step] = "LOOP" /\ TargetBlock(t, step) \in Blocks
                => TargetBlock(t, step) \in Tracks
  <1>1. t \in DOMAIN loopTrack => loopTrack[t] \in Tracks
    BY DEF MeetInv, TypeOK, Range
  <1>2. Through \in Tracks /\ Passing \in Tracks /\ Tracks \subseteq Blocks /\ Blocks \subseteq Keys
    BY DEF Tracks, Blocks, Keys
  <1>3. "LOOP" \notin Blocks /\ "LOOP" \in Keys
    BY DEF Blocks, Tracks, Through, Passing, Keys
  <1>4. Route(t)[step] = "LOOP" \/ Route(t)[step] \in Blocks
    BY Routes DEF Blocks
  <1> QED
    BY <1>1, <1>2, <1>3, <1>4 DEF TargetBlock

\* The queue's head exists: a queue that is not empty has a waiter that comes
\* before all others.
LEMMA HeadOfQueue ==
    ASSUME MeetInv, NEW k \in Keys, waiters[k] # {}
    PROVE  FirstWaiter(k) \in waiters[k]
  <1> DEFINE before(w, v) == w.prio < v.prio \/ (w.prio = v.prio /\ w.seq < v.seq)
  <1>1. \A w \in waiters[k] : /\ w.train \in Trains /\ w.seq \in Nat
                              /\ w.prio = -scenario.trains[w.train].priority
    BY DEF MeetInv, TypeOK, Queued
  <1>2. PICK top \in Int : \A t \in Trains : scenario.trains[t].priority <= top
    <2> DEFINE f == [t \in Trains |-> scenario.trains[t].priority]
    <2>1. \A i \in 1..Len(scenario.trains) : f[i] \in Int
      BY ScenarioTyping DEF MeetInv
    <2>2. PICK m \in Int : \A i \in 1..Len(scenario.trains) : f[i] <= m
      <3> HIDE DEF f
      <3> QED
        <4>1. PICK n \in Nat : n = Len(scenario.trains)
          BY ScenarioTyping DEF MeetInv
        <4>2. \A i \in 1..n : f[i] \in Int
          BY <2>1, <4>1
        <4>3. \E m \in Int : \A i \in 1..n : f[i] <= m
          BY <4>2, FamilyBounded
        <4> QED
          BY <4>1, <4>3
    <2>3. Trains = 1..Len(scenario.trains)
      BY ScenarioTyping DEF MeetInv
    <2>4. \A t \in Trains : f[t] = scenario.trains[t].priority
      OBVIOUS
    <2> HIDE DEF f
    <2> QED
      BY <2>2, <2>3, <2>4
  <1>3. \A w \in waiters[k] : w.prio \in Int /\ w.prio + top \in Nat
    <2>1. \A t \in Trains : scenario.trains[t].priority \in Int
      BY ScenarioTyping DEF MeetInv
    <2>2. ASSUME NEW w \in waiters[k] PROVE w.prio \in Int /\ w.prio + top \in Nat
      <3>1. PICK p \in Int : p = scenario.trains[w.train].priority /\ w.prio = -p /\ p <= top
        BY <1>1, <1>2, <2>1
      <3> QED
        BY <3>1
    <2> QED
      BY <2>2
  <1> DEFINE ranks == {w.prio + top : w \in waiters[k]}
  <1>4. PICK least \in ranks : \A y \in ranks : least <= y
    <2>1. ranks \subseteq Nat /\ ranks # {}
      BY <1>3
    <2> HIDE DEF ranks
    <2> QED
      BY <2>1, LeastNumber
  <1>5. PICK u \in waiters[k] : least = u.prio + top
    OBVIOUS
  <1> DEFINE seqs == {w.seq : w \in {v \in waiters[k] : v.prio = u.prio}}
  <1>6. PICK s \in seqs : \A y \in seqs : s <= y
    <2>1. seqs \subseteq Nat /\ u.seq \in seqs
      BY <1>1
    <2> HIDE DEF seqs
    <2> QED
      BY <2>1, LeastNumber
  <1>7. PICK w \in waiters[k] : w.prio = u.prio /\ w.seq = s
    OBVIOUS
  <1>8. \A v \in waiters[k] \ {w} : before(w, v)
    <2> SUFFICES ASSUME NEW v \in waiters[k] \ {w} PROVE before(w, v)
      OBVIOUS
    <2>1. w.prio \in Int /\ v.prio \in Int /\ w.seq \in Nat /\ v.seq \in Nat
      BY <1>1, <1>3
    <2>2. u.prio + top <= v.prio + top
      BY <1>4, <1>5
    <2>3. w.prio <= v.prio
      BY <1>2, <1>7, <2>1, <2>2
    <2>4. CASE v.prio = w.prio
      <3>1. s <= v.seq
        BY <1>6, <1>7, <2>4
      <3>2. v.seq # w.seq
        BY DEF MeetInv, Queued
      <3> QED
        BY <1>7, <2>1, <2>4, <3>1, <3>2
    <2>5. CASE v.prio # w.prio
      BY <2>1, <2>3, <2>5
    <2> QED
      BY <2>4, <2>5
  <1> QED
    BY <1>8 DEF FirstWaiter

-----------------------------------------------------------------------------
\* Events that a handler may schedule.
IsEvent(v) ==
    /\ v.kind \in {"request", "clear"} /\ v.train \in Trains /\ v.step \in 1..4
    /\ v.kind = "clear" => v.step \in 1..3

IsBatch(batch, width, t) ==
    /\ width \in Nat /\ DOMAIN batch \subseteq 1..width
    /\ \A i \in DOMAIN batch :
        batch[i].time \in Nat /\ batch[i].time >= t /\ IsEvent(batch[i].event)

\* What the heap holds, in the words of the proofs.
HeapTyped ==
    /\ sequence \in Nat /\ now \in Nat /\ raised = FALSE
    /\ \A f \in heap : f.time \in Nat /\ f.seq \in 0..(sequence - 1) /\ IsEvent(f.event)

\* The invariant types the heap.
LEMMA HeapTyping == MeetInv => HeapTyped
  BY DEF MeetInv, TypeOK, Cleared, HeapTyped, IsEvent

\* A handler that schedules well-typed events for now or later keeps the heap
\* well-typed, and schedule() refuses none of them.
LEMMA HandlerKeepsHeap ==
    ASSUME HeapTyped, NEW e \in heap, NEW batch, NEW width, IsBatch(batch, width, e.time),
           Process(e, batch, width), Trains' = Trains
    PROVE  HeapTyped'
  <1> DEFINE new == Entries(batch, width, sequence)
  <1>1. e.time \in Nat /\ e.time \in Int /\ sequence \in Nat /\ width \in Nat /\ width \in 0..width
    BY DEF HeapTyped, IsBatch
  <1>2. Push(heap \ {e}, batch, width, e.time) /\ now' = e.time
    BY DEF Process
  <1>3. /\ DOMAIN batch \subseteq 1..width
        /\ \A i \in DOMAIN batch : batch[i].time \in Int /\ batch[i].time >= e.time
    BY DEF IsBatch
  <1>4. /\ heap' = (heap \ {e}) \cup new
        /\ sequence' = sequence + width
        /\ raised' = FALSE
        /\ Accepts(batch, width, e.time, width)
    BY <1>1, <1>2, <1>3, CausalPush
  <1>5. \A f \in new :
            /\ \E i \in DOMAIN batch : f = [time |-> batch[i].time, seq |-> sequence + i - 1,
                                            event |-> batch[i].event]
            /\ f.time \in Int /\ f.time >= e.time
            /\ f.seq \in Nat /\ sequence <= f.seq /\ f.seq < sequence + width
    <2>1. \A i \in DOMAIN batch : batch[i].time \in Int
      BY <1>3
    <2>2. Accepts(batch, width, e.time, width) /\ DOMAIN batch \subseteq 1..width
      BY <1>3, <1>4
    <2> HIDE DEF IsBatch, Accepts
    <2> QED
      BY <1>1, <2>1, <2>2, PushedEntries
  <1> HIDE DEF new
  <1>6. sequence' \in Nat /\ sequence' >= sequence
    BY <1>1, <1>4
  <1>7. ASSUME NEW f \in heap'
        PROVE  f.time \in Nat /\ f.seq \in 0..(sequence' - 1) /\ IsEvent(f.event)
    <2>1. CASE f \in heap
      <3>1. f.time \in Nat /\ f.seq \in 0..(sequence - 1) /\ IsEvent(f.event)
        BY <2>1 DEF HeapTyped
      <3> QED
        BY <1>1, <1>6, <3>1
    <2>2. CASE f \in new
      <3>1. PICK i \in DOMAIN batch : f = [time |-> batch[i].time, seq |-> sequence + i - 1,
                                           event |-> batch[i].event]
        BY <1>5, <2>2
      <3>2. f.time = batch[i].time /\ f.event = batch[i].event
        BY <3>1
      <3>3. f.time \in Nat /\ IsEvent(f.event)
        BY <3>2 DEF IsBatch
      <3>4. f.seq \in 0..(sequence' - 1)
        BY <1>1, <1>4, <1>5, <1>6, <2>2
      <3> QED
        BY <3>3, <3>4
    <2> QED
      BY <1>4, <1>7, <2>1, <2>2
  <1>8. \A v : IsEvent(v) => IsEvent(v)'
    BY DEF IsEvent
  <1> QED
    BY <1>1, <1>2, <1>4, <1>6, <1>7, <1>8 DEF HeapTyped

\* Vacating a block schedules one request per train it wakes, and takes these
\* trains out of their queues.
LEMMA Waking ==
    ASSUME MeetInv, NEW block \in Blocks \cup {Outside}, NEW at \in Nat
    PROVE  /\ IsBatch(Woken(block, at), Len(WakeKeys(block)), at)
           /\ DOMAIN WaitersAfter(block) = Keys
           /\ \A k \in Keys : WaitersAfter(block)[k] \subseteq waiters[k]
  <1> DEFINE keys == WakeKeys(block)
             queue(i) == waiters[keys[i]]
  <1>1. /\ Len(keys) \in Nat /\ DOMAIN keys = 1..Len(keys)
        /\ \A i \in DOMAIN keys : keys[i] \in Keys
    <2>1. CASE block \in Tracks
      <3>1. keys = <<block, "LOOP">>
        BY <2>1 DEF WakeKeys
      <3> QED
        BY <2>1, <3>1 DEF Keys, Blocks
    <2>2. CASE block \in Blocks \ Tracks
      <3>1. keys = <<block>>
        BY <2>2 DEF WakeKeys
      <3> QED
        BY <2>2, <3>1 DEF Keys
    <2>3. CASE block \notin Blocks
      <3>1. keys = <<>>
        BY <2>3 DEF WakeKeys, Blocks
      <3> QED
        BY <3>1
    <2> QED
      BY <2>1, <2>2, <2>3 DEF Blocks
  <1> HIDE DEF keys
  <1>2. DOMAIN waiters = Keys
    BY DEF MeetInv, Queued
  <1>3. ASSUME NEW i \in DOMAIN keys, queue(i) # {}
        PROVE  IsEvent(Request(FirstWaiter(keys[i]).train, FirstWaiter(keys[i]).step))
    <2>1. FirstWaiter(keys[i]) \in queue(i)
      BY <1>1, <1>3, HeadOfQueue
    <2>2. FirstWaiter(keys[i]).train \in Trains /\ FirstWaiter(keys[i]).step \in 1..3
      BY <1>1, <1>2, <2>1 DEF MeetInv, TypeOK, Queued
    <2> QED
      BY <2>2 DEF IsEvent, Request
  <1>4. IsBatch(Woken(block, at), Len(keys), at)
    <2>1. DOMAIN Woken(block, at) = {j \in DOMAIN keys : queue(j) # {}}
      BY DEF Woken, keys
    <2>2. ASSUME NEW i \in DOMAIN Woken(block, at)
          PROVE  /\ Woken(block, at)[i].time = at
                 /\ IsEvent(Woken(block, at)[i].event)
      <3>1. Woken(block, at)[i]
                = At(at, Request(FirstWaiter(keys[i]).train, FirstWaiter(keys[i]).step))
        BY <2>1 DEF Woken, keys
      <3> QED
        BY <1>3, <2>1, <3>1 DEF At
    <2> QED
      BY <1>1, <2>1, <2>2 DEF IsBatch
  <1>5. /\ DOMAIN WaitersAfter(block) = Keys
        /\ \A k \in Keys : WaitersAfter(block)[k] \subseteq waiters[k]
    BY <1>2 DEF WaitersAfter
  <1> QED
    BY <1>4, <1>5 DEF keys

-----------------------------------------------------------------------------
\* The invariant but for the heap, in two parts.
Reserved ==
    /\ held \in [Blocks -> Trains \cup {Free}]
    /\ current \in [Trains -> Blocks \cup {Outside}]
    /\ DOMAIN loopTrack \subseteq Trains /\ Range(loopTrack) \subseteq Tracks
    /\ done \subseteq Trains
    /\ HoldsItsBlock

Waiting ==
    /\ \A k \in Keys : \A w \in waiters[k] : w.train \in Trains /\ w.seq < counter
    /\ Queued

\* The invariant is its parts.
LEMMA Parts ==
    MeetInv <=> scenario \in Scenarios /\ HeapTyped /\ Reserved /\ Waiting
  BY DEF MeetInv, TypeOK, Cleared, HeapTyped, IsEvent, Reserved, Waiting, Queued

\* Queues that only get shorter stay well-typed.
LEMMA ShorterQueues ==
    ASSUME Waiting, scenario' = scenario, counter' = counter, DOMAIN waiters' = Keys,
           \A k \in Keys : waiters'[k] \subseteq waiters[k]
    PROVE  Waiting'
  BY DEF Waiting, Queued, Trains, Keys

\* The names of the zone are distinct.
LEMMA Strings == Outside \notin Blocks /\ "LOOP" \notin Blocks /\ Tracks \subseteq Blocks
  BY DEF Outside, Blocks, Tracks, Through, Passing

\* At the start nothing is held and every train has asked for its entry.
LEMMA InitInv == Init => MeetInv
  <1> SUFFICES ASSUME Init PROVE MeetInv
    OBVIOUS
  <1>1. scenario \in Scenarios
    BY DEF Init
  <1> DEFINE batch == [t \in Trains |-> At(scenario.trains[t].entry, Request(t, 1))]
             width == Len(scenario.trains)
  <1>2. /\ width \in Nat /\ DOMAIN batch \subseteq 1..width
        /\ \A t \in DOMAIN batch : batch[t].time \in Nat /\ IsEvent(batch[t].event)
    BY <1>1, ScenarioTyping DEF At, Request, IsEvent
  <1>3. QueueInit(batch, width)
    BY DEF Init
  <1> HIDE DEF batch, width
  <1>4. PICK n \in 0..width : /\ Accepts(batch, width, 0, n)
                              /\ heap = Entries(batch, n, 0)
                              /\ sequence = n
                              /\ now = 0
                              /\ raised = (n < width)
    BY <1>3 DEF QueueInit
  <1>5. n = width
    <2> SUFFICES ASSUME n < width PROVE FALSE
      BY <1>2
    <2>1. n + 1 \in DOMAIN batch /\ batch[n + 1].time < 0
      BY <1>4 DEF Accepts
    <2>2. batch[n + 1].time \in Nat
      BY <1>2, <2>1
    <2> QED
      BY <2>1, <2>2
  <1>6. \A f \in Entries(batch, n, 0) :
            /\ \E i \in DOMAIN batch : f = [time |-> batch[i].time, seq |-> 0 + i - 1,
                                            event |-> batch[i].event]
            /\ f.time \in Int /\ f.time >= 0
            /\ f.seq \in Nat /\ 0 <= f.seq /\ f.seq < 0 + n
    <2>1. (\A i \in DOMAIN batch : batch[i].time \in Int) /\ DOMAIN batch \subseteq 1..width
      BY <1>2
    <2>2. Accepts(batch, width, 0, n) /\ width \in Nat /\ n \in 0..width
      BY <1>2, <1>4
    <2> QED
      BY <2>1, <2>2, PushedEntries
  <1>7. HeapTyped
    <2>1. sequence \in Nat /\ now \in Nat
      BY <1>2, <1>4
    <2>2. (n < width) = FALSE
      BY <1>2, <1>5
    <2>3. raised = FALSE
      BY <1>4, <2>2, Zenon
    <2>4. ASSUME NEW f \in heap
          PROVE  f.time \in Nat /\ f.seq \in 0..(sequence - 1) /\ IsEvent(f.event)
      <3>1. PICK i \in DOMAIN batch : f = [time |-> batch[i].time, seq |-> 0 + i - 1,
                                           event |-> batch[i].event]
        BY <1>4, <1>6
      <3>2. f.time = batch[i].time /\ f.event = batch[i].event
        BY <3>1
      <3>3. f.seq \in Nat /\ f.seq < n
        BY <1>4, <1>6
      <3> QED
        BY <1>2, <1>4, <3>2, <3>3
    <2> QED
      BY <2>1, <2>3, <2>4 DEF HeapTyped
  <1>8. Reserved
    BY Strings DEF Init, Reserved, HoldsItsBlock, Range
  <1>9. Waiting
    BY DEF Init, Waiting, Queued, Keys
  <1> QED
    BY <1>1, <1>7, <1>8, <1>9, Parts

\* A train that leaves the zone gives up the block it holds.
LEMMA ExitInv ==
    ASSUME MeetInv, NEW e \in heap, Exit(e)
    PROVE  MeetInv'
  <1> DEFINE t == e.event.train
             block == current[t]
  <1>1. HeapTyped /\ Reserved /\ Waiting /\ scenario \in Scenarios
    BY Parts
  <1>2. t \in Trains /\ t # Free /\ e.time \in Nat
    BY <1>1, ScenarioTyping DEF HeapTyped, IsEvent
  <1>3. block \in Blocks \cup {Outside}
    BY <1>1, <1>2 DEF Reserved
  <1>4. scenario' = scenario /\ Trains' = Trains
    BY DEF Exit, Trains
  <1>5. HeapTyped'
    <2>1. Process(e, Woken(block, e.time), Len(WakeKeys(block)))
      BY DEF Exit
    <2>2. IsBatch(Woken(block, e.time), Len(WakeKeys(block)), e.time)
      BY <1>2, <1>3, Waking
    <2> QED
      BY <1>1, <1>4, <2>1, <2>2, HandlerKeepsHeap
  <1>6. Waiting'
    <2>1. waiters' = WaitersAfter(block) /\ counter' = counter
      BY DEF Exit
    <2>2. /\ DOMAIN WaitersAfter(block) = Keys
          /\ \A k \in Keys : WaitersAfter(block)[k] \subseteq waiters[k]
      BY <1>2, <1>3, Waking
    <2> QED
      BY <1>1, <1>4, <2>1, <2>2, ShorterQueues
  <1>7. Reserved'
    <2>1. /\ held' = [b \in Blocks |-> IF b = block THEN Free ELSE held[b]]
          /\ current' = [current EXCEPT ![t] = Outside]
          /\ done' = done \cup {t} /\ loopTrack' = loopTrack
      BY DEF Exit
    <2>2. HoldsItsBlock'
      BY <1>1, <1>2, <1>3, <1>4, <2>1, Strings DEF Reserved, HoldsItsBlock
    <2> QED
      BY <1>1, <1>2, <1>4, <2>1, <2>2 DEF Reserved
  <1> QED
    BY <1>1, <1>4, <1>5, <1>6, <1>7 DEF MeetInv, TypeOK, Cleared, HeapTyped, IsEvent, Reserved,
                                       Waiting, Queued

\* Coming to the end of a block changes no reservation.
LEMMA AtEndInv ==
    ASSUME MeetInv, NEW e \in heap, AtEnd(e)
    PROVE  MeetInv'
  <1> DEFINE batch == <<At(e.time, Request(e.event.train, e.event.step + 1))>>
  <1>1. HeapTyped /\ Reserved /\ Waiting /\ scenario \in Scenarios
    BY Parts
  <1>2. UNCHANGED <<scenario, held, current, loopTrack, waiters, counter, done>>
        /\ Trains' = Trains
    BY DEF AtEnd, Trains
  <1>3. HeapTyped'
    <2>1. Process(e, batch, 1)
      BY DEF AtEnd
    <2>2. e.event.train \in Trains /\ e.event.step + 1 \in 1..4 /\ e.time \in Nat
      BY <1>1 DEF HeapTyped, IsEvent, AtEnd
    <2>3. IsBatch(batch, 1, e.time)
      BY <2>2 DEF IsBatch, At, Request, IsEvent
    <2> QED
      BY <1>1, <1>2, <2>1, <2>3, HandlerKeepsHeap
  <1>4. Reserved' /\ Waiting'
    BY <1>1, <1>2 DEF Reserved, Waiting, Queued, HoldsItsBlock, Range
  <1> QED
    BY <1>1, <1>2, <1>3, <1>4 DEF MeetInv, TypeOK, Cleared, HeapTyped, IsEvent, Reserved,
                                 Waiting, Queued

\* A request that is still on the route.
LEMMA WantedBlock ==
    ASSUME MeetInv, NEW e \in heap, NEW block, Wants(e, block)
    PROVE  /\ e.event.train \in Trains /\ e.event.step \in 1..3 /\ e.time \in Nat
           /\ block \in Keys
           /\ Route(e.event.train)[e.event.step] = "LOOP" /\ block \in Blocks => block \in Tracks
  <1>1. e.event.train \in Trains /\ e.event.step \in 1..4 /\ e.time \in Nat
    BY Parts DEF HeapTyped, IsEvent
  <1>2. e.event.step \in 1..3
    <2>1. Len(Route(e.event.train)) = 3
      BY Routes
    <2>2. e.event.step <= Len(Route(e.event.train))
      BY DEF Wants
    <2> QED
      BY <1>1, <2>1, <2>2
  <1>3. block = TargetBlock(e.event.train, e.event.step)
    BY DEF Wants
  <1> QED
    BY <1>1, <1>2, <1>3, Targets

\* A train that queues keeps the block it is in.
LEMMA WaitInv ==
    ASSUME MeetInv, NEW e \in heap, NEW block, Wait(e, block)
    PROVE  MeetInv'
  <1> DEFINE t == e.event.train
             w == [prio |-> -scenario.trains[t].priority, seq |-> counter, train |-> t,
                   step |-> e.event.step]
  <1>1. HeapTyped /\ Reserved /\ Waiting /\ scenario \in Scenarios
    BY Parts
  <1>2. t \in Trains /\ e.event.step \in 1..3 /\ e.time \in Nat /\ block \in Keys
    BY WantedBlock DEF Wait
  <1>3. /\ UNCHANGED <<scenario, held, current, loopTrack, done>>
        /\ Trains' = Trains
    BY DEF Wait, Trains
  <1>4. HeapTyped'
    <2>1. Process(e, NoEvents, 0)
      BY DEF Wait
    <2>2. IsBatch(NoEvents, 0, e.time)
      BY DEF IsBatch, NoEvents
    <2> QED
      BY <1>1, <1>3, <2>1, <2>2, HandlerKeepsHeap
  <1>5. Reserved'
    BY <1>1, <1>3 DEF Reserved, HoldsItsBlock, Range
  <1>6. Waiting'
    <2>1. waiters' = [waiters EXCEPT ![block] = @ \cup {w}] /\ counter' = counter + 1
      BY DEF Wait
    <2>2. counter \in Nat /\ DOMAIN waiters = Keys
      BY <1>1 DEF Waiting, Queued
    <2>3. /\ w.prio = -scenario.trains[w.train].priority /\ w.seq = counter
          /\ w.train = t /\ w.step = e.event.step
      OBVIOUS
    <2> HIDE DEF w, t
    <2>4. counter' \in Nat /\ DOMAIN waiters' = Keys
      BY <2>1, <2>2
    <2>5. \A k \in Keys : waiters'[k] \subseteq waiters[k] \cup {w}
      BY <2>1, <2>2
    <2>6. \A k \in Keys : \A v \in waiters[k] :
            /\ v.train \in Trains /\ v.seq \in Nat /\ v.seq < counter /\ v.step \in 1..3
            /\ v.prio = -scenario.trains[v.train].priority
      BY <1>1 DEF Waiting, Queued
    <2>7. \A k \in Keys : \A v \in waiters'[k] :
            /\ v.train \in Trains /\ v.seq \in Nat /\ v.seq < counter' /\ v.step \in 1..3
            /\ v.prio = -scenario.trains[v.train].priority
      <3> SUFFICES ASSUME NEW k \in Keys, NEW v \in waiters'[k]
                   PROVE  /\ v.train \in Trains /\ v.seq \in Nat /\ v.seq < counter'
                          /\ v.step \in 1..3 /\ v.prio = -scenario.trains[v.train].priority
        OBVIOUS
      <3>1. CASE v \in waiters[k]
        <4>1. v.seq \in Nat /\ v.seq < counter
          BY <2>6, <3>1
        <4>2. v.seq < counter'
          BY <2>1, <2>2, <4>1
        <4> QED
          BY <2>6, <3>1, <4>2
      <3>2. CASE v = w
        <4>1. v.seq \in Nat /\ v.seq < counter'
          BY <2>1, <2>2, <2>3, <3>2
        <4> QED
          BY <1>2, <2>3, <3>2, <4>1 DEF t
      <3> QED
        BY <2>5, <3>1, <3>2
    <2>8. \A k \in Keys : \A u, v \in waiters'[k] : u.seq = v.seq => u = v
      <3>1. \A k \in Keys : \A u, v \in waiters[k] : u.seq = v.seq => u = v
        BY <1>1 DEF Waiting, Queued
      <3>2. \A k \in Keys : \A v \in waiters[k] : v.seq # w.seq
        BY <2>2, <2>3, <2>6
      <3> QED
        BY <2>5, <3>1, <3>2
    <2> QED
      BY <1>3, <2>4, <2>7, <2>8 DEF Waiting, Queued, Keys
  <1> QED
    BY <1>1, <1>3, <1>4, <1>5, <1>6 DEF MeetInv, TypeOK, Cleared, HeapTyped, IsEvent, Reserved,
                                       Waiting, Queued

\* Taking a block and giving up the one behind keeps blocks and trains paired.
LEMMA HandOver ==
    ASSUME Reserved, scenario \in Scenarios, Trains' = Trains,
           NEW t \in Trains, NEW block \in Blocks, held[block] \in {Free, t},
           current' = [current EXCEPT ![t] = block],
           held' \in [Blocks -> Trains \cup {Free}], held'[block] = t,
           \A b \in Blocks \ {block} : held'[b] = IF b = current[t] THEN Free ELSE held[b]
    PROVE  HoldsItsBlock'
  <1>1. \A u \in Trains : u # Free
    BY ScenarioTyping
  <1>2. /\ \A b \in Blocks : held[b] \in Trains \cup {Free}
        /\ \A b \in Blocks : held[b] # Free => current[held[b]] = b
        /\ \A u \in Trains : current[u] # Outside => held[current[u]] = u
        /\ \A u \in Trains : current[u] \in Blocks \cup {Outside}
        /\ current'[t] = block /\ \A u \in Trains \ {t} : current'[u] = current[u]
    BY DEF Reserved, HoldsItsBlock
  <1>3. ASSUME NEW b \in Blocks, held'[b] # Free PROVE current'[held'[b]] = b
    <2>1. CASE b = block
      BY <1>2, <2>1
    <2>2. CASE b # block
      <3>1. b # current[t] /\ held'[b] = held[b] /\ held[b] \in Trains
        BY <1>2, <1>3, <2>2
      <3>2. held[b] # t
        BY <1>2, <1>3, <3>1
      <3> QED
        BY <1>2, <1>3, <3>1, <3>2
    <2> QED
      BY <2>1, <2>2
  <1>4. ASSUME NEW u \in Trains, current'[u] # Outside PROVE held'[current'[u]] = u
    <2>1. CASE u = t
      BY <1>2, <2>1
    <2>2. CASE u # t
      <3>1. current'[u] = current[u] /\ current[u] \in Blocks /\ held[current[u]] = u
        BY <1>2, <1>4, <2>2
      <3>2. current[u] # block /\ current[u] # current[t]
        BY <1>1, <1>2, <2>2, <3>1, Strings
      <3> QED
        BY <3>1, <3>2
    <2> QED
      BY <2>1, <2>2
  <1> QED
    BY <1>3, <1>4 DEF HoldsItsBlock

\* A train that takes a free block, or one it is already in, holds it and
\* gives up the one behind.
LEMMA AcquireInv ==
    ASSUME MeetInv, NEW e \in heap, NEW block, Acquire(e, block)
    PROVE  MeetInv'
  <1> DEFINE t == e.event.train
             previous == current[t]
             clear == At(e.time + scenario.running[block], Clear(t, e.event.step))
             keys == WakeKeys(previous)
  <1>1. HeapTyped /\ Reserved /\ Waiting /\ scenario \in Scenarios
    BY Parts
  <1>2. /\ t \in Trains /\ t # Free /\ e.event.step \in 1..3 /\ e.time \in Nat /\ block \in Blocks
        /\ Route(t)[e.event.step] = "LOOP" => block \in Tracks
    BY <1>1, WantedBlock, ScenarioTyping DEF Acquire
  <1>3. /\ scenario' = scenario /\ Trains' = Trains /\ counter' = counter /\ done' = done
        /\ current' = [current EXCEPT ![t] = block]
        /\ held[block] \in {Free, t}
        /\ loopTrack' = IF Route(t)[e.event.step] = "LOOP" THEN Put(loopTrack, t, block)
                        ELSE loopTrack
    BY DEF Acquire, MayEnter, Trains
  <1>4. previous \in Blocks \cup {Outside}
    BY <1>1, <1>2 DEF Reserved
  <1>5. clear.time \in Nat /\ clear.time >= e.time /\ IsEvent(clear.event)
    <2>1. scenario.running[block] \in Nat
      BY <1>1, <1>2, ScenarioTyping
    <2>2. clear.time = e.time + scenario.running[block] /\ clear.event = Clear(t, e.event.step)
      BY DEF At
    <2>3. IsEvent(Clear(t, e.event.step))
      BY <1>2 DEF IsEvent, Clear
    <2> QED
      BY <1>2, <2>1, <2>2, <2>3
  <1>6. DOMAIN loopTrack' \subseteq Trains /\ Range(loopTrack') \subseteq Tracks
    <2>1. CASE loopTrack' = loopTrack
      BY <1>1, <1>3, <2>1 DEF Reserved, Range
    <2>2. CASE loopTrack' = Put(loopTrack, t, block) /\ block \in Tracks
      <3> HIDE DEF t
      <3>1. DOMAIN loopTrack' = DOMAIN loopTrack \cup {t}
        BY <2>2 DEF Put
      <3>2. \A u \in DOMAIN loopTrack' :
                loopTrack'[u] = IF u = t THEN block ELSE loopTrack[u]
        BY <2>2, <3>1 DEF Put
      <3>3. \A u \in DOMAIN loopTrack : loopTrack[u] \in Tracks
        BY <1>1 DEF Reserved, Range
      <3>4. \A u \in DOMAIN loopTrack' : loopTrack'[u] \in Tracks
        BY <2>2, <3>1, <3>2, <3>3
      <3>5. DOMAIN loopTrack' \subseteq Trains
        BY <1>1, <1>2, <3>1 DEF Reserved
      <3> QED
        BY <3>4, <3>5 DEF Range
    <2> QED
      BY <1>2, <1>3, <2>1, <2>2
  <1>7. CASE /\ previous \notin {Outside, block}
             /\ held' = [held EXCEPT ![block] = t, ![previous] = Free]
             /\ waiters' = WaitersAfter(previous)
             /\ Process(e, Put(Woken(previous, e.time), Len(keys) + 1, clear), Len(keys) + 1)
    <2>1. /\ IsBatch(Woken(previous, e.time), Len(keys), e.time)
          /\ DOMAIN WaitersAfter(previous) = Keys
          /\ \A k \in Keys : WaitersAfter(previous)[k] \subseteq waiters[k]
      <3>1. previous \in Blocks \cup {Outside} /\ e.time \in Nat
        BY <1>2, <1>4
      <3>2. /\ IsBatch(Woken(previous, e.time), Len(WakeKeys(previous)), e.time)
            /\ DOMAIN WaitersAfter(previous) = Keys
            /\ \A q \in Keys : WaitersAfter(previous)[q] \subseteq waiters[q]
        BY <3>1, Waking
      <3> QED
        BY <3>2
    <2>2. IsBatch(Put(Woken(previous, e.time), Len(keys) + 1, clear), Len(keys) + 1, e.time)
      <3> DEFINE R == Woken(previous, e.time)
                 b == Put(R, Len(keys) + 1, clear)
      <3>1. /\ DOMAIN b = DOMAIN R \cup {Len(keys) + 1} /\ b[Len(keys) + 1] = clear
            /\ \A i \in DOMAIN R : i # Len(keys) + 1 => b[i] = R[i]
        BY DEF Put
      <3> HIDE DEF clear, keys, b, R
      <3>2. /\ Len(keys) \in Nat /\ DOMAIN R \subseteq 1..Len(keys)
            /\ \A i \in DOMAIN R : R[i].time \in Nat /\ R[i].time >= e.time /\ IsEvent(R[i].event)
        BY <2>1 DEF IsBatch, keys, R
      <3>3. clear.time \in Nat /\ clear.time >= e.time /\ IsEvent(clear.event)
        BY <1>5
      <3>4. IsBatch(b, Len(keys) + 1, e.time)
        BY <3>1, <3>2, <3>3 DEF IsBatch
      <3> QED
        BY <3>4 DEF b, R, keys
    <2>3. HeapTyped'
      BY <1>1, <1>3, <1>7, <2>2, HandlerKeepsHeap
    <2>4. Waiting'
      BY <1>1, <1>3, <1>7, <2>1, ShorterQueues
    <2>5. HoldsItsBlock'
      <3>1. /\ held' \in [Blocks -> Trains \cup {Free}] /\ held'[block] = t
            /\ \A b \in Blocks \ {block} : held'[b] = IF b = previous THEN Free ELSE held[b]
        <4> HIDE DEF t, previous
        <4> QED
          BY <1>1, <1>2, <1>4, <1>7 DEF Reserved
      <3> QED
        BY <1>1, <1>2, <1>3, <3>1, HandOver
    <2>6. Reserved'
      BY <1>1, <1>2, <1>3, <1>6, <1>7, <2>5 DEF Reserved
    <2> QED
      BY <1>1, <1>3, <2>3, <2>4, <2>6 DEF MeetInv, TypeOK, Cleared, HeapTyped, IsEvent, Reserved,
                                         Waiting, Queued
  <1>8. CASE /\ previous \in {Outside, block}
             /\ held' = [held EXCEPT ![block] = t]
             /\ waiters' = waiters
             /\ Process(e, <<clear>>, 1)
    <2>1. IsBatch(<<clear>>, 1, e.time)
      <3> HIDE DEF clear
      <3> QED
        BY <1>5 DEF IsBatch
    <2>2. HeapTyped'
      BY <1>1, <1>3, <1>8, <2>1, HandlerKeepsHeap
    <2>3. Waiting'
      BY <1>1, <1>3, <1>8 DEF Waiting, Queued
    <2>4. HoldsItsBlock'
      <3>1. /\ held' \in [Blocks -> Trains \cup {Free}] /\ held'[block] = t
            /\ \A b \in Blocks \ {block} : held'[b] = IF b = previous THEN Free ELSE held[b]
        <4> HIDE DEF t, previous
        <4> QED
          BY <1>1, <1>2, <1>4, <1>8, Strings DEF Reserved
      <3> QED
        BY <1>1, <1>2, <1>3, <3>1, HandOver
    <2>5. Reserved'
      BY <1>1, <1>2, <1>3, <1>6, <1>8, <2>4 DEF Reserved
    <2> QED
      BY <1>1, <1>3, <2>2, <2>3, <2>5 DEF MeetInv, TypeOK, Cleared, HeapTyped, IsEvent, Reserved,
                                         Waiting, Queued
  <1> QED
    BY <1>7, <1>8 DEF Acquire

\* Types, the queues and the pairing of blocks and trains: the inductive
\* invariant of the reservations.
THEOREM MeetInvariant == Spec => []MeetInv
  <1>1. ASSUME MeetInv, [Next]_vars PROVE MeetInv'
    <2>1. CASE Turn
      <3>1. PICK e \in heap : \/ Exit(e)
                              \/ \E block \in Blocks \cup {"LOOP"} :
                                    Wait(e, block) \/ Acquire(e, block)
                              \/ AtEnd(e)
        BY <2>1 DEF Turn
      <3> QED
        BY <1>1, <3>1, ExitInv, WaitInv, AcquireInv, AtEndInv
    <2>2. CASE UNCHANGED vars
      BY <1>1, <2>2 DEF vars, MeetInv, TypeOK, HoldsItsBlock, Queued, Cleared, Trains, Range
    <2> QED
      BY <1>1, <2>1, <2>2 DEF Next, Finished
  <1> QED
    BY <1>1, InitInv, PTL DEF Spec

\* The state of the zone keeps its types, and no handler asks the loop for a
\* time already passed, for any number of trains and any running times.
THEOREM MeetTypeOK == Spec => []TypeOK
  <1>1. MeetInv => TypeOK
    BY DEF MeetInv
  <1> QED
    BY <1>1, MeetInvariant, PTL

\* Block exclusion: a block is held by the one train that is in it, and a train
\* in a block holds it, under both policies and however trains are woken.
THEOREM BlocksAreExclusive == Spec => []HoldsItsBlock
  <1>1. MeetInv => HoldsItsBlock
    BY DEF MeetInv
  <1> QED
    BY <1>1, MeetInvariant, PTL

-----------------------------------------------------------------------------
(***************************************************************************)
(* The future of the trains. MeetInv does not say where a train comes from *)
(* or goes next: FutureInv does, in three parts.                           *)
(***************************************************************************)
MeetEvents == [time : Nat, train : Trains, block : Keys \cup {"EXIT"},
               action : {"enter", "leave", "wait", "exit"}]
MeetCalls == [kind : {"request", "clear"}, train : Trains, step : 1..4]

\* Where a train is, by the sections it has entered.
Position(t) ==
    /\ Passed(t) \in 0..3
    /\ current[t] \in IF Passed(t) = 0 \/ t \in done THEN {Outside} ELSE Wanted(Route(t)[Passed(t)])
    /\ t \in done => Passed(t) = 3
    /\ t \in DOMAIN loopTrack => Passed(t) >= 2

Pending(t) == {e \in heap : e.event.train = t}
WaitsIn(k, t) == {w \in waiters[k] : w.train = t}

\* The queue for a section: the loop has one for both tracks, or the naive
\* policy's queue for the through track.
Queue(t, step) ==
    IF Route(t)[step] # "LOOP" THEN Route(t)[step] ELSE IF scenario.avoid THEN "LOOP" ELSE Through

\* Not over, a train has one pending event, of the section it is in or asks for;
Moving(t) ==
    /\ t \notin done /\ \A k \in Keys : WaitsIn(k, t) = {}
    /\ \E e \in heap : /\ Pending(t) = {e}
                      /\ \/ e.event = Request(t, Passed(t) + 1)
                         \/ Passed(t) > 0 /\ e.event = Clear(t, Passed(t))

\* or it is once in the queue for the next section.
Standing(t) ==
    /\ t \notin done /\ Pending(t) = {} /\ Passed(t) < 3
    /\ \E k \in Keys :
        /\ k = Queue(t, Passed(t) + 1)
        /\ \E w \in waiters[k] : WaitsIn(k, t) = {w} /\ w.step = Passed(t) + 1
        /\ \A l \in Keys \ {k} : WaitsIn(l, t) = {}

Gone(t) == t \in done /\ Pending(t) = {} /\ \A k \in Keys : WaitsIn(k, t) = {}

Future(t) == Moving(t) \/ Standing(t) \/ Gone(t)

\* The requests of this instant for the section that a queue waits for.
Offers(k) ==
    {e \in heap :
        /\ e.event.kind = "request" /\ e.time = now /\ e.event.step <= 3
        /\ Route(e.event.train)[e.event.step] = IF k \in Tracks THEN "LOOP" ELSE k}

\* A queue that is not empty has an offer for every block that is free.
Offered(k) ==
    waiters[k] # {} =>
        /\ (\E b \in Wanted(k) : held[b] = Free) => Offers(k) # {}
        /\ k = "LOOP" /\ (\A b \in Tracks : held[b] = Free)
                => \E e, f \in Offers(k) : e # f

FutureInv ==
    /\ QueueOf(MeetCalls)
    /\ events \in Seq(MeetEvents)
    /\ \A t \in Trains : Position(t) /\ Future(t)
    /\ \A k \in Keys : Offered(k)

\* The reservations a log tells of one train, one more with every "enter".
EntersOf(s, t) == {n \in DOMAIN s : s[n].train = t /\ s[n].action = "enter"}

\* A log that grows by one reservation counts one more for its train alone.
LEMMA EntersAppended ==
    ASSUME NEW S, NEW s \in Seq(S), NEW r \in S, NEW t
    PROVE  /\ Append(s, r) \in Seq(S)
           /\ Cardinality(EntersOf(s, t)) \in Nat
           /\ r.train = t /\ r.action = "enter"
                => Cardinality(EntersOf(Append(s, r), t)) = Cardinality(EntersOf(s, t)) + 1
           /\ ~(r.train = t /\ r.action = "enter")
                => Cardinality(EntersOf(Append(s, r), t)) = Cardinality(EntersOf(s, t))
  <1>1. /\ Append(s, r) \in Seq(S) /\ Len(Append(s, r)) = Len(s) + 1 /\ Len(s) \in Nat
        /\ \A i \in 1..Len(s) : Append(s, r)[i] = s[i]
        /\ Append(s, r)[Len(s) + 1] = r
    BY AppendProperties, LenProperties
  <1>2. /\ DOMAIN s = 1..Len(s) /\ DOMAIN Append(s, r) = 1..(Len(s) + 1)
    BY <1>1, LenProperties
  <1>3. IsFiniteSet(EntersOf(s, t)) /\ Len(s) + 1 \notin EntersOf(s, t)
    <2>1. IsFiniteSet(1..Len(s))
      BY <1>1, FS_Interval
    <2>2. EntersOf(s, t) \subseteq 1..Len(s)
      BY <1>2 DEF EntersOf
    <2> QED
      BY <1>1, <2>1, <2>2, FS_Subset
  <1>4. Cardinality(EntersOf(s, t)) \in Nat
    BY <1>3, FS_CardinalityType
  <1>5. ASSUME r.train = t /\ r.action = "enter"
        PROVE  Cardinality(EntersOf(Append(s, r), t)) = Cardinality(EntersOf(s, t)) + 1
    <2>1. EntersOf(Append(s, r), t) = EntersOf(s, t) \cup {Len(s) + 1}
      BY <1>1, <1>2, <1>5 DEF EntersOf
    <2> QED
      BY <1>3, <2>1, FS_AddElement
  <1>6. ASSUME ~(r.train = t /\ r.action = "enter")
        PROVE  Cardinality(EntersOf(Append(s, r), t)) = Cardinality(EntersOf(s, t))
    <2>1. EntersOf(Append(s, r), t) = EntersOf(s, t)
      BY <1>1, <1>2, <1>6 DEF EntersOf
    <2> QED
      BY <2>1
  <1> QED
    BY <1>1, <1>4, <1>5, <1>6

\* A vacated block is logged as left by the train that was in it.
LEMMA Leaving ==
    ASSUME MeetInv, NEW block, NEW at \in Nat, block \in Blocks \cup {Outside},
           NEW s \in Seq(MeetEvents)
    PROVE  /\ s \o Leave(block, at) \in Seq(MeetEvents)
           /\ \A t : Cardinality(EntersOf(s \o Leave(block, at), t)) = Cardinality(EntersOf(s, t))
  <1>1. CASE block # Outside /\ held[block] # Free
    <2> DEFINE r == Event(at, held[block], block, "leave")
    <2>1. r \in MeetEvents /\ r.action = "leave"
      BY <1>1 DEF MeetInv, TypeOK, Event, MeetEvents, Keys
    <2>2. Leave(block, at) = <<r>>
      BY <1>1 DEF Leave
    <2> HIDE DEF r
    <2>3. s \o <<r>> = Append(s, r)
      BY <2>1, AppendIsConcat
    <2>4. r.action # "enter"
      BY <2>1
    <2>5. \A t : /\ Append(s, r) \in Seq(MeetEvents)
               /\ Cardinality(EntersOf(Append(s, r), t)) = Cardinality(EntersOf(s, t))
      BY <2>1, <2>4, EntersAppended
    <2> QED
      BY <2>2, <2>3, <2>5
  <1>2. CASE ~(block # Outside /\ held[block] # Free)
    <2>1. Leave(block, at) = <<>>
      BY <1>2 DEF Leave
    <2>2. s \o <<>> = s
      BY ConcatEmptySeq
    <2> QED
      BY <2>1, <2>2
  <1> QED
    BY <1>1, <1>2

\* A train that queues is not in motion and is in the queue for its next
\* section, once.
LEMMA Queuers ==
    ASSUME MeetInv, FutureInv, NEW k \in Keys, NEW w \in waiters[k]
    PROVE  /\ w.train \in Trains /\ Standing(w.train)
           /\ Passed(w.train) \in 0..2 /\ w.step = Passed(w.train) + 1 /\ w.step \in 1..3
           /\ k = Queue(w.train, w.step) /\ WaitsIn(k, w.train) = {w}
  <1>1. w.train \in Trains
    BY DEF MeetInv, TypeOK, Queued
  <1>2. w \in WaitsIn(k, w.train)
    BY DEF WaitsIn
  <1>3. Standing(w.train) /\ Position(w.train)
    BY <1>1, <1>2 DEF FutureInv, Future, Moving, Gone
  <1>4. PICK l \in Keys :
            /\ l = Queue(w.train, Passed(w.train) + 1)
            /\ \E v \in waiters[l] : WaitsIn(l, w.train) = {v} /\ v.step = Passed(w.train) + 1
            /\ \A m \in Keys \ {l} : WaitsIn(m, w.train) = {}
    BY <1>3 DEF Standing
  <1>5. l = k
    BY <1>2, <1>4
  <1>6. WaitsIn(k, w.train) = {w} /\ w.step = Passed(w.train) + 1
    BY <1>2, <1>4, <1>5
  <1>7. Passed(w.train) \in 0..2
    BY <1>3 DEF Standing, Position
  <1>8. w.step \in 1..3
    BY <1>6, <1>7
  <1> QED
    BY <1>1, <1>3, <1>4, <1>5, <1>6, <1>7, <1>8

\* Which queues a vacated block wakes, and whom: for each queue that waits for
\* the block, its head.
WakesHeads(block, at) ==
    LET keys == WakeKeys(block)
        R == Woken(block, at)
    IN /\ Len(keys) \in Nat /\ DOMAIN keys = 1..Len(keys)
       /\ DOMAIN R = {j \in DOMAIN keys : waiters[keys[j]] # {}}
       /\ \A j \in DOMAIN R :
            /\ keys[j] \in Keys /\ FirstWaiter(keys[j]) \in waiters[keys[j]]
            /\ R[j] = At(at, Request(FirstWaiter(keys[j]).train, FirstWaiter(keys[j]).step))
       /\ \A i, j \in DOMAIN keys : keys[i] = keys[j] => i = j
       /\ \A k \in Keys : block \in Wanted(k) <=> \E j \in DOMAIN keys : keys[j] = k
       /\ \A k \in Keys :
            WaitersAfter(block)[k] = IF block \in Wanted(k) /\ waiters[k] # {}
                                       THEN waiters[k] \ {FirstWaiter(k)} ELSE waiters[k]

\* _release takes the first waiter of each queue that wants the block, and offers
\* it the block.
LEMMA Heads ==
    ASSUME MeetInv, NEW block \in Blocks \cup {Outside}, NEW at
    PROVE  WakesHeads(block, at)
  <1> DEFINE keys == WakeKeys(block)
             R == Woken(block, at)
  <1>1. /\ Len(keys) \in Nat /\ DOMAIN keys = 1..Len(keys)
        /\ \A j \in DOMAIN keys : keys[j] \in Keys
        /\ \A i, j \in DOMAIN keys : keys[i] = keys[j] => i = j
        /\ \A k \in Keys : block \in Wanted(k) <=> \E j \in DOMAIN keys : keys[j] = k
    <2>1. CASE block \in Tracks
      <3>1. keys = <<block, "LOOP">>
        BY <2>1 DEF WakeKeys
      <3>2. block \in Keys /\ "LOOP" \in Keys /\ block # "LOOP"
        BY <2>1, Strings DEF Keys
      <3>3. \A k \in Keys : block \in Wanted(k) <=> k = block \/ k = "LOOP"
        BY <2>1, <3>2 DEF Wanted
      <3> QED
        BY <3>1, <3>2, <3>3
    <2>2. CASE block \in Blocks \ Tracks
      <3>1. keys = <<block>>
        BY <2>2 DEF WakeKeys
      <3>2. \A k \in Keys : block \in Wanted(k) <=> k = block
        BY <2>2, Strings DEF Wanted
      <3> QED
        BY <2>2, <3>1, <3>2 DEF Keys
    <2>3. CASE block = Outside
      <3>1. keys = <<>>
        BY <2>3, Strings DEF WakeKeys
      <3>2. \A k \in Keys : block \notin Wanted(k)
        BY <2>3, Strings DEF Wanted, Keys
      <3> QED
        BY <3>1, <3>2
    <2> QED
      BY <2>1, <2>2, <2>3
  <1> HIDE DEF keys
  <1>2. DOMAIN R = {j \in DOMAIN keys : waiters[keys[j]] # {}}
    BY DEF Woken, keys
  <1>3. ASSUME NEW j \in DOMAIN R
        PROVE  /\ keys[j] \in Keys /\ FirstWaiter(keys[j]) \in waiters[keys[j]]
               /\ R[j] = At(at, Request(FirstWaiter(keys[j]).train, FirstWaiter(keys[j]).step))
    <2>1. keys[j] \in Keys /\ waiters[keys[j]] # {}
      BY <1>1, <1>2
    <2>2. FirstWaiter(keys[j]) \in waiters[keys[j]]
      BY <2>1, HeadOfQueue
    <2>3. R[j] = At(at, Request(FirstWaiter(keys[j]).train, FirstWaiter(keys[j]).step))
      BY <1>2 DEF Woken, keys
    <2> QED
      BY <2>1, <2>2, <2>3
  <1>4. ASSUME NEW k \in Keys
        PROVE  WaitersAfter(block)[k] = IF block \in Wanted(k) /\ waiters[k] # {}
                                          THEN waiters[k] \ {FirstWaiter(k)} ELSE waiters[k]
    <2>1. k \in DOMAIN waiters
      BY DEF MeetInv, Queued
    <2>2. WaitersAfter(block)[k] = IF (\E i \in DOMAIN keys : keys[i] = k) /\ waiters[k] # {}
                                     THEN waiters[k] \ {FirstWaiter(k)} ELSE waiters[k]
      BY <2>1 DEF WaitersAfter, keys
    <2> QED
      BY <1>1, <2>2
  <1> QED
    BY <1>1, <1>2, <1>3, <1>4 DEF keys, WakesHeads

\* A train that no handler touches keeps its place,
LEMMA PositionKept ==
    ASSUME NEW t, Position(t), scenario' = scenario, Passed(t)' = Passed(t),
           current'[t] = current[t], t \in done' <=> t \in done,
           t \in DOMAIN loopTrack' => t \in DOMAIN loopTrack
    PROVE  Position(t)'
  BY DEF Position, Wanted, Route

\* and its future.
LEMMA FutureKept ==
    ASSUME NEW t, Future(t), scenario' = scenario, Passed(t)' = Passed(t),
           t \in done' <=> t \in done,
           Pending(t)' = Pending(t), \A k \in Keys : WaitsIn(k, t)' = WaitsIn(k, t),
           t \in Trains, Position(t)
    PROVE  Future(t)'
  <1>1. \A n : Route(t)' = Route(t) /\ Queue(t, n)' = Queue(t, n)
    BY DEF Route, Queue
  <1>2. \A k \in Keys : WaitsIn(k, t)' = WaitsIn(k, t)
    OBVIOUS
  <1>3. CASE Moving(t)
    <2>1. PICK e \in heap : /\ Pending(t) = {e}
                           /\ \/ e.event = Request(t, Passed(t) + 1)
                              \/ Passed(t) > 0 /\ e.event = Clear(t, Passed(t))
      BY <1>3 DEF Moving
    <2>2. Pending(t)' = {e} /\ e \in heap'
      <3>1. Pending(t)' = {e}
        BY <2>1
      <3> QED
        BY <3>1 DEF Pending
    <2>3. Moving(t)'
      BY <1>2, <1>3, <2>1, <2>2 DEF Moving, Request, Clear
    <2> QED
      BY <2>3 DEF Future
  <1>4. CASE Standing(t)
    <2>1. PICK k \in Keys :
            /\ k = Queue(t, Passed(t) + 1)
            /\ \E w \in waiters[k] : WaitsIn(k, t) = {w} /\ w.step = Passed(t) + 1
            /\ \A l \in Keys \ {k} : WaitsIn(l, t) = {}
      BY <1>4 DEF Standing
    <2>2. PICK w \in waiters[k] : WaitsIn(k, t) = {w} /\ w.step = Passed(t) + 1
      BY <2>1
    <2>3. k = Queue(t, Passed(t) + 1)'
      BY <1>1, <2>1
    <2>4. WaitsIn(k, t)' = {w} /\ \A l \in Keys \ {k} : WaitsIn(l, t)' = {}
      BY <1>2, <2>1, <2>2
    <2>5. w \in waiters'[k]
      BY <2>4 DEF WaitsIn
    <2>6. t \notin done' /\ Pending(t)' = {} /\ Passed(t)' < 3 /\ w.step = Passed(t)' + 1
      BY <1>4, <2>2 DEF Standing
    <2> QED
      BY <2>3, <2>4, <2>5, <2>6 DEF Future, Standing
  <1>5. CASE Gone(t)
    BY <1>2, <1>5 DEF Future, Gone
  <1> QED
    BY <1>3, <1>4, <1>5 DEF Future

\* A train other than the one at the head of a queue that a vacated block wakes
\* goes on as before; the one at the head leaves its queue for a request.
LEMMA Bystander ==
    ASSUME MeetInv, FutureInv, NEW block \in Blocks \cup {Outside}, NEW at \in Nat,
           NEW e, NEW batch, NEW u \in Trains, e.event.train # u,
           \A j \in DOMAIN Woken(block, at) : j \in DOMAIN batch /\ batch[j] = Woken(block, at)[j],
           \A j \in DOMAIN batch \ DOMAIN Woken(block, at) : batch[j].event.train # u,
           heap' = (heap \ {e}) \cup NewEntries(batch),
           \A k \in Keys : waiters'[k] = WaitersAfter(block)[k],
           scenario' = scenario, Passed(u)' = Passed(u), u \in done' <=> u \in done
    PROVE  Future(u)'
  <1> DEFINE keys == WakeKeys(block)
             R == Woken(block, at)
  <1>1. /\ DOMAIN R = {j \in DOMAIN keys : waiters[keys[j]] # {}}
        /\ \A j \in DOMAIN R :
              /\ keys[j] \in Keys /\ FirstWaiter(keys[j]) \in waiters[keys[j]]
              /\ R[j] = At(at, Request(FirstWaiter(keys[j]).train, FirstWaiter(keys[j]).step))
        /\ \A i, j \in DOMAIN keys : keys[i] = keys[j] => i = j
        /\ \A k \in Keys : block \in Wanted(k) <=> \E j \in DOMAIN keys : keys[j] = k
        /\ \A k \in Keys :
              WaitersAfter(block)[k] = IF block \in Wanted(k) /\ waiters[k] # {}
                                         THEN waiters[k] \ {FirstWaiter(k)} ELSE waiters[k]
    <2>1. WakesHeads(block, at)
      BY Heads
    <2> QED
      BY <2>1 DEF WakesHeads
  <1>2. \A j \in DOMAIN R : j \in DOMAIN batch /\ batch[j] = R[j]
    OBVIOUS
  <1>3. \A j \in DOMAIN batch \ DOMAIN R : batch[j].event.train # u
    OBVIOUS
  <1>4. Position(u) /\ Future(u)
    BY DEF FutureInv
  <1> HIDE DEF keys, R
  <1>5. \A j \in DOMAIN R :
            /\ NewEntry(batch[j], j).event = Request(FirstWaiter(keys[j]).train,
                                                     FirstWaiter(keys[j]).step)
            /\ NewEntry(batch[j], j).event.train = FirstWaiter(keys[j]).train
    <2> SUFFICES ASSUME NEW j \in DOMAIN R
                 PROVE  /\ NewEntry(batch[j], j).event = Request(FirstWaiter(keys[j]).train,
                                                               FirstWaiter(keys[j]).step)
                        /\ NewEntry(batch[j], j).event.train = FirstWaiter(keys[j]).train
      OBVIOUS
    <2>1. NewEntry(batch[j], j).event = batch[j].event
      BY DEF NewEntry
    <2>2. PICK w : w = FirstWaiter(keys[j])
      OBVIOUS
    <2>3. batch[j] = At(at, Request(w.train, w.step))
      BY <1>1, <1>2, <2>2
    <2>4. batch[j].event = Request(w.train, w.step)
      BY <2>3 DEF At
    <2> QED
      BY <2>1, <2>2, <2>4 DEF Request
  <1>6. \A g \in NewEntries(batch) : g.event.train = u =>
            \E j \in DOMAIN R : g = NewEntry(batch[j], j) /\ FirstWaiter(keys[j]).train = u
    <2> SUFFICES ASSUME NEW g \in NewEntries(batch), g.event.train = u
                 PROVE  \E j \in DOMAIN R : g = NewEntry(batch[j], j)
                                            /\ FirstWaiter(keys[j]).train = u
      OBVIOUS
    <2>1. PICK j \in DOMAIN batch : g = NewEntry(batch[j], j)
      BY DEF NewEntries
    <2>2. batch[j].event.train = u
      BY <2>1 DEF NewEntry
    <2>3. j \in DOMAIN R
      BY <1>3, <2>2
    <2> QED
      BY <1>5, <2>1, <2>3
  <1>7. CASE \E j \in DOMAIN R : FirstWaiter(keys[j]).train = u
    <2>1. PICK j \in DOMAIN R : FirstWaiter(keys[j]).train = u
      BY <1>7
    <2>2. PICK k \in Keys : k = keys[j]
      BY <1>1
    <2>3. PICK w \in waiters[k] : w = FirstWaiter(k)
      BY <1>1, <2>2
    <2>4. w.train = u
      BY <2>1, <2>2, <2>3
    <2>5. /\ Standing(u) /\ w.step = Passed(u) + 1 /\ k = Queue(u, w.step) /\ WaitsIn(k, u) = {w}
      BY <2>4, Queuers
    <2>6. Pending(u) = {} /\ u \notin done
      BY <2>5 DEF Standing
    <2>7. \A l \in Keys \ {k} : WaitsIn(l, u) = {}
      BY <2>5 DEF Standing
    <2>8. \A i \in DOMAIN R : FirstWaiter(keys[i]).train = u => i = j
      <3> SUFFICES ASSUME NEW i \in DOMAIN R, FirstWaiter(keys[i]).train = u PROVE i = j
        OBVIOUS
      <3>1. keys[i] \in Keys /\ FirstWaiter(keys[i]) \in WaitsIn(keys[i], u)
        BY <1>1 DEF WaitsIn
      <3>2. keys[i] = k
        BY <2>7, <3>1
      <3> QED
        BY <1>1, <2>2, <3>2
    <2>9. PICK f : f = NewEntry(batch[j], j)
      OBVIOUS
    <2>10. f.event = Request(u, w.step) /\ f.event.train = u /\ f \in NewEntries(batch)
      BY <1>2, <1>5, <2>2, <2>3, <2>4, <2>9 DEF NewEntries
    <2>11. Pending(u)' = {f} /\ f \in heap'
      BY <1>6, <2>6, <2>8, <2>9, <2>10 DEF Pending
    <2>12. \A l \in Keys : WaitsIn(l, u)' = {}
      <3>1. k \in Keys /\ block \in Wanted(k) /\ waiters[k] # {}
        BY <1>1, <2>2, <2>3
      <3>2. waiters'[k] = waiters[k] \ {w}
        BY <1>1, <2>3, <3>1
      <3>3. \A l \in Keys : waiters'[l] \subseteq waiters[l]
        <4> SUFFICES ASSUME NEW l \in Keys PROVE waiters'[l] \subseteq waiters[l]
          OBVIOUS
        <4>1. WaitersAfter(block)[l] = IF block \in Wanted(l) /\ waiters[l] # {}
                                         THEN waiters[l] \ {FirstWaiter(l)} ELSE waiters[l]
          BY <1>1
        <4>2. waiters'[l] = WaitersAfter(block)[l]
          OBVIOUS
        <4> QED
          BY <4>1, <4>2
      <3> QED
        BY <2>5, <2>7, <3>2, <3>3 DEF WaitsIn
    <2>13. Moving(u)'
      BY <2>5, <2>6, <2>10, <2>11, <2>12 DEF Moving, Request
    <2> QED
      BY <2>13 DEF Future
  <1>8. CASE ~\E j \in DOMAIN R : FirstWaiter(keys[j]).train = u
    <2>1. Pending(u)' = Pending(u)
      BY <1>6, <1>8 DEF Pending
    <2>2. ASSUME NEW k \in Keys PROVE WaitsIn(k, u)' = WaitsIn(k, u)
      <3>1. CASE block \in Wanted(k) /\ waiters[k] # {}
        <4>1. PICK j \in DOMAIN keys : keys[j] = k
          BY <1>1, <3>1
        <4>2. FirstWaiter(k).train # u
          BY <1>1, <1>8, <3>1, <4>1
        <4>3. waiters'[k] = waiters[k] \ {FirstWaiter(k)}
          BY <1>1, <3>1
        <4> QED
          BY <4>2, <4>3 DEF WaitsIn
      <3>2. CASE ~(block \in Wanted(k) /\ waiters[k] # {})
        <4>1. waiters'[k] = waiters[k]
          BY <1>1, <3>2
        <4> QED
          BY <4>1 DEF WaitsIn
      <3> QED
        BY <3>1, <3>2
    <2> QED
      BY <1>4, <2>1, <2>2, FutureKept
  <1> QED
    BY <1>7, <1>8

\* The section a queue is for.
SectionOf(k) == IF k \in Tracks THEN "LOOP" ELSE k

\* What every handler does to the clock and the rest of the heap.
Advance(e) ==
    /\ e \in heap /\ now' = e.time /\ now \in Nat /\ now' \in Nat /\ now <= now'
    /\ heap \ {e} \subseteq heap'
    /\ \A g \in heap : g.time \in Nat
    /\ \A g \in heap' : now' <= g.time
    /\ scenario' = scenario

\* An offer that is not taken stays one, because it is due at this instant.
LEMMA OfferKept ==
    ASSUME NEW k, NEW e, NEW f \in Offers(k), f # e, Advance(e)
    PROVE  f \in Offers(k)'
  <1>1. f \in heap /\ f.time = now /\ f.time \in Nat
    BY DEF Offers, Advance
  <1>2. f \in heap' /\ now' <= f.time /\ now <= now' /\ now' \in Nat
    BY <1>1 DEF Advance
  <1>3. now' = f.time
    BY <1>1, <1>2
  <1>4. Route(f.event.train)' = Route(f.event.train)
    BY DEF Route, Advance
  <1> QED
    BY <1>2, <1>3, <1>4 DEF Offers

\* A queue no block of which is vacated, and none of whose offers is taken,
\* stays offered.
LEMMA OfferedKept ==
    ASSUME NEW k, Offered(k), NEW e, Advance(e), e \notin Offers(k), waiters'[k] = waiters[k],
           \A b \in Wanted(k) : held'[b] = Free => held[b] = Free
    PROVE  Offered(k)'
  <1>1. \A f \in Offers(k) : f \in Offers(k)'
    BY OfferKept
  <1>2. Wanted(k)' = Wanted(k) /\ (k = "LOOP" => Wanted(k) = Tracks)
    BY DEF Wanted
  <1> QED
    BY <1>1, <1>2 DEF Offered

\* A queue one block of which is vacated is offered it by the train it wakes.
LEMMA OfferedFreed ==
    ASSUME NEW k, Offered(k), NEW e, Advance(e), e \notin Offers(k), waiters'[k] \subseteq waiters[k],
           NEW block, block \in Wanted(k),
           \A b \in Wanted(k) \ {block} : held'[b] = Free => held[b] = Free,
           waiters[k] # {} => \E g \in Offers(k)' : g \notin heap
    PROVE  Offered(k)'
  <1> SUFFICES ASSUME waiters'[k] # {}
               PROVE  /\ Offers(k)' # {}
                      /\ k = "LOOP" /\ (\A b \in Tracks : held'[b] = Free)
                            => \E f, g \in Offers(k)' : f # g
    BY DEF Offered
  <1>1. waiters[k] # {}
    OBVIOUS
  <1>2. PICK g \in Offers(k)' : g \notin heap
    BY <1>1
  <1>3. ASSUME k = "LOOP", \A b \in Tracks : held'[b] = Free
        PROVE  \E f, h \in Offers(k)' : f # h
    <2>1. Wanted(k) = Tracks
      BY <1>3 DEF Wanted
    <2>2. PICK b \in Tracks : b # block
      BY DEF Tracks, Through, Passing
    <2>3. held[b] = Free
      BY <1>3, <2>1, <2>2
    <2>4. PICK f : f \in Offers(k)
      BY <1>1, <2>1, <2>3 DEF Offered
    <2>5. f # e /\ f \in heap
      BY <2>4 DEF Offers
    <2>6. f \in Offers(k)'
      BY <2>4, <2>5, OfferKept
    <2> QED
      BY <1>2, <2>5, <2>6
  <1> QED
    BY <1>2, <1>3

\* A train that is woken from a queue asks at once for what the queue is for.
LEMMA WokenOffers ==
    ASSUME MeetInv, FutureInv, NEW block \in Blocks, NEW at \in Nat, NEW e, NEW batch,
           \A j \in DOMAIN Woken(block, at) : j \in DOMAIN batch /\ batch[j] = Woken(block, at)[j],
           heap' = (heap \ {e}) \cup NewEntries(batch),
           \A i \in DOMAIN batch : NewEntry(batch[i], i) \notin heap,
           now' = at, scenario' = scenario,
           NEW k \in Keys, block \in Wanted(k), waiters[k] # {}
    PROVE  \E g \in Offers(k)' : g \notin heap
  <1> DEFINE keys == WakeKeys(block)
             R == Woken(block, at)
  <1>1. /\ DOMAIN R = {j \in DOMAIN keys : waiters[keys[j]] # {}}
        /\ \A j \in DOMAIN R :
              /\ keys[j] \in Keys /\ FirstWaiter(keys[j]) \in waiters[keys[j]]
              /\ R[j] = At(at, Request(FirstWaiter(keys[j]).train, FirstWaiter(keys[j]).step))
        /\ \E j \in DOMAIN keys : keys[j] = k
    <2>1. WakesHeads(block, at)
      BY Heads
    <2> QED
      BY <2>1 DEF WakesHeads
  <1>2. \A j \in DOMAIN R : j \in DOMAIN batch /\ batch[j] = R[j]
    OBVIOUS
  <1> HIDE DEF keys, R
  <1>3. PICK j \in DOMAIN R : keys[j] = k
    BY <1>1
  <1>4. PICK w \in waiters[k] : w = FirstWaiter(k)
    BY <1>1, <1>3
  <1>5. w.step \in 1..3 /\ k = Queue(w.train, w.step)
    BY Queuers
  <1>6. PICK g : g = NewEntry(batch[j], j)
    OBVIOUS
  <1>7. g \in heap' /\ g \notin heap
    BY <1>2, <1>6 DEF NewEntries
  <1>8. g.time = at /\ g.event = Request(w.train, w.step)
    <2>1. batch[j] = At(at, Request(w.train, w.step))
      BY <1>1, <1>2, <1>3, <1>4
    <2>2. batch[j].time = at /\ batch[j].event = Request(w.train, w.step)
      BY <2>1 DEF At
    <2> QED
      BY <1>6, <2>2 DEF NewEntry
  <1>9. Route(w.train)[w.step] = SectionOf(k)
    <2>1. CASE Route(w.train)[w.step] # "LOOP"
      <3>1. Route(w.train)[w.step] \in {"west_approach", "east_approach"}
        BY <1>5, <2>1, Routes
      <3> QED
        BY <1>5, <2>1, <3>1 DEF Queue, SectionOf, Tracks, Through, Passing
    <2>2. CASE Route(w.train)[w.step] = "LOOP"
      BY <1>5, <2>2, Strings DEF Queue, SectionOf, Tracks
    <2> QED
      BY <2>1, <2>2
  <1>10. g.event.kind = "request" /\ g.event.train = w.train /\ g.event.step = w.step
    BY <1>8 DEF Request
  <1>11. Route(w.train)' = Route(w.train)
    BY DEF Route
  <1>12. g \in Offers(k)'
    BY <1>5, <1>7, <1>8, <1>9, <1>10, <1>11 DEF Offers, SectionOf
  <1> QED
    BY <1>7, <1>12

\* The event that is processed is the only one of its train, and asks for the
\* section after those the train has entered or ends the last of them.
LEMMA Acting ==
    ASSUME MeetInv, FutureInv, NEW e \in heap
    PROVE  LET t == e.event.train
           IN /\ t \in Trains /\ t \notin done /\ Pending(t) = {e} /\ Position(t)
              /\ \A k \in Keys : WaitsIn(k, t) = {}
              /\ Passed(t) \in 0..3 /\ e.time \in Nat
              /\ e.event.kind = "request" => e.event.step = Passed(t) + 1
              /\ e.event.kind = "clear" => Passed(t) > 0 /\ e.event.step = Passed(t)
  <1>1. PICK t : t = e.event.train
    OBVIOUS
  <1>2. t \in Trains /\ e.time \in Nat
    BY <1>1 DEF MeetInv, TypeOK
  <1>3. e \in Pending(t)
    BY <1>1 DEF Pending
  <1>4. Moving(t) /\ Position(t)
    BY <1>2, <1>3 DEF FutureInv, Future, Standing, Gone
  <1>5. PICK f \in heap : /\ Pending(t) = {f}
                         /\ \/ f.event = Request(t, Passed(t) + 1)
                            \/ Passed(t) > 0 /\ f.event = Clear(t, Passed(t))
    BY <1>4 DEF Moving
  <1>6. f = e
    BY <1>3, <1>5
  <1>7. /\ e.event.kind = "request" => e.event.step = Passed(t) + 1
        /\ e.event.kind = "clear" => Passed(t) > 0 /\ e.event.step = Passed(t)
    BY <1>5, <1>6 DEF Request, Clear
  <1>8. t \notin done /\ Pending(t) = {e} /\ Passed(t) \in 0..3
    BY <1>4, <1>5, <1>6 DEF Moving, Position
  <1>9. \A k \in Keys : WaitsIn(k, t) = {}
    BY <1>4 DEF Moving
  <1> QED
    BY <1>1, <1>2, <1>4, <1>7, <1>8, <1>9

\* The heap after a handler's calls.
LEMMA Scheduling ==
    ASSUME QueueOf(MeetCalls), NEW e, NEW batch, NEW width \in Nat, DOMAIN batch \subseteq 1..width,
           \A i \in DOMAIN batch : batch[i].time \in Nat /\ batch[i].event \in MeetCalls,
           \A i \in DOMAIN batch : batch[i].time >= e.time,
           Process(e, batch, width), scenario' = scenario
    PROVE  /\ QueueOf(MeetCalls)' /\ Advance(e)
           /\ heap' = (heap \ {e}) \cup NewEntries(batch)
           /\ \A i \in DOMAIN batch : NewEntry(batch[i], i) \notin heap
  <1>1. /\ e \in heap /\ now' = e.time /\ raised' = FALSE
        /\ heap' = (heap \ {e}) \cup NewEntries(batch)
        /\ heap' \subseteq [time : Nat, seq : Nat, event : MeetCalls]
        /\ \A f \in heap' : f.seq < sequence' /\ now' <= f.time
        /\ sequence' \in Nat /\ now' \in Nat /\ now <= now'
        /\ \A i \in DOMAIN batch : NewEntry(batch[i], i) \notin heap
    BY CausalProcess
  <1>2. MeetCalls' = MeetCalls
    BY DEF MeetCalls, Trains
  <1>3. QueueOf(MeetCalls)'
    BY <1>1, <1>2 DEF QueueOf
  <1>4. now \in Nat /\ \A g \in heap : g.time \in Nat
    BY DEF QueueOf
  <1>5. heap \ {e} \subseteq heap'
    BY <1>1
  <1>6. Advance(e)
    BY <1>1, <1>4, <1>5 DEF Advance
  <1> QED
    BY <1>1, <1>3, <1>6

\* What remains of another train's future when the new events are not its own.
LEMMA PendingKept ==
    ASSUME NEW e, NEW batch, NEW u, e.event.train # u,
           \A j \in DOMAIN batch : batch[j].event.train # u,
           heap' = (heap \ {e}) \cup NewEntries(batch)
    PROVE  Pending(u)' = Pending(u)
  <1>1. \A g \in NewEntries(batch) : g.event.train # u
    BY DEF NewEntries, NewEntry
  <1> QED
    BY <1>1 DEF Pending

\* Requests and clears of a train's sections are calls.
LEMMA CallsOf ==
    ASSUME NEW t \in Trains, NEW n \in 1..4
    PROVE  Request(t, n) \in MeetCalls /\ Clear(t, n) \in MeetCalls
  BY DEF Request, Clear, MeetCalls

\* At the end of a block the train's next event is the request for the next.
LEMMA AtEndFuture ==
    ASSUME MeetInv, FutureInv, NEW e \in heap, AtEnd(e)
    PROVE  FutureInv'
  <1> DEFINE batch == <<At(e.time, Request(e.event.train, e.event.step + 1))>>
  <1>1. PICK t : t = e.event.train
    OBVIOUS
  <1>2. /\ t \in Trains /\ t \notin done /\ Pending(t) = {e} /\ Position(t)
        /\ \A k \in Keys : WaitsIn(k, t) = {}
        /\ Passed(t) \in 0..3 /\ e.time \in Nat
        /\ Passed(t) > 0 /\ e.event.step = Passed(t)
    BY <1>1, Acting DEF AtEnd
  <1>3. UNCHANGED <<scenario, held, current, loopTrack, waiters, counter, done, events>>
    BY DEF AtEnd
  <1>4. /\ DOMAIN batch = {1} /\ batch[1].time = e.time /\ batch[1].event = Request(t, Passed(t) + 1)
        /\ batch[1].event.train = t
    BY <1>1, <1>2 DEF At, Request
  <1>5. Request(t, Passed(t) + 1) \in MeetCalls
    BY <1>2, CallsOf
  <1>6. Process(e, batch, 1)
    BY DEF AtEnd
  <1> HIDE DEF batch
  <1>7. /\ QueueOf(MeetCalls)' /\ Advance(e)
        /\ heap' = (heap \ {e}) \cup NewEntries(batch)
    <2>1. /\ \A i \in DOMAIN batch : batch[i].time \in Nat /\ batch[i].event \in MeetCalls
          /\ \A i \in DOMAIN batch : batch[i].time >= e.time
          /\ DOMAIN batch \subseteq 1..1 /\ 1 \in Nat
      BY <1>2, <1>4, <1>5
    <2>2. QueueOf(MeetCalls) /\ scenario' = scenario
      BY <1>3 DEF FutureInv
    <2> QED
      BY <1>6, <2>1, <2>2, Scheduling
  <1>8. Trains' = Trains /\ \A u : Passed(u)' = Passed(u)
    BY <1>3 DEF Trains, Passed
  <1>9. ASSUME NEW u \in Trains PROVE Position(u)'
    <2>1. Position(u)
      BY DEF FutureInv
    <2> QED
      BY <1>3, <1>8, <2>1, PositionKept
  <1>10. ASSUME NEW u \in Trains PROVE Future(u)'
    <2>1. \A k \in Keys : WaitsIn(k, u)' = WaitsIn(k, u)
      BY <1>3 DEF WaitsIn
    <2>2. CASE u # t
      <3>1. Pending(u)' = Pending(u)
        BY <1>1, <1>4, <1>7, <2>2, PendingKept
      <3>2. Future(u) /\ Position(u)
        BY DEF FutureInv
      <3> QED
        BY <1>3, <1>8, <2>1, <3>1, <3>2, FutureKept
    <2>3. CASE u = t
      <3>1. PICK f : f = NewEntry(batch[1], 1)
        OBVIOUS
      <3>2. f.event = Request(t, Passed(t) + 1) /\ f.event.train = t
        BY <1>4, <3>1 DEF NewEntry
      <3>3. NewEntries(batch) = {f}
        BY <1>4, <3>1 DEF NewEntries
      <3>4. Pending(t)' = {f} /\ f \in heap'
        BY <1>2, <1>7, <3>2, <3>3 DEF Pending
      <3>5. \A k \in Keys : WaitsIn(k, t)' = {}
        BY <1>2, <2>1, <2>3
      <3>6. t \notin done' /\ f.event = Request(t, Passed(t)' + 1)
        BY <1>2, <1>3, <1>8, <3>2
      <3>7. Moving(t)'
        BY <3>4, <3>5, <3>6 DEF Moving, Request
      <3> QED
        BY <2>3, <3>7 DEF Future
    <2> QED
      BY <2>2, <2>3
  <1>11. ASSUME NEW k \in Keys PROVE Offered(k)'
    <2>1. Offered(k) /\ e \notin Offers(k)
      BY DEF FutureInv, Offers, AtEnd
    <2> QED
      BY <1>3, <1>7, <2>1, OfferedKept
  <1>12. events' \in Seq(MeetEvents)'
    BY <1>3, <1>8 DEF FutureInv, MeetEvents
  <1> QED
    BY <1>7, <1>8, <1>9, <1>10, <1>11, <1>12 DEF FutureInv

\* Trains queue for the loop in one queue only, the policy's.
LEMMA LoopQueue ==
    ASSUME MeetInv, FutureInv, NEW k \in Tracks \cup {"LOOP"}, waiters[k] # {}
    PROVE  k = IF scenario.avoid THEN "LOOP" ELSE Through
  <1>1. k \in Keys
    BY Strings DEF Keys
  <1>2. PICK w \in waiters[k] : TRUE
    OBVIOUS
  <1>3. w.step \in 1..3 /\ k = Queue(w.train, w.step)
    BY <1>1, Queuers
  <1>4. CASE Route(w.train)[w.step] # "LOOP"
    <2>1. k \in {"west_approach", "east_approach"}
      BY <1>3, <1>4, Routes DEF Queue
    <2> QED
      BY <2>1 DEF Tracks, Through, Passing
  <1>5. CASE Route(w.train)[w.step] = "LOOP"
    BY <1>3, <1>5 DEF Queue
  <1> QED
    BY <1>4, <1>5

\* A train at the loop is on the second section of its route and has no track.
LEMMA AtTheLoop ==
    ASSUME NEW t, Position(t), NEW n \in 1..3, n = Passed(t) + 1, Route(t)[n] = "LOOP"
    PROVE  n = 2 /\ Passed(t) = 1 /\ t \notin DOMAIN loopTrack
  <1>1. n = 2
    BY Routes
  <1>2. Passed(t) = 1
    BY <1>1 DEF Position
  <1> QED
    BY <1>1, <1>2 DEF Position

\* A train queues for the blocks of its next section, and none of them is free.
LEMMA Refused ==
    ASSUME MeetInv, FutureInv, NEW e \in heap, NEW block, Wait(e, block),
           NEW t, t = e.event.train, NEW n, n = e.event.step
    PROVE  /\ t \in Trains /\ n \in 1..3 /\ n = Passed(t) + 1
           /\ block \in Keys /\ block = Queue(t, n)
           /\ \A b \in Wanted(block) : held[b] # Free
  <1>1. t \in Trains /\ n \in 1..3 /\ block \in Keys /\ block = TargetBlock(t, n)
    BY WantedBlock DEF Wait, Wants
  <1>2. n = Passed(t) + 1 /\ Position(t)
    BY Acting DEF Wait, Wants
  <1>3. block \in Blocks => held[block] # Free
    BY DEF Wait, MayEnter
  <1>4. CASE Route(t)[n] # "LOOP"
    <2>1. block = Route(t)[n] /\ block \in Blocks /\ block # "LOOP"
      BY <1>1, <1>4, Routes DEF TargetBlock, Blocks
    <2> QED
      BY <1>1, <1>2, <1>3, <1>4, <2>1 DEF Queue, Wanted
  <1>5. CASE Route(t)[n] = "LOOP"
    <2>1. t \notin DOMAIN loopTrack
      BY <1>1, <1>2, <1>5, AtTheLoop
    <2>2. block = IF ~scenario.avoid \/ held[Through] = Free THEN Through
                  ELSE IF held[Passing] = Free THEN Passing ELSE "LOOP"
      BY <1>1, <1>5, <2>1 DEF TargetBlock
    <2>3. Through \in Blocks /\ Passing \in Blocks /\ Through # "LOOP" /\ Tracks = {Through, Passing}
      BY Strings DEF Blocks, Tracks
    <2>4. CASE scenario.avoid
      <3>1. held[Through] # Free /\ held[Passing] # Free /\ block = "LOOP"
        BY <1>3, <2>2, <2>3, <2>4
      <3> QED
        BY <1>1, <1>2, <1>5, <2>3, <2>4, <3>1 DEF Queue, Wanted
    <2>5. CASE ~scenario.avoid
      BY <1>1, <1>2, <1>3, <1>5, <2>2, <2>3, <2>5 DEF Queue, Wanted
    <2> QED
      BY <2>4, <2>5
  <1> QED
    BY <1>4, <1>5

\* Queueing is no reservation.
LEMMA WaitLog ==
    ASSUME MeetInv, FutureInv, NEW e \in heap, NEW block, Wait(e, block)
    PROVE  events' \in Seq(MeetEvents) /\ \A u : Passed(u)' = Passed(u)
  <1>1. PICK r : r = Event(e.time, e.event.train, block, "wait")
    OBVIOUS
  <1>2. e.event.train \in Trains /\ e.time \in Nat /\ block \in Keys
    BY WantedBlock DEF Wait
  <1>3. r \in MeetEvents /\ r.action # "enter"
    BY <1>1, <1>2 DEF Event, MeetEvents
  <1>4. events \in Seq(MeetEvents) /\ events' = Append(events, r)
    BY <1>1 DEF FutureInv, Wait
  <1>5. \A u : /\ Append(events, r) \in Seq(MeetEvents)
               /\ Cardinality(EntersOf(Append(events, r), u)) = Cardinality(EntersOf(events, u))
    BY <1>3, <1>4, EntersAppended
  <1>6. \A u : Passed(u) = Cardinality(EntersOf(events, u))
               /\ Passed(u)' = Cardinality(EntersOf(events', u))
    BY DEF Passed, EntersOf
  <1> QED
    BY <1>4, <1>5, <1>6

\* A train that is refused its next block goes into the queue for it.
LEMMA WaitFuture ==
    ASSUME MeetInv, FutureInv, NEW e \in heap, NEW block, Wait(e, block)
    PROVE  FutureInv'
  <1>1. PICK t, n : t = e.event.train /\ n = e.event.step
    OBVIOUS
  <1>2. /\ t \in Trains /\ n \in 1..3 /\ n = Passed(t) + 1
        /\ block \in Keys /\ block = Queue(t, n)
        /\ \A b \in Wanted(block) : held[b] # Free
    BY <1>1, Refused
  <1>3. /\ t \notin done /\ Pending(t) = {e} /\ Position(t) /\ e.time \in Nat
        /\ \A k \in Keys : WaitsIn(k, t) = {}
    BY <1>1, Acting
  <1>4. PICK w : w = [prio |-> -scenario.trains[t].priority, seq |-> counter, train |-> t,
                      step |-> n]
    OBVIOUS
  <1>5. /\ waiters' = [waiters EXCEPT ![block] = @ \cup {w}]
        /\ events' = Append(events, Event(e.time, t, block, "wait"))
        /\ Process(e, NoEvents, 0)
        /\ UNCHANGED <<scenario, held, current, loopTrack, done>>
    BY <1>1, <1>4 DEF Wait
  <1>6. w.train = t /\ w.step = n
    BY <1>4
  <1>7. DOMAIN waiters = Keys
    BY DEF MeetInv, Queued
  <1>8. waiters'[block] = waiters[block] \cup {w} /\ \A k \in Keys \ {block} : waiters'[k] = waiters[k]
    BY <1>2, <1>5, <1>7
  <1>9. DOMAIN NoEvents = {} /\ NewEntries(NoEvents) = {}
    BY DEF NoEvents, NewEntries
  <1>10. QueueOf(MeetCalls)' /\ Advance(e) /\ heap' = (heap \ {e}) \cup NewEntries(NoEvents)
    <2>1. /\ \A i \in DOMAIN NoEvents : NoEvents[i].time \in Nat /\ NoEvents[i].event \in MeetCalls
          /\ \A i \in DOMAIN NoEvents : NoEvents[i].time >= e.time
          /\ DOMAIN NoEvents \subseteq 1..0 /\ 0 \in Nat
      BY <1>9
    <2>2. QueueOf(MeetCalls) /\ scenario' = scenario
      BY <1>5 DEF FutureInv
    <2> QED
      BY <1>5, <2>1, <2>2, Scheduling
  <1>11. /\ Trains' = Trains /\ events' \in Seq(MeetEvents) /\ \A u : Passed(u)' = Passed(u)
    BY <1>5, WaitLog DEF Trains
  <1>12. ASSUME NEW u \in Trains PROVE Position(u)'
    <2>1. Position(u)
      BY DEF FutureInv
    <2> QED
      BY <1>5, <1>11, <2>1, PositionKept
  <1>13. ASSUME NEW u \in Trains PROVE Future(u)'
    <2>1. CASE u # t
      <3>1. Pending(u)' = Pending(u)
        BY <1>1, <1>9, <1>10, <2>1, PendingKept
      <3>2. \A k \in Keys : WaitsIn(k, u)' = WaitsIn(k, u)
        BY <1>2, <1>6, <1>8, <2>1 DEF WaitsIn
      <3>3. Future(u) /\ Position(u)
        BY DEF FutureInv
      <3> QED
        BY <1>5, <1>11, <3>1, <3>2, <3>3, FutureKept
    <2>2. CASE u = t
      <3>1. Pending(t)' = {}
        BY <1>3, <1>9, <1>10 DEF Pending
      <3>2. WaitsIn(block, t)' = {w} /\ \A k \in Keys \ {block} : WaitsIn(k, t)' = {}
        BY <1>2, <1>3, <1>6, <1>8 DEF WaitsIn
      <3>3. block = Queue(t, Passed(t) + 1)'
        BY <1>2, <1>5, <1>11 DEF Queue, Route
      <3>4. t \notin done' /\ Passed(t)' < 3 /\ w.step = Passed(t)' + 1
        BY <1>2, <1>3, <1>5, <1>6, <1>11 DEF Position
      <3>5. w \in waiters'[block]
        BY <1>8
      <3>6. Standing(t)'
        BY <1>2, <3>1, <3>2, <3>3, <3>4, <3>5 DEF Standing
      <3> QED
        BY <2>2, <3>6 DEF Future
    <2> QED
      BY <2>1, <2>2
  <1>14. ASSUME NEW k \in Keys PROVE Offered(k)'
    <2>1. CASE k = block
      <3>1. \A b \in Wanted(k) : held'[b] # Free
        BY <1>2, <1>5, <2>1
      <3>2. Wanted(k)' = Wanted(k) /\ (k = "LOOP" => Wanted(k) = Tracks) /\ Through \in Tracks
        BY DEF Wanted, Tracks
      <3> QED
        BY <3>1, <3>2 DEF Offered
    <2>2. CASE k # block /\ e \notin Offers(k)
      <3>1. Offered(k)
        BY DEF FutureInv
      <3> QED
        BY <1>5, <1>8, <1>10, <2>2, <3>1, OfferedKept
    <2>3. CASE k # block /\ e \in Offers(k)
      <3>1. Route(t)[n] = IF k \in Tracks THEN "LOOP" ELSE k
        BY <1>1, <2>3 DEF Offers
      <3>2. CASE Route(t)[n] # "LOOP"
        BY <1>2, <2>3, <3>1, <3>2 DEF Queue
      <3>3. CASE Route(t)[n] = "LOOP"
        <4>1. k \in Tracks \cup {"LOOP"}
          BY <3>1, <3>3
        <4>2. block = IF scenario.avoid THEN "LOOP" ELSE Through
          BY <1>2, <3>3 DEF Queue
        <4>3. waiters[k] = {}
          BY <2>3, <4>1, <4>2, LoopQueue
        <4>4. waiters'[k] = {}
          BY <1>8, <2>3, <4>3
        <4> QED
          BY <4>4 DEF Offered
      <3> QED
        BY <3>2, <3>3
    <2> QED
      BY <2>1, <2>2, <2>3
  <1>15. MeetEvents' = MeetEvents
    BY <1>11 DEF MeetEvents
  <1> QED
    BY <1>10, <1>11, <1>12, <1>13, <1>14, <1>15 DEF FutureInv

\* The sections have no block in common, and a queue's blocks are its section's.
LEMMA Sections ==
    /\ \A k \in Keys : /\ Wanted(k) \subseteq Wanted(SectionOf(k))
                       /\ SectionOf(k) \in {"west_approach", "east_approach", "LOOP"}
    /\ \A r, s \in {"west_approach", "east_approach", "LOOP"} :
            r # s => Wanted(r) \cap Wanted(s) = {}
    /\ \A t : \A n \in 1..3 : /\ Route(t)[n] \in {"west_approach", "east_approach", "LOOP"}
                              /\ Wanted(Route(t)[n]) \subseteq Blocks
                              /\ n > 1 => Route(t)[n - 1] # Route(t)[n]
  <1>1. \A k \in Keys : /\ Wanted(k) \subseteq Wanted(SectionOf(k))
                       /\ SectionOf(k) \in {"west_approach", "east_approach", "LOOP"}
    BY Strings DEF Keys, Blocks, SectionOf, Wanted
  <1>2. \A r, s \in {"west_approach", "east_approach", "LOOP"} :
            r # s => Wanted(r) \cap Wanted(s) = {}
    BY DEF Wanted, Tracks, Through, Passing
  <1>3. ASSUME NEW t, NEW n \in 1..3
        PROVE  /\ Route(t)[n] \in {"west_approach", "east_approach", "LOOP"}
               /\ Wanted(Route(t)[n]) \subseteq Blocks
               /\ n > 1 => Route(t)[n - 1] # Route(t)[n]
    <2>1. CASE n = 1
      BY <2>1, Routes DEF Wanted, Blocks
    <2>2. CASE n = 2
      BY <2>2, Routes DEF Wanted, Blocks
    <2>3. CASE n = 3
      BY <2>3, Routes DEF Wanted, Blocks
    <2> QED
      BY <2>1, <2>2, <2>3
  <1> QED
    BY <1>1, <1>2, <1>3

\* Where a train that is not over comes from.
LEMMA ComesFrom ==
    ASSUME NEW t, Position(t), t \notin done
    PROVE  /\ Passed(t) = 0 => current[t] = Outside
           /\ Passed(t) > 0 => current[t] \in Wanted(Route(t)[Passed(t)])
                               /\ current[t] \in Blocks
  <1>1. Passed(t) \in 0..3
    BY DEF Position
  <1>2. Passed(t) > 0 => current[t] \in Wanted(Route(t)[Passed(t)])
    BY <1>1 DEF Position
  <1>3. Passed(t) > 0 => Passed(t) \in 1..3
    BY <1>1
  <1> QED
    BY <1>2, <1>3, Sections DEF Position

\* The calls of a vacated block wake trains that queue.
WakesQueuers(block, R, width) ==
    /\ DOMAIN R \subseteq 1..width /\ width \in Nat
    /\ \A j \in DOMAIN R : R[j].event \in MeetCalls
    /\ \A j \in DOMAIN R : \E k \in Keys : WaitsIn(k, R[j].event.train) # {}
    /\ \A k \in Keys : WaitersAfter(block)[k] \subseteq waiters[k]
    /\ \A k \in Keys : block \notin Wanted(k) => WaitersAfter(block)[k] = waiters[k]

\* The events _release pushes are requests of queueing trains, at this instant.
LEMMA WokenCalls ==
    ASSUME MeetInv, FutureInv, NEW block \in Blocks \cup {Outside}, NEW at \in Nat
    PROVE  /\ WakesQueuers(block, Woken(block, at), Len(WakeKeys(block)))
           /\ \A j \in DOMAIN Woken(block, at) : Woken(block, at)[j].time = at
  <1> DEFINE keys == WakeKeys(block)
             R == Woken(block, at)
  <1>1. /\ Len(keys) \in Nat /\ DOMAIN keys = 1..Len(keys)
        /\ DOMAIN R = {j \in DOMAIN keys : waiters[keys[j]] # {}}
        /\ \A j \in DOMAIN R :
              /\ keys[j] \in Keys /\ FirstWaiter(keys[j]) \in waiters[keys[j]]
              /\ R[j] = At(at, Request(FirstWaiter(keys[j]).train, FirstWaiter(keys[j]).step))
        /\ \A k \in Keys :
              WaitersAfter(block)[k] = IF block \in Wanted(k) /\ waiters[k] # {}
                                         THEN waiters[k] \ {FirstWaiter(k)} ELSE waiters[k]
    <2>1. WakesHeads(block, at)
      BY Heads
    <2> QED
      BY <2>1 DEF WakesHeads
  <1> HIDE DEF keys, R
  <1>2. ASSUME NEW j \in DOMAIN R
        PROVE  /\ R[j].time = at /\ R[j].event \in MeetCalls
               /\ \E k \in Keys : WaitsIn(k, R[j].event.train) # {}
    <2>1. PICK k \in Keys : k = keys[j]
      BY <1>1
    <2>2. PICK w \in waiters[k] : w = FirstWaiter(k)
      BY <1>1, <2>1
    <2>3. R[j] = At(at, Request(w.train, w.step))
      BY <1>1, <2>1, <2>2
    <2>4. R[j].time = at /\ R[j].event = Request(w.train, w.step)
      BY <2>3 DEF At
    <2>5. w.train \in Trains /\ w.step \in 1..4
      BY Queuers
    <2>6. Request(w.train, w.step) \in MeetCalls
      BY <2>5, CallsOf
    <2>7. R[j].event.train = w.train
      BY <2>4 DEF Request
    <2>8. WaitsIn(k, R[j].event.train) # {}
      BY <2>7 DEF WaitsIn
    <2> QED
      BY <2>4, <2>6, <2>8
  <1>3. ASSUME NEW k \in Keys
        PROVE  /\ WaitersAfter(block)[k] \subseteq waiters[k]
               /\ block \notin Wanted(k) => WaitersAfter(block)[k] = waiters[k]
    <2>1. WaitersAfter(block)[k] = IF block \in Wanted(k) /\ waiters[k] # {}
                                     THEN waiters[k] \ {FirstWaiter(k)} ELSE waiters[k]
      BY <1>1
    <2> QED
      BY <2>1
  <1>4. DOMAIN R \subseteq 1..Len(keys) /\ Len(keys) \in Nat
    BY <1>1
  <1>5. /\ \A j \in DOMAIN R : R[j].time = at
        /\ \A j \in DOMAIN R : R[j].event \in MeetCalls
        /\ \A j \in DOMAIN R : \E k \in Keys : WaitsIn(k, R[j].event.train) # {}
    BY <1>2
  <1>6. /\ \A k \in Keys : WaitersAfter(block)[k] \subseteq waiters[k]
        /\ \A k \in Keys : block \notin Wanted(k) => WaitersAfter(block)[k] = waiters[k]
    BY <1>3
  <1> QED
    BY <1>4, <1>5, <1>6 DEF keys, R, WakesQueuers

\* A batch of requests of queueing trains at one instant.
WakesAt(block, R, at) ==
    /\ WakesQueuers(block, R, Len(WakeKeys(block)))
    /\ \A j \in DOMAIN R : R[j].time = at

\* The same of the batch as a whole.
LEMMA WokenQueuers ==
    ASSUME MeetInv, FutureInv, NEW block \in Blocks \cup {Outside}, NEW at \in Nat
    PROVE  WakesAt(block, Woken(block, at), at)
  BY WokenCalls DEF WakesAt

\* A train past its last section vacates it: it is in the last block of its
\* route, an approach.
LEMMA Leaver ==
    ASSUME MeetInv, FutureInv, NEW e \in heap, Exit(e), NEW t, t = e.event.train
    PROVE  /\ t \in Trains /\ t \notin done /\ Pending(t) = {e} /\ e.time \in Nat
           /\ \A k \in Keys : WaitsIn(k, t) = {}
           /\ Passed(t) = 3 /\ e.event.step = 4
           /\ current[t] \in Wanted(Route(t)[3]) /\ current[t] \in Blocks
  <1>1. /\ t \in Trains /\ t \notin done /\ Pending(t) = {e} /\ Position(t)
        /\ \A k \in Keys : WaitsIn(k, t) = {}
        /\ Passed(t) \in 0..3 /\ e.time \in Nat
        /\ e.event.step = Passed(t) + 1
    BY Acting DEF Exit
  <1>2. Passed(t) = 3 /\ e.event.step = 4
    <2>1. Len(Route(t)) = 3
      BY Routes
    <2>2. e.event.step > Len(Route(t))
      BY DEF Exit
    <2> QED
      BY <1>1, <2>1, <2>2
  <1>3. current[t] \in Wanted(Route(t)[3]) /\ current[t] \in Blocks
    BY <1>1, <1>2, ComesFrom
  <1> QED
    BY <1>1, <1>2, <1>3

\* Leaving the zone is no reservation.
LEMMA ExitLog ==
    ASSUME MeetInv, FutureInv, NEW e \in heap, Exit(e)
    PROVE  events' \in Seq(MeetEvents) /\ \A u : Passed(u)' = Passed(u)
  <1>1. PICK t, block : t = e.event.train /\ block = current[t]
    OBVIOUS
  <1>2. t \in Trains /\ e.time \in Nat /\ block \in Blocks \cup {Outside}
    BY <1>1, Leaver
  <1>3. PICK r : r = Event(e.time, t, "EXIT", "exit")
    OBVIOUS
  <1>4. PICK s : s = events \o Leave(block, e.time)
    OBVIOUS
  <1>5. r \in MeetEvents /\ r.action # "enter"
    BY <1>2, <1>3 DEF Event, MeetEvents
  <1>6. events' = Append(s, r) /\ events \in Seq(MeetEvents)
    BY <1>1, <1>3, <1>4 DEF Exit, FutureInv
  <1>7. /\ s \in Seq(MeetEvents)
        /\ \A u : Cardinality(EntersOf(s, u)) = Cardinality(EntersOf(events, u))
    BY <1>2, <1>4, <1>6, Leaving
  <1>8. \A u : /\ Append(s, r) \in Seq(MeetEvents)
               /\ Cardinality(EntersOf(Append(s, r), u)) = Cardinality(EntersOf(s, u))
    BY <1>5, <1>7, EntersAppended
  <1>9. \A u : Passed(u) = Cardinality(EntersOf(events, u))
               /\ Passed(u)' = Cardinality(EntersOf(events', u))
    BY DEF Passed, EntersOf
  <1> QED
    BY <1>6, <1>7, <1>8, <1>9

\* A train that leaves the zone is over, and the train at the head of the queue
\* for its block asks for it.
LEMMA ExitFuture ==
    ASSUME MeetInv, FutureInv, NEW e \in heap, Exit(e)
    PROVE  FutureInv'
  <1>1. PICK t, block : t = e.event.train /\ block = current[t]
    OBVIOUS
  <1>2. /\ t \in Trains /\ t \notin done /\ Pending(t) = {e} /\ e.time \in Nat
        /\ \A k \in Keys : WaitsIn(k, t) = {}
        /\ Passed(t) = 3 /\ e.event.step = 4
        /\ block \in Wanted(Route(t)[3]) /\ block \in Blocks /\ block \in Blocks \cup {Outside}
    BY <1>1, Leaver
  <1>3. PICK batch : batch = Woken(block, e.time)
    OBVIOUS
  <1>4. PICK width : width = Len(WakeKeys(block))
    OBVIOUS
  <1>5. /\ held' = [b \in Blocks |-> IF b = block THEN Free ELSE held[b]]
        /\ current' = [current EXCEPT ![t] = Outside]
        /\ waiters' = WaitersAfter(block)
        /\ done' = done \cup {t}
        /\ Process(e, batch, width)
        /\ UNCHANGED <<scenario, loopTrack, counter>>
    BY <1>1, <1>3, <1>4 DEF Exit
  <1>6. WakesQueuers(block, batch, width) /\ \A j \in DOMAIN batch : batch[j].time = e.time
    BY <1>2, <1>3, <1>4, WokenCalls
  <1>7. /\ QueueOf(MeetCalls)' /\ Advance(e)
        /\ heap' = (heap \ {e}) \cup NewEntries(batch)
        /\ \A i \in DOMAIN batch : NewEntry(batch[i], i) \notin heap
    <2>1. /\ \A i \in DOMAIN batch : batch[i].time \in Nat /\ batch[i].event \in MeetCalls
          /\ \A i \in DOMAIN batch : batch[i].time >= e.time
          /\ DOMAIN batch \subseteq 1..width /\ width \in Nat
      BY <1>2, <1>6 DEF WakesQueuers
    <2>2. QueueOf(MeetCalls) /\ scenario' = scenario
      BY <1>5 DEF FutureInv
    <2> QED
      BY <1>5, <2>1, <2>2, Scheduling
  <1>8. Trains' = Trains /\ events' \in Seq(MeetEvents) /\ \A u : Passed(u)' = Passed(u)
    BY <1>5, ExitLog DEF Trains
  <1>9. current \in [Trains -> Blocks \cup {Outside}] /\ DOMAIN waiters = Keys
    BY DEF MeetInv, TypeOK, Queued
  <1>10. ASSUME NEW u \in Trains PROVE Position(u)'
    <2>1. Position(u)
      BY DEF FutureInv
    <2>2. CASE u # t
      <3>1. current'[u] = current[u] /\ (u \in done' <=> u \in done)
        BY <1>5, <1>9, <2>2
      <3> QED
        BY <1>5, <1>8, <2>1, <3>1, PositionKept
    <2>3. CASE u = t
      <3>1. current'[u] = Outside /\ u \in done' /\ Passed(u)' = 3
        BY <1>2, <1>5, <1>8, <1>9, <2>3
      <3> QED
        BY <3>1 DEF Position
    <2> QED
      BY <2>2, <2>3
  <1>11. ASSUME NEW u \in Trains PROVE Future(u)'
    <2>1. CASE u # t
      <3>1. u \in done' <=> u \in done
        BY <1>5, <2>1
      <3>2. \A k \in Keys : waiters'[k] = WaitersAfter(block)[k]
        BY <1>5
      <3>3. e.event.train # u /\ Passed(u)' = Passed(u) /\ scenario' = scenario
        BY <1>1, <1>5, <1>8, <2>1
      <3>4. /\ \A j \in DOMAIN Woken(block, e.time) :
                    j \in DOMAIN batch /\ batch[j] = Woken(block, e.time)[j]
            /\ \A j \in DOMAIN batch \ DOMAIN Woken(block, e.time) : batch[j].event.train # u
        BY <1>3
      <3>5. heap' = (heap \ {e}) \cup NewEntries(batch) /\ e.time \in Nat
            /\ block \in Blocks \cup {Outside}
        BY <1>2, <1>7
      <3> QED
        BY <3>1, <3>2, <3>3, <3>4, <3>5, Bystander
    <2>2. CASE u = t
      <3>1. \A j \in DOMAIN batch : batch[j].event.train # t
        BY <1>2, <1>6 DEF WakesQueuers
      <3>2. Pending(t)' = {}
        <4>1. \A g \in NewEntries(batch) : g.event.train # t
          BY <3>1 DEF NewEntries, NewEntry
        <4> QED
          BY <1>2, <1>7, <4>1 DEF Pending
      <3>3. \A k \in Keys : WaitsIn(k, t)' = {}
        BY <1>2, <1>5, <1>6 DEF WaitsIn, WakesQueuers
      <3>4. t \in done'
        BY <1>5
      <3> QED
        BY <2>2, <3>2, <3>3, <3>4 DEF Future, Gone
    <2> QED
      BY <2>1, <2>2
  <1>12. ASSUME NEW k \in Keys PROVE Offered(k)'
    <2>1. Offered(k)
      BY DEF FutureInv
    <2>2. e \notin Offers(k)
      BY <1>2 DEF Offers
    <2>3. held \in [Blocks -> Trains \cup {Free}] /\ Wanted(k) \subseteq Blocks
      BY Strings DEF MeetInv, TypeOK, Wanted, Keys
    <2>4. \A b \in Wanted(k) \ {block} : held'[b] = held[b]
      BY <1>5, <2>3
    <2>5. CASE block \in Wanted(k)
      <3>1. waiters'[k] \subseteq waiters[k]
        BY <1>5, <1>6 DEF WakesQueuers
      <3>2. waiters[k] # {} => \E g \in Offers(k)' : g \notin heap
        <4> SUFFICES ASSUME waiters[k] # {} PROVE \E g \in Offers(k)' : g \notin heap
          OBVIOUS
        <4>1. \A j \in DOMAIN Woken(block, e.time) :
                    j \in DOMAIN batch /\ batch[j] = Woken(block, e.time)[j]
          BY <1>3
        <4>2. now' = e.time /\ scenario' = scenario
          BY <1>5, <1>7 DEF Advance
        <4> QED
          BY <1>2, <1>7, <2>5, <4>1, <4>2, WokenOffers
      <3> QED
        BY <1>7, <2>1, <2>2, <2>4, <2>5, <3>1, <3>2, OfferedFreed
    <2>6. CASE block \notin Wanted(k)
      <3>1. waiters'[k] = waiters[k]
        BY <1>5, <1>6, <2>6 DEF WakesQueuers
      <3>2. \A b \in Wanted(k) : held'[b] = held[b]
        BY <2>4, <2>6
      <3> QED
        BY <1>7, <2>1, <2>2, <3>1, <3>2, OfferedKept
    <2> QED
      BY <2>5, <2>6
  <1>13. MeetEvents' = MeetEvents
    BY <1>8 DEF MeetEvents
  <1> QED
    BY <1>7, <1>8, <1>10, <1>11, <1>12, <1>13 DEF FutureInv

\* A train takes a free block of its next section; the one it comes from, if
\* any, is in the section before.
LEMMA Taker ==
    ASSUME MeetInv, FutureInv, NEW e \in heap, NEW block, Acquire(e, block),
           NEW t, t = e.event.train, NEW n, n = e.event.step
    PROVE  /\ t \in Trains /\ t \notin done /\ Pending(t) = {e} /\ Position(t) /\ e.time \in Nat
           /\ \A k \in Keys : WaitsIn(k, t) = {}
           /\ n \in 1..3 /\ n = Passed(t) + 1 /\ e.event.kind = "request"
           /\ block \in Wanted(Route(t)[n]) /\ block \in Blocks /\ held[block] = Free
           /\ current[t] \in Blocks \cup {Outside} /\ current[t] # block
           /\ n = 1 => current[t] = Outside
           /\ n > 1 => current[t] \in Blocks /\ current[t] \in Wanted(Route(t)[n - 1])
           /\ Route(t)[n] = "LOOP" /\ ~scenario.avoid => block = Through
  <1>1. /\ t \in Trains /\ n \in 1..3 /\ block \in Blocks /\ block = TargetBlock(t, n)
        /\ Route(t)[n] = "LOOP" => block \in Tracks
        /\ e.event.kind = "request"
    <2>1. Wants(e, block) /\ block \in Blocks
      BY DEF Acquire
    <2>2. /\ e.event.train \in Trains /\ e.event.step \in 1..3
          /\ Route(e.event.train)[e.event.step] = "LOOP" /\ block \in Blocks => block \in Tracks
      BY <2>1, WantedBlock
    <2> QED
      BY <2>1, <2>2 DEF Wants
  <1>2. /\ t \notin done /\ Pending(t) = {e} /\ Position(t) /\ e.time \in Nat
        /\ \A k \in Keys : WaitsIn(k, t) = {}
        /\ n = Passed(t) + 1 /\ Passed(t) \in 0..3
    BY <1>1, Acting
  <1>3. /\ n = 1 => current[t] = Outside
        /\ n > 1 => current[t] \in Blocks /\ current[t] \in Wanted(Route(t)[n - 1])
    <2>1. CASE n = 1
      <3>1. Passed(t) = 0
        BY <1>2, <2>1
      <3> QED
        BY <1>2, <2>1, <3>1, ComesFrom
    <2>2. CASE n > 1
      <3>1. Passed(t) > 0 /\ Passed(t) = n - 1
        BY <1>2, <2>2
      <3>2. current[t] \in Blocks /\ current[t] \in Wanted(Route(t)[Passed(t)])
        BY <1>2, <3>1, ComesFrom
      <3> QED
        BY <3>1, <3>2
    <2> QED
      BY <1>1, <2>1, <2>2
  <1>4. block \in Wanted(Route(t)[n])
    <2>1. CASE Route(t)[n] = "LOOP"
      BY <1>1, <2>1 DEF Wanted
    <2>2. CASE Route(t)[n] # "LOOP"
      <3>1. block = Route(t)[n]
        BY <1>1, <2>2 DEF TargetBlock
      <3> QED
        BY <2>2, <3>1 DEF Wanted
    <2> QED
      BY <2>1, <2>2
  <1>5. current[t] # block /\ current[t] \in Blocks \cup {Outside}
    <2>1. CASE n = 1
      BY <1>1, <1>3, <2>1, Strings
    <2>2. CASE n > 1
      <3>1. Wanted(Route(t)[n - 1]) \cap Wanted(Route(t)[n]) = {}
        <4>1. /\ Route(t)[n] \in {"west_approach", "east_approach", "LOOP"}
              /\ Route(t)[n - 1] # Route(t)[n]
          BY <1>1, <2>2, Sections
        <4>2. n - 1 \in 1..3
          BY <1>1, <2>2
        <4>3. Route(t)[n - 1] \in {"west_approach", "east_approach", "LOOP"}
          BY <4>2, Sections
        <4> QED
          BY <4>1, <4>3, Sections
      <3> QED
        BY <1>3, <1>4, <2>2, <3>1
    <2> QED
      BY <1>1, <2>1, <2>2
  <1>6. held[block] = Free
    <2>1. held[block] = Free \/ held[block] = t
      BY DEF Acquire, MayEnter
    <2>2. t # Free
      BY <1>1, ScenarioTyping DEF MeetInv
    <2>3. held[block] # Free => current[held[block]] = block
      BY <1>1 DEF MeetInv, HoldsItsBlock
    <2> QED
      BY <1>5, <2>1, <2>2, <2>3
  <1>7. ASSUME Route(t)[n] = "LOOP", ~scenario.avoid PROVE block = Through
    <2>1. t \notin DOMAIN loopTrack
      BY <1>1, <1>2, <1>7, AtTheLoop
    <2> QED
      BY <1>1, <1>7, <2>1 DEF TargetBlock
  <1> QED
    BY <1>1, <1>2, <1>3, <1>4, <1>5, <1>6, <1>7

\* Every block taken is logged, and nothing else counts as a section entered.
LEMMA AcquireLog ==
    ASSUME MeetInv, FutureInv, NEW e \in heap, NEW block, Acquire(e, block),
           NEW t, t = e.event.train
    PROVE  /\ events' \in Seq(MeetEvents)
           /\ Passed(t)' = Passed(t) + 1
           /\ \A u : u # t => Passed(u)' = Passed(u)
  <1>1. t \in Trains /\ e.time \in Nat /\ block \in Blocks /\ current[t] \in Blocks \cup {Outside}
    BY Taker
  <1>2. PICK r : r = Event(e.time, t, block, "enter")
    OBVIOUS
  <1>3. PICK s : s = Append(events, r)
    OBVIOUS
  <1>4. r \in MeetEvents /\ r.train = t /\ r.action = "enter" /\ events \in Seq(MeetEvents)
    BY <1>1, <1>2 DEF Event, MeetEvents, Keys, FutureInv
  <1>5. s \in Seq(MeetEvents) /\ Cardinality(EntersOf(s, t)) = Cardinality(EntersOf(events, t)) + 1
    BY <1>3, <1>4, EntersAppended
  <1>6. \A u : u # t => Cardinality(EntersOf(s, u)) = Cardinality(EntersOf(events, u))
    <2> SUFFICES ASSUME NEW u, u # t
                 PROVE  Cardinality(EntersOf(s, u)) = Cardinality(EntersOf(events, u))
      OBVIOUS
    <2>1. ~(r.train = u /\ r.action = "enter")
      BY <1>4
    <2> QED
      BY <1>3, <1>4, <2>1, EntersAppended
  <1>7. events' = s \o Leave(current[t], e.time) \/ events' = s
    BY <1>2, <1>3 DEF Acquire
  <1>8. /\ s \o Leave(current[t], e.time) \in Seq(MeetEvents)
        /\ \A u : Cardinality(EntersOf(s \o Leave(current[t], e.time), u)) = Cardinality(EntersOf(s, u))
    BY <1>1, <1>5, Leaving
  <1>9. /\ events' \in Seq(MeetEvents)
        /\ \A u : Cardinality(EntersOf(events', u)) = Cardinality(EntersOf(s, u))
    BY <1>5, <1>7, <1>8
  <1>10. \A u : Passed(u) = Cardinality(EntersOf(events, u))
                /\ Passed(u)' = Cardinality(EntersOf(events', u))
    BY DEF Passed, EntersOf
  <1> QED
    BY <1>5, <1>6, <1>9, <1>10

\* What taking a block schedules, and does to the queues and the reservations:
\* the same whether the train comes from a block or from outside.
TakesAs(e, t, block, batch, width, m) ==
    /\ Process(e, batch, width) /\ width \in Nat /\ DOMAIN batch \subseteq 1..width
    /\ DOMAIN batch = DOMAIN Woken(current[t], e.time) \cup {m}
    /\ m \notin DOMAIN Woken(current[t], e.time)
    /\ batch[m] = At(e.time + scenario.running[block], Clear(t, e.event.step))
    /\ \A j \in DOMAIN Woken(current[t], e.time) : batch[j] = Woken(current[t], e.time)[j]
    /\ \A k \in Keys : waiters'[k] = WaitersAfter(current[t])[k]
    /\ held'[block] = t
    /\ \A b \in Blocks \ {block} : held'[b] = IF b = current[t] THEN Free ELSE held[b]

\* A train that takes a block has its clear event as the last of the batch.
LEMMA Taking ==
    ASSUME MeetInv, FutureInv, NEW e \in heap, NEW block, Acquire(e, block),
           NEW t, t = e.event.train
    PROVE  \E batch, width, m : TakesAs(e, t, block, batch, width, m)
  <1>1. /\ e.time \in Nat /\ t \in Trains /\ block \in Blocks
        /\ current[t] \in Blocks \cup {Outside} /\ current[t] # block
    BY Taker
  <1>2. PICK previous : previous = current[t]
    OBVIOUS
  <1>3. PICK R : R = Woken(previous, e.time)
    OBVIOUS
  <1>4. PICK n : n = Len(WakeKeys(previous))
    OBVIOUS
  <1>5. DOMAIN R \subseteq 1..n /\ n \in Nat
    <2>1. WakesAt(previous, Woken(previous, e.time), e.time)
      BY <1>1, <1>2, WokenQueuers
    <2>2. WakesAt(previous, R, e.time)
      BY <2>1, <1>3
    <2> QED
      BY <2>2, <1>4 DEF WakesAt, WakesQueuers
  <1>6. PICK clear : clear = At(e.time + scenario.running[block], Clear(t, e.event.step))
    OBVIOUS
  <1>7. DOMAIN held = Blocks
    BY DEF MeetInv, TypeOK
  <1>8. CASE previous # Outside
    <2>1. /\ held' = [held EXCEPT ![block] = t, ![previous] = Free]
          /\ waiters' = WaitersAfter(previous)
          /\ Process(e, Put(R, n + 1, clear), n + 1)
      BY <1>1, <1>2, <1>3, <1>4, <1>6, <1>8 DEF Acquire
    <2>2. PICK batch : batch = Put(R, n + 1, clear)
      OBVIOUS
    <2>3. /\ DOMAIN batch = DOMAIN R \cup {n + 1} /\ n + 1 \notin DOMAIN R
          /\ DOMAIN batch \subseteq 1..(n + 1) /\ n + 1 \in Nat
          /\ batch[n + 1] = clear /\ \A j \in DOMAIN R : batch[j] = R[j]
      BY <1>5, <2>2 DEF Put
    <2>4. /\ held'[block] = t
          /\ \A b \in Blocks \ {block} : held'[b] = IF b = previous THEN Free ELSE held[b]
      BY <1>1, <1>2, <1>7, <2>1
    <2>5. TakesAs(e, t, block, batch, n + 1, n + 1)
      <3>1. Process(e, batch, n + 1) /\ \A k \in Keys : waiters'[k] = WaitersAfter(previous)[k]
        BY <2>1, <2>2
      <3>2. current[t] = previous /\ Woken(current[t], e.time) = R
        BY <1>2, <1>3
      <3> QED
        BY <1>6, <2>3, <2>4, <3>1, <3>2 DEF TakesAs
    <2> QED
      BY <2>5
  <1>9. CASE previous = Outside
    <2>1. /\ held' = [held EXCEPT ![block] = t] /\ waiters' = waiters
          /\ Process(e, <<clear>>, 1)
      BY <1>1, <1>2, <1>6, <1>9 DEF Acquire
    <2>2. WakeKeys(previous) = <<>>
      BY <1>9, Strings DEF WakeKeys
    <2>3. n = 0 /\ DOMAIN R = {}
      BY <1>4, <1>5, <2>2
    <2>4. \A k \in Keys : waiters'[k] = WaitersAfter(previous)[k]
      <3>1. \A k \in Keys : previous \notin Wanted(k)
        BY <1>9, Strings DEF Wanted, Keys, Outside
      <3>2. \A k \in Keys : previous \notin Wanted(k) => WaitersAfter(previous)[k] = waiters[k]
        BY <1>1, <1>2, <1>9, WokenCalls DEF WakesQueuers
      <3> QED
        BY <2>1, <3>1, <3>2
    <2>5. PICK batch : batch = <<clear>>
      OBVIOUS
    <2>6. /\ DOMAIN batch = DOMAIN R \cup {1} /\ 1 \notin DOMAIN R
          /\ DOMAIN batch \subseteq 1..1 /\ 1 \in Nat
          /\ batch[1] = clear /\ \A j \in DOMAIN R : batch[j] = R[j]
      BY <2>3, <2>5
    <2>7. /\ held'[block] = t
          /\ \A b \in Blocks \ {block} : held'[b] = IF b = previous THEN Free ELSE held[b]
      BY <1>1, <1>7, <1>9, <2>1, Strings
    <2>8. TakesAs(e, t, block, batch, 1, 1)
      <3>1. Process(e, batch, 1)
        BY <2>1, <2>5
      <3>2. current[t] = previous /\ Woken(current[t], e.time) = R
        BY <1>2, <1>3
      <3> QED
        BY <1>6, <2>4, <2>6, <2>7, <3>1, <3>2 DEF TakesAs
    <2> QED
      BY <2>8
  <1> QED
    BY <1>8, <1>9

\* A free block that a train takes is no longer offered; what it vacates is.
LEMMA AcquireOffers ==
    ASSUME MeetInv, FutureInv, NEW e \in heap, NEW block, Acquire(e, block),
           NEW t, t = e.event.train, NEW batch, NEW width, NEW m,
           TakesAs(e, t, block, batch, width, m), Advance(e),
           heap' = (heap \ {e}) \cup NewEntries(batch),
           \A i \in DOMAIN batch : NewEntry(batch[i], i) \notin heap,
           NEW k \in Keys
    PROVE  Offered(k)'
  <1>1. PICK n, previous : n = e.event.step /\ previous = current[t]
    OBVIOUS
  <1>2. /\ t \in Trains /\ e.time \in Nat /\ n \in 1..3 /\ e.event.kind = "request"
        /\ block \in Wanted(Route(t)[n]) /\ block \in Blocks /\ held[block] = Free
        /\ previous \in Blocks \cup {Outside} /\ previous # block
        /\ n = 1 => previous = Outside
        /\ n > 1 => previous \in Blocks /\ previous \in Wanted(Route(t)[n - 1])
        /\ Route(t)[n] = "LOOP" /\ ~scenario.avoid => block = Through
    BY <1>1, Taker
  <1>3. /\ \A j \in DOMAIN Woken(previous, e.time) :
              j \in DOMAIN batch /\ batch[j] = Woken(previous, e.time)[j]
        /\ waiters'[k] = WaitersAfter(previous)[k]
        /\ held'[block] = t
        /\ \A b \in Blocks \ {block} : held'[b] = IF b = previous THEN Free ELSE held[b]
    BY <1>1 DEF TakesAs
  <1>4. WaitersAfter(previous)[k] \subseteq waiters[k]
        /\ (previous \notin Wanted(k) => WaitersAfter(previous)[k] = waiters[k])
    BY <1>2, WokenCalls DEF WakesQueuers
  <1>5. Wanted(k) \subseteq Blocks /\ Offered(k) /\ t # Free
    <2>1. Wanted(k) \subseteq Blocks
      BY Strings DEF Wanted, Keys
    <2> QED
      BY <1>2, <2>1, ScenarioTyping DEF FutureInv, MeetInv
  <1>6. /\ Wanted(k) \subseteq Wanted(SectionOf(k))
        /\ SectionOf(k) \in {"west_approach", "east_approach", "LOOP"}
        /\ Route(t)[n] \in {"west_approach", "east_approach", "LOOP"}
    BY <1>2, Sections
  <1>7. CASE SectionOf(k) # Route(t)[n]
    <2>1. e \notin Offers(k)
      BY <1>1, <1>7 DEF Offers, SectionOf
    <2>2. block \notin Wanted(k)
      <3>1. Wanted(SectionOf(k)) \cap Wanted(Route(t)[n]) = {}
        BY <1>6, <1>7, Sections
      <3> QED
        BY <1>2, <1>6, <3>1
    <2>3. CASE previous \in Wanted(k)
      <3>1. \A b \in Wanted(k) \ {previous} : held'[b] = held[b]
        BY <1>3, <1>5, <2>2
      <3>2. previous \in Blocks
        BY <1>5, <2>3
      <3>3. waiters'[k] \subseteq waiters[k]
        BY <1>3, <1>4
      <3>4. waiters[k] # {} => \E g \in Offers(k)' : g \notin heap
        <4> SUFFICES ASSUME waiters[k] # {} PROVE \E g \in Offers(k)' : g \notin heap
          OBVIOUS
        <4>1. now' = e.time /\ scenario' = scenario
          BY DEF Advance
        <4> QED
          BY <1>2, <1>3, <2>3, <3>2, <4>1, WokenOffers
      <3> QED
        BY <1>5, <2>1, <2>3, <3>1, <3>3, <3>4, OfferedFreed
    <2>4. CASE previous \notin Wanted(k)
      <3>1. \A b \in Wanted(k) : held'[b] = held[b]
        BY <1>3, <1>5, <2>2, <2>4
      <3>2. waiters'[k] = waiters[k]
        BY <1>3, <1>4, <2>4
      <3> QED
        BY <1>5, <2>1, <3>1, <3>2, OfferedKept
    <2> QED
      BY <2>3, <2>4
  <1>8. CASE SectionOf(k) = Route(t)[n] /\ Route(t)[n] # "LOOP"
    <2>1. k = Route(t)[n] /\ k # "LOOP"
      BY <1>8 DEF SectionOf
    <2>2. Wanted(k) = {block}
      BY <1>2, <2>1 DEF Wanted
    <2>3. \A b \in Wanted(k)' : held'[b] # Free
      BY <1>3, <1>5, <2>2 DEF Wanted
    <2> QED
      BY <2>1, <2>3 DEF Offered
  <1>9. CASE SectionOf(k) = Route(t)[n] /\ Route(t)[n] = "LOOP"
    <2> SUFFICES ASSUME waiters'[k] # {} PROVE Offered(k)'
      BY DEF Offered
    <2>1. waiters[k] # {} /\ k \in Tracks \cup {"LOOP"}
      BY <1>3, <1>4, <1>9 DEF SectionOf
    <2>2. k = IF scenario.avoid THEN "LOOP" ELSE Through
      BY <2>1, LoopQueue
    <2>3. block \in Tracks
      BY <1>2, <1>9 DEF Wanted
    <2>4. CASE ~scenario.avoid
      <3>1. k = Through /\ block = Through /\ k # "LOOP"
        BY <1>2, <1>9, <2>2, <2>4 DEF Through
      <3>2. \A b \in Wanted(k)' : held'[b] # Free
        BY <1>3, <1>5, <3>1 DEF Wanted
      <3> QED
        BY <3>1, <3>2 DEF Offered
    <2>5. CASE scenario.avoid
      <3>1. k = "LOOP" /\ Wanted(k) = Tracks /\ Wanted(k)' = Tracks
        BY <2>2, <2>5 DEF Wanted
      <3>2. previous \notin Tracks
        <4>1. n = 2
          BY <1>2, <1>9, Routes
        <4>2. previous \in Wanted(Route(t)[1])
          BY <1>2, <4>1
        <4>3. Wanted(Route(t)[1]) \cap Tracks = {}
          BY Routes DEF Wanted, Tracks, Through, Passing
        <4> QED
          BY <4>2, <4>3
      <3>3. ~\A b \in Tracks : held'[b] = Free
        BY <1>3, <1>5, <2>3
      <3>4. ASSUME NEW b \in Tracks, held'[b] = Free PROVE Offers(k)' # {}
        <4>1. b # block /\ b # previous /\ b \in Blocks
          BY <1>3, <1>5, <3>2, <3>4, Strings
        <4>2. held[b] = Free
          BY <1>3, <3>4, <4>1
        <4>3. \A c \in Tracks : held[c] = Free
          BY <1>2, <2>3, <3>4, <4>1, <4>2 DEF Tracks
        <4>4. PICK f \in Offers(k), g \in Offers(k) : f # g
          BY <1>5, <2>1, <3>1, <4>3 DEF Offered
        <4>5. CASE f # e
          BY <4>5, OfferKept
        <4>6. CASE g # e
          BY <4>6, OfferKept
        <4> QED
          BY <4>4, <4>5, <4>6
      <3> QED
        BY <3>1, <3>3, <3>4 DEF Offered
    <2> QED
      BY <2>4, <2>5
  <1> QED
    BY <1>7, <1>8, <1>9

\* A train that takes a block has that block's end before it, and wakes the
\* heads of the queues for the block behind.
LEMMA AcquireFuture ==
    ASSUME MeetInv, FutureInv, NEW e \in heap, NEW block, Acquire(e, block)
    PROVE  FutureInv'
  <1>1. PICK t, n, previous : t = e.event.train /\ n = e.event.step /\ previous = current[t]
    OBVIOUS
  <1>2. /\ t \in Trains /\ t \notin done /\ Pending(t) = {e} /\ Position(t) /\ e.time \in Nat
        /\ \A k \in Keys : WaitsIn(k, t) = {}
        /\ n \in 1..3 /\ n = Passed(t) + 1
        /\ block \in Wanted(Route(t)[n]) /\ block \in Blocks
        /\ previous \in Blocks \cup {Outside}
    <2>1. t = e.event.train /\ n = e.event.step
      BY <1>1
    <2>2. /\ t \in Trains /\ t \notin done /\ Pending(t) = {e} /\ Position(t) /\ e.time \in Nat
          /\ \A k \in Keys : WaitsIn(k, t) = {}
      BY <2>1, Acting
    <2>3. /\ n \in 1..3 /\ n = Passed(t) + 1
          /\ block \in Wanted(Route(t)[n]) /\ block \in Blocks
          /\ current[t] \in Blocks \cup {Outside}
      BY <2>1, Taker
    <2> QED
      BY <1>1, <2>2, <2>3
  <1>3. PICK batch, width, m : TakesAs(e, t, block, batch, width, m)
    BY <1>1, Taking
  <1>4. PICK R : R = Woken(previous, e.time)
    OBVIOUS
  <1>5. PICK clear : clear = At(e.time + scenario.running[block], Clear(t, n))
    OBVIOUS
  <1>6. /\ Process(e, batch, width) /\ width \in Nat /\ DOMAIN batch \subseteq 1..width
        /\ DOMAIN batch = DOMAIN R \cup {m} /\ m \notin DOMAIN R
        /\ batch[m] = clear /\ \A j \in DOMAIN R : batch[j] = R[j]
        /\ \A k \in Keys : waiters'[k] = WaitersAfter(previous)[k]
    BY <1>1, <1>3, <1>4, <1>5 DEF TakesAs
  <1>7. /\ scenario' = scenario /\ Trains' = Trains /\ done' = done
        /\ current' = [current EXCEPT ![t] = block]
        /\ loopTrack' = IF Route(t)[n] = "LOOP" THEN Put(loopTrack, t, block) ELSE loopTrack
    BY <1>1 DEF Acquire, Trains
  <1>8. /\ clear.time \in Nat /\ clear.time >= e.time /\ clear.event = Clear(t, n)
        /\ clear.event \in MeetCalls /\ clear.event.train = t
    <2>1. scenario.running[block] \in Nat
      BY <1>2, ScenarioTyping DEF MeetInv
    <2>2. clear.time = e.time + scenario.running[block] /\ clear.event = Clear(t, n)
      BY <1>5 DEF At
    <2>3. Clear(t, n) \in MeetCalls
      BY <1>2, CallsOf
    <2>4. Clear(t, n).train = t
      BY DEF Clear
    <2> QED
      BY <1>2, <2>1, <2>2, <2>3, <2>4
  <1>9. /\ \A j \in DOMAIN R : R[j].time = e.time
        /\ \A j \in DOMAIN R : R[j].event \in MeetCalls
        /\ \A j \in DOMAIN R : \E k \in Keys : WaitsIn(k, R[j].event.train) # {}
        /\ \A k \in Keys : WaitersAfter(previous)[k] \subseteq waiters[k]
    <2>1. WakesAt(previous, Woken(previous, e.time), e.time)
      BY <1>2, WokenQueuers
    <2>2. WakesAt(previous, R, e.time)
      BY <2>1, <1>4
    <2> QED
      BY <2>2 DEF WakesAt, WakesQueuers
  <1>10. /\ QueueOf(MeetCalls)' /\ Advance(e)
         /\ heap' = (heap \ {e}) \cup NewEntries(batch)
         /\ \A i \in DOMAIN batch : NewEntry(batch[i], i) \notin heap
    <2>1. /\ \A i \in DOMAIN batch : batch[i].time \in Nat /\ batch[i].event \in MeetCalls
          /\ \A i \in DOMAIN batch : batch[i].time >= e.time
      BY <1>2, <1>6, <1>8, <1>9
    <2>2. QueueOf(MeetCalls) /\ scenario' = scenario
      BY <1>7 DEF FutureInv
    <2> QED
      BY <1>6, <2>1, <2>2, Scheduling
  <1>11. /\ events' \in Seq(MeetEvents)
         /\ Passed(t)' = n /\ \A u : u # t => Passed(u)' = Passed(u)
    BY <1>1, <1>2, AcquireLog
  <1>12. current \in [Trains -> Blocks \cup {Outside}]
    BY DEF MeetInv, TypeOK
  <1>13. ASSUME NEW u \in Trains PROVE Position(u)'
    <2>1. Position(u)
      BY DEF FutureInv
    <2>2. CASE u # t
      <3>1. current'[u] = current[u] /\ (u \in DOMAIN loopTrack' => u \in DOMAIN loopTrack)
        BY <1>7, <1>12, <2>2 DEF Put
      <3> QED
        BY <1>7, <1>11, <2>1, <2>2, <3>1, PositionKept
    <2>3. CASE u = t
      <3>1. current'[t] = block /\ t \notin done' /\ Passed(t)' = n
        BY <1>2, <1>7, <1>11, <1>12
      <3>2. t \in DOMAIN loopTrack' => n >= 2
        <4>1. CASE Route(t)[n] = "LOOP"
          BY <1>2, <4>1, Routes
        <4>2. CASE Route(t)[n] # "LOOP"
          BY <1>2, <1>7, <4>2 DEF Position
        <4> QED
          BY <4>1, <4>2
      <3>3. Wanted(Route(t)[n])' = Wanted(Route(t)[n]) /\ Route(t)' = Route(t)
        BY <1>7 DEF Wanted, Route
      <3>4. current'[t] \in Wanted(Route(t)'[n])
        BY <1>2, <3>1, <3>3
      <3> QED
        BY <1>2, <2>3, <3>1, <3>2, <3>4 DEF Position, Wanted
    <2> QED
      BY <2>2, <2>3
  <1>14. ASSUME NEW u \in Trains PROVE Future(u)'
    <2>1. CASE u # t
      <3>1. u \in done' <=> u \in done
        BY <1>7
      <3>2. e.event.train # u /\ Passed(u)' = Passed(u) /\ scenario' = scenario
        BY <1>1, <1>7, <1>11, <2>1
      <3>3. /\ \A j \in DOMAIN Woken(previous, e.time) :
                    j \in DOMAIN batch /\ batch[j] = Woken(previous, e.time)[j]
            /\ \A j \in DOMAIN batch \ DOMAIN Woken(previous, e.time) : batch[j].event.train # u
        BY <1>4, <1>6, <1>8, <2>1
      <3>4. heap' = (heap \ {e}) \cup NewEntries(batch) /\ e.time \in Nat
            /\ previous \in Blocks \cup {Outside}
            /\ \A k \in Keys : waiters'[k] = WaitersAfter(previous)[k]
        BY <1>2, <1>6, <1>10
      <3> QED
        BY <3>1, <3>2, <3>3, <3>4, Bystander
    <2>2. CASE u = t
      <3>1. \A j \in DOMAIN R : batch[j].event.train # t
        BY <1>2, <1>6, <1>9
      <3>2. PICK f : f = NewEntry(batch[m], m)
        OBVIOUS
      <3>3. f.event = Clear(t, n) /\ f.event.train = t /\ f \in NewEntries(batch)
        BY <1>6, <1>8, <3>2 DEF NewEntry, NewEntries
      <3>4. \A g \in NewEntries(batch) : g.event.train = t => g = f
        <4> SUFFICES ASSUME NEW g \in NewEntries(batch), g.event.train = t PROVE g = f
          OBVIOUS
        <4>1. PICK j \in DOMAIN batch : g = NewEntry(batch[j], j)
          BY DEF NewEntries
        <4>2. batch[j].event.train = t
          BY <4>1 DEF NewEntry
        <4>3. j = m
          BY <1>6, <3>1, <4>2
        <4> QED
          BY <3>2, <4>1, <4>3
      <3>5. Pending(t)' = {f} /\ f \in heap'
        BY <1>2, <1>10, <3>3, <3>4 DEF Pending
      <3>6. \A k \in Keys : WaitsIn(k, t)' = {}
        BY <1>2, <1>6, <1>9 DEF WaitsIn
      <3>7. t \notin done' /\ Passed(t)' > 0 /\ f.event = Clear(t, Passed(t)')
        BY <1>2, <1>7, <1>11, <3>3
      <3>8. Moving(t)'
        BY <3>5, <3>6, <3>7 DEF Moving, Clear
      <3> QED
        BY <2>2, <3>8 DEF Future
    <2> QED
      BY <2>1, <2>2
  <1>15. ASSUME NEW k \in Keys PROVE Offered(k)'
    <2>1. /\ t = e.event.train /\ TakesAs(e, t, block, batch, width, m) /\ Advance(e)
          /\ heap' = (heap \ {e}) \cup NewEntries(batch)
          /\ \A i \in DOMAIN batch : NewEntry(batch[i], i) \notin heap
      BY <1>1, <1>3, <1>10
    <2> QED
      BY <2>1, AcquireOffers
  <1>16. MeetEvents' = MeetEvents
    BY <1>7 DEF MeetEvents
  <1> QED
    BY <1>7, <1>10, <1>11, <1>13, <1>14, <1>15, <1>16 DEF FutureInv

\* Before the first event every train asks for its first section.
LEMMA InitFuture == Init => FutureInv
  <1> SUFFICES ASSUME Init PROVE FutureInv
    OBVIOUS
  <1>1. MeetInv /\ scenario \in Scenarios
    BY InitInv DEF MeetInv
  <1> DEFINE batch == [t \in Trains |-> At(scenario.trains[t].entry, Request(t, 1))]
             width == Len(scenario.trains)
  <1>2. /\ width \in Nat /\ DOMAIN batch = Trains /\ DOMAIN batch \subseteq 1..width
        /\ \A t \in Trains : scenario.trains[t].entry \in Nat
    BY <1>1, ScenarioTyping
  <1>3. \A t \in Trains : /\ batch[t].time \in Nat /\ batch[t].event = Request(t, 1)
                         /\ batch[t].event \in MeetCalls
    BY <1>2, CallsOf DEF At
  <1>4. QueueInit(batch, width)
    BY DEF Init
  <1>5. /\ held = [b \in Blocks |-> Free] /\ current = [t \in Trains |-> Outside]
        /\ loopTrack = <<>> /\ done = {} /\ events = <<>>
        /\ \A k \in Keys : waiters[k] = {}
    BY DEF Init, Keys
  <1> HIDE DEF batch, width
  <1>6. QueueOf(MeetCalls) /\ heap = FirstEntries(batch)
    BY <1>2, <1>3, <1>4, CausalInit
  <1>7. events \in Seq(MeetEvents)
    BY <1>5
  <1>8. \A t : Passed(t) = 0
    <2>1. \A t : {n \in DOMAIN events : events[n].train = t /\ events[n].action = "enter"} = {}
      BY <1>5
    <2> QED
      BY <2>1, FS_EmptySet DEF Passed
  <1>9. ASSUME NEW t \in Trains PROVE Position(t) /\ Future(t)
    <2>1. Position(t)
      BY <1>5, <1>8 DEF Position
    <2>2. PICK f : f = FirstEntry(batch[t], t)
      OBVIOUS
    <2>3. f.event = Request(t, 1) /\ f.event.train = t /\ f \in heap
      BY <1>2, <1>3, <1>6, <2>2 DEF FirstEntry, FirstEntries, Request
    <2>4. \A g \in heap : g.event.train = t => g = f
      <3> SUFFICES ASSUME NEW g \in heap, g.event.train = t PROVE g = f
        OBVIOUS
      <3>1. PICK u \in DOMAIN batch : g = FirstEntry(batch[u], u)
        BY <1>6 DEF FirstEntries
      <3>2. g.event = Request(u, 1)
        BY <1>2, <1>3, <3>1 DEF FirstEntry
      <3>3. u = t
        BY <3>2 DEF Request
      <3> QED
        BY <2>2, <3>1, <3>3
    <2>5. Pending(t) = {f}
      BY <2>3, <2>4 DEF Pending
    <2>6. \A k \in Keys : WaitsIn(k, t) = {}
      BY <1>5 DEF WaitsIn
    <2>7. t \notin done /\ f.event = Request(t, Passed(t) + 1)
      BY <1>5, <1>8, <2>3
    <2>8. Moving(t)
      BY <2>3, <2>5, <2>6, <2>7 DEF Moving
    <2> QED
      BY <2>1, <2>8 DEF Future
  <1>10. \A k \in Keys : Offered(k)
    BY <1>5 DEF Offered
  <1> QED
    BY <1>6, <1>7, <1>9, <1>10 DEF FutureInv

\* Nothing changes when the run is over.
LEMMA StutterFuture ==
    ASSUME FutureInv, UNCHANGED vars
    PROVE  FutureInv'
  <1>1. UNCHANGED <<heap, sequence, now, raised, scenario, held, current, loopTrack, waiters,
                    counter, done, events>>
    BY DEF vars
  <1>2. /\ MeetCalls' = MeetCalls /\ MeetEvents' = MeetEvents /\ Trains' = Trains
        /\ \A t : Passed(t)' = Passed(t)
    BY <1>1 DEF MeetCalls, MeetEvents, Trains, Passed
  <1>3. QueueOf(MeetCalls)'
    BY <1>1, <1>2 DEF FutureInv, QueueOf
  <1>4. ASSUME NEW t \in Trains PROVE Position(t)' /\ Future(t)'
    <2>1. Position(t) /\ Future(t)
      BY DEF FutureInv
    <2>2. Pending(t)' = Pending(t) /\ \A k \in Keys : WaitsIn(k, t)' = WaitsIn(k, t)
      BY <1>1 DEF Pending, WaitsIn
    <2>3. Position(t)'
      BY <1>1, <1>2, <2>1, PositionKept
    <2> QED
      BY <1>1, <1>2, <2>1, <2>2, <2>3, FutureKept
  <1>5. ASSUME NEW k \in Keys PROVE Offered(k)'
    <2>1. Offered(k) /\ Offers(k)' = Offers(k) /\ Wanted(k)' = Wanted(k)
      BY <1>1 DEF FutureInv, Offers, Route, Wanted
    <2> QED
      BY <1>1, <2>1 DEF Offered
  <1> QED
    BY <1>1, <1>2, <1>3, <1>4, <1>5 DEF FutureInv

\* Every train that has not left the zone moves or stands in the queue for its
\* next section, every queue is offered the blocks that are free, and the log
\* counts the sections a train has entered: an inductive invariant for any
\* number of trains and both policies.
THEOREM MeetFutures == Spec => []FutureInv
  <1>1. ASSUME MeetInv, FutureInv, [Next]_vars PROVE FutureInv'
    <2>1. CASE Turn
      <3>1. PICK e \in heap : \/ Exit(e)
                              \/ \E block \in Blocks \cup {"LOOP"} :
                                    Wait(e, block) \/ Acquire(e, block)
                              \/ AtEnd(e)
        BY <2>1 DEF Turn
      <3> QED
        BY <1>1, <3>1, ExitFuture, WaitFuture, AcquireFuture, AtEndFuture
    <2>2. CASE UNCHANGED vars
      BY <1>1, <2>2, StutterFuture
    <2> QED
      BY <1>1, <2>1, <2>2 DEF Next, Finished
  <1> QED
    BY <1>1, InitFuture, MeetInvariant, PTL DEF Spec

\* A train that has not left the zone has exactly one future: a pending event
\* or a place in one queue.
THEOREM OneFutureEach == Spec => []OneFuture
  <1>1. ASSUME MeetInv, FutureInv PROVE OneFuture
    <2> SUFFICES ASSUME NEW t \in Trains
                 PROVE  LET pending == {e \in heap : e.event.train = t}
                            queued == {k \in DOMAIN waiters : \E w \in waiters[k] : w.train = t}
                        IN Cardinality(pending) + Cardinality(queued) = IF t \in done THEN 0 ELSE 1
      BY DEF OneFuture
    <2> DEFINE queued == {k \in DOMAIN waiters : \E w \in waiters[k] : w.train = t}
    <2>1. queued = {k \in Keys : WaitsIn(k, t) # {}}
      BY <1>1 DEF MeetInv, Queued, WaitsIn
    <2> HIDE DEF queued
    <2>2. Cardinality({}) = 0 /\ \A x : Cardinality({x}) = 1
      BY FS_EmptySet, FS_Singleton
    <2>3. Cardinality(Pending(t)) + Cardinality(queued) = IF t \in done THEN 0 ELSE 1
      <3>1. CASE Moving(t)
        <4>1. t \notin done /\ queued = {} /\ \E e : Pending(t) = {e}
          <5>1. t \notin done /\ (\A k \in Keys : WaitsIn(k, t) = {}) /\ \E e : Pending(t) = {e}
            BY <3>1 DEF Moving
          <5> QED
            BY <2>1, <5>1
        <4>2. PICK e : Pending(t) = {e}
          BY <4>1
        <4>3. Cardinality(Pending(t)) = 1 /\ Cardinality(queued) = 0
          BY <2>2, <4>1, <4>2
        <4> QED
          BY <4>1, <4>3
      <3>2. CASE Standing(t)
        <4>1. PICK k \in Keys : /\ \E w \in waiters[k] : WaitsIn(k, t) = {w}
                                /\ \A l \in Keys \ {k} : WaitsIn(l, t) = {}
          BY <3>2 DEF Standing
        <4>2. t \notin done /\ Pending(t) = {}
          BY <3>2 DEF Standing
        <4>3. queued = {k}
          BY <2>1, <4>1
        <4>4. Cardinality(Pending(t)) = 0 /\ Cardinality(queued) = 1
          BY <2>2, <4>2, <4>3
        <4> QED
          BY <4>2, <4>4
      <3>3. CASE Gone(t)
        <4>1. t \in done /\ Pending(t) = {} /\ queued = {}
          BY <2>1, <3>3 DEF Gone
        <4> QED
          BY <2>2, <4>1
      <3> QED
        BY <1>1, <3>1, <3>2, <3>3 DEF FutureInv, Future
    <2> QED
      BY <2>3 DEF Pending, queued
  <1> QED
    BY <1>1, MeetInvariant, MeetFutures, PTL

\* No lost wake-up: while trains queue for a block it is taken, or a request
\* for it is pending at this very instant.
THEOREM WakeupsAreKept == Spec => []NoLostWakeup
  <1>1. ASSUME MeetInv, FutureInv PROVE NoLostWakeup
    <2> SUFFICES ASSUME NEW k \in Keys, waiters[k] # {}, ~\A b \in Wanted(k) : held[b] # Free
                 PROVE  \E e \in heap :
                            /\ e.event.kind = "request" /\ e.time = now /\ e.event.step <= 3
                            /\ Route(e.event.train)[e.event.step]
                                    = IF k \in Tracks THEN "LOOP" ELSE k
      BY <1>1 DEF NoLostWakeup, MeetInv, Queued
    <2>1. Offers(k) # {}
      BY <1>1 DEF FutureInv, Offered
    <2> QED
      BY <2>1 DEF Offers
  <1> QED
    BY <1>1, MeetInvariant, MeetFutures, PTL

\* A train that is stuck when the queue has drained waits for blocks that
\* other stuck trains are in.
LEMMA StuckTrain ==
    ASSUME MeetInv, FutureInv, heap = {}, NEW t \in Undone
    PROVE  \E k \in DOMAIN waiters :
            /\ \E w \in waiters[k] : w.train = t
            /\ Position(t) /\ Passed(t) \in 0..2 /\ k = Queue(t, Passed(t) + 1)
            /\ \A b \in Wanted(k) : /\ held[b] \in Undone \ {t} /\ current[held[b]] = b
                                    /\ b \in Blocks /\ b \in Wanted(Route(t)[Passed(t) + 1])
  <1>1. t \in Trains /\ t \notin done
    BY DEF Undone
  <1>2. Standing(t) /\ Position(t)
    BY <1>1 DEF FutureInv, Future, Moving, Gone
  <1>3. PICK k \in Keys : /\ k = Queue(t, Passed(t) + 1)
                          /\ \E w \in waiters[k] : WaitsIn(k, t) = {w}
    BY <1>2 DEF Standing
  <1>4. \E w \in waiters[k] : w.train = t
    BY <1>3 DEF WaitsIn
  <1>5. \A b \in Wanted(k) : held[b] # Free
    <2>1. Offers(k) = {}
      BY DEF Offers
    <2> QED
      BY <1>4, <2>1 DEF FutureInv, Offered
  <1>6. ASSUME NEW b \in Wanted(k)
        PROVE  /\ held[b] \in Undone \ {t} /\ current[held[b]] = b
               /\ b \in Blocks /\ b \in Wanted(Route(t)[Passed(t) + 1])
    <2>1. b \in Blocks
      BY Strings DEF Wanted, Keys
    <2>2. PICK u : u = held[b]
      OBVIOUS
    <2>3. u \in Trains /\ current[u] = b
      BY <1>5, <2>1, <2>2 DEF MeetInv, TypeOK, HoldsItsBlock
    <2>4. u \notin done
      BY <2>1, <2>3, Strings DEF FutureInv, Position
    <2>5. b \in Wanted(Route(t)[Passed(t) + 1])
      <3>1. PICK r : r = Route(t)[Passed(t) + 1]
        OBVIOUS
      <3>2. CASE r # "LOOP"
        BY <1>3, <3>1, <3>2 DEF Queue
      <3>3. CASE r = "LOOP"
        BY <1>3, <3>1, <3>3, Strings DEF Queue, Wanted, Tracks
      <3> QED
        BY <3>1, <3>2, <3>3
    <2>6. u # t
      <3> SUFFICES ASSUME u = t PROVE FALSE
        OBVIOUS
      <3>1. PICK n \in 1..3 : n = Passed(t) + 1
        BY <1>2 DEF Standing, Position
      <3>2. b \in Wanted(Route(t)[n])
        BY <2>5, <3>1
      <3>3. n > 1 /\ b \in Wanted(Route(t)[n - 1])
        <4>1. Passed(t) # 0
          <5>1. current[t] # Outside
            BY <2>1, <2>3, Strings
          <5> QED
            BY <1>1, <1>2, <5>1, ComesFrom
        <4>2. Passed(t) = n - 1 /\ Passed(t) > 0
          BY <1>2, <3>1, <4>1 DEF Position
        <4>3. current[t] \in Wanted(Route(t)[Passed(t)])
          BY <1>1, <1>2, <4>2, ComesFrom
        <4> QED
          BY <2>3, <3>1, <4>2, <4>3
      <3>4. n - 1 \in 1..3
        BY <3>3
      <3>5. /\ Route(t)[n] \in {"west_approach", "east_approach", "LOOP"}
            /\ Route(t)[n - 1] \in {"west_approach", "east_approach", "LOOP"}
            /\ Route(t)[n - 1] # Route(t)[n]
        BY <3>3, <3>4, Sections
      <3> QED
        BY <3>2, <3>3, <3>5, Sections
    <2> QED
      BY <2>1, <2>2, <2>3, <2>4, <2>5, <2>6 DEF Undone
  <1>7. k \in DOMAIN waiters
    BY DEF MeetInv, Queued
  <1> QED
    BY <1>2, <1>3, <1>4, <1>6, <1>7 DEF Standing, Position

\* When the queue drains with trains still in the zone, each of them waits for
\* blocks that others of them hold: nothing else ever stops a train.
THEOREM StuckOnlyInACircle == Spec => []StuckIsCircular
  <1>1. ASSUME MeetInv, FutureInv PROVE StuckIsCircular
    BY <1>1, StuckTrain DEF StuckIsCircular
  <1> QED
    BY <1>1, MeetInvariant, MeetFutures, PTL

\* The section a stuck train is in.
LEMMA StuckIn ==
    ASSUME MeetInv, FutureInv, heap = {}, NEW u \in Undone, NEW b \in Blocks, current[u] = b
    PROVE  Passed(u) \in 1..2 /\ b \in Wanted(Route(u)[Passed(u)])
  <1>1. Position(u) /\ Passed(u) \in 0..2 /\ u \notin done
    BY StuckTrain DEF Undone
  <1>2. current[u] # Outside
    BY Strings
  <1>3. Passed(u) # 0
    BY <1>1, <1>2, ComesFrom
  <1> QED
    BY <1>1, <1>3, ComesFrom

\* Trains in one direction wait for the train ahead, and the first for none.
LEMMA OneWayIsFree ==
    ASSUME MeetInv, FutureInv, heap = {}, NEW direction, Trains = Towards(direction)
    PROVE  Undone = {}
  <1>1. ASSUME NEW t \in Undone
        PROVE  Passed(t) \in 0..2 /\ \E u \in Undone : Passed(u) = Passed(t) + 1
    <2>1. PICK k : /\ Passed(t) \in 0..2 /\ k = Queue(t, Passed(t) + 1)
                   /\ \A b \in Wanted(k) : /\ held[b] \in Undone \ {t} /\ current[held[b]] = b
                                           /\ b \in Blocks /\ b \in Wanted(Route(t)[Passed(t) + 1])
      BY StuckTrain
    <2>2. PICK b : b \in Wanted(k)
      BY DEF Wanted, Tracks
    <2>3. PICK u : u = held[b] /\ u \in Undone /\ current[u] = b /\ b \in Blocks
      BY <2>1, <2>2
    <2>4. Passed(u) \in 1..2 /\ b \in Wanted(Route(u)[Passed(u)])
      BY <2>3, StuckIn
    <2>5. Route(u) = Route(t)
      <3>1. t \in Towards(direction) /\ u \in Towards(direction)
        BY <2>3 DEF Undone
      <3> QED
        BY <3>1 DEF Towards, Route
    <2>6. PICK m, n : m = Passed(t) + 1 /\ n = Passed(u)
      OBVIOUS
    <2>7. /\ m \in 1..3 /\ n \in 1..3
          /\ b \in Wanted(Route(t)[m]) /\ b \in Wanted(Route(t)[n])
      BY <2>1, <2>2, <2>4, <2>5, <2>6
    <2>8. Route(t)[m] = Route(t)[n]
      BY <2>7, Sections
    <2>9. m = n
      BY <2>7, <2>8, Strings DEF Route
    <2> QED
      BY <2>1, <2>3, <2>6, <2>9
  <1>2. \A t \in Undone : Passed(t) # 2
    <2> SUFFICES ASSUME NEW t \in Undone, Passed(t) = 2 PROVE FALSE
      OBVIOUS
    <2>1. PICK u \in Undone : Passed(u) = 3
      BY <1>1
    <2> QED
      BY <1>1, <2>1
  <1>3. \A t \in Undone : Passed(t) # 1
    <2> SUFFICES ASSUME NEW t \in Undone, Passed(t) = 1 PROVE FALSE
      OBVIOUS
    <2>1. PICK u \in Undone : Passed(u) = 2
      BY <1>1
    <2> QED
      BY <1>2, <2>1
  <1>4. \A t \in Undone : Passed(t) # 0
    <2> SUFFICES ASSUME NEW t \in Undone, Passed(t) = 0 PROVE FALSE
      OBVIOUS
    <2>1. PICK u \in Undone : Passed(u) = 1
      BY <1>1
    <2> QED
      BY <1>3, <2>1
  <1> QED
    BY <1>1, <1>2, <1>3, <1>4

\* Two trains that avoid each other at the loop: none waits there, because the
\* other cannot hold both tracks, and who waits elsewhere waits for nobody.
LEMMA TwoAreFree ==
    ASSUME MeetInv, FutureInv, heap = {}, scenario.avoid, Cardinality(Trains) <= 2
    PROVE  Undone = {}
  <1>1. ASSUME NEW t \in Trains, NEW u \in Trains, NEW v \in Trains, t # u, u # v, t # v PROVE FALSE
    <2>1. Trains = 1..Len(scenario.trains) /\ Len(scenario.trains) \in Nat
      BY ScenarioTyping DEF MeetInv
    <2>2. Len(scenario.trains) <= 2
      <3>1. PICK n \in Nat : n = Len(scenario.trains)
        BY <2>1
      <3>2. Cardinality(1..n) = n
        <4>1. 1 \in Int /\ n \in Int
          BY <3>1
        <4>2. Cardinality(1..n) = IF 1 > n THEN 0 ELSE n - 1 + 1
          BY <4>1, FS_Interval, Zenon
        <4> QED
          BY <3>1, <4>2
      <3>3. Trains = 1..n
        BY <2>1, <3>1
      <3>4. n <= 2
        BY <3>2, <3>3
      <3> QED
        BY <2>1, <3>1, <3>4
    <2>3. t \in {1, 2} /\ u \in {1, 2} /\ v \in {1, 2}
      BY <2>1, <2>2
    <2> QED
      BY <1>1, <2>3
  <1>2. ASSUME NEW t \in Undone
        PROVE  Passed(t) \in {0, 2} /\ \E u \in Undone : Passed(u) = 1
    <2>1. PICK k : /\ Passed(t) \in 0..2 /\ k = Queue(t, Passed(t) + 1)
                   /\ \A b \in Wanted(k) : /\ held[b] \in Undone \ {t} /\ current[held[b]] = b
                                           /\ b \in Blocks /\ b \in Wanted(Route(t)[Passed(t) + 1])
      BY StuckTrain
    <2>2. k # "LOOP"
      <3> SUFFICES ASSUME k = "LOOP" PROVE FALSE
        OBVIOUS
      <3>1. Through \in Wanted(k) /\ Passing \in Wanted(k) /\ Through # Passing
        BY DEF Wanted, Tracks, Through, Passing
      <3>2. PICK u, v : u = held[Through] /\ v = held[Passing]
        OBVIOUS
      <3>3. u \in Undone \ {t} /\ v \in Undone \ {t} /\ current[u] = Through /\ current[v] = Passing
        BY <2>1, <3>1, <3>2
      <3> QED
        BY <1>1, <3>1, <3>3 DEF Undone
    <2>3. Route(t)[Passed(t) + 1] # "LOOP" /\ k = Route(t)[Passed(t) + 1] /\ Wanted(k) = {k}
      BY <2>1, <2>2 DEF Queue, Wanted
    <2>4. Passed(t) # 1
      <3>1. Route(t)[2] = "LOOP"
        BY Routes
      <3> QED
        BY <2>3, <3>1
    <2>5. PICK u : u = held[k] /\ u \in Undone /\ current[u] = k /\ k \in Blocks
      BY <2>1, <2>3
    <2>6. Passed(u) \in 1..2 /\ k \in Wanted(Route(u)[Passed(u)])
      BY <2>5, StuckIn
    <2>7. Passed(u) # 2
      <3>1. Route(u)[2] = "LOOP" /\ k \in {"west_approach", "east_approach"}
        <4>1. PICK n : n = Passed(t) + 1 /\ n \in 1..3
          BY <2>1
        <4>2. Route(t)[n] \in {"west_approach", "east_approach", "LOOP"}
          BY <4>1, Sections
        <4> QED
          BY <2>3, <4>1, <4>2, Routes
      <3>2. k \notin Wanted("LOOP")
        BY <3>1, Strings DEF Wanted, Tracks, Through, Passing
      <3> QED
        BY <2>6, <3>1, <3>2
    <2> QED
      BY <2>1, <2>4, <2>5, <2>6, <2>7
  <1>3. ASSUME NEW t \in Undone PROVE FALSE
    <2>1. PICK u \in Undone : Passed(u) = 1
      BY <1>2
    <2>2. Passed(u) \in {0, 2}
      BY <1>2
    <2> QED
      BY <2>1, <2>2
  <1> QED
    BY <1>3

\* The trains that get by each other: any number in one direction, under
\* either policy, and two that avoid each other.
GetBy == Trains \in {Towards("WE"), Towards("EW")} \/ (scenario.avoid /\ Cardinality(Trains) <= 2)

\* They have all left the zone when the queue has drained: it takes three
\* trains, or the naive policy, to deadlock.
THEOREM MeetsEnd == Spec => [](heap = {} /\ GetBy => done = Trains)
  <1>1. MeetInv /\ heap = {} /\ Undone = {} => done = Trains
    BY DEF MeetInv, TypeOK, Undone
  <1>2. ASSUME MeetInv, FutureInv, heap = {}, GetBy PROVE done = Trains
    <2>1. CASE Trains \in {Towards("WE"), Towards("EW")}
      BY <1>1, <1>2, <2>1, OneWayIsFree
    <2>2. CASE scenario.avoid /\ Cardinality(Trains) <= 2
      BY <1>1, <1>2, <2>2, TwoAreFree
    <2> QED
      BY <1>2, <2>1, <2>2 DEF GetBy
  <1> QED
    BY <1>2, MeetInvariant, MeetFutures, PTL

\* The reservation protocol implements block sections: trains pass the sections
\* of their routes in order, one block at a time and one train per block.
LEMMA AbstractInit == Init => Abstract!Init
  <1> SUFFICES ASSUME Init PROVE Abstract!Init
    OBVIOUS
  <1>1. current = [t \in Trains |-> Outside] /\ events = <<>>
    BY DEF Init
  <1>2. \A t : Passed(t) = 0
    <2>1. \A t : {n \in DOMAIN events : events[n].train = t /\ events[n].action = "enter"} = {}
      BY <1>1
    <2> QED
      BY <2>1, FS_EmptySet DEF Passed
  <1> QED
    BY <1>1, <1>2 DEF Abstract!Init, Abstract!Trains

\* Taking a block enters the next section.
LEMMA AcquireEnters ==
    ASSUME MeetInv, FutureInv, NEW e \in heap, NEW block, Acquire(e, block)
    PROVE  Abstract!Next
  <1>1. PICK t, n : t = e.event.train /\ n = e.event.step
    OBVIOUS
  <1>2. /\ t \in Trains /\ n \in 1..3 /\ n = Passed(t) + 1 /\ Position(t)
        /\ block \in Wanted(Route(t)[n]) /\ block \in Blocks /\ held[block] = Free
    BY <1>1, Taker
  <1>3. /\ Passed(t)' = Passed(t) + 1 /\ \A u : u # t => Passed(u)' = Passed(u)
    BY <1>1, AcquireLog
  <1>4. /\ scenario' = scenario /\ Trains' = Trains /\ current' = [current EXCEPT ![t] = block]
        /\ \A u : Route(u)' = Route(u)
    BY <1>1 DEF Acquire, Trains, Route
  <1>5. \A u \in Trains : current[u] # block
    BY <1>2, Strings, ScenarioTyping DEF MeetInv, HoldsItsBlock
  <1> DEFINE section(u) == [i \in 1..3 |-> IF Route(u)[i] = "LOOP" THEN Tracks ELSE {Route(u)[i]}]
             routes == [u \in Trains |-> section(u)]
             passed == [u \in Trains |-> Passed(u)]
  <1>6. routes' = routes
    BY <1>4
  <1>7. passed' = [passed EXCEPT ![t] = @ + 1]
    BY <1>2, <1>3, <1>4
  <1>8. Len(routes[t]) = 3 /\ passed[t] < 3 /\ block \in routes[t][n] /\ n \in DOMAIN routes[t]
    <2>1. section(t) \in Seq({Tracks} \cup {{Route(t)[i]} : i \in 1..3}) /\ Len(section(t)) = 3
      OBVIOUS
    <2>2. block \in section(t)[n]
      BY <1>2 DEF Wanted
    <2>3. passed[t] = Passed(t) /\ Passed(t) < 3
      BY <1>2 DEF Position
    <2> QED
      BY <1>2, <2>1, <2>2, <2>3
  <1>9. Abstract!Enter(t, block)
    BY <1>2, <1>4, <1>5, <1>6, <1>7, <1>8 DEF Abstract!Enter, Abstract!Trains
  <1> QED
    BY <1>2, <1>8, <1>9 DEF Abstract!Next, Abstract!Trains

\* Leaving the zone leaves the last section.
LEMMA ExitLeaves ==
    ASSUME MeetInv, FutureInv, NEW e \in heap, Exit(e)
    PROVE  Abstract!Next
  <1>1. PICK t : t = e.event.train
    OBVIOUS
  <1>2. t \in Trains /\ Passed(t) = 3 /\ current[t] \in Blocks
    BY <1>1, Leaver
  <1>3. \A u : Passed(u)' = Passed(u)
    BY ExitLog
  <1>4. /\ scenario' = scenario /\ Trains' = Trains /\ current' = [current EXCEPT ![t] = Outside]
        /\ \A u : Route(u)' = Route(u)
    BY <1>1 DEF Exit, Trains, Route
  <1> DEFINE section(u) == [i \in 1..3 |-> IF Route(u)[i] = "LOOP" THEN Tracks ELSE {Route(u)[i]}]
             routes == [u \in Trains |-> section(u)]
             passed == [u \in Trains |-> Passed(u)]
  <1>5. routes' = routes /\ passed' = passed
    BY <1>3, <1>4
  <1>6. current[t] # Outside
    BY <1>2, Strings
  <1>7. Len(routes[t]) = 3 /\ passed[t] = 3
    <2>1. Len(section(t)) = 3
      OBVIOUS
    <2> QED
      BY <1>2, <2>1
  <1>8. Abstract!Exit(t)
    BY <1>4, <1>5, <1>6, <1>7 DEF Abstract!Exit
  <1> QED
    BY <1>2, <1>8 DEF Abstract!Next, Abstract!Trains

\* Queueing and coming to the end of a block are steps inside a section.
LEMMA OthersStutter ==
    ASSUME scenario' = scenario, current' = current, \A u : Passed(u)' = Passed(u)
    PROVE  UNCHANGED Abstract!vars
  <1>1. Trains' = Trains /\ \A u : Route(u)' = Route(u)
    BY DEF Trains, Route
  <1> QED
    BY <1>1 DEF Abstract!vars

\* Every behaviour of the passing loop is one of block sections.
THEOREM Refinement == Spec => ImplementsBlockSections
  <1>1. ASSUME MeetInv, FutureInv, [Next]_vars PROVE [Abstract!Next]_(Abstract!vars)
    <2>1. CASE Turn
      <3>1. PICK e \in heap : \/ Exit(e)
                              \/ \E block \in Blocks \cup {"LOOP"} :
                                    Wait(e, block) \/ Acquire(e, block)
                              \/ AtEnd(e)
        BY <2>1 DEF Turn
      <3>2. CASE Exit(e)
        BY <1>1, <3>2, ExitLeaves
      <3>3. ASSUME NEW block, Acquire(e, block) PROVE Abstract!Next
        BY <1>1, <3>3, AcquireEnters
      <3>4. ASSUME NEW block, Wait(e, block) PROVE UNCHANGED Abstract!vars
        <4>1. scenario' = scenario /\ current' = current
          BY <3>4 DEF Wait
        <4>2. \A u : Passed(u)' = Passed(u)
          BY <1>1, <3>4, WaitLog
        <4> QED
          BY <4>1, <4>2, OthersStutter
      <3>5. CASE AtEnd(e)
        <4>1. scenario' = scenario /\ current' = current /\ events' = events
          BY <3>5 DEF AtEnd
        <4>2. \A u : Passed(u)' = Passed(u)
          BY <4>1 DEF Passed
        <4> QED
          BY <4>1, <4>2, OthersStutter
      <3> QED
        BY <3>1, <3>2, <3>3, <3>4, <3>5
    <2>2. CASE UNCHANGED vars
      <3>1. scenario' = scenario /\ current' = current /\ events' = events
        BY <2>2 DEF vars
      <3>2. \A u : Passed(u)' = Passed(u)
        BY <3>1 DEF Passed
      <3> QED
        BY <3>1, <3>2, OthersStutter
    <2> QED
      BY <1>1, <2>1, <2>2 DEF Next, Finished
  <1> QED
    BY <1>1, AbstractInit, MeetInvariant, MeetFutures, PTL DEF Spec, ImplementsBlockSections, Abstract!Spec

-----------------------------------------------------------------------------
(***************************************************************************)
(* The boundary contract between the macro simulation and the passing      *)
(* loop, for any number of trains, any arrivals and running times and both *)
(* policies: what couple_zone reads off the log of a finished run, where   *)
(* opposing trains pass each other, and what the report of the run counts. *)
(***************************************************************************)
\* The earliest time at which a train can have passed the sections it has
\* entered: its arrival and their running times.
Earliest(t) ==
    MacroArrival(t)
        + (IF Passed(t) >= 1 THEN scenario.running[Route(t)[1]] ELSE 0)
        + (IF Passed(t) >= 2 THEN scenario.running[loopTrack[t]] ELSE 0)
        + (IF Passed(t) >= 3 THEN scenario.running[Route(t)[3]] ELSE 0)

\* A time at which a train may be at the end of its last section: not before
\* the earliest one, and not after it unless the train has waited; and after
\* the train has entered the zone.
Timely(t, at) ==
    /\ at \in Nat /\ at >= Earliest(t)
    /\ Times(t, "wait") = {} => at = Earliest(t)
    /\ Passed(t) > 0 => \E x \in Times(t, "enter") : x < at

\* What the log, the heap and the queues say of a train agrees with that.
Logged(t) ==
    /\ Passed(t) >= 2 => t \in DOMAIN loopTrack
    /\ \A x \in Times(t, "enter") : x >= MacroArrival(t)
    /\ t \in done <=> Times(t, "exit") # {}
    /\ \A x \in Times(t, "exit") : Timely(t, x)
    /\ \A e \in Pending(t) : Timely(t, e.time)
    /\ (\E k \in Keys : WaitsIn(k, t) # {}) => Timely(t, now) /\ Times(t, "wait") # {}

LogInv == \A t \in Trains : Logged(t)

-----------------------------------------------------------------------------
\* The times at which a log tells an action of a train.
TimesIn(s, t, action) ==
    {s[n].time : n \in {m \in DOMAIN s : s[m].train = t /\ s[m].action = action}}

\* A log that grows by one entry tells of one more time.
LEMMA TimesAppended ==
    ASSUME NEW S, NEW s \in Seq(S), NEW r \in S, NEW t, NEW action
    PROVE  TimesIn(Append(s, r), t, action)
                = IF r.train = t /\ r.action = action THEN TimesIn(s, t, action) \cup {r.time}
                  ELSE TimesIn(s, t, action)
  <1>1. /\ Len(s) \in Nat /\ \A i \in 1..Len(s) : Append(s, r)[i] = s[i]
        /\ Append(s, r)[Len(s) + 1] = r /\ Len(Append(s, r)) = Len(s) + 1
        /\ Append(s, r) \in Seq(S)
    BY AppendProperties, LenProperties
  <1>2. DOMAIN s = 1..Len(s) /\ DOMAIN Append(s, r) = 1..(Len(s) + 1)
    BY <1>1, LenProperties
  <1> DEFINE those(q) == {m \in DOMAIN q : q[m].train = t /\ q[m].action = action}
  <1>3. those(s) \subseteq 1..Len(s)
    BY <1>2
  <1>4. CASE r.train = t /\ r.action = action
    <2>1. those(Append(s, r)) = those(s) \cup {Len(s) + 1}
      <3>1. \A m \in 1..Len(s) : m \in those(Append(s, r)) <=> m \in those(s)
        BY <1>1, <1>2
      <3>2. Len(s) + 1 \in those(Append(s, r))
        BY <1>1, <1>2, <1>4
      <3>3. \A m \in those(Append(s, r)) : m \in 1..Len(s) \/ m = Len(s) + 1
        BY <1>1, <1>2
      <3> HIDE DEF those
      <3> QED
        BY <1>3, <3>1, <3>2, <3>3
    <2>2. \A n \in those(s) : Append(s, r)[n].time = s[n].time
      BY <1>1, <1>3
    <2>3. Append(s, r)[Len(s) + 1].time = r.time
      BY <1>1
    <2> HIDE DEF those
    <2>4. {Append(s, r)[n].time : n \in those(Append(s, r))} = {s[n].time : n \in those(s)} \cup {r.time}
      <3>1. \A x \in {Append(s, r)[n].time : n \in those(Append(s, r))} :
                x = r.time \/ \E n \in those(s) : x = s[n].time
        BY <2>1, <2>2, <2>3
      <3>2. \A n \in those(s) : \E m \in those(Append(s, r)) : s[n].time = Append(s, r)[m].time
        BY <2>1, <2>2
      <3>3. \E m \in those(Append(s, r)) : r.time = Append(s, r)[m].time
        BY <2>1, <2>3
      <3>4. \A n \in those(s) : s[n].time \in {Append(s, r)[m].time : m \in those(Append(s, r))}
        BY <3>2
      <3>5. r.time \in {Append(s, r)[m].time : m \in those(Append(s, r))}
        BY <3>3
      <3> QED
        BY <3>1, <3>4, <3>5
    <2> QED
      BY <1>4, <2>4 DEF TimesIn, those
  <1>5. CASE ~(r.train = t /\ r.action = action)
    <2>1. those(Append(s, r)) = those(s)
      BY <1>1, <1>2, <1>5
    <2>2. \A n \in those(s) : Append(s, r)[n].time = s[n].time
      BY <1>1, <1>3
    <2> HIDE DEF those
    <2>3. {Append(s, r)[n].time : n \in those(Append(s, r))} = {s[n].time : n \in those(s)}
      BY <2>1, <2>2
    <2> QED
      BY <1>5, <2>3 DEF TimesIn, those
  <1> QED
    BY <1>4, <1>5

\* What _release logs is no entry, wait or exit.
LEMMA TimesLeaving ==
    ASSUME MeetInv, NEW block, NEW at \in Nat, block \in Blocks \cup {Outside},
           NEW s \in Seq(MeetEvents), NEW t, NEW action, action # "leave"
    PROVE  TimesIn(s \o Leave(block, at), t, action) = TimesIn(s, t, action)
  <1>1. CASE block # Outside /\ held[block] # Free
    <2>1. PICK r : r = Event(at, held[block], block, "leave")
      OBVIOUS
    <2>2. r \in MeetEvents /\ r.action = "leave"
      BY <1>1, <2>1 DEF MeetInv, TypeOK, Event, MeetEvents, Keys
    <2>3. Leave(block, at) = <<r>>
      BY <1>1, <2>1 DEF Leave
    <2>4. s \o <<r>> = Append(s, r)
      BY <2>2, AppendIsConcat
    <2>5. TimesIn(Append(s, r), t, action) = TimesIn(s, t, action)
      BY <2>2, TimesAppended
    <2> QED
      BY <2>3, <2>4, <2>5
  <1>2. CASE ~(block # Outside /\ held[block] # Free)
    <2>1. Leave(block, at) = <<>>
      BY <1>2 DEF Leave
    <2>2. s \o <<>> = s
      BY ConcatEmptySeq
    <2> QED
      BY <2>1, <2>2
  <1> QED
    BY <1>1, <1>2

\* The times of the log are those of its entries.
LEMMA TimesTyped ==
    ASSUME FutureInv, NEW t, NEW action
    PROVE  Times(t, action) = TimesIn(events, t, action) /\ Times(t, action) \subseteq Nat
  <1>1. Times(t, action) = TimesIn(events, t, action)
    BY DEF Times, TimesIn
  <1>2. \A n \in DOMAIN events : events[n] \in MeetEvents
    BY DEF FutureInv
  <1>3. \A n \in DOMAIN events : events[n].time \in Nat
    BY <1>2 DEF MeetEvents
  <1> QED
    BY <1>1, <1>3 DEF TimesIn

\* What each handler adds to the times of the log: a wait,
LEMMA WaitTimes ==
    ASSUME MeetInv, FutureInv, NEW e \in heap, NEW block, Wait(e, block),
           NEW t, t = e.event.train
    PROVE  \A u, action : Times(u, action)' = IF u = t /\ action = "wait"
                                               THEN Times(u, action) \cup {e.time}
                                               ELSE Times(u, action)
  <1>1. t \in Trains /\ e.time \in Nat /\ block \in Keys
    <2>1. block \in Keys
      BY Refused
    <2> QED
      BY <2>1, Acting
  <1>2. PICK r : r = Event(e.time, t, block, "wait") /\ events' = Append(events, r)
    BY DEF Wait
  <1>3. r \in MeetEvents /\ r.train = t /\ r.action = "wait" /\ r.time = e.time
    BY <1>1, <1>2 DEF Event, MeetEvents
  <1>4. ASSUME NEW u, NEW action
        PROVE  TimesIn(events', u, action)
                    = IF u = t /\ action = "wait" THEN TimesIn(events, u, action) \cup {e.time}
                      ELSE TimesIn(events, u, action)
    <2>1. events \in Seq(MeetEvents) /\ events' = Append(events, r)
      BY <1>2 DEF FutureInv
    <2>2. TimesIn(Append(events, r), u, action)
              = IF r.train = u /\ r.action = action THEN TimesIn(events, u, action) \cup {r.time}
                ELSE TimesIn(events, u, action)
      BY <1>3, <2>1, TimesAppended
    <2> QED
      BY <1>3, <2>1, <2>2
  <1>5. \A u, action : /\ Times(u, action) = TimesIn(events, u, action)
                       /\ Times(u, action)' = TimesIn(events', u, action)
    BY DEF Times, TimesIn
  <1> QED
    BY <1>4, <1>5

\* the exit,
LEMMA ExitTimes ==
    ASSUME MeetInv, FutureInv, NEW e \in heap, Exit(e), NEW t, t = e.event.train
    PROVE  \A u : \A action \in {"enter", "wait", "exit"} :
                Times(u, action)' = IF u = t /\ action = "exit" THEN Times(u, action) \cup {e.time}
                                    ELSE Times(u, action)
  <1>1. PICK block : block = current[t]
    OBVIOUS
  <1>2. t \in Trains /\ e.time \in Nat /\ block \in Blocks \cup {Outside}
    BY <1>1, Leaver
  <1>3. PICK r, s : r = Event(e.time, t, "EXIT", "exit") /\ s = events \o Leave(block, e.time)
    OBVIOUS
  <1>4. r \in MeetEvents /\ r.train = t /\ r.action = "exit" /\ r.time = e.time
    BY <1>2, <1>3 DEF Event, MeetEvents
  <1>5. events' = Append(s, r)
    BY <1>1, <1>3 DEF Exit
  <1>6. events \in Seq(MeetEvents) /\ s \in Seq(MeetEvents)
    BY <1>2, <1>3, Leaving DEF FutureInv
  <1> SUFFICES ASSUME NEW u, NEW action \in {"enter", "wait", "exit"}
               PROVE  Times(u, action)' = IF u = t /\ action = "exit"
                                           THEN Times(u, action) \cup {e.time} ELSE Times(u, action)
    OBVIOUS
  <1>7. TimesIn(s, u, action) = TimesIn(events, u, action)
    BY <1>2, <1>3, <1>6, TimesLeaving
  <1>8. TimesIn(Append(s, r), u, action)
          = IF r.train = u /\ r.action = action THEN TimesIn(s, u, action) \cup {r.time}
            ELSE TimesIn(s, u, action)
    BY <1>4, <1>6, TimesAppended
  <1>9. Times(u, action) = TimesIn(events, u, action) /\ Times(u, action)' = TimesIn(events', u, action)
    BY DEF Times, TimesIn
  <1> QED
    BY <1>4, <1>5, <1>7, <1>8, <1>9

\* or the entry into a block.
LEMMA AcquireTimes ==
    ASSUME MeetInv, FutureInv, NEW e \in heap, NEW block, Acquire(e, block),
           NEW t, t = e.event.train
    PROVE  \A u : \A action \in {"enter", "wait", "exit"} :
                Times(u, action)' = IF u = t /\ action = "enter" THEN Times(u, action) \cup {e.time}
                                    ELSE Times(u, action)
  <1>1. PICK previous : previous = current[t]
    OBVIOUS
  <1>2. t \in Trains /\ e.time \in Nat /\ block \in Blocks /\ previous \in Blocks \cup {Outside}
    BY <1>1, Taker
  <1>3. PICK r, s : r = Event(e.time, t, block, "enter") /\ s = Append(events, r)
    OBVIOUS
  <1>4. r \in MeetEvents /\ r.train = t /\ r.action = "enter" /\ r.time = e.time
    BY <1>2, <1>3 DEF Event, MeetEvents, Keys
  <1>5. events \in Seq(MeetEvents) /\ s \in Seq(MeetEvents)
    BY <1>3, <1>4, AppendProperties DEF FutureInv
  <1>6. events' = s \o Leave(previous, e.time) \/ events' = s
    BY <1>1, <1>3 DEF Acquire
  <1> SUFFICES ASSUME NEW u, NEW action \in {"enter", "wait", "exit"}
               PROVE  Times(u, action)' = IF u = t /\ action = "enter"
                                           THEN Times(u, action) \cup {e.time} ELSE Times(u, action)
    OBVIOUS
  <1>7. TimesIn(events', u, action) = TimesIn(s, u, action)
    <2>1. TimesIn(s \o Leave(previous, e.time), u, action) = TimesIn(s, u, action)
      BY <1>2, <1>5, TimesLeaving
    <2> QED
      BY <1>6, <2>1
  <1>8. TimesIn(s, u, action)
          = IF r.train = u /\ r.action = action THEN TimesIn(events, u, action) \cup {r.time}
            ELSE TimesIn(events, u, action)
    <2>1. TimesIn(Append(events, r), u, action)
            = IF r.train = u /\ r.action = action THEN TimesIn(events, u, action) \cup {r.time}
              ELSE TimesIn(events, u, action)
      BY <1>4, <1>5, TimesAppended
    <2> QED
      BY <1>3, <2>1
  <1>9. Times(u, action) = TimesIn(events, u, action) /\ Times(u, action)' = TimesIn(events', u, action)
    BY DEF Times, TimesIn
  <1> QED
    BY <1>4, <1>7, <1>8, <1>9

\* The running times of the sections a train has entered are at least a second.
LEMMA EarliestTyped ==
    ASSUME MeetInv, NEW t \in Trains, Passed(t) \in Nat,
           Passed(t) >= 2 => t \in DOMAIN loopTrack
    PROVE  /\ MacroArrival(t) \in Nat /\ Earliest(t) \in Nat /\ Earliest(t) >= MacroArrival(t)
           /\ \A b \in Blocks : scenario.running[b] \in Nat \ {0}
  <1>1. MacroArrival(t) \in Nat
    BY ScenarioTyping DEF MeetInv, MacroArrival
  <1>2. \A b \in Blocks : scenario.running[b] \in Nat \ {0}
    BY ScenariosAssumption DEF ScenariosAssumption, MeetInv
  <1>3. Route(t)[1] \in Blocks /\ Route(t)[3] \in Blocks
    BY Routes DEF Blocks
  <1>4. t \in DOMAIN loopTrack => loopTrack[t] \in Blocks
    BY Strings DEF MeetInv, TypeOK, Range
  <1>5. PICK a, b, c \in Nat :
            /\ a = (IF Passed(t) >= 1 THEN scenario.running[Route(t)[1]] ELSE 0)
            /\ b = (IF Passed(t) >= 2 THEN scenario.running[loopTrack[t]] ELSE 0)
            /\ c = (IF Passed(t) >= 3 THEN scenario.running[Route(t)[3]] ELSE 0)
    BY <1>2, <1>3, <1>4
  <1>6. Earliest(t) = MacroArrival(t) + a + b + c
    BY <1>5 DEF Earliest
  <1> QED
    BY <1>1, <1>2, <1>5, <1>6

-----------------------------------------------------------------------------
\* A time that is right stays right while nothing happens to the train,
LEMMA TimelyKept ==
    ASSUME NEW t, NEW at, Timely(t, at), scenario' = scenario, Passed(t)' = Passed(t),
           Passed(t) >= 2 => loopTrack'[t] = loopTrack[t],
           Times(t, "wait")' = Times(t, "wait"), Times(t, "enter")' = Times(t, "enter")
    PROVE  Timely(t, at)'
  <1>1. Earliest(t)' = Earliest(t)
    <2>1. Route(t)' = Route(t) /\ MacroArrival(t)' = MacroArrival(t)
      BY DEF Route, MacroArrival
    <2> QED
      BY <2>1 DEF Earliest
  <1> QED
    BY <1>1 DEF Timely

\* and for a train that has waited a later time is right, too.
LEMMA TimelyLater ==
    ASSUME NEW t, NEW at \in Nat, NEW later \in Nat, Timely(t, at), later >= at,
           Times(t, "wait") # {}, Earliest(t) \in Nat, Times(t, "enter") \subseteq Nat
    PROVE  Timely(t, later)
  BY DEF Timely

\* A train that does not act: it goes on, waits on, or is woken at this instant.
LEMMA Onlooker ==
    ASSUME MeetInv, FutureInv, FutureInv', NEW u \in Trains, Logged(u),
           scenario' = scenario, Passed(u)' = Passed(u), now <= now',
           u \in done' <=> u \in done,
           u \in DOMAIN loopTrack => u \in DOMAIN loopTrack' /\ loopTrack'[u] = loopTrack[u],
           \A action \in {"enter", "wait", "exit"} : Times(u, action)' = Times(u, action),
           \A g \in Pending(u)' :
               g \in Pending(u) \/ (g.time = now' /\ \E k \in Keys : WaitsIn(k, u) # {}),
           \A k \in Keys : WaitsIn(k, u)' \subseteq WaitsIn(k, u)
    PROVE  Logged(u)'
  <1>1. /\ Times(u, "wait")' = Times(u, "wait") /\ Times(u, "enter")' = Times(u, "enter")
        /\ Times(u, "exit")' = Times(u, "exit") /\ Times(u, "enter") \subseteq Nat
    BY TimesTyped
  <1>2. Passed(u) >= 2 => loopTrack'[u] = loopTrack[u] /\ u \in DOMAIN loopTrack'
    BY DEF Logged
  <1>3. \A at : Timely(u, at) => Timely(u, at)'
    BY <1>1, <1>2, TimelyKept
  <1>4. now \in Nat /\ now' \in Nat
    BY DEF FutureInv, QueueOf
  <1>5. Earliest(u) \in Nat
    <2>1. Passed(u) \in Nat
      BY DEF FutureInv, Position
    <2> QED
      BY <2>1, EarliestTyped DEF Logged
  <1>6. ASSUME \E k \in Keys : WaitsIn(k, u) # {}
        PROVE  Timely(u, now') /\ Times(u, "wait") # {}
    <2>1. Timely(u, now) /\ Times(u, "wait") # {}
      BY <1>6 DEF Logged
    <2> QED
      BY <1>1, <1>4, <1>5, <2>1, TimelyLater
  <1>7. \A g \in Pending(u)' : Timely(u, g.time)'
    <2> SUFFICES ASSUME NEW g \in Pending(u)' PROVE Timely(u, g.time)'
      OBVIOUS
    <2>1. Timely(u, g.time)
      BY <1>6 DEF Logged
    <2> QED
      BY <1>3, <2>1
  <1>8. (\E k \in Keys : WaitsIn(k, u)' # {}) => Timely(u, now)' /\ Times(u, "wait")' # {}
    <2> SUFFICES ASSUME \E k \in Keys : WaitsIn(k, u)' # {}
                 PROVE  Timely(u, now)' /\ Times(u, "wait")' # {}
      OBVIOUS
    <2>1. Timely(u, now') /\ Times(u, "wait") # {}
      BY <1>6
    <2>2. PICK at : at = now'
      OBVIOUS
    <2>3. Timely(u, at)'
      BY <1>3, <2>1, <2>2
    <2>4. Timely(u, now)'
      BY <2>2, <2>3 DEF Timely
    <2> QED
      BY <1>1, <2>1, <2>4
  <1>9. MacroArrival(u)' = MacroArrival(u)
    BY DEF MacroArrival
  <1>10. /\ Passed(u)' >= 2 => u \in DOMAIN loopTrack'
         /\ \A x \in Times(u, "enter")' : x >= MacroArrival(u)'
         /\ u \in done' <=> Times(u, "exit")' # {}
         /\ \A x \in Times(u, "exit")' : Timely(u, x)'
    BY <1>1, <1>2, <1>3, <1>9 DEF Logged
  <1> QED
    BY <1>7, <1>8, <1>10 DEF Logged

\* The new events of a train that does not act are those of a queue that is woken.
LEMMA Called ==
    ASSUME NEW e, NEW batch, NEW u, heap' = (heap \ {e}) \cup NewEntries(batch),
           \A j \in DOMAIN batch : batch[j].event.train = u =>
               batch[j].time = now' /\ \E k \in Keys : WaitsIn(k, u) # {}
    PROVE  \A g \in Pending(u)' :
               g \in Pending(u) \/ (g.time = now' /\ \E k \in Keys : WaitsIn(k, u) # {})
  <1> SUFFICES ASSUME NEW g \in Pending(u)', g \notin Pending(u)
               PROVE  g.time = now' /\ \E k \in Keys : WaitsIn(k, u) # {}
    OBVIOUS
  <1>1. g \in NewEntries(batch) /\ g.event.train = u
    BY DEF Pending
  <1>2. PICK j \in DOMAIN batch : g = NewEntry(batch[j], j)
    BY <1>1 DEF NewEntries
  <1>3. g.time = batch[j].time /\ batch[j].event.train = u
    BY <1>1, <1>2 DEF NewEntry
  <1> QED
    BY <1>3

\* The heap, the clock and the queues after each handler, as far as a train is
\* concerned that the handler is not called for.
Untouched(u) ==
    /\ scenario' = scenario /\ now <= now' /\ (u \in done' <=> u \in done)
    /\ u \in DOMAIN loopTrack => u \in DOMAIN loopTrack' /\ loopTrack'[u] = loopTrack[u]
    /\ \A g \in Pending(u)' :
           g \in Pending(u) \/ (g.time = now' /\ \E k \in Keys : WaitsIn(k, u) # {})
    /\ \A k \in Keys : WaitsIn(k, u)' \subseteq WaitsIn(k, u)

\* At the end of its block a train asks for the next at that instant.
LEMMA AtEndLogged ==
    ASSUME MeetInv, FutureInv, FutureInv', LogInv, NEW e \in heap, AtEnd(e)
    PROVE  LogInv'
  <1> DEFINE batch == <<At(e.time, Request(e.event.train, e.event.step + 1))>>
  <1>1. PICK t : t = e.event.train
    OBVIOUS
  <1>2. /\ t \in Trains /\ Pending(t) = {e} /\ Passed(t) \in 0..3 /\ e.time \in Nat
        /\ e.event.step = Passed(t) /\ \A k \in Keys : WaitsIn(k, t) = {}
    BY <1>1, Acting DEF AtEnd
  <1>3. UNCHANGED <<scenario, held, current, loopTrack, waiters, counter, done, events>>
    BY DEF AtEnd
  <1>4. DOMAIN batch = {1} /\ batch[1].time = e.time /\ batch[1].event = Request(t, Passed(t) + 1)
    BY <1>1, <1>2 DEF At
  <1>5. Process(e, batch, 1)
    BY DEF AtEnd
  <1> HIDE DEF batch
  <1>6. Advance(e) /\ heap' = (heap \ {e}) \cup NewEntries(batch)
    <2>1. Request(t, Passed(t) + 1) \in MeetCalls
      BY <1>2, CallsOf
    <2>2. /\ \A i \in DOMAIN batch : batch[i].time \in Nat /\ batch[i].event \in MeetCalls
          /\ \A i \in DOMAIN batch : batch[i].time >= e.time
          /\ DOMAIN batch \subseteq 1..1 /\ 1 \in Nat
      BY <1>2, <1>4, <2>1
    <2>3. QueueOf(MeetCalls) /\ scenario' = scenario
      BY <1>3 DEF FutureInv
    <2> QED
      BY <1>5, <2>2, <2>3, Scheduling
  <1>7. /\ Trains' = Trains /\ \A u : Passed(u)' = Passed(u)
        /\ \A u, action : Times(u, action)' = Times(u, action)
        /\ \A k, u : WaitsIn(k, u)' = WaitsIn(k, u)
    BY <1>3 DEF Trains, Passed, Times, WaitsIn
  <1>8. ASSUME NEW u \in Trains PROVE Logged(u)'
    <2>1. Logged(u)
      BY DEF LogInv
    <2>2. CASE u # t
      <3>1. \A j \in DOMAIN batch : batch[j].event.train # u
        BY <1>4, <2>2 DEF Request
      <3>2. Untouched(u)
        BY <1>3, <1>6, <1>7, <3>1, Called DEF Untouched, Advance
      <3> QED
        BY <1>7, <2>1, <3>2, Onlooker DEF Untouched
    <2>3. CASE u = t
      <3>1. \A g \in Pending(t)' : g.time = e.time
        <4> SUFFICES ASSUME NEW g \in Pending(t)' PROVE g.time = e.time
          OBVIOUS
        <4>1. g \in NewEntries(batch)
          BY <1>2, <1>6 DEF Pending
        <4> QED
          BY <1>4, <4>1 DEF NewEntries, NewEntry
      <3>2. Timely(t, e.time)
        BY <1>2, <2>1, <2>3 DEF Logged
      <3>3. Passed(t) >= 2 => loopTrack'[t] = loopTrack[t]
        BY <1>3
      <3>4. \A at : Timely(t, at) => Timely(t, at)'
        BY <1>3, <1>7, <3>3, TimelyKept
      <3>5. MacroArrival(t)' = MacroArrival(t)
        BY <1>3 DEF MacroArrival
      <3>6. \A g \in Pending(t)' : Timely(t, g.time)'
        BY <3>1, <3>2, <3>4
      <3> QED
        BY <1>2, <1>3, <1>7, <2>1, <2>3, <3>4, <3>5, <3>6 DEF Logged
    <2> QED
      BY <2>2, <2>3
  <1> QED
    BY <1>7, <1>8 DEF LogInv

\* A train that is refused a block queues for it, and says so in the log.
LEMMA WaitLogged ==
    ASSUME MeetInv, FutureInv, FutureInv', LogInv, NEW e \in heap, NEW block, Wait(e, block)
    PROVE  LogInv'
  <1>1. PICK t : t = e.event.train
    OBVIOUS
  <1>2. /\ t \in Trains /\ t \notin done /\ Pending(t) = {e} /\ e.time \in Nat /\ block \in Keys
        /\ \A k \in Keys : WaitsIn(k, t) = {}
    <2>1. block \in Keys
      BY <1>1, Refused
    <2> QED
      BY <1>1, <2>1, Acting
  <1>3. PICK r, w : /\ r = Event(e.time, t, block, "wait") /\ w.train = t
                    /\ waiters' = [waiters EXCEPT ![block] = @ \cup {w}]
                    /\ events' = Append(events, r)
    <2>1. PICK r : r = Event(e.time, t, block, "wait")
      OBVIOUS
    <2>2. PICK w : w = [prio |-> -scenario.trains[t].priority, seq |-> counter, train |-> t,
                        step |-> e.event.step]
      OBVIOUS
    <2>3. w.train = t
      BY <2>2
    <2>4. waiters' = [waiters EXCEPT ![block] = @ \cup {w}] /\ events' = Append(events, r)
      BY <1>1, <2>1, <2>2 DEF Wait
    <2> QED
      BY <2>1, <2>3, <2>4
  <1>4. UNCHANGED <<scenario, held, current, loopTrack, done>> /\ Process(e, NoEvents, 0)
    BY DEF Wait
  <1>5. DOMAIN NoEvents = {} /\ NewEntries(NoEvents) = {}
    BY DEF NoEvents, NewEntries
  <1>6. Advance(e) /\ heap' = (heap \ {e}) \cup NewEntries(NoEvents)
    <2>1. /\ \A i \in DOMAIN NoEvents : NoEvents[i].time \in Nat /\ NoEvents[i].event \in MeetCalls
          /\ \A i \in DOMAIN NoEvents : NoEvents[i].time >= e.time
          /\ DOMAIN NoEvents \subseteq 1..0 /\ 0 \in Nat
      BY <1>5
    <2>2. QueueOf(MeetCalls) /\ scenario' = scenario
      BY <1>4 DEF FutureInv
    <2> QED
      BY <1>4, <2>1, <2>2, Scheduling
  <1>7. Trains' = Trains /\ \A u : Passed(u)' = Passed(u)
    BY <1>4, WaitLog DEF Trains
  <1>8. \A u, action : Times(u, action)' = IF u = t /\ action = "wait"
                                            THEN Times(u, action) \cup {e.time}
                                            ELSE Times(u, action)
    BY <1>1, WaitTimes
  <1>9. DOMAIN waiters = Keys
    BY DEF MeetInv, Queued
  <1>10. ASSUME NEW u \in Trains PROVE Logged(u)'
    <2>1. Logged(u)
      BY DEF LogInv
    <2>2. CASE u # t
      <3>1. \A k \in Keys : WaitsIn(k, u)' = WaitsIn(k, u)
        BY <1>2, <1>3, <1>9, <2>2 DEF WaitsIn
      <3>2. Untouched(u)
        BY <1>4, <1>5, <1>6, <3>1, Called DEF Untouched, Advance
      <3>3. \A action : Times(u, action)' = Times(u, action)
        BY <1>8, <2>2
      <3> QED
        BY <1>7, <2>1, <3>2, <3>3, Onlooker DEF Untouched
    <2>3. CASE u = t
      <3>1. Timely(t, e.time) /\ now' = e.time
        BY <1>2, <1>6, <2>1, <2>3 DEF Logged, Advance
      <3>2. Pending(t)' = {}
        BY <1>2, <1>5, <1>6 DEF Pending
      <3>3. /\ Times(t, "enter")' = Times(t, "enter") /\ Times(t, "exit")' = Times(t, "exit")
            /\ Times(t, "wait")' # {}
        BY <1>8
      <3>4. /\ Earliest(t)' = Earliest(t) /\ MacroArrival(t)' = MacroArrival(t)
        BY <1>4, <1>7 DEF Earliest, Route, MacroArrival
      <3>5. Timely(t, now)'
        BY <1>7, <3>1, <3>3, <3>4 DEF Timely
      <3>6. Times(t, "exit") = {}
        BY <1>2, <2>1, <2>3 DEF Logged
      <3> QED
        BY <1>4, <1>7, <2>1, <2>3, <3>2, <3>3, <3>4, <3>5, <3>6 DEF Logged
    <2> QED
      BY <2>2, <2>3
  <1> QED
    BY <1>7, <1>10 DEF LogInv

\* A train that leaves the zone has passed it, and says so in the log.
LEMMA ExitLogged ==
    ASSUME MeetInv, FutureInv, FutureInv', LogInv, NEW e \in heap, Exit(e)
    PROVE  LogInv'
  <1>1. PICK t, block : t = e.event.train /\ block = current[t]
    OBVIOUS
  <1>2. /\ t \in Trains /\ t \notin done /\ Pending(t) = {e} /\ e.time \in Nat
        /\ \A k \in Keys : WaitsIn(k, t) = {}
        /\ block \in Blocks \cup {Outside}
    BY <1>1, Leaver
  <1>3. PICK batch, width : batch = Woken(block, e.time) /\ width = Len(WakeKeys(block))
    OBVIOUS
  <1>4. /\ waiters' = WaitersAfter(block) /\ done' = done \cup {t}
        /\ Process(e, batch, width) /\ UNCHANGED <<scenario, loopTrack>>
        /\ events' = Append(events \o Leave(block, e.time), Event(e.time, t, "EXIT", "exit"))
    BY <1>1, <1>3 DEF Exit
  <1>5. /\ DOMAIN batch \subseteq 1..width /\ width \in Nat
        /\ \A j \in DOMAIN batch : batch[j].time = e.time /\ batch[j].event \in MeetCalls
        /\ \A j \in DOMAIN batch : \E k \in Keys : WaitsIn(k, batch[j].event.train) # {}
        /\ \A k \in Keys : WaitersAfter(block)[k] \subseteq waiters[k]
    <2>1. WakesAt(block, Woken(block, e.time), e.time)
      BY <1>2, WokenQueuers
    <2>2. WakesAt(block, batch, e.time)
      BY <2>1, <1>3
    <2> QED
      BY <2>2, <1>3 DEF WakesAt, WakesQueuers
  <1>6. Advance(e) /\ heap' = (heap \ {e}) \cup NewEntries(batch)
    <2>1. QueueOf(MeetCalls) /\ scenario' = scenario
      BY <1>4 DEF FutureInv
    <2>2. /\ \A i \in DOMAIN batch : batch[i].time \in Nat /\ batch[i].event \in MeetCalls
          /\ \A i \in DOMAIN batch : batch[i].time >= e.time
      BY <1>2, <1>5
    <2> QED
      BY <1>4, <1>5, <2>1, <2>2, Scheduling
  <1>7. Trains' = Trains /\ \A u : Passed(u)' = Passed(u)
    BY <1>4, ExitLog DEF Trains
  <1>8. \A u : \A action \in {"enter", "wait", "exit"} :
            Times(u, action)' = IF u = t /\ action = "exit" THEN Times(u, action) \cup {e.time}
                                ELSE Times(u, action)
    BY <1>1, ExitTimes
  <1>9. \A k \in Keys : \A u : WaitsIn(k, u)' \subseteq WaitsIn(k, u)
    BY <1>4, <1>5 DEF WaitsIn
  <1>10. ASSUME NEW u \in Trains PROVE Logged(u)'
    <2>1. Logged(u)
      BY DEF LogInv
    <2>2. CASE u # t
      <3>1. \A j \in DOMAIN batch : batch[j].event.train = u =>
                batch[j].time = now' /\ \E k \in Keys : WaitsIn(k, u) # {}
        BY <1>5, <1>6 DEF Advance
      <3>2. Untouched(u)
        BY <1>4, <1>6, <1>9, <2>2, <3>1, Called DEF Untouched, Advance
      <3>3. \A action \in {"enter", "wait", "exit"} : Times(u, action)' = Times(u, action)
        BY <1>8, <2>2
      <3> QED
        BY <1>7, <2>1, <3>2, <3>3, Onlooker DEF Untouched
    <2>3. CASE u = t
      <3>1. \A j \in DOMAIN batch : batch[j].event.train # t
        BY <1>2, <1>5
      <3>2. Pending(t)' = {}
        <4>1. \A g \in NewEntries(batch) : g.event.train # t
          BY <3>1 DEF NewEntries, NewEntry
        <4> QED
          BY <1>2, <1>6, <4>1 DEF Pending
      <3>3. /\ Times(t, "enter")' = Times(t, "enter") /\ Times(t, "wait")' = Times(t, "wait")
            /\ Times(t, "exit")' = Times(t, "exit") \cup {e.time}
        BY <1>8
      <3>4. Times(t, "exit") = {} /\ Timely(t, e.time)
        BY <1>2, <2>1, <2>3 DEF Logged
      <3>5. Passed(t) >= 2 => loopTrack'[t] = loopTrack[t]
        BY <1>4
      <3>6. Timely(t, e.time)'
        BY <1>4, <1>7, <3>3, <3>4, <3>5, TimelyKept
      <3>7. MacroArrival(t)' = MacroArrival(t)
        BY <1>4 DEF MacroArrival
      <3>8. \A x \in Times(t, "exit")' : Timely(t, x)'
        BY <3>3, <3>4, <3>6
      <3>9. \A k \in Keys : WaitsIn(k, t)' = {}
        BY <1>2, <1>9
      <3> QED
        BY <1>4, <1>7, <2>1, <2>3, <3>2, <3>3, <3>7, <3>8, <3>9 DEF Logged
    <2> QED
      BY <2>2, <2>3
  <1> QED
    BY <1>7, <1>10 DEF LogInv

\* The earliest time grows by the running time of the block that is taken.
LEMMA EntersNext ==
    ASSUME MeetInv, NEW t \in Trains, Position(t), NEW n \in 1..3, n = Passed(t) + 1,
           NEW block \in Blocks, block \in Wanted(Route(t)[n]),
           Passed(t) >= 2 => t \in DOMAIN loopTrack, Passed(t)' = n, scenario' = scenario,
           loopTrack' = IF Route(t)[n] = "LOOP" THEN Put(loopTrack, t, block) ELSE loopTrack
    PROVE  /\ MacroArrival(t)' = MacroArrival(t)
           /\ Earliest(t)' = Earliest(t) + scenario.running[block]
           /\ n >= 2 => t \in DOMAIN loopTrack'
  <1>1. Route(t)' = Route(t) /\ MacroArrival(t)' = MacroArrival(t)
    BY DEF Route, MacroArrival
  <1>2. /\ MacroArrival(t) \in Nat /\ \A b \in Blocks : scenario.running[b] \in Nat \ {0}
    BY EarliestTyped DEF Position
  <1>3. PICK arrival, first, last, own \in Nat :
            /\ arrival = MacroArrival(t) /\ own = scenario.running[block]
            /\ first = scenario.running[Route(t)[1]] /\ last = scenario.running[Route(t)[3]]
    BY <1>2, Routes DEF Blocks
  <1>4. CASE n = 1
    <2>1. block = Route(t)[1] /\ Passed(t) = 0
      BY <1>4, Routes DEF Wanted, Position
    <2>2. Earliest(t) = arrival /\ Earliest(t)' = arrival + first
      BY <1>1, <1>3, <1>4, <2>1 DEF Earliest
    <2> QED
      BY <1>1, <1>3, <1>4, <2>1, <2>2
  <1>5. CASE n = 2
    <2>1. Route(t)[n] = "LOOP" /\ Passed(t) = 1
      BY <1>5, Routes DEF Position
    <2>2. t \in DOMAIN loopTrack' /\ loopTrack'[t] = block
      BY <2>1 DEF Put
    <2>3. Earliest(t) = arrival + first /\ Earliest(t)' = arrival + first + own
      BY <1>1, <1>3, <1>5, <2>1, <2>2 DEF Earliest
    <2> QED
      BY <1>1, <1>3, <2>2, <2>3
  <1>6. CASE n = 3
    <2>1. block = Route(t)[3] /\ Passed(t) = 2 /\ loopTrack' = loopTrack
      BY <1>6, Routes DEF Wanted, Position
    <2>2. PICK track \in Nat : track = scenario.running[loopTrack[t]]
      <3>1. loopTrack[t] \in Blocks
        BY <2>1, Strings DEF MeetInv, TypeOK, Range
      <3> QED
        BY <1>2, <3>1
    <2>3. Earliest(t) = arrival + first + track /\ Earliest(t)' = arrival + first + track + last
      BY <1>1, <1>3, <1>6, <2>1, <2>2 DEF Earliest
    <2> QED
      BY <1>1, <1>3, <2>1, <2>3
  <1> QED
    BY <1>4, <1>5, <1>6

\* A train that takes a block is in the log, and at the block's end later by
\* its running time, which is what the earliest time grows by.
LEMMA AcquireLogged ==
    ASSUME MeetInv, FutureInv, FutureInv', LogInv, NEW e \in heap, NEW block, Acquire(e, block)
    PROVE  LogInv'
  <1>1. PICK t, n, previous : t = e.event.train /\ n = e.event.step /\ previous = current[t]
    OBVIOUS
  <1>2. /\ t \in Trains /\ t \notin done /\ Pending(t) = {e} /\ Position(t) /\ e.time \in Nat
        /\ \A k \in Keys : WaitsIn(k, t) = {}
        /\ n \in 1..3 /\ n = Passed(t) + 1
        /\ block \in Wanted(Route(t)[n]) /\ block \in Blocks /\ previous \in Blocks \cup {Outside}
    <2>1. t = e.event.train /\ n = e.event.step
      BY <1>1
    <2>2. /\ t \in Trains /\ t \notin done /\ Pending(t) = {e} /\ Position(t) /\ e.time \in Nat
          /\ \A k \in Keys : WaitsIn(k, t) = {}
      BY <2>1, Acting
    <2>3. /\ n \in 1..3 /\ n = Passed(t) + 1
          /\ block \in Wanted(Route(t)[n]) /\ block \in Blocks
          /\ current[t] \in Blocks \cup {Outside}
      BY <2>1, Taker
    <2> QED
      BY <1>1, <2>2, <2>3
  <1>3. PICK batch, width, m : TakesAs(e, t, block, batch, width, m)
    BY <1>1, Taking
  <1>4. PICK R, clear : /\ R = Woken(previous, e.time)
                        /\ clear = At(e.time + scenario.running[block], Clear(t, n))
    OBVIOUS
  <1>5. /\ Process(e, batch, width) /\ width \in Nat /\ DOMAIN batch \subseteq 1..width
        /\ DOMAIN batch = DOMAIN R \cup {m}
        /\ batch[m] = clear /\ \A j \in DOMAIN R : batch[j] = R[j]
        /\ \A k \in Keys : waiters'[k] = WaitersAfter(previous)[k]
    BY <1>1, <1>3, <1>4 DEF TakesAs
  <1>6. /\ scenario' = scenario /\ Trains' = Trains /\ done' = done
        /\ loopTrack' = IF Route(t)[n] = "LOOP" THEN Put(loopTrack, t, block) ELSE loopTrack
    BY <1>1 DEF Acquire, Trains
  <1>7. scenario.running[block] \in Nat \ {0}
    BY <1>2, ScenariosAssumption DEF ScenariosAssumption, MeetInv
  <1>8. /\ clear.time = e.time + scenario.running[block] /\ clear.event = Clear(t, n)
        /\ clear.event \in MeetCalls /\ clear.event.train = t
    <2>1. clear.time = e.time + scenario.running[block] /\ clear.event = Clear(t, n)
      BY <1>4 DEF At
    <2>2. Clear(t, n) \in MeetCalls
      BY <1>2, CallsOf
    <2>3. Clear(t, n).train = t
      BY DEF Clear
    <2> QED
      BY <2>1, <2>2, <2>3
  <1>9. /\ \A j \in DOMAIN R : R[j].time = e.time /\ R[j].event \in MeetCalls
        /\ \A j \in DOMAIN R : \E k \in Keys : WaitsIn(k, R[j].event.train) # {}
        /\ \A k \in Keys : WaitersAfter(previous)[k] \subseteq waiters[k]
    <2>1. WakesAt(previous, Woken(previous, e.time), e.time)
      BY <1>2, WokenQueuers
    <2>2. WakesAt(previous, R, e.time)
      BY <2>1, <1>4
    <2> QED
      BY <2>2 DEF WakesAt, WakesQueuers
  <1>10. Advance(e) /\ heap' = (heap \ {e}) \cup NewEntries(batch)
    <2>1. /\ \A i \in DOMAIN batch : batch[i].time \in Nat /\ batch[i].event \in MeetCalls
          /\ \A i \in DOMAIN batch : batch[i].time >= e.time
      BY <1>2, <1>5, <1>7, <1>8, <1>9
    <2>2. QueueOf(MeetCalls) /\ scenario' = scenario
      BY <1>6 DEF FutureInv
    <2> QED
      BY <1>5, <2>1, <2>2, Scheduling
  <1>11. Passed(t)' = n /\ \A u : u # t => Passed(u)' = Passed(u)
    BY <1>1, <1>2, AcquireLog
  <1>12. \A u : \A action \in {"enter", "wait", "exit"} :
            Times(u, action)' = IF u = t /\ action = "enter" THEN Times(u, action) \cup {e.time}
                                ELSE Times(u, action)
    BY <1>1, AcquireTimes
  <1>13. \A k \in Keys : \A u : WaitsIn(k, u)' \subseteq WaitsIn(k, u)
    BY <1>5, <1>9 DEF WaitsIn
  <1>14. ASSUME NEW u \in Trains PROVE Logged(u)'
    <2>1. Logged(u)
      BY DEF LogInv
    <2>2. CASE u # t
      <3>1. \A j \in DOMAIN batch : batch[j].event.train = u =>
                batch[j].time = now' /\ \E k \in Keys : WaitsIn(k, u) # {}
        BY <1>5, <1>8, <1>9, <1>10, <2>2 DEF Advance
      <3>2. u \in DOMAIN loopTrack => u \in DOMAIN loopTrack' /\ loopTrack'[u] = loopTrack[u]
        BY <1>6, <2>2 DEF Put
      <3>3. Untouched(u)
        <4>1. \A g \in Pending(u)' :
                    g \in Pending(u) \/ (g.time = now' /\ \E k \in Keys : WaitsIn(k, u) # {})
          BY <1>10, <3>1, Called
        <4>2. now <= now' /\ (u \in done' <=> u \in done)
          BY <1>6, <1>10 DEF Advance
        <4> QED
          BY <1>6, <1>13, <3>2, <4>1, <4>2 DEF Untouched
      <3>4. \A action \in {"enter", "wait", "exit"} : Times(u, action)' = Times(u, action)
        BY <1>12, <2>2
      <3> QED
        BY <1>11, <2>1, <2>2, <3>3, <3>4, Onlooker DEF Untouched
    <2>3. CASE u = t
      <3>1. /\ Times(t, "enter")' = Times(t, "enter") \cup {e.time}
            /\ Times(t, "wait")' = Times(t, "wait") /\ Times(t, "exit")' = Times(t, "exit")
        BY <1>12
      <3>2. Times(t, "exit") = {} /\ Timely(t, e.time)
        BY <1>2, <2>1, <2>3 DEF Logged
      <3>3. \A g \in Pending(t)' : g.time = e.time + scenario.running[block]
        <4> SUFFICES ASSUME NEW g \in Pending(t)'
                     PROVE  g.time = e.time + scenario.running[block]
          OBVIOUS
        <4>1. g \in NewEntries(batch) /\ g.event.train = t
          BY <1>2, <1>10 DEF Pending
        <4>2. PICK j \in DOMAIN batch : g = NewEntry(batch[j], j)
          BY <4>1 DEF NewEntries
        <4>3. batch[j].event.train = t /\ g.time = batch[j].time
          BY <4>1, <4>2 DEF NewEntry
        <4>4. j = m
          BY <1>2, <1>5, <1>9, <4>3
        <4> QED
          BY <1>5, <1>8, <4>3, <4>4
      <3>4. /\ MacroArrival(t)' = MacroArrival(t)
            /\ Earliest(t)' = Earliest(t) + scenario.running[block]
            /\ n >= 2 => t \in DOMAIN loopTrack'
        <4>1. Passed(t) >= 2 => t \in DOMAIN loopTrack
          BY <2>1, <2>3 DEF Logged
        <4>2. /\ Passed(t)' = n /\ scenario' = scenario
              /\ loopTrack' = IF Route(t)[n] = "LOOP" THEN Put(loopTrack, t, block) ELSE loopTrack
          BY <1>6, <1>11
        <4> QED
          BY <1>2, <4>1, <4>2, EntersNext
      <3>5. Earliest(t) \in Nat /\ Earliest(t) >= MacroArrival(t) /\ MacroArrival(t) \in Nat
        <4>1. Passed(t) \in Nat
          BY <1>2 DEF Position
        <4> QED
          BY <1>2, <2>1, <2>3, <4>1, EarliestTyped DEF Logged
      <3>6. e.time >= MacroArrival(t)
        BY <3>2, <3>5 DEF Timely
      <3>7. \A g \in Pending(t)' : Timely(t, g.time)'
        <4> SUFFICES ASSUME NEW g \in Pending(t)' PROVE Timely(t, g.time)'
          OBVIOUS
        <4>1. PICK at \in Nat : at = g.time /\ at = e.time + scenario.running[block] /\ at > e.time
          BY <1>2, <1>7, <3>3
        <4>2. at >= Earliest(t)' /\ (Times(t, "wait")' = {} => at = Earliest(t)')
          BY <1>2, <1>7, <3>1, <3>2, <3>4, <3>5, <4>1 DEF Timely
        <4>3. \E x \in Times(t, "enter")' : x < at
          BY <1>2, <3>1, <4>1
        <4> QED
          BY <4>1, <4>2, <4>3 DEF Timely
      <3>8. \A k \in Keys : WaitsIn(k, t)' = {}
        BY <1>2, <1>13
      <3>9. \A x \in Times(t, "enter")' : x >= MacroArrival(t)'
        BY <2>1, <2>3, <3>1, <3>4, <3>6 DEF Logged
      <3> QED
        BY <1>2, <1>6, <1>11, <2>3, <3>1, <3>2, <3>4, <3>7, <3>8, <3>9 DEF Logged
    <2> QED
      BY <2>2, <2>3
  <1> QED
    BY <1>6, <1>14 DEF LogInv

\* Before the first event the log is empty, and a train's entry is pending for
\* the time of its macro arrival.
LEMMA InitLogged == Init => LogInv
  <1> SUFFICES ASSUME Init PROVE LogInv
    OBVIOUS
  <1>1. /\ scenario \in Scenarios /\ events = <<>> /\ done = {}
        /\ waiters = [k \in Blocks \cup {"LOOP"} |-> {}]
    BY DEF Init
  <1>2. \A u, action : Times(u, action) = {}
    BY <1>1 DEF Times
  <1>3. \A u : Passed(u) = 0
    <2>1. \A u : {n \in DOMAIN events : events[n].train = u /\ events[n].action = "enter"} = {}
      BY <1>1
    <2> QED
      BY <2>1, FS_EmptySet DEF Passed
  <1>4. MeetInv
    BY InitInv
  <1> DEFINE batch == [t \in Trains |-> At(scenario.trains[t].entry, Request(t, 1))]
             width == Len(scenario.trains)
  <1>5. /\ width \in Nat /\ DOMAIN batch = Trains /\ DOMAIN batch \subseteq 1..width
        /\ \A t \in Trains : /\ batch[t].time = MacroArrival(t) /\ batch[t].time \in Nat
                             /\ batch[t].event = Request(t, 1)
    BY <1>1, ScenarioTyping DEF At, MacroArrival
  <1>6. QueueInit(batch, width)
    BY DEF Init
  <1> HIDE DEF batch, width
  <1>7. heap = FirstEntries(batch)
    <2>1. \A t \in Trains : batch[t].time \in Nat /\ batch[t].event \in MeetCalls
      BY <1>5, CallsOf
    <2> QED
      BY <1>5, <1>6, <2>1, CausalInit
  <1>8. ASSUME NEW u \in Trains PROVE Logged(u)
    <2>1. \A e \in Pending(u) : e.time = MacroArrival(u)
      <3> SUFFICES ASSUME NEW e \in Pending(u) PROVE e.time = MacroArrival(u)
        OBVIOUS
      <3>1. e \in heap /\ e.event.train = u
        BY DEF Pending
      <3>2. PICK t \in Trains : e = FirstEntry(batch[t], t)
        BY <1>5, <1>7, <3>1 DEF FirstEntries
      <3>3. e.time = MacroArrival(t) /\ e.event = Request(t, 1)
        BY <1>5, <3>2 DEF FirstEntry
      <3>4. t = u
        BY <3>1, <3>3 DEF Request
      <3> QED
        BY <3>3, <3>4
    <2>2. MacroArrival(u) \in Nat /\ Earliest(u) = MacroArrival(u)
      <3>1. MacroArrival(u) \in Nat
        BY <1>5
      <3> QED
        BY <1>3, <3>1 DEF Earliest
    <2>3. \A e \in Pending(u) : Timely(u, e.time)
      BY <1>3, <2>1, <2>2 DEF Timely
    <2>4. \A k \in Keys : WaitsIn(k, u) = {}
      BY <1>1 DEF WaitsIn, Keys
    <2> QED
      BY <1>1, <1>2, <1>3, <2>3, <2>4 DEF Logged
  <1> QED
    BY <1>8 DEF LogInv

\* Nothing changes when the run is over.
LEMMA StutterLogged ==
    ASSUME LogInv, UNCHANGED vars
    PROVE  LogInv'
  <1>1. UNCHANGED <<heap, now, scenario, loopTrack, waiters, done, events>>
    BY DEF vars
  <1>2. /\ Trains' = Trains /\ \A u : Passed(u)' = Passed(u)
        /\ \A u, action : Times(u, action)' = Times(u, action)
        /\ \A u : MacroArrival(u)' = MacroArrival(u) /\ Pending(u)' = Pending(u)
        /\ \A k, u : WaitsIn(k, u)' = WaitsIn(k, u)
    BY <1>1 DEF Trains, Passed, Times, MacroArrival, Pending, WaitsIn
  <1>3. ASSUME NEW u \in Trains PROVE Logged(u)'
    <2>1. Logged(u) /\ (Passed(u) >= 2 => loopTrack'[u] = loopTrack[u])
      BY <1>1 DEF LogInv
    <2>2. \A at : Timely(u, at) => Timely(u, at)'
      BY <1>1, <1>2, <2>1, TimelyKept
    <2>3. Timely(u, now) => Timely(u, now)'
      <3>1. PICK at : at = now
        OBVIOUS
      <3>2. Timely(u, at) => Timely(u, at)'
        BY <2>2
      <3> QED
        BY <1>1, <3>1, <3>2 DEF Timely
    <2> QED
      BY <1>1, <1>2, <2>1, <2>2, <2>3 DEF Logged
  <1> QED
    BY <1>2, <1>3 DEF LogInv

\* The log agrees with where and when every train can be: an inductive
\* invariant for any number of trains, any arrivals and running times.
THEOREM LogsAreTimely == Spec => []LogInv
  <1>1. ASSUME MeetInv, FutureInv, FutureInv', LogInv, [Next]_vars PROVE LogInv'
    <2>1. CASE Turn
      <3>1. PICK e \in heap : \/ Exit(e)
                              \/ \E block \in Blocks \cup {"LOOP"} :
                                    Wait(e, block) \/ Acquire(e, block)
                              \/ AtEnd(e)
        BY <2>1 DEF Turn
      <3> QED
        BY <1>1, <3>1, ExitLogged, WaitLogged, AcquireLogged, AtEndLogged
    <2>2. CASE UNCHANGED vars
      BY <1>1, <2>2, StutterLogged
    <2> QED
      BY <1>1, <2>1, <2>2 DEF Next, Finished
  <1> QED
    BY <1>1, InitLogged, MeetInvariant, MeetFutures, PTL DEF Spec

-----------------------------------------------------------------------------
\* enters[0] and exits[0] exist when there are any, and are the least.
LEMMA FirstOfTimes ==
    ASSUME NEW S, S \subseteq Nat, S # {}
    PROVE  First(S) \in S /\ \A y \in S : First(S) <= y
  <1>1. \E x \in S : \A y \in S : x <= y
    BY LeastNumber
  <1> QED
    BY <1>1 DEF First

\* A train that is handed over entered after its arrival, left after it entered,
\* and needed at least the running time of its blocks, exactly that if it never
\* waited.
LEMMA HandedOver ==
    ASSUME MeetInv, FutureInv, LogInv, NEW t \in HandedOff
    PROVE  LET h == HandOff(t)
           IN /\ h.entry >= MacroArrival(t) /\ h.exit > h.entry
              /\ ZoneTime(h) >= FreeRunning(t)
              /\ ~h.met => ZoneTime(h) = FreeRunning(t)
  <1>1. t \in Trains /\ Times(t, "enter") # {} /\ Times(t, "exit") # {}
    BY DEF HandedOff
  <1>2. Logged(t) /\ Position(t) /\ Times(t, "enter") \subseteq Nat /\ Times(t, "exit") \subseteq Nat
    BY <1>1, TimesTyped DEF LogInv, FutureInv
  <1>3. PICK entry, exit \in Nat :
            /\ entry = First(Times(t, "enter")) /\ entry \in Times(t, "enter")
            /\ exit = First(Times(t, "exit")) /\ exit \in Times(t, "exit")
            /\ \A x \in Times(t, "enter") : entry <= x
    BY <1>1, <1>2, FirstOfTimes
  <1>4. PICK h : h = HandOff(t)
    OBVIOUS
  <1>5. /\ h.entry = entry /\ h.exit = exit /\ h.arrival = MacroArrival(t)
        /\ h.met = (Times(t, "wait") # {})
    BY <1>3, <1>4 DEF HandOff
  <1>6. t \in done /\ Passed(t) = 3 /\ Timely(t, exit) /\ entry >= MacroArrival(t)
    BY <1>1, <1>2, <1>3 DEF Logged, Position
  <1>7. \E x \in Times(t, "enter") : x < exit
    BY <1>6 DEF Timely
  <1>8. exit > entry
    BY <1>2, <1>3, <1>7
  <1>9. Earliest(t) = MacroArrival(t) + FreeRunning(t) /\ MacroArrival(t) \in Nat
            /\ FreeRunning(t) \in Nat
    <2>1. /\ MacroArrival(t) \in Nat /\ \A b \in Blocks : scenario.running[b] \in Nat \ {0}
      BY <1>1, <1>2, <1>6, EarliestTyped DEF Logged, Position
    <2>2. t \in DOMAIN loopTrack
      BY <1>2, <1>6 DEF Logged
    <2>3. loopTrack[t] \in Blocks
      BY <2>2, Strings DEF MeetInv, TypeOK, Range
    <2>4. PICK west, east, loop \in Nat :
                /\ west = scenario.running["west_approach"]
                /\ east = scenario.running["east_approach"]
                /\ loop = scenario.running[loopTrack[t]]
      BY <2>1, <2>3 DEF Blocks
    <2>5. FreeRunning(t) = west + east + loop
      BY <2>4 DEF FreeRunning
    <2>6. CASE Route(t) = <<"west_approach", "LOOP", "east_approach">>
      <3>1. Earliest(t) = MacroArrival(t) + west + loop + east
        BY <1>6, <2>4, <2>6 DEF Earliest
      <3> QED
        BY <2>1, <2>4, <2>5, <3>1
    <2>7. CASE Route(t) = <<"east_approach", "LOOP", "west_approach">>
      <3>1. Earliest(t) = MacroArrival(t) + east + loop + west
        BY <1>6, <2>4, <2>7 DEF Earliest
      <3> QED
        BY <2>1, <2>4, <2>5, <3>1
    <2> QED
      BY <2>6, <2>7 DEF Route
  <1>10. ZoneTime(h) = exit - MacroArrival(t)
    BY <1>5 DEF ZoneTime
  <1>11. exit >= Earliest(t) /\ (Times(t, "wait") = {} => exit = Earliest(t))
    BY <1>6 DEF Timely
  <1>12. /\ ZoneTime(h) >= FreeRunning(t)
         /\ Times(t, "wait") = {} => ZoneTime(h) = FreeRunning(t)
    BY <1>9, <1>10, <1>11
  <1> QED
    BY <1>4, <1>5, <1>6, <1>8, <1>12

\* The boundary contract: the only way a hand-off can fail is a deadlock; no
\* train enters before macro delivers it or leaves before it entered.
THEOREM HandOffsAreConsistent == Spec => []OnlyDeadlocksAreInconsistent
  <1>1. ASSUME MeetInv, FutureInv, LogInv PROVE OnlyDeadlocksAreInconsistent
    <2> SUFFICES ASSUME ~Deadlocked PROVE Consistent
      BY DEF OnlyDeadlocksAreInconsistent, Consistent
    <2>1. done = Trains
      BY DEF Deadlocked
    <2>2. ASSUME NEW t \in Trains PROVE t \in HandedOff
      <3>1. Logged(t) /\ Position(t) /\ t \in done
        BY <1>1, <2>1 DEF LogInv, FutureInv
      <3>2. Times(t, "exit") # {} /\ Passed(t) = 3
        BY <3>1 DEF Logged, Position
      <3>3. Times(t, "enter") # {}
        <4>1. PICK x \in Times(t, "exit") : Timely(t, x)
          BY <3>1, <3>2 DEF Logged
        <4> QED
          BY <3>2, <4>1 DEF Timely
      <3> QED
        BY <3>2, <3>3 DEF HandedOff
    <2>3. HandedOff = Trains
      BY <2>2 DEF HandedOff
    <2> QED
      BY <1>1, <2>3, HandedOver DEF Consistent
  <1> QED
    BY <1>1, MeetInvariant, MeetFutures, LogsAreTimely, PTL

\* Micro contention reaches macro only through waiting: a train spends its
\* running time in the zone, and more only if it queued for a block.
THEOREM ZoneDelayIsWaiting == Spec => []DelayIsWaiting
  <1>1. ASSUME MeetInv, FutureInv, LogInv PROVE DelayIsWaiting
    BY <1>1, HandedOver DEF DelayIsWaiting
  <1> QED
    BY <1>1, MeetInvariant, MeetFutures, LogsAreTimely, PTL

-----------------------------------------------------------------------------
(***************************************************************************)
(* Passing.  A train has left the zone before the other one came, or they  *)
(* are on different tracks when both have reached the loop.                *)
(***************************************************************************)
Before(t, u) == t \in done /\ \A x \in Times(t, "exit"), y \in Times(u, "enter") : x <= y

\* The log tells of the past, and a train on the loop is on its track.
Placed(t) ==
    /\ \A x \in Times(t, "exit") : x <= now
    /\ Passed(t) = 2 => current[t] = loopTrack[t]

\* A train enters its first block after the opposing ones that are over, and
\* takes a loop track after the opposing ones that have been on it.
Follows(t, u) == t \in done /\ Passed(u) = 1 => Before(t, u)
Apart(t, u) ==
    t \in DOMAIN loopTrack /\ u \in DOMAIN loopTrack /\ loopTrack[t] = loopTrack[u]
        => Before(t, u) \/ Before(u, t)

PassInv ==
    /\ \A t \in Trains : Placed(t)
    /\ \A t, u \in Trains : Opposed(t, u) => Follows(t, u) /\ Apart(t, u)

\* The first block of a train is the last one of an opposing train.
LEMMA OpposingRoutes ==
    ASSUME MeetInv, NEW t \in Trains, NEW u \in Trains, Opposed(t, u)
    PROVE  /\ Route(t)[3] = Route(u)[1] /\ Wanted(Route(u)[1]) = {Route(u)[1]}
           /\ t # u /\ Opposed(u, t)
  <1>1. scenario.trains \in Seq(MicroMeetTrain)
    BY ScenariosAssumption DEF ScenariosAssumption, MeetInv
  <1>2. /\ scenario.trains[t].direction \in {"WE", "EW"}
        /\ scenario.trains[u].direction \in {"WE", "EW"}
    <2>1. scenario.trains[t] \in MicroMeetTrain /\ scenario.trains[u] \in MicroMeetTrain
      BY <1>1 DEF Trains
    <2> QED
      BY <2>1 DEF MicroMeetTrain
  <1>3. Wanted(Route(u)[1]) = {Route(u)[1]}
    <2>1. Route(u)[1] # "LOOP"
      BY Routes
    <2> QED
      BY <2>1 DEF Wanted
  <1> QED
    BY <1>2, <1>3 DEF Opposed, Route

\* On its first block a train meets no opposing train that is on its last.
LEMMA OneOnTheApproach ==
    ASSUME MeetInv, FutureInv, NEW t \in Trains, NEW u \in Trains, Opposed(t, u),
           Passed(t) = 3, Passed(u) = 1
    PROVE  t \in done
  <1> SUFFICES ASSUME t \notin done PROVE FALSE
    OBVIOUS
  <1>1. Position(t) /\ Position(u)
    BY DEF FutureInv
  <1>2. u \notin done
    BY <1>1 DEF Position
  <1>3. /\ current[t] \in Wanted(Route(t)[3]) /\ current[t] \in Blocks
        /\ current[u] \in Wanted(Route(u)[1]) /\ current[u] \in Blocks
    BY <1>1, <1>2, ComesFrom
  <1>4. current[t] = current[u] /\ current[t] # Outside /\ t # u
    BY <1>3, OpposingRoutes, Strings
  <1>5. held[current[t]] = t /\ held[current[u]] = u
    BY <1>4 DEF MeetInv, HoldsItsBlock
  <1> QED
    BY <1>4, <1>5

\* That a train was over before another came does not change.
LEMMA BeforeKept ==
    ASSUME NEW t, NEW u, Before(t, u), Placed(t), done \subseteq done',
           Times(t, "exit") \subseteq Nat, now \in Nat, now' \in Nat, now <= now',
           Times(t, "exit")' = Times(t, "exit"),
           Times(u, "enter")' \subseteq Times(u, "enter") \cup {now'}
    PROVE  Before(t, u)'
  <1>1. t \in done'
    BY DEF Before
  <1>2. ASSUME NEW x \in Times(t, "exit")', NEW y \in Times(u, "enter")' PROVE x <= y
    <2>1. x \in Times(t, "exit") /\ x \in Nat /\ x <= now
      BY DEF Placed
    <2>2. CASE y \in Times(u, "enter")
      BY <2>1, <2>2 DEF Before
    <2>3. CASE y = now'
      BY <2>1, <2>3
    <2> QED
      BY <2>2, <2>3
  <1> QED
    BY <1>1, <1>2 DEF Before

\* A train that has entered nothing has no entry in the log.
LEMMA NoEntries ==
    ASSUME FutureInv, NEW u, Passed(u) = 0
    PROVE  Times(u, "enter") = {}
  <1>1. events \in Seq(MeetEvents)
    BY DEF FutureInv
  <1>2. PICK n \in Nat : DOMAIN events = 1..n
    BY <1>1, LenProperties
  <1>3. PICK N : N = {m \in DOMAIN events : events[m].train = u /\ events[m].action = "enter"}
    OBVIOUS
  <1>4. IsFiniteSet(N)
    <2>1. N \subseteq 1..n
      BY <1>2, <1>3
    <2>2. IsFiniteSet(1..n)
      BY FS_Interval
    <2> QED
      BY <2>1, <2>2, FS_Subset
  <1>5. Cardinality(N) = 0
    BY <1>3 DEF Passed
  <1>6. N = {}
    BY <1>4, <1>5, FS_EmptySet
  <1> QED
    BY <1>3, <1>6 DEF Times

\* Every handler moves the clock to its event.
LEMMA Onward ==
    ASSUME FutureInv, NEW e \in heap, NEW batch, NEW width, Process(e, batch, width)
    PROVE  now \in Nat /\ now' \in Nat /\ now <= now' /\ now' = e.time
  <1>1. heap \subseteq [time : Nat, seq : Nat, event : MeetCalls] /\ now <= e.time /\ now \in Nat
    BY DEF FutureInv, QueueOf
  <1>2. now' = e.time
    BY DEF Process
  <1> QED
    BY <1>1, <1>2

\* Nothing passes when no train enters or leaves.
LEMMA PassKept ==
    ASSUME FutureInv, PassInv, now \in Nat, now' \in Nat, now <= now',
           UNCHANGED <<scenario, current, loopTrack, done>>,
           \A u : Passed(u)' = Passed(u),
           \A u : \A action \in {"enter", "exit"} : Times(u, action)' = Times(u, action)
    PROVE  PassInv'
  <1>1. Trains' = Trains /\ \A t, u : Opposed(t, u)' = Opposed(t, u)
    BY DEF Trains, Opposed
  <1>2. \A t : Times(t, "exit") \subseteq Nat
    BY TimesTyped
  <1>3. ASSUME NEW t \in Trains PROVE Placed(t)'
    <2>1. Placed(t)
      BY DEF PassInv
    <2>2. \A x \in Times(t, "exit")' : x <= now'
      <3> SUFFICES ASSUME NEW x \in Times(t, "exit") PROVE x <= now'
        OBVIOUS
      <3>1. x \in Nat /\ x <= now
        BY <1>2, <2>1 DEF Placed
      <3> QED
        BY <3>1
    <2> QED
      BY <2>1, <2>2 DEF Placed
  <1>4. ASSUME NEW t \in Trains, NEW u \in Trains, Before(t, u) PROVE Before(t, u)'
    <2>1. Placed(t)
      BY DEF PassInv
    <2> QED
      BY <1>2, <1>4, <2>1, BeforeKept
  <1>5. ASSUME NEW t \in Trains, NEW u \in Trains, Opposed(t, u)'
        PROVE  Follows(t, u)' /\ Apart(t, u)'
    <2>1. Follows(t, u) /\ Apart(t, u)
      BY <1>1, <1>5 DEF PassInv
    <2> QED
      BY <1>4, <2>1 DEF Follows, Apart
  <1> QED
    BY <1>1, <1>3, <1>5 DEF PassInv

\* A train that leaves does so after all that is in the log, and after every
\* opposing train on its last block has gone.
LEMMA ExitPasses ==
    ASSUME MeetInv, FutureInv, PassInv, NEW e \in heap, Exit(e)
    PROVE  PassInv'
  <1>1. PICK a : a = e.event.train
    OBVIOUS
  <1>2. /\ a \in Trains /\ a \notin done /\ e.time \in Nat /\ Passed(a) = 3
    BY <1>1, Leaver
  <1>3. /\ scenario' = scenario /\ loopTrack' = loopTrack /\ done' = done \cup {a}
        /\ current' = [current EXCEPT ![a] = Outside]
        /\ \E batch, width : Process(e, batch, width)
    BY <1>1 DEF Exit
  <1>4. now \in Nat /\ now' \in Nat /\ now <= now' /\ now' = e.time
    BY <1>3, Onward
  <1>5. \A u : Passed(u)' = Passed(u)
    BY ExitLog
  <1>6. \A u : Times(u, "enter")' = Times(u, "enter")
                /\ Times(u, "exit")' = IF u = a THEN Times(u, "exit") \cup {now'} ELSE Times(u, "exit")
    BY <1>1, <1>4, ExitTimes
  <1>7. Trains' = Trains /\ \A t, u : Opposed(t, u)' = Opposed(t, u)
    BY <1>3 DEF Trains, Opposed
  <1>8. \A t : Times(t, "exit") \subseteq Nat
    BY TimesTyped
  <1>9. current \in [Trains -> Blocks \cup {Outside}]
    BY DEF MeetInv, TypeOK
  <1>10. ASSUME NEW t \in Trains PROVE Placed(t)'
    <2>1. Placed(t)
      BY DEF PassInv
    <2>2. \A x \in Times(t, "exit")' : x <= now'
      <3> SUFFICES ASSUME NEW x \in Times(t, "exit")' PROVE x <= now'
        OBVIOUS
      <3>1. CASE x = now'
        BY <1>4, <3>1
      <3>2. CASE x \in Times(t, "exit")
        <4>1. x \in Nat /\ x <= now
          BY <1>8, <2>1, <3>2 DEF Placed
        <4> QED
          BY <1>4, <4>1
      <3> QED
        BY <1>6, <3>1, <3>2
    <2>3. Passed(t)' = 2 => current'[t] = loopTrack'[t]
      <3> SUFFICES ASSUME Passed(t) = 2 PROVE current'[t] = loopTrack'[t]
        BY <1>5
      <3>1. t # a
        BY <1>2
      <3>2. current'[t] = current[t]
        BY <1>3, <1>9, <3>1
      <3> QED
        BY <1>3, <2>1, <3>2 DEF Placed
    <2> QED
      BY <2>2, <2>3 DEF Placed
  <1>11. ASSUME NEW t \in Trains, NEW u \in Trains, Before(t, u) PROVE Before(t, u)'
    <2>1. Placed(t) /\ t # a
      BY <1>2, <1>11 DEF PassInv, Before
    <2>2. Times(t, "exit")' = Times(t, "exit") /\ done \subseteq done'
      BY <1>3, <1>6, <2>1
    <2> QED
      BY <1>4, <1>6, <1>8, <1>11, <2>1, <2>2, BeforeKept
  <1>12. ASSUME NEW t \in Trains, NEW u \in Trains, Opposed(t, u)'
         PROVE  Follows(t, u)' /\ Apart(t, u)'
    <2>1. Follows(t, u) /\ Apart(t, u) /\ Opposed(t, u)
      BY <1>7, <1>12 DEF PassInv
    <2>2. Apart(t, u)'
      BY <1>3, <1>11, <2>1 DEF Apart
    <2>3. ASSUME t \in done', Passed(u) = 1 PROVE Before(t, u)'
      <3>1. t # a
        <4> SUFFICES ASSUME t = a PROVE FALSE
          OBVIOUS
        <4>1. t \in done
          BY <1>2, <2>1, <2>3, OneOnTheApproach
        <4> QED
          BY <1>2, <4>1
      <3>2. t \in done
        BY <1>3, <2>3, <3>1
      <3> QED
        BY <1>11, <2>1, <2>3, <3>2 DEF Follows
    <2> QED
      BY <1>5, <2>2, <2>3 DEF Follows
  <1> QED
    BY <1>7, <1>10, <1>12 DEF PassInv

\* Who takes a loop track finds it free: an opposing train that was on it is on
\* the approach the train comes from, which it is not, or over.
LEMMA TakesAFreeTrack ==
    ASSUME MeetInv, FutureInv, PassInv, NEW t \in Trains, NEW u \in Trains, Opposed(t, u),
           t \in DOMAIN loopTrack, Passed(u) = 1, held[loopTrack[t]] = Free
    PROVE  Before(t, u)
  <1>1. Position(t) /\ Position(u) /\ Placed(t)
    BY DEF FutureInv, PassInv
  <1>2. Passed(t) = 2 \/ Passed(t) = 3
    BY <1>1 DEF Position
  <1>3. Passed(t) # 2
    <2> SUFFICES ASSUME Passed(t) = 2 PROVE FALSE
      OBVIOUS
    <2>1. t \notin done /\ current[t] = loopTrack[t]
      BY <1>1 DEF Position, Placed
    <2>2. current[t] \in Blocks
      BY <1>1, <2>1, ComesFrom
    <2>3. held[current[t]] = t /\ t # Free
      BY <2>2, Strings, ScenarioTyping DEF MeetInv, HoldsItsBlock
    <2> QED
      BY <2>1, <2>3
  <1>4. t \in done
    BY <1>2, <1>3, OneOnTheApproach
  <1> QED
    BY <1>4 DEF PassInv, Follows

\* A train that enters does so after all that is in the log.
LEMMA AcquirePasses ==
    ASSUME MeetInv, FutureInv, LogInv, PassInv, NEW e \in heap, NEW block, Acquire(e, block)
    PROVE  PassInv'
  <1>1. PICK a, n : a = e.event.train /\ n = e.event.step
    OBVIOUS
  <1>2. /\ a \in Trains /\ a \notin done /\ n \in 1..3 /\ n = Passed(a) + 1
        /\ block \in Blocks /\ held[block] = Free /\ Position(a)
        /\ (n = 1 => Passed(a) = 0) /\ (n = 2 => Passed(a) = 1)
    <2>1. /\ a \in Trains /\ a \notin done /\ n \in 1..3 /\ n = Passed(a) + 1
          /\ block \in Blocks /\ held[block] = Free /\ Position(a)
      BY <1>1, Taker
    <2>2. Passed(a) \in 0..3
      BY <2>1 DEF Position
    <2> QED
      BY <2>1, <2>2
  <1>3. /\ scenario' = scenario /\ done' = done /\ current' = [current EXCEPT ![a] = block]
        /\ loopTrack' = IF Route(a)[n] = "LOOP" THEN Put(loopTrack, a, block) ELSE loopTrack
        /\ \E batch, width : Process(e, batch, width)
    BY <1>1 DEF Acquire
  <1>4. now \in Nat /\ now' \in Nat /\ now <= now' /\ now' = e.time
    BY <1>3, Onward
  <1>5. Passed(a)' = n /\ \A u : u # a => Passed(u)' = Passed(u)
    BY <1>1, <1>2, AcquireLog
  <1>6. \A u : Times(u, "exit")' = Times(u, "exit")
                /\ Times(u, "enter")' = IF u = a THEN Times(u, "enter") \cup {now'} ELSE Times(u, "enter")
    BY <1>1, <1>4, AcquireTimes
  <1>7. Trains' = Trains /\ \A t, u : Opposed(t, u)' = Opposed(t, u)
    BY <1>3 DEF Trains, Opposed
  <1>8. \A t : Times(t, "exit") \subseteq Nat
    BY TimesTyped
  <1>9. current \in [Trains -> Blocks \cup {Outside}]
    BY DEF MeetInv, TypeOK
  <1>10. /\ n = 2 => Route(a)[n] = "LOOP" /\ loopTrack' = Put(loopTrack, a, block)
                     /\ a \notin DOMAIN loopTrack
         /\ n # 2 => loopTrack' = loopTrack
    <2>1. Route(a)[2] = "LOOP" /\ Route(a)[1] # "LOOP" /\ Route(a)[3] # "LOOP"
      BY Routes
    <2>2. CASE n = 2
      <3>1. Passed(a) = 1
        BY <1>2, <2>2 DEF Position
      <3>2. a \notin DOMAIN loopTrack
        BY <1>2, <3>1 DEF Position
      <3> QED
        BY <1>3, <2>1, <2>2, <3>2
    <2>3. CASE n = 1 \/ n = 3
      BY <1>3, <2>1, <2>3
    <2> QED
      BY <1>2, <2>2, <2>3
  <1>11. \A x \in Trains \ {a} : /\ x \in DOMAIN loopTrack' <=> x \in DOMAIN loopTrack
                                 /\ x \in DOMAIN loopTrack => loopTrack'[x] = loopTrack[x]
                                 /\ Passed(x)' = Passed(x) /\ current'[x] = current[x]
    BY <1>3, <1>5, <1>9 DEF Put
  <1>12. ASSUME NEW t \in Trains PROVE Placed(t)'
    <2>1. Placed(t) /\ Logged(t)
      BY DEF PassInv, LogInv
    <2>2. \A x \in Times(t, "exit")' : x <= now'
      <3> SUFFICES ASSUME NEW x \in Times(t, "exit") PROVE x <= now'
        BY <1>6
      <3>1. x \in Nat /\ x <= now
        BY <1>8, <2>1 DEF Placed
      <3> QED
        BY <1>4, <3>1
    <2>3. ASSUME Passed(t)' = 2 PROVE current'[t] = loopTrack'[t]
      <3>1. CASE t = a
        <4>1. loopTrack'[a] = block
          BY <1>5, <1>10, <2>3, <3>1 DEF Put
        <4>2. current'[a] = block
          BY <1>2, <1>3, <1>9
        <4> QED
          BY <3>1, <4>1, <4>2
      <3>2. CASE t # a
        <4>1. Passed(t) = 2 /\ current'[t] = current[t] /\ current[t] = loopTrack[t]
          BY <1>11, <2>1, <2>3, <3>2 DEF Placed
        <4>2. loopTrack'[t] = loopTrack[t]
          <5>1. t \in DOMAIN loopTrack
            BY <2>1, <4>1 DEF Logged
          <5> QED
            BY <1>11, <3>2, <5>1
        <4> QED
          BY <4>1, <4>2
      <3> QED
        BY <3>1, <3>2
    <2> QED
      BY <2>2, <2>3 DEF Placed
  <1>13. ASSUME NEW t \in Trains, NEW u \in Trains, Before(t, u) PROVE Before(t, u)'
    <2>1. Placed(t)
      BY DEF PassInv
    <2>2. Times(u, "enter")' \subseteq Times(u, "enter") \cup {now'} /\ done \subseteq done'
      BY <1>3, <1>6
    <2> QED
      BY <1>4, <1>6, <1>8, <1>13, <2>1, <2>2, BeforeKept
  <1>14. ASSUME NEW t \in Trains, NEW u \in Trains, Opposed(t, u)
         PROVE  Follows(t, u)'
    <2>1. Follows(t, u) /\ Placed(t) /\ t # u
      BY <1>14, OpposingRoutes DEF PassInv
    <2> SUFFICES ASSUME t \in done, Passed(u)' = 1 PROVE Before(t, u)'
      BY <1>3 DEF Follows
    <2>2. CASE u # a
      <3>1. Passed(u) = 1
        BY <1>5, <2>2
      <3>2. Before(t, u)
        BY <2>1, <3>1 DEF Follows
      <3> QED
        BY <1>13, <3>2
    <2>3. CASE u = a
      <3>1. Passed(u) = 0
        <4>1. Passed(a)' = 1
          BY <2>3, Zenon
        <4>2. n = 1
          BY <1>5, <4>1
        <4> QED
          BY <1>2, <2>3, <4>2, Zenon
      <3>2. Times(u, "enter")' = {now'}
        BY <1>6, <2>3, <3>1, NoEntries
      <3>3. \A x \in Times(t, "exit")' : x <= now'
        BY <1>12 DEF Placed
      <3> QED
        BY <1>3, <3>2, <3>3 DEF Before
    <2> QED
      BY <2>2, <2>3
  <1>15. ASSUME NEW t \in Trains, NEW u \in Trains, Opposed(t, u), t # a,
                u = a => n # 2
         PROVE  Apart(t, u)'
    <2>1. Apart(t, u)
      BY <1>15 DEF PassInv
    <2>2. /\ t \in DOMAIN loopTrack' <=> t \in DOMAIN loopTrack
          /\ t \in DOMAIN loopTrack => loopTrack'[t] = loopTrack[t]
      BY <1>11, <1>15
    <2>3. /\ u \in DOMAIN loopTrack' <=> u \in DOMAIN loopTrack
          /\ u \in DOMAIN loopTrack => loopTrack'[u] = loopTrack[u]
      BY <1>10, <1>11, <1>15
    <2>4. (Before(t, u) => Before(t, u)') /\ (Before(u, t) => Before(u, t)')
      BY <1>13
    <2> SUFFICES ASSUME t \in DOMAIN loopTrack', u \in DOMAIN loopTrack', loopTrack'[t] = loopTrack'[u]
                 PROVE  Before(t, u)' \/ Before(u, t)'
      BY DEF Apart
    <2>5. Before(t, u) \/ Before(u, t)
      BY <2>1, <2>2, <2>3 DEF Apart
    <2> QED
      BY <2>4, <2>5
  <1>16. ASSUME NEW t \in Trains, Opposed(t, a), n = 2
         PROVE  Apart(t, a)'
    <2>1. t # a /\ Passed(a) = 1 /\ loopTrack'[a] = block
      <3>1. t # a
        BY <1>2, <1>16, OpposingRoutes
      <3>2. loopTrack'[a] = block
        BY <1>10, <1>16 DEF Put
      <3> QED
        BY <1>2, <1>16, <3>1, <3>2, Zenon
    <2> SUFFICES ASSUME t \in DOMAIN loopTrack', loopTrack'[t] = block PROVE Before(t, a)'
      BY <2>1 DEF Apart
    <2>2. t \in DOMAIN loopTrack /\ loopTrack[t] = block
      BY <1>11, <2>1
    <2>3. Before(t, a)
      BY <1>2, <1>16, <2>1, <2>2, TakesAFreeTrack
    <2> QED
      BY <1>2, <1>13, <2>3
  <1>17. \A t, u \in Trains : Opposed(t, u) => Apart(t, u)'
    <2> SUFFICES ASSUME NEW t \in Trains, NEW u \in Trains, Opposed(t, u) PROVE Apart(t, u)'
      OBVIOUS
    <2>1. Opposed(u, t) /\ t # u
      BY OpposingRoutes
    <2>2. Apart(u, t)' => Apart(t, u)'
      BY DEF Apart
    <2>3. CASE t # a
      BY <1>15, <1>16, <2>3
    <2>4. CASE t = a
      <3>1. u # a
        BY <2>1, <2>4
      <3>2. Apart(u, t)'
        BY <1>15, <1>16, <2>1, <2>4, <3>1
      <3> QED
        BY <2>2, <3>2
    <2> QED
      BY <2>3, <2>4
  <1> QED
    BY <1>7, <1>12, <1>14, <1>17 DEF PassInv

\* Nothing has passed when the run starts.
LEMMA InitPasses == Init => PassInv
  <1> SUFFICES ASSUME Init PROVE PassInv
    OBVIOUS
  <1>1. events = <<>> /\ done = {} /\ loopTrack = <<>>
    BY DEF Init
  <1>2. \A u, action : Times(u, action) = {}
    BY <1>1 DEF Times
  <1>3. \A u : Passed(u) = 0
    <2>1. \A u : {n \in DOMAIN events : events[n].train = u /\ events[n].action = "enter"} = {}
      BY <1>1
    <2> QED
      BY <2>1, FS_EmptySet DEF Passed
  <1>4. DOMAIN loopTrack = {}
    BY <1>1
  <1> QED
    BY <1>1, <1>2, <1>3, <1>4 DEF PassInv, Placed, Follows, Apart

\* Opposing trains meet on the loop only, each on its track, at every instant
\* of a run, whatever the trains, the running times and the policy.
THEOREM PassesAreOnTheLoop == Spec => []PassesAreInTheLoop
  <1>1. ASSUME MeetInv, FutureInv, LogInv, PassInv, [Next]_vars PROVE PassInv'
    <2>1. CASE Turn
      <3>1. PICK e \in heap : \/ Exit(e)
                              \/ \E block \in Blocks \cup {"LOOP"} :
                                    Wait(e, block) \/ Acquire(e, block)
                              \/ AtEnd(e)
        BY <2>1 DEF Turn
      <3>2. ASSUME NEW block, Wait(e, block) PROVE PassInv'
        <4>1. /\ UNCHANGED <<scenario, current, loopTrack, done>>
              /\ \E batch, width : Process(e, batch, width)
          BY <3>2 DEF Wait
        <4>2. now \in Nat /\ now' \in Nat /\ now <= now'
          BY <1>1, <4>1, Onward
        <4>3. \A u : Passed(u)' = Passed(u)
          BY <1>1, <3>2, WaitLog
        <4>4. \A u : \A action \in {"enter", "exit"} : Times(u, action)' = Times(u, action)
          BY <1>1, <3>2, WaitTimes
        <4> QED
          BY <1>1, <4>1, <4>2, <4>3, <4>4, PassKept
      <3>3. ASSUME AtEnd(e) PROVE PassInv'
        <4>1. /\ UNCHANGED <<scenario, current, loopTrack, done, events>>
              /\ \E batch, width : Process(e, batch, width)
          BY <3>3 DEF AtEnd
        <4>2. now \in Nat /\ now' \in Nat /\ now <= now'
          BY <1>1, <4>1, Onward
        <4>3. \A u : Passed(u)' = Passed(u) /\ \A action : Times(u, action)' = Times(u, action)
          BY <4>1 DEF Passed, Times
        <4> QED
          BY <1>1, <4>1, <4>2, <4>3, PassKept
      <3> QED
        BY <1>1, <3>1, <3>2, <3>3, ExitPasses, AcquirePasses
    <2>2. CASE UNCHANGED vars
      <3>1. UNCHANGED <<now, scenario, current, loopTrack, done, events>>
        BY <2>2 DEF vars
      <3>2. now \in Nat /\ now' \in Nat /\ now <= now'
        BY <1>1, <3>1 DEF FutureInv, QueueOf
      <3>3. \A u : Passed(u)' = Passed(u) /\ \A action : Times(u, action)' = Times(u, action)
        BY <3>1 DEF Passed, Times
      <3> QED
        BY <1>1, <3>1, <3>2, <3>3, PassKept
    <2> QED
      BY <1>1, <2>1, <2>2 DEF Next, Finished
  <1>2. ASSUME MeetInv, FutureInv, LogInv, PassInv PROVE PassesAreInTheLoop
    <2> SUFFICES ASSUME NEW t \in HandedOff, NEW u \in HandedOff, Opposed(t, u),
                        Overlap(HandOff(t), HandOff(u)), loopTrack[t] = loopTrack[u]
                 PROVE  FALSE
      BY DEF PassesAreInTheLoop
    <2>1. ASSUME NEW x \in HandedOff
          PROVE  /\ x \in Trains /\ x \in DOMAIN loopTrack
                 /\ HandOff(x).entry \in Times(x, "enter") /\ HandOff(x).exit \in Times(x, "exit")
                 /\ HandOff(x).entry \in Nat /\ HandOff(x).exit \in Nat
      <3>1. x \in Trains /\ Times(x, "enter") # {} /\ Times(x, "exit") # {}
        BY DEF HandedOff
      <3>2. Logged(x) /\ Position(x) /\ Times(x, "enter") \subseteq Nat /\ Times(x, "exit") \subseteq Nat
        BY <1>2, <3>1, TimesTyped DEF LogInv, FutureInv
      <3>3. x \in DOMAIN loopTrack
        BY <3>1, <3>2 DEF Logged, Position
      <3>4. First(Times(x, "enter")) \in Times(x, "enter") /\ First(Times(x, "exit")) \in Times(x, "exit")
        BY <3>1, <3>2, FirstOfTimes
      <3> QED
        BY <3>1, <3>2, <3>3, <3>4 DEF HandOff
    <2>2. Before(t, u) \/ Before(u, t)
      BY <1>2, <2>1 DEF PassInv, Apart
    <2>3. PICK g, h : g = HandOff(t) /\ h = HandOff(u)
      OBVIOUS
    <2>4. g.entry < h.exit /\ h.entry < g.exit
      BY <2>3 DEF Overlap
    <2>5. g.exit <= h.entry \/ h.exit <= g.entry
      BY <2>1, <2>2, <2>3 DEF Before
    <2>6. g.entry \in Nat /\ h.entry \in Nat /\ g.exit \in Nat /\ h.exit \in Nat
      BY <2>1, <2>3
    <2> QED
      BY <2>4, <2>5, <2>6
  <1> QED
    BY <1>1, <1>2, InitPasses, MeetInvariant, MeetFutures, LogsAreTimely, PTL DEF Spec

-----------------------------------------------------------------------------
(***************************************************************************)
(* What the report of a coupled run counts.                                *)
(***************************************************************************)
Directions == {"WE", "EW"}

\* What a hand-off is: one per train, and it takes time.
ZoneTyped ==
    /\ IsFiniteSet(HandOffs)
    /\ \A h \in HandOffs : /\ h.entry \in Nat /\ h.exit \in Nat /\ h.entry < h.exit
                           /\ h.train \in Nat /\ Boundary(h) \in Directions
    /\ \A g, h \in HandOffs : g.train = h.train => g = h

\* The hand-offs of every run are.
LEMMA HandOffsTyped ==
    ASSUME MeetInv, FutureInv, LogInv
    PROVE  ZoneTyped
  <1>1. /\ scenario \in Scenarios /\ Trains = 1..Len(scenario.trains) /\ Len(scenario.trains) \in Nat
        /\ scenario.trains \in Seq(MicroMeetTrain)
    BY ScenarioTyping, ScenariosAssumption DEF ScenariosAssumption, MeetInv
  <1>2. IsFiniteSet(HandOffs)
    <2>1. PICK n \in Nat : Trains = 1..n
      BY <1>1
    <2>2. IsFiniteSet(1..n)
      BY FS_Interval
    <2>3. IsFiniteSet(HandedOff)
      BY <2>1, <2>2, FS_Subset DEF HandedOff
    <2> DEFINE g == [t \in HandedOff |-> HandOff(t)]
    <2>4. g \in Surjection(HandedOff, HandOffs)
      BY DEF HandOffs, Surjection
    <2> QED
      BY <2>3, <2>4, FS_Surjection
  <1>3. ASSUME NEW t \in HandedOff
        PROVE  /\ HandOff(t).train = t /\ t \in Nat /\ Boundary(HandOff(t)) \in Directions
               /\ HandOff(t).entry \in Nat /\ HandOff(t).exit \in Nat /\ HandOff(t).entry < HandOff(t).exit
    <2>1. t \in Trains /\ Times(t, "enter") # {} /\ Times(t, "exit") # {}
      BY DEF HandedOff
    <2>2. Times(t, "enter") \subseteq Nat /\ Times(t, "exit") \subseteq Nat
      BY TimesTyped
    <2>3. First(Times(t, "enter")) \in Nat /\ First(Times(t, "exit")) \in Nat
      BY <2>1, <2>2, FirstOfTimes
    <2>4. scenario.trains[t] \in MicroMeetTrain /\ t \in Nat
      BY <1>1, <2>1
    <2>5. HandOff(t).exit > HandOff(t).entry
      BY HandedOver
    <2> QED
      BY <2>3, <2>4, <2>5 DEF HandOff, Boundary, Directions, MicroMeetTrain
  <1> QED
    BY <1>2, <1>3 DEF ZoneTyped, HandOffs

EntryOf(h) == [time |-> h.entry, delta |-> 1, of |-> h]
ExitOf(h) == [time |-> h.exit, delta |-> -1, of |-> h]

\* Where each train enters and leaves in the course of the sweep.
Sequenced(ev, n, b, f) ==
    /\ n \in Nat /\ DOMAIN ev = 1..n
    /\ \A h \in HandOffs : /\ b[h] \in 1..n /\ f[h] \in 1..n
                           /\ ev[b[h]] = EntryOf(h) /\ ev[f[h]] = ExitOf(h)
    /\ \A i \in 1..n : \E h \in HandOffs : i = b[h] \/ i = f[h]
    /\ \A i, j \in 1..n : i < j => LeavesFirst(ev[i], ev[j])

\* The sweep's events are numbers and trains.
LEMMA EventsTyped ==
    ASSUME ZoneTyped, NEW e \in ZoneEvents
    PROVE  /\ e.time \in Nat /\ e.delta \in {1, -1} /\ e.of \in HandOffs /\ e.of.train \in Nat
           /\ e.delta = 1 => e = EntryOf(e.of)
           /\ e.delta = -1 => e = ExitOf(e.of)
  BY DEF ZoneTyped, ZoneEvents, EntryOf, ExitOf

\* The sorted events are such a course.
LEMMA EventsSequenced ==
    ASSUME ZoneTyped
    PROVE  \E n, b, f : Sequenced(Sorted(ZoneEvents, LeavesFirst), n, b, f)
  <1> DEFINE E == ZoneEvents
             R == {p \in E \X E : LeavesFirst(p[1], p[2])}
             ev == Sorted(ZoneEvents, LeavesFirst)
  <1>1. \A x, y \in E : <<x, y>> \in R <=> LeavesFirst(x, y)
    OBVIOUS
  <1>2. IsFiniteSet(E)
    <2> DEFINE g == [h \in HandOffs |-> EntryOf(h)]
               k == [h \in HandOffs |-> ExitOf(h)]
               B == {EntryOf(h) : h \in HandOffs}
               F == {ExitOf(h) : h \in HandOffs}
    <2>1. g \in Surjection(HandOffs, B) /\ k \in Surjection(HandOffs, F)
      BY DEF Surjection
    <2>2. IsFiniteSet(B) /\ IsFiniteSet(F)
      BY <2>1, FS_Surjection DEF ZoneTyped
    <2>3. E = B \cup F
      BY DEF ZoneEvents, EntryOf, ExitOf
    <2> QED
      BY <2>2, <2>3, FS_Union
  <1>3. StrictOrder(E, R)
    <2>1. \A x \in E : ~LeavesFirst(x, x)
      BY EventsTyped DEF LeavesFirst
    <2>2. ASSUME NEW x \in E, NEW y \in E, NEW z \in E, LeavesFirst(x, y), LeavesFirst(y, z)
          PROVE  LeavesFirst(x, z)
      <3>1. /\ x.time \in Nat /\ y.time \in Nat /\ z.time \in Nat
            /\ x.delta \in Int /\ y.delta \in Int /\ z.delta \in Int
            /\ x.of.train \in Nat /\ y.of.train \in Nat /\ z.of.train \in Nat
        BY EventsTyped
      <3> QED
        BY <2>2, <3>1 DEF LeavesFirst
    <2>3. ASSUME NEW x \in E, NEW y \in E, x # y PROVE LeavesFirst(x, y) \/ LeavesFirst(y, x)
      <3>1. /\ x.time \in Nat /\ y.time \in Nat /\ x.delta \in {1, -1} /\ y.delta \in {1, -1}
            /\ x.of.train \in Nat /\ y.of.train \in Nat
        BY EventsTyped
      <3>2. ~(x.delta = y.delta /\ x.of.train = y.of.train)
        <4> SUFFICES ASSUME x.delta = y.delta, x.of.train = y.of.train PROVE FALSE
          OBVIOUS
        <4>1. x.of = y.of
          BY EventsTyped DEF ZoneTyped
        <4>2. x = y
          BY <3>1, <4>1, EventsTyped
        <4> QED
          BY <2>3, <4>2
      <3> QED
        BY <3>1, <3>2 DEF LeavesFirst
    <2> HIDE DEF R, E
    <2> QED
      BY <1>1, <2>1, <2>2, <2>3 DEF StrictOrder
  <1>4. InOrder(E, R, ev)
    <2>1. \A x \in E : {y \in E : LeavesFirst(y, x)} = Below(E, R, x)
      BY <1>1 DEF Below
    <2>2. ev = [i \in 1..Cardinality(E) |-> CHOOSE x \in E : Cardinality({y \in E : LeavesFirst(y, x)}) = i - 1]
      BY DEF Sorted
    <2> HIDE DEF R, E
    <2>3. \A i : (CHOOSE x \in E : Cardinality({y \in E : LeavesFirst(y, x)}) = i - 1)
                    = CHOOSE x \in E : Cardinality(Below(E, R, x)) = i - 1
      BY <2>1
    <2>4. ev = [i \in 1..Cardinality(E) |-> CHOOSE x \in E : Cardinality(Below(E, R, x)) = i - 1]
      BY <2>2, <2>3
    <2> HIDE DEF ev
    <2> QED
      BY <1>2, <1>3, <2>4, Ranking
  <1>5. PICK n \in Nat : n = Cardinality(E)
    BY <1>2, FS_CardinalityType
  <1>6. /\ DOMAIN ev = 1..n /\ \A i \in 1..n : ev[i] \in E
        /\ \A x \in E : \E i \in 1..n : ev[i] = x
        /\ \A i, j \in 1..n : i < j => LeavesFirst(ev[i], ev[j])
    <2> HIDE DEF R, E, ev
    <2> QED
      BY <1>1, <1>4, <1>5 DEF InOrder
  <1> HIDE DEF R, ev
  <1> DEFINE b == [h \in HandOffs |-> CHOOSE i \in 1..n : ev[i] = EntryOf(h)]
             f == [h \in HandOffs |-> CHOOSE i \in 1..n : ev[i] = ExitOf(h)]
  <1>7. ASSUME NEW h \in HandOffs
        PROVE  b[h] \in 1..n /\ f[h] \in 1..n /\ ev[b[h]] = EntryOf(h) /\ ev[f[h]] = ExitOf(h)
    <2>1. EntryOf(h) \in E /\ ExitOf(h) \in E
      BY DEF ZoneEvents, EntryOf, ExitOf
    <2> QED
      BY <1>6, <2>1
  <1> HIDE DEF b, f
  <1>8. ASSUME NEW i \in 1..n PROVE \E h \in HandOffs : i = b[h] \/ i = f[h]
    <2>1. PICK h \in HandOffs : ev[i] = EntryOf(h) \/ ev[i] = ExitOf(h)
      BY <1>6 DEF ZoneEvents, EntryOf, ExitOf
    <2>2. \A x \in E : ~LeavesFirst(x, x)
      BY EventsTyped DEF LeavesFirst
    <2>3. \A j \in 1..n : ev[i] = ev[j] => i = j
      BY <1>6, <2>2
    <2> QED
      BY <1>7, <2>1, <2>3
  <1>9. Sequenced(ev, n, b, f)
    BY <1>6, <1>7, <1>8 DEF Sequenced
  <1> QED
    BY <1>9 DEF ev

\* What the order of the course says about the windows.
LEMMA CourseOrders ==
    ASSUME ZoneTyped, NEW ev, NEW n, NEW b, NEW f, Sequenced(ev, n, b, f),
           NEW g \in HandOffs, NEW h \in HandOffs
    PROVE  /\ b[g] < f[h] <=> g.entry < h.exit
           /\ b[g] # f[h]
           /\ b[g] = b[h] => g = h
           /\ f[g] = f[h] => g = h
           /\ b[g] <= b[h] => g.entry <= h.entry
           /\ g.entry < h.entry => b[g] < b[h]
  <1>1. /\ g.entry \in Nat /\ g.exit \in Nat /\ h.entry \in Nat /\ h.exit \in Nat
        /\ b[g] \in 1..n /\ b[h] \in 1..n /\ f[g] \in 1..n /\ f[h] \in 1..n
        /\ ev[b[g]] = EntryOf(g) /\ ev[b[h]] = EntryOf(h) /\ ev[f[g]] = ExitOf(g) /\ ev[f[h]] = ExitOf(h)
        /\ n \in Nat
    BY DEF ZoneTyped, Sequenced
  <1>2. /\ EntryOf(g).of = g /\ EntryOf(h).of = h /\ ExitOf(g).of = g /\ ExitOf(h).of = h
        /\ EntryOf(g).delta = 1 /\ ExitOf(h).delta = -1 /\ EntryOf(h).delta = 1
        /\ EntryOf(g).time = g.entry /\ EntryOf(h).time = h.entry /\ ExitOf(h).time = h.exit
    BY DEF EntryOf, ExitOf
  <1>3. /\ b[g] = b[h] => g = h
        /\ f[g] = f[h] => g = h
    BY <1>1, <1>2
  <1>4. b[g] # f[h]
    BY <1>1, <1>2
  <1>5. b[g] < f[h] => LeavesFirst(EntryOf(g), ExitOf(h))
    BY <1>1 DEF Sequenced
  <1>6. f[h] < b[g] => LeavesFirst(ExitOf(h), EntryOf(g))
    BY <1>1 DEF Sequenced
  <1>7. b[g] < f[h] <=> g.entry < h.exit
    BY <1>1, <1>2, <1>4, <1>5, <1>6 DEF LeavesFirst
  <1>8. b[g] < b[h] => LeavesFirst(EntryOf(g), EntryOf(h))
    BY <1>1 DEF Sequenced
  <1>9. b[h] < b[g] => LeavesFirst(EntryOf(h), EntryOf(g))
    BY <1>1 DEF Sequenced
  <1>10. b[g] < b[h] => g.entry <= h.entry
    BY <1>1, <1>2, <1>8 DEF LeavesFirst
  <1>11. b[h] < b[g] => h.entry <= g.entry
    BY <1>1, <1>2, <1>9 DEF LeavesFirst
  <1> QED
    BY <1>1, <1>3, <1>4, <1>7, <1>10, <1>11

ZoneStates == [active : [Directions -> Int], meets : Int, peak : Int]
NothingSwept == [active |-> [WE |-> 0, EW |-> 0], meets |-> 0, peak |-> 0]

\* A step of the sweep, taken apart.
LEMMA SweptOverTyped ==
    ASSUME NEW s \in ZoneStates, NEW e, Boundary(e.of) \in Directions, e.delta \in {1, -1}, NEW v, v = SweptOver(s, e)
    PROVE  /\ v \in ZoneStates
           /\ \A d \in Directions : v.active[d] = IF d = Boundary(e.of) THEN s.active[d] + e.delta ELSE s.active[d]
           /\ v.meets = IF e.delta = 1 THEN s.meets + s.active[Opposite(Boundary(e.of))] ELSE s.meets
           /\ LET inside == v.active["WE"] + v.active["EW"]
              IN v.peak = IF e.delta = 1 /\ inside > s.peak THEN inside ELSE s.peak
  <1>1. PICK c \in Directions : c = Boundary(e.of)
    OBVIOUS
  <1>2. PICK a \in [Directions -> Int] : a = s.active
    BY DEF ZoneStates
  <1>3. s.meets \in Int /\ s.peak \in Int /\ Opposite(c) \in Directions
    BY DEF ZoneStates, Opposite, Directions
  <1>4. PICK q : q = [a EXCEPT ![c] = @ + e.delta]
    OBVIOUS
  <1>5. q \in [Directions -> Int] /\ \A d \in Directions : q[d] = IF d = c THEN a[d] + e.delta ELSE a[d]
    BY <1>4
  <1>6. v = [active |-> q,
             meets |-> IF e.delta = 1 THEN s.meets + a[Opposite(c)] ELSE s.meets,
             peak |-> IF e.delta = 1 /\ q["WE"] + q["EW"] > s.peak THEN q["WE"] + q["EW"] ELSE s.peak]
    BY <1>1, <1>2, <1>4 DEF SweptOver
  <1>7. /\ v.active = q
        /\ v.meets = IF e.delta = 1 THEN s.meets + a[Opposite(c)] ELSE s.meets
        /\ v.peak = IF e.delta = 1 /\ q["WE"] + q["EW"] > s.peak THEN q["WE"] + q["EW"] ELSE s.peak
    BY <1>6
  <1>8. q["WE"] + q["EW"] \in Int /\ a[Opposite(c)] \in Int
    BY <1>3, <1>5 DEF Directions
  <1>9. v.meets \in Int /\ v.peak \in Int
    BY <1>3, <1>7, <1>8
  <1>10. v \in ZoneStates
    BY <1>5, <1>6, <1>7, <1>9 DEF ZoneStates
  <1> QED
    BY <1>1, <1>2, <1>5, <1>7, <1>10

\* The states of the sweep, one for every event and one before them.
IsSweep(ev, n, w) ==
    /\ w \in [0..n -> ZoneStates] /\ w[0] = NothingSwept
    /\ \A k \in 1..n : w[k] = SweptOver(w[k - 1], ev[k])

\* The fold goes over the events in their order.
LEMMA SweepRuns ==
    ASSUME ZoneTyped, NEW ev, NEW n, NEW b, NEW f, Sequenced(ev, n, b, f)
    PROVE  \E w : IsSweep(ev, n, w) /\ FoldLeft(SweptOver, NothingSwept, ev) = w[n]
  <1> DEFINE S == 1..n
             V == ZoneStates
             pick == [s \in SUBSET S |-> Max(s)]
             step == [i \in S |-> [v \in V |-> SweptOver(v, ev[i])]]
  <1>1. n \in Nat /\ DOMAIN ev = S /\ IsFiniteSet(S)
    BY FS_Interval DEF Sequenced
  <1>2. \A i \in S : Boundary(ev[i].of) \in Directions /\ ev[i].delta \in {1, -1}
    <2> SUFFICES ASSUME NEW i \in S PROVE Boundary(ev[i].of) \in Directions /\ ev[i].delta \in {1, -1}
      OBVIOUS
    <2>1. PICK h \in HandOffs : ev[i] = EntryOf(h) \/ ev[i] = ExitOf(h)
      BY DEF Sequenced
    <2>2. ev[i].of = h /\ ev[i].delta \in {1, -1}
      BY <2>1 DEF EntryOf, ExitOf
    <2> QED
      BY <2>2 DEF ZoneTyped
  <1>3. step \in [S -> [V -> V]]
    <2>1. \A i \in S : \A v \in V : SweptOver(v, ev[i]) \in V
      BY <1>2, SweptOverTyped
    <2> HIDE DEF V, S
    <2> QED
      BY <2>1
  <1>4. \A s \in SUBSET S : s # {} => pick[s] \in s /\ \A x \in s : pick[s] >= x
    <2> SUFFICES ASSUME NEW s \in SUBSET S, s # {} PROVE Max(s) \in s /\ \A x \in s : Max(s) >= x
      OBVIOUS
    <2>1. IsFiniteSet(s) /\ s \subseteq Int
      <3>1. \A x \in S : x \in Int
        BY <1>1
      <3> HIDE DEF S
      <3> QED
        BY <1>1, <3>1, FS_Subset
    <2>2. \E x \in s : \A y \in s : x >= y
      BY <2>1, GreatestNumber
    <2> QED
      BY <2>2 DEF Max
  <1>5. NothingSwept \in V
    <2>1. [WE |-> 0, EW |-> 0] = [d \in {"WE", "EW"} |-> 0]
      OBVIOUS
    <2>2. [WE |-> 0, EW |-> 0] \in [Directions -> Int]
      BY <2>1 DEF Directions
    <2> QED
      BY <2>2 DEF NothingSwept, ZoneStates
  <1> DEFINE G(v) == v = [s \in SUBSET S |-> IF s = {} THEN NothingSwept ELSE SweptOver(v[s \ {Max(s)}], ev[Max(s)])]
  <1>6. \E v : G(v)
    <2>1. PICK u \in [SUBSET S -> V] : IsFoldOf(S, pick, NothingSwept, step, u)
      <3> HIDE DEF S, V, pick, step
      <3> QED
        BY <1>1, <1>3, <1>4, <1>5, FoldsExist
    <2>2. \A s \in SUBSET S : u[s] = IF s = {} THEN NothingSwept ELSE step[pick[s]][u[s \ {pick[s]}]]
      BY <2>1, Zenon DEF IsFoldOf
    <2>3. ASSUME NEW s \in SUBSET S, s # {} PROVE u[s] = SweptOver(u[s \ {Max(s)}], ev[Max(s)])
      <3>1. PICK x \in S : x = Max(s) /\ x = pick[s] /\ u[s \ {x}] \in V
        BY <1>4, <2>1, <2>3
      <3>2. u[s] = step[x][u[s \ {x}]]
        BY <2>2, <2>3, <3>1
      <3> QED
        BY <3>1, <3>2
    <2>4. \A s \in SUBSET S : u[s] = IF s = {} THEN NothingSwept ELSE SweptOver(u[s \ {Max(s)}], ev[Max(s)])
      BY <2>2, <2>3
    <2>5. PICK q : q = [s \in SUBSET S |-> IF s = {} THEN NothingSwept ELSE SweptOver(u[s \ {Max(s)}], ev[Max(s)])]
      OBVIOUS
    <2>6. \A s \in SUBSET S : q[s] = u[s]
      BY <2>4, <2>5
    <2>7. u = [s \in SUBSET S |-> u[s]] /\ q = [s \in SUBSET S |-> q[s]]
      BY <2>1, <2>5
    <2>8. u = q
      BY <2>6, <2>7
    <2> QED
      BY <2>1, <2>5, <2>8
  <1>7. FoldLeft(SweptOver, NothingSwept, ev) = (CHOOSE v : G(v))[S]
    BY <1>1 DEF FoldLeft, MapThenFoldSet
  <1>8. PICK u : u = (CHOOSE v : G(v)) /\ G(u)
    BY <1>6
  <1>9. PICK q : /\ q = [s \in SUBSET S |-> IF s = {} THEN NothingSwept ELSE SweptOver(u[s \ {Max(s)}], ev[Max(s)])]
                 /\ u = q
    BY <1>8
  <1>10. /\ u[{}] = NothingSwept
         /\ \A s \in SUBSET S : s # {} => u[s] = SweptOver(u[s \ {Max(s)}], ev[Max(s)])
    BY <1>9
  <1> DEFINE w == [k \in 0..n |-> u[1..k]]
  <1>11. w[0] = NothingSwept
    <2>1. 1..0 = {} /\ 0 \in 0..n
      BY <1>1
    <2> QED
      BY <1>10, <2>1
  <1>12. ASSUME NEW k \in S PROVE w[k] = SweptOver(w[k - 1], ev[k])
    <2>1. 1..k \in SUBSET S /\ k \in 1..k /\ (1..k) \ {k} = 1..(k - 1) /\ k - 1 \in 0..n /\ k \in 0..n
      <3>1. k \in 1..n
        OBVIOUS
      <3>2. \A x \in 1..k : x # k => x \in 1..(k - 1)
        BY <1>1, <3>1
      <3>3. \A x \in 1..(k - 1) : x \in 1..k /\ x # k
        BY <1>1, <3>1
      <3> QED
        BY <1>1, <3>1, <3>2, <3>3
    <2>2. Max(1..k) = k
      <3>1. pick[1..k] \in 1..k /\ pick[1..k] >= k
        BY <1>4, <2>1
      <3> QED
        BY <2>1, <3>1
    <2>3. u[1..k] = SweptOver(u[1..(k - 1)], ev[k])
      BY <1>10, <2>1, <2>2
    <2> QED
      BY <2>1, <2>3
  <1>13. w \in [0..n -> V]
    <2> DEFINE K == {k \in Nat : k <= n => w[k] \in V}
    <2>1. 0 \in K
      BY <1>1, <1>5, <1>11
    <2>2. ASSUME NEW k \in Nat, k \in K PROVE k + 1 \in K
      <3> SUFFICES ASSUME k + 1 <= n PROVE w[k + 1] \in V
        OBVIOUS
      <3>1. w[k] \in V /\ k + 1 \in S /\ (k + 1) - 1 = k
        BY <1>1, <2>2
      <3>2. w[k + 1] = SweptOver(w[k], ev[k + 1])
        BY <1>12, <3>1
      <3> HIDE DEF w
      <3> QED
        BY <1>2, <3>1, <3>2, SweptOverTyped
    <2> HIDE DEF K
    <2>3. Nat \subseteq K
      BY <2>1, <2>2, NumbersReached
    <2> HIDE DEF w
    <2>4. \A k \in 0..n : w[k] \in V
      <3>1. \A k \in 0..n : k \in K /\ k <= n
        BY <1>1, <2>3
      <3> QED
        BY <3>1 DEF K
    <2> USE DEF w
    <2>5. w = [k \in 0..n |-> w[k]]
      OBVIOUS
    <2> HIDE DEF w
    <2> QED
      BY <2>4, <2>5
  <1>14. w[n] = u[S]
    BY <1>1
  <1>15. PICK x : x = w
    OBVIOUS
  <1> HIDE DEF w, S
  <1>16. IsSweep(ev, n, x)
    BY <1>11, <1>12, <1>13, <1>15 DEF IsSweep, S
  <1> QED
    BY <1>7, <1>8, <1>14, <1>15, <1>16

\* The trains in the zone after k events, and those from one boundary; and the
\* opposing pairs that have both entered, and met or will.
Within(b, f, k) == {h \in HandOffs : b[h] <= k /\ k < f[h]}
WithinFrom(b, f, k, d) == {h \in Within(b, f, k) : Boundary(h) = d}
Meetings == {p \in HandOffs \X HandOffs :
                Boundary(p[1]) = "WE" /\ Boundary(p[2]) = "EW" /\ Overlap(p[1], p[2])}
Met(b, k) == {p \in Meetings : b[p[1]] <= k /\ b[p[2]] <= k}

\* The most trains there have been when one entered, up to k.
IsPeakOf(b, f, peak, k) ==
    /\ \A h \in HandOffs : b[h] <= k => Cardinality(Within(b, f, b[h])) <= peak
    /\ peak = 0 \/ \E h \in HandOffs : b[h] <= k /\ Cardinality(Within(b, f, b[h])) = peak

\* These sets are finite, and who is in the zone came from one of its ends.
LEMMA ZoneFinite ==
    ASSUME ZoneTyped, NEW b, NEW f, NEW k
    PROVE  /\ IsFiniteSet(Within(b, f, k)) /\ Cardinality(Within(b, f, k)) \in Nat
           /\ \A d : IsFiniteSet(WithinFrom(b, f, k, d)) /\ Cardinality(WithinFrom(b, f, k, d)) \in Nat
           /\ Cardinality(Within(b, f, k))
                = Cardinality(WithinFrom(b, f, k, "WE")) + Cardinality(WithinFrom(b, f, k, "EW"))
           /\ IsFiniteSet(Meetings)
           /\ IsFiniteSet(Met(b, k)) /\ Cardinality(Met(b, k)) \in Nat
  <1>1. IsFiniteSet(Within(b, f, k)) /\ Cardinality(Within(b, f, k)) \in Nat
    BY FS_Subset, FS_CardinalityType DEF ZoneTyped, Within
  <1>2. ASSUME NEW d PROVE IsFiniteSet(WithinFrom(b, f, k, d)) /\ Cardinality(WithinFrom(b, f, k, d)) \in Nat
    <2>1. WithinFrom(b, f, k, d) \subseteq Within(b, f, k)
      BY DEF WithinFrom
    <2> QED
      BY <1>1, <2>1, FS_Subset, FS_CardinalityType
  <1>3. Cardinality(Within(b, f, k))
            = Cardinality(WithinFrom(b, f, k, "WE")) + Cardinality(WithinFrom(b, f, k, "EW"))
    <2>1. PICK A, B : A = WithinFrom(b, f, k, "WE") /\ B = WithinFrom(b, f, k, "EW")
      OBVIOUS
    <2>2. Within(b, f, k) = A \cup B /\ A \cap B = {}
      BY <2>1 DEF WithinFrom, Within, ZoneTyped, Directions
    <2>3. IsFiniteSet(A) /\ IsFiniteSet(B) /\ Cardinality(A) \in Nat /\ Cardinality(B) \in Nat
      BY <1>2, <2>1
    <2>4. Cardinality(A \cup B) = Cardinality(A) + Cardinality(B) - Cardinality(A \cap B)
      BY <2>3, FS_Union
    <2>5. Cardinality(A \cap B) = 0
      BY <2>2, FS_EmptySet
    <2> QED
      BY <2>1, <2>2, <2>3, <2>4, <2>5
  <1>4. IsFiniteSet(Meetings)
    <2>1. IsFiniteSet(HandOffs \X HandOffs)
      BY FS_Product DEF ZoneTyped
    <2>2. Meetings \subseteq HandOffs \X HandOffs
      BY DEF Meetings
    <2> QED
      BY <2>1, <2>2, FS_Subset
  <1>5. IsFiniteSet(Met(b, k)) /\ Cardinality(Met(b, k)) \in Nat
    <2>1. Met(b, k) \subseteq Meetings
      BY DEF Met
    <2> QED
      BY <1>4, <2>1, FS_Subset, FS_CardinalityType
  <1> QED
    BY <1>1, <1>2, <1>3, <1>4, <1>5

\* The k-th event lets one train in or out.
LEMMA ZoneSteps ==
    ASSUME ZoneTyped, NEW ev, NEW n, NEW b, NEW f, Sequenced(ev, n, b, f), NEW k \in 1..n, NEW x \in HandOffs
    PROVE  /\ k = b[x] => /\ ev[k] = EntryOf(x) /\ x \notin Within(b, f, k - 1)
                          /\ Within(b, f, k) = Within(b, f, k - 1) \cup {x}
           /\ k = f[x] => /\ ev[k] = ExitOf(x) /\ x \in Within(b, f, k - 1)
                          /\ Within(b, f, k) = Within(b, f, k - 1) \ {x}
                          /\ \A h \in HandOffs : b[h] <= k <=> b[h] <= k - 1
  <1>1. /\ n \in Nat /\ \A h \in HandOffs : b[h] \in 1..n /\ f[h] \in 1..n
        /\ \A h \in HandOffs : ev[b[h]] = EntryOf(h) /\ ev[f[h]] = ExitOf(h)
    BY DEF Sequenced
  <1>2. \A h \in HandOffs : b[h] < f[h]
    BY CourseOrders DEF ZoneTyped
  <1>3. \A g, h \in HandOffs : b[g] # f[h] /\ (b[g] = b[h] => g = h) /\ (f[g] = f[h] => g = h)
    BY CourseOrders
  <1>4. ASSUME k = b[x]
        PROVE  /\ x \notin Within(b, f, k - 1)
               /\ Within(b, f, k) = Within(b, f, k - 1) \cup {x}
    <2>1. \A h \in HandOffs : h # x => (b[h] <= k <=> b[h] <= k - 1) /\ (k < f[h] <=> k - 1 < f[h])
      BY <1>1, <1>3, <1>4
    <2>2. b[x] <= k /\ k < f[x] /\ ~(b[x] <= k - 1)
      BY <1>1, <1>2, <1>4
    <2> QED
      BY <2>1, <2>2 DEF Within
  <1>5. ASSUME k = f[x]
        PROVE  /\ x \in Within(b, f, k - 1) /\ Within(b, f, k) = Within(b, f, k - 1) \ {x}
               /\ \A h \in HandOffs : b[h] <= k <=> b[h] <= k - 1
    <2>1. \A h \in HandOffs : b[h] <= k <=> b[h] <= k - 1
      BY <1>1, <1>3, <1>5
    <2>2. \A h \in HandOffs : h # x => (k < f[h] <=> k - 1 < f[h])
      BY <1>1, <1>3, <1>5
    <2>3. b[x] <= k - 1 /\ k - 1 < f[x] /\ ~(k < f[x])
      BY <1>1, <1>2, <1>5
    <2> QED
      BY <2>1, <2>2, <2>3 DEF Within
  <1> QED
    BY <1>1, <1>4, <1>5

\* A train that enters meets the opposing trains that are in the zone.
LEMMA EntryMeets ==
    ASSUME ZoneTyped, NEW ev, NEW n, NEW b, NEW f, Sequenced(ev, n, b, f), NEW k \in 1..n, NEW x \in HandOffs, k = b[x]
    PROVE  Cardinality(Met(b, k))
                = Cardinality(Met(b, k - 1)) + Cardinality(WithinFrom(b, f, k - 1, Opposite(Boundary(x))))
  <1>1. /\ n \in Nat /\ \A h \in HandOffs : b[h] \in 1..n /\ f[h] \in 1..n
    BY DEF Sequenced
  <1>2. \A g, h \in HandOffs : /\ b[g] < f[h] <=> g.entry < h.exit
                               /\ b[g] # f[h]
                               /\ b[g] = b[h] => g = h
    BY CourseOrders
  <1>3. \A h \in HandOffs : b[h] < f[h]
    BY CourseOrders DEF ZoneTyped
  <1> DEFINE A == WithinFrom(b, f, k - 1, Opposite(Boundary(x)))
             New == {p \in Meetings : (p[1] = x \/ p[2] = x) /\ b[p[1]] <= k /\ b[p[2]] <= k}
  <1>4. \A h \in HandOffs : b[h] <= k <=> b[h] <= k - 1 \/ h = x
    BY <1>1, <1>2
  <1>5. ~(b[x] <= k - 1)
    BY <1>1
  <1>6. Met(b, k) = Met(b, k - 1) \cup New /\ Met(b, k - 1) \cap New = {}
    BY <1>4, <1>5 DEF Met, Meetings
  <1>7. ASSUME NEW h \in HandOffs, h # x
        PROVE  /\ Overlap(x, h) /\ b[h] <= k <=> h \in Within(b, f, k - 1)
               /\ Overlap(h, x) <=> Overlap(x, h)
    <2>1. Overlap(x, h) <=> b[x] < f[h] /\ b[h] < f[x]
      BY <1>2 DEF Overlap
    <2>2. b[h] <= k - 1 => b[h] < f[x]
      BY <1>1, <1>3
    <2>3. k < f[h] <=> k - 1 < f[h]
      BY <1>1, <1>2
    <2>4. b[h] <= k <=> b[h] <= k - 1
      BY <1>4, <1>7
    <2> QED
      BY <2>1, <2>2, <2>3, <2>4 DEF Within, Overlap
  <1>8. IsFiniteSet(A) /\ Cardinality(A) \in Nat
    BY ZoneFinite
  <1>9. Boundary(x) \in Directions /\ \A h \in HandOffs : Boundary(h) \in Directions
    BY DEF ZoneTyped
  <1>10. \A h \in A : h \in HandOffs /\ h # x
    BY <1>5, <1>1 DEF WithinFrom, Within
  <1>11. IsFiniteSet(New) /\ Cardinality(New) = Cardinality(A)
    <2>1. IsFiniteSet({x}) /\ Cardinality({x}) = 1
      BY FS_Singleton
    <2>2. CASE Boundary(x) = "WE"
      <3>1. Opposite(Boundary(x)) = "EW"
        BY <2>2 DEF Opposite
      <3>2. ASSUME NEW p \in New PROVE p \in {x} \X A
        <4>1. PICK g \in HandOffs, h \in HandOffs : p = <<g, h>>
          BY DEF Meetings
        <4>2. /\ Boundary(g) = "WE" /\ Boundary(h) = "EW" /\ Overlap(g, h) /\ (g = x \/ h = x)
              /\ b[g] <= k /\ b[h] <= k
          BY <4>1 DEF Meetings
        <4>3. g = x /\ h # x
          BY <2>2, <4>2
        <4>4. h \in A
          BY <1>7, <3>1, <4>2, <4>3 DEF WithinFrom
        <4> QED
          BY <4>1, <4>3, <4>4
      <3>3. ASSUME NEW h \in A PROVE <<x, h>> \in New
        <4>1. h \in HandOffs /\ h # x /\ h \in Within(b, f, k - 1) /\ Boundary(h) = "EW"
          BY <1>10, <3>1 DEF WithinFrom
        <4>2. Overlap(x, h) /\ b[h] <= k /\ b[x] <= k
          BY <1>1, <1>7, <4>1
        <4> QED
          BY <2>2, <4>1, <4>2 DEF Meetings
      <3> HIDE DEF New, A
      <3>4. New = {x} \X A
        BY <3>2, <3>3
      <3>5. IsFiniteSet({x} \X A) /\ Cardinality({x} \X A) = Cardinality({x}) * Cardinality(A)
        BY <1>8, <2>1, FS_Product
      <3> QED
        BY <1>8, <2>1, <3>4, <3>5
    <2>3. CASE Boundary(x) = "EW"
      <3>1. Opposite(Boundary(x)) = "WE"
        BY <2>3 DEF Opposite
      <3>2. ASSUME NEW p \in New PROVE p \in A \X {x}
        <4>1. PICK g \in HandOffs, h \in HandOffs : p = <<g, h>>
          BY DEF Meetings
        <4>2. /\ Boundary(g) = "WE" /\ Boundary(h) = "EW" /\ Overlap(g, h) /\ (g = x \/ h = x)
              /\ b[g] <= k /\ b[h] <= k
          BY <4>1 DEF Meetings
        <4>3. h = x /\ g # x
          BY <2>3, <4>2
        <4>4. g \in A
          BY <1>7, <3>1, <4>2, <4>3 DEF WithinFrom
        <4> QED
          BY <4>1, <4>3, <4>4
      <3>3. ASSUME NEW h \in A PROVE <<h, x>> \in New
        <4>1. h \in HandOffs /\ h # x /\ h \in Within(b, f, k - 1) /\ Boundary(h) = "WE"
          BY <1>10, <3>1 DEF WithinFrom
        <4>2. Overlap(h, x) /\ b[h] <= k /\ b[x] <= k
          BY <1>1, <1>7, <4>1
        <4> QED
          BY <2>3, <4>1, <4>2 DEF Meetings
      <3> HIDE DEF New, A
      <3>4. New = A \X {x}
        BY <3>2, <3>3
      <3>5. IsFiniteSet(A \X {x}) /\ Cardinality(A \X {x}) = Cardinality(A) * Cardinality({x})
        BY <1>8, <2>1, FS_Product
      <3> QED
        BY <1>8, <2>1, <3>4, <3>5
    <2> QED
      BY <1>9, <2>2, <2>3 DEF Directions
  <1>12. IsFiniteSet(Met(b, k - 1)) /\ Cardinality(Met(b, k - 1)) \in Nat
    BY ZoneFinite
  <1>13. Cardinality(Met(b, k - 1) \cap New) = 0
    BY <1>6, FS_EmptySet
  <1> HIDE DEF New, A
  <1>14. Cardinality(Met(b, k - 1) \cup New) = Cardinality(Met(b, k - 1)) + Cardinality(New) - Cardinality(Met(b, k - 1) \cap New)
    BY <1>11, <1>12, FS_Union
  <1> QED
    BY <1>6, <1>8, <1>11, <1>12, <1>13, <1>14 DEF A

\* What the sweep knows after k events.
SweepCounts(b, f, v, k) ==
    /\ \A d \in Directions : v.active[d] = Cardinality(WithinFrom(b, f, k, d))
    /\ v.meets = Cardinality(Met(b, k))
    /\ IsPeakOf(b, f, v.peak, k)

\* Before the first event there is nothing to know.
LEMMA NothingCounted ==
    ASSUME ZoneTyped, NEW ev, NEW n, NEW b, NEW f, Sequenced(ev, n, b, f)
    PROVE  SweepCounts(b, f, NothingSwept, 0)
  <1>1. \A h \in HandOffs : ~(b[h] <= 0)
    BY DEF Sequenced
  <1>2. Within(b, f, 0) = {} /\ Met(b, 0) = {} /\ \A d : WithinFrom(b, f, 0, d) = {}
    BY <1>1 DEF Within, WithinFrom, Met, Meetings
  <1>3. [WE |-> 0, EW |-> 0] = [d \in {"WE", "EW"} |-> 0]
    OBVIOUS
  <1>4. PICK v : v = NothingSwept
    OBVIOUS
  <1>5. v.meets = 0 /\ v.peak = 0 /\ v.active = [d \in {"WE", "EW"} |-> 0]
    BY <1>3, <1>4 DEF NothingSwept
  <1>6. \A d \in Directions : v.active[d] = 0
    BY <1>5 DEF Directions
  <1> QED
    BY <1>1, <1>2, <1>4, <1>5, <1>6, FS_EmptySet DEF SweepCounts, IsPeakOf

\* And every event tells it of one train more, or one less.
LEMMA SweepGoesOn ==
    ASSUME ZoneTyped, NEW ev, NEW n, NEW b, NEW f, Sequenced(ev, n, b, f), NEW k \in 1..n,
           NEW u \in ZoneStates, SweepCounts(b, f, u, k - 1), NEW v, v = SweptOver(u, ev[k])
    PROVE  SweepCounts(b, f, v, k)
  <1>1. n \in Nat /\ (\A h \in HandOffs : b[h] \in 1..n /\ f[h] \in 1..n)
    BY DEF Sequenced
  <1>2. PICK x \in HandOffs : k = b[x] \/ k = f[x]
    BY DEF Sequenced
  <1>3. PICK c \in Directions : c = Boundary(x) /\ Opposite(c) \in Directions
    BY DEF ZoneTyped, Directions, Opposite
  <1>4. u.meets \in Int /\ u.peak \in Int /\ u.active \in [Directions -> Int]
    BY DEF ZoneStates
  <1> DEFINE A(d) == WithinFrom(b, f, k - 1, d)
             B(d) == WithinFrom(b, f, k, d)
  <1>5. \A d : IsFiniteSet(A(d)) /\ Cardinality(A(d)) \in Nat
    BY ZoneFinite
  <1>6. CASE k = b[x]
    <2>1. /\ ev[k] = EntryOf(x) /\ x \notin Within(b, f, k - 1)
          /\ Within(b, f, k) = Within(b, f, k - 1) \cup {x}
      BY <1>6, ZoneSteps
    <2>2. ev[k].of = x /\ ev[k].delta = 1
      BY <2>1 DEF EntryOf
    <2>3. /\ \A d \in Directions : v.active[d] = IF d = c THEN u.active[d] + 1 ELSE u.active[d]
          /\ v.meets = u.meets + u.active[Opposite(c)]
          /\ LET inside == v.active["WE"] + v.active["EW"]
             IN v.peak = IF inside > u.peak THEN inside ELSE u.peak
      <3>1. Boundary(ev[k].of) = c /\ ev[k].delta \in {1, -1} /\ ev[k].delta = 1
        BY <1>3, <2>2
      <3> QED
        BY <3>1, SweptOverTyped
    <2>4. ASSUME NEW d \in Directions PROVE v.active[d] = Cardinality(B(d))
      <3>1. CASE d = c
        <4>1. B(d) = A(d) \cup {x} /\ x \notin A(d)
          BY <1>3, <2>1, <3>1 DEF WithinFrom
        <4> HIDE DEF A, B
        <4>2. Cardinality(B(d)) = Cardinality(A(d)) + 1
          BY <1>5, <4>1, FS_AddElement
        <4> QED
          BY <2>3, <3>1, <4>2 DEF SweepCounts, A
      <3>2. CASE d # c
        <4>1. B(d) = A(d)
          BY <1>3, <2>1, <3>2 DEF WithinFrom
        <4> QED
          BY <2>3, <3>2, <4>1 DEF SweepCounts
      <3> QED
        BY <3>1, <3>2
    <2>5. v.meets = Cardinality(Met(b, k))
      <3>1. Cardinality(Met(b, k)) = Cardinality(Met(b, k - 1)) + Cardinality(A(Opposite(c)))
        BY <1>3, <1>6, EntryMeets
      <3> QED
        BY <1>3, <2>3, <3>1 DEF SweepCounts
    <2>6. PICK inside \in Nat : /\ inside = Cardinality(Within(b, f, k))
                                /\ v.peak = IF inside > u.peak THEN inside ELSE u.peak
      <3>1. v.active["WE"] = Cardinality(B("WE")) /\ v.active["EW"] = Cardinality(B("EW"))
        BY <2>4 DEF Directions
      <3>2. /\ Cardinality(Within(b, f, k)) = Cardinality(B("WE")) + Cardinality(B("EW"))
            /\ Cardinality(Within(b, f, k)) \in Nat
        BY ZoneFinite
      <3> QED
        BY <2>3, <3>1, <3>2
    <2>7. IsPeakOf(b, f, v.peak, k)
      <3>1. \A h \in HandOffs : b[h] <= k <=> b[h] <= k - 1 \/ h = x
        BY <1>1, <1>6, CourseOrders
      <3>2. IsPeakOf(b, f, u.peak, k - 1)
        BY DEF SweepCounts
      <3>3. ASSUME NEW h \in HandOffs, b[h] <= k PROVE Cardinality(Within(b, f, b[h])) <= v.peak
        <4>1. CASE h = x
          BY <1>4, <1>6, <2>6, <4>1
        <4>2. CASE b[h] <= k - 1
          <5>1. Cardinality(Within(b, f, b[h])) <= u.peak /\ Cardinality(Within(b, f, b[h])) \in Nat
            BY <3>2, <4>2, ZoneFinite DEF IsPeakOf
          <5> QED
            BY <1>4, <2>6, <5>1
        <4> QED
          BY <3>1, <3>3, <4>1, <4>2
      <3>4. v.peak = 0 \/ \E h \in HandOffs : b[h] <= k /\ Cardinality(Within(b, f, b[h])) = v.peak
        <4>1. CASE inside > u.peak
          <5>1. b[x] <= k /\ Cardinality(Within(b, f, b[x])) = v.peak
            BY <1>1, <1>6, <2>6, <4>1
          <5> QED
            BY <5>1
        <4>2. CASE ~(inside > u.peak)
          <5>1. v.peak = u.peak
            BY <2>6, <4>2
          <5> QED
            BY <3>1, <3>2, <5>1 DEF IsPeakOf
        <4> QED
          BY <4>1, <4>2
      <3> QED
        BY <3>3, <3>4 DEF IsPeakOf
    <2> QED
      BY <2>4, <2>5, <2>7 DEF SweepCounts
  <1>7. CASE k = f[x]
    <2>1. /\ ev[k] = ExitOf(x) /\ x \in Within(b, f, k - 1)
          /\ Within(b, f, k) = Within(b, f, k - 1) \ {x}
          /\ \A h \in HandOffs : b[h] <= k <=> b[h] <= k - 1
      BY <1>7, ZoneSteps
    <2>2. ev[k].of = x /\ ev[k].delta = -1
      BY <2>1 DEF ExitOf
    <2>3. /\ \A d \in Directions : v.active[d] = IF d = c THEN u.active[d] - 1 ELSE u.active[d]
          /\ v.meets = u.meets /\ v.peak = u.peak
      <3>1. Boundary(ev[k].of) = c /\ ev[k].delta \in {1, -1} /\ ev[k].delta = -1
        BY <1>3, <2>2
      <3>2. /\ \A d \in Directions : v.active[d] = IF d = c THEN u.active[d] + ev[k].delta ELSE u.active[d]
            /\ v.meets = u.meets /\ v.peak = u.peak
        BY <3>1, SweptOverTyped
      <3>3. \A d \in Directions : u.active[d] \in Int
        BY <1>4
      <3> QED
        BY <2>2, <3>2, <3>3
    <2>4. ASSUME NEW d \in Directions PROVE v.active[d] = Cardinality(B(d))
      <3>1. CASE d = c
        <4>1. B(d) = A(d) \ {x} /\ x \in A(d)
          BY <1>3, <2>1, <3>1 DEF WithinFrom
        <4> HIDE DEF A, B
        <4>2. Cardinality(B(d)) = Cardinality(A(d)) - 1
          BY <1>5, <4>1, FS_RemoveElement
        <4> QED
          BY <2>3, <3>1, <4>2 DEF SweepCounts, A
      <3>2. CASE d # c
        <4>1. B(d) = A(d)
          BY <1>3, <2>1, <3>2 DEF WithinFrom
        <4> QED
          BY <2>3, <3>2, <4>1 DEF SweepCounts
      <3> QED
        BY <3>1, <3>2
    <2>5. Met(b, k) = Met(b, k - 1)
      BY <2>1 DEF Met, Meetings
    <2>6. IsPeakOf(b, f, v.peak, k)
      BY <2>1, <2>3 DEF SweepCounts, IsPeakOf
    <2> QED
      BY <2>3, <2>4, <2>5, <2>6 DEF SweepCounts
  <1> QED
    BY <1>2, <1>6, <1>7

\* The trains in the zone at an instant.
InsideAt(time) == {h \in HandOffs : h.entry <= time /\ time < h.exit}

\* Those that are in the zone after an entry are there at its instant, and after
\* the last entry of an instant they are all of them.
LEMMA InsideIsWithin ==
    ASSUME ZoneTyped, NEW ev, NEW n, NEW b, NEW f, Sequenced(ev, n, b, f), NEW h \in HandOffs
    PROVE  /\ Within(b, f, b[h]) \subseteq InsideAt(h.entry)
           /\ \E g \in HandOffs : InsideAt(h.entry) = Within(b, f, b[g])
           /\ h \in Within(b, f, b[h])
  <1>1. n \in Nat /\ \A g \in HandOffs : b[g] \in 1..n /\ f[g] \in 1..n
    BY DEF Sequenced
  <1>2. \A g \in HandOffs : g.entry \in Nat /\ g.exit \in Nat /\ g.entry < g.exit
    BY DEF ZoneTyped
  <1>3. \A g, x \in HandOffs : /\ b[g] < f[x] <=> g.entry < x.exit
                               /\ b[g] <= b[x] => g.entry <= x.entry
                               /\ g.entry < x.entry => b[g] < b[x]
    BY CourseOrders
  <1>4. Within(b, f, b[h]) \subseteq InsideAt(h.entry)
    BY <1>1, <1>3 DEF Within, InsideAt
  <1>5. PICK g \in HandOffs : g.entry = h.entry /\ \A x \in HandOffs : x.entry = h.entry => b[x] <= b[g]
    <2> DEFINE K == {b[x] : x \in {y \in HandOffs : y.entry = h.entry}}
    <2>1. K # {} /\ K \subseteq 1..n
      BY <1>1
    <2>2. IsFiniteSet(K) /\ K \subseteq Int
      <3>1. IsFiniteSet(1..n) /\ 1..n \subseteq Int
        BY <1>1, FS_Interval
      <3> HIDE DEF K
      <3> QED
        BY <2>1, <3>1, FS_Subset
    <2>3. PICK m \in K : \A y \in K : m >= y
      <3> HIDE DEF K
      <3> QED
        BY <2>1, <2>2, GreatestNumber
    <2>4. PICK g \in HandOffs : g.entry = h.entry /\ b[g] = m
      BY <2>3
    <2>5. \A x \in HandOffs : x.entry = h.entry => b[x] <= m
      BY <1>1, <2>2, <2>3
    <2> HIDE DEF K
    <2> QED
      BY <2>4, <2>5
  <1>6. ASSUME NEW x \in HandOffs PROVE x \in InsideAt(h.entry) <=> x \in Within(b, f, b[g])
    <2>1. x.entry <= h.entry <=> b[x] <= b[g]
      BY <1>1, <1>2, <1>3, <1>5
    <2>2. h.entry < x.exit <=> b[g] < f[x]
      BY <1>3, <1>5
    <2> QED
      BY <2>1, <2>2 DEF InsideAt, Within
  <1>7. InsideAt(h.entry) = Within(b, f, b[g])
    BY <1>6 DEF InsideAt, Within
  <1>8. h \in Within(b, f, b[h])
    BY <1>1, <1>2, <1>3 DEF Within
  <1> QED
    BY <1>4, <1>7, <1>8

\* The report of a coupled run counts what happened in it: its meets are the
\* opposing trains that were in the zone together, each pair on different
\* tracks of the loop, and its peak is the most trains there were at once.
THEOREM ReportsAreTrue == Spec => []MeetsAreInTheLoop
  <1>1. ASSUME ZoneTyped, PassesAreInTheLoop PROVE MeetsAreInTheLoop
    <2>1. PICK ev, n, b, f : ev = Sorted(ZoneEvents, LeavesFirst) /\ Sequenced(ev, n, b, f)
      BY <1>1, EventsSequenced
    <2>2. PICK w : IsSweep(ev, n, w) /\ FoldLeft(SweptOver, NothingSwept, ev) = w[n]
      BY <1>1, <2>1, SweepRuns
    <2>3. SweepZone = w[n]
      BY <2>1, <2>2 DEF SweepZone, NothingSwept
    <2>4. n \in Nat /\ (\A h \in HandOffs : b[h] \in 1..n) /\ \A k \in 0..n : w[k] \in ZoneStates
      BY <2>1, <2>2 DEF Sequenced, IsSweep
    <2>5. SweepCounts(b, f, w[n], n)
      <3> DEFINE K == {k \in Nat : k <= n => SweepCounts(b, f, w[k], k)}
      <3>1. 0 \in K
        BY <1>1, <2>1, <2>2, NothingCounted DEF IsSweep
      <3>2. ASSUME NEW k \in Nat, k \in K PROVE k + 1 \in K
        <4> SUFFICES ASSUME k + 1 <= n PROVE SweepCounts(b, f, w[k + 1], k + 1)
          OBVIOUS
        <4>1. PICK m \in 1..n : m = k + 1 /\ m - 1 = k
          BY <2>4
        <4>2. w[k] \in ZoneStates /\ SweepCounts(b, f, w[k], k)
          BY <2>4, <3>2
        <4>3. w[m] = SweptOver(w[m - 1], ev[m])
          BY <2>2, <4>1 DEF IsSweep
        <4> QED
          BY <1>1, <2>1, <4>1, <4>2, <4>3, SweepGoesOn
      <3> HIDE DEF K
      <3>3. Nat \subseteq K
        BY <3>1, <3>2, NumbersReached
      <3>4. n \in K
        BY <2>4, <3>3
      <3> QED
        BY <2>4, <3>4 DEF K
    <2>6. Met(b, n) = Meetings
      BY <2>4 DEF Met, Meetings
    <2>7. PICK r : r = ValidateMicroZone /\ r.nMeets = w[n].meets /\ r.maxOccupancy = w[n].peak
      <3>1. PICK passes : passes = (Consistent /\ ~Deadlocked /\ SweepZone.peak <= Cardinality(Tracks))
        OBVIOUS
      <3>2. ValidateMicroZone = [nTrains |-> Cardinality(HandOffs), nMeets |-> SweepZone.meets,
                                 maxOccupancy |-> SweepZone.peak,
                                 minObservedHeadway |-> MinObservedHeadway, passes |-> passes]
        BY <3>1, Zenon DEF ValidateMicroZone
      <3> QED
        BY <2>3, <3>2
    <2>8. r.nMeets = Cardinality(Meetings)
      BY <2>5, <2>6, <2>7 DEF SweepCounts
    <2>9. PICK peak \in Int : r.maxOccupancy = peak /\ IsPeakOf(b, f, peak, n)
      BY <2>4, <2>5, <2>7 DEF SweepCounts, ZoneStates
    <2>10. ASSUME NEW h \in HandOffs PROVE Cardinality(InsideAt(h.entry)) <= peak
      <3>1. PICK g \in HandOffs : InsideAt(h.entry) = Within(b, f, b[g])
        BY <1>1, <2>1, InsideIsWithin
      <3> QED
        BY <2>4, <2>9, <3>1 DEF IsPeakOf
    <2>11. ASSUME HandOffs # {} PROVE \E h \in HandOffs : Cardinality(InsideAt(h.entry)) = peak
      <3>1. peak # 0
        <4>1. PICK h \in HandOffs : h \in Within(b, f, b[h])
          BY <1>1, <2>1, <2>11, InsideIsWithin
        <4>2. Cardinality(Within(b, f, b[h])) <= peak
          BY <2>4, <2>9 DEF IsPeakOf
        <4>3. IsFiniteSet(Within(b, f, b[h])) /\ Cardinality(Within(b, f, b[h])) \in Nat
          BY <1>1, ZoneFinite
        <4>4. Cardinality(Within(b, f, b[h])) # 0
          BY <4>1, <4>3, FS_EmptySet
        <4> QED
          BY <4>2, <4>3, <4>4
      <3>2. PICK h \in HandOffs : Cardinality(Within(b, f, b[h])) = peak
        BY <2>9, <3>1 DEF IsPeakOf
      <3>3. Within(b, f, b[h]) \subseteq InsideAt(h.entry)
        BY <1>1, <2>1, InsideIsWithin
      <3>4. IsFiniteSet(InsideAt(h.entry)) /\ Cardinality(InsideAt(h.entry)) \in Nat
        <4>1. InsideAt(h.entry) \subseteq HandOffs
          BY DEF InsideAt
        <4> QED
          BY <1>1, <4>1, FS_Subset, FS_CardinalityType DEF ZoneTyped
      <3>5. peak <= Cardinality(InsideAt(h.entry))
        BY <3>2, <3>3, <3>4, FS_Subset
      <3>6. Cardinality(InsideAt(h.entry)) <= peak
        BY <2>10
      <3>7. Cardinality(InsideAt(h.entry)) = peak
        BY <3>4, <3>5, <3>6
      <3> QED
        BY <3>7
    <2> DEFINE meetings == {p \in HandOffs \X HandOffs :
                                Boundary(p[1]) = "WE" /\ Boundary(p[2]) = "EW" /\ Overlap(p[1], p[2])}
               Inside(time) == {h \in HandOffs : h.entry <= time /\ time < h.exit}
    <2>12. ValidateMicroZone.nMeets = Cardinality(meetings)
      BY <2>7, <2>8 DEF Meetings
    <2>13. \A h \in HandOffs : Cardinality(Inside(h.entry)) <= ValidateMicroZone.maxOccupancy
      BY <2>7, <2>9, <2>10 DEF InsideAt
    <2>14. HandOffs # {} => \E h \in HandOffs : Cardinality(Inside(h.entry)) = ValidateMicroZone.maxOccupancy
      BY <2>7, <2>9, <2>11 DEF InsideAt
    <2> QED
      BY <1>1, <2>12, <2>13, <2>14, Zenon DEF MeetsAreInTheLoop
  <1>2. MeetInv /\ FutureInv /\ LogInv => ZoneTyped
    BY HandOffsTyped
  <1> QED
    BY <1>1, <1>2, MeetInvariant, MeetFutures, LogsAreTimely, PassesAreOnTheLoop, PTL
=============================================================================
