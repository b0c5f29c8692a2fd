------------------------------ MODULE MicroMeet ------------------------------
(***************************************************************************)
(* dbsim.engine.micro_meet.MicroMeetSimulation: trains reserve the blocks  *)
(* of a passing loop one by one, a block being held by one train at most.  *)
(*                                                                         *)
(* A scenario is what the constructor receives:                            *)
(*   trains   tuple of [direction, entry, priority]; ids are positions     *)
(*   avoid    give a train at the loop a free track (the naive policy      *)
(*            insists on the through track)                                *)
(*   running  block -> running time, at least 1 (_running_time_s)          *)
(***************************************************************************)
EXTENDS EventQueue, FiniteSets, Sequences, Functions

CONSTANT Scenarios   \* the inputs considered

VARIABLES
    scenario,
    held,        \* _held: block -> the train holding it, or Free
    current,     \* _current: train -> the block it is in, or Outside
    loopTrack,   \* _loop_track: train -> track, a partial function
    waiters,     \* _waiters: block or "LOOP" -> a set of [prio, seq, train, step]
    counter,     \* _seq
    done,        \* _done
    events       \* MeetEvents, in order: [time, train, block, action]

vars == <<heap, sequence, now, raised, scenario, held, current, loopTrack, waiters, counter,
          done, events>>

Through == "loop_t1"
Passing == "loop_t2"
Tracks == {Through, Passing}
Blocks == {"west_approach", "east_approach"} \cup Tracks
Free == 0
Outside == "outside"

MicroMeetTrain == [direction : {"WE", "EW"}, entry : Nat, priority : Int]

ASSUME ScenariosAssumption ==
    \A s \in Scenarios :
        /\ s.trains \in Seq(MicroMeetTrain)
        /\ s.avoid \in BOOLEAN
        /\ s.running \in [Blocks -> Nat \ {0}]

Trains == DOMAIN scenario.trains

\* _route_for
Route(t) ==
    IF scenario.trains[t].direction = "WE"
      THEN <<"west_approach", "LOOP", "east_approach">>
      ELSE <<"east_approach", "LOOP", "west_approach">>

Request(t, step) == [kind |-> "request", train |-> t, step |-> step]
Clear(t, step) == [kind |-> "clear", train |-> t, step |-> step]
Event(time, t, block, action) == [time |-> time, train |-> t, block |-> block, action |-> action]

\* Steps count from 1 here, from 0 in the code.
Init ==
    /\ scenario \in Scenarios
    /\ QueueInit([t \in Trains |-> At(scenario.trains[t].entry, Request(t, 1))],
                 Len(scenario.trains))
    /\ held = [b \in Blocks |-> Free]
    /\ current = [t \in Trains |-> Outside]
    /\ loopTrack = <<>>
    /\ waiters = [k \in Blocks \cup {"LOOP"} |-> {}]
    /\ counter = 0
    /\ done = {}
    /\ events = <<>>

\* Mutant: every train insists on the through track.
TargetBlockNaive(t, step) ==
    LET block == Route(t)[step] IN IF block # "LOOP" THEN block ELSE Through

\* _target_block; "LOOP" stands for None, both tracks being taken.
TargetBlock(t, step) ==
    LET block == Route(t)[step]
    IN IF block # "LOOP" THEN block
       ELSE IF t \in DOMAIN loopTrack THEN loopTrack[t]
       ELSE IF ~scenario.avoid \/ held[Through] = Free THEN Through
       ELSE IF held[Passing] = Free THEN Passing
       ELSE "LOOP"

\* Mutant: a freed loop track wakes only trains that wait for that track.
WakeTrackOnly(block) == <<block>>

\* Mutant: only a freed loop track wakes anyone.
WakeAtLoopOnly(block) == IF block \in Tracks THEN <<block, "LOOP">> ELSE <<>>

\* The queues _release looks at when a block is vacated, in this order; it
\* returns at once for a train that is outside.
WakeKeys(block) ==
    IF block \in Tracks THEN <<block, "LOOP">>
    ELSE IF block \in Blocks THEN <<block>> ELSE <<>>

\* The head of a sorted queue: highest priority, then longest in the queue.
FirstWaiter(k) ==
    CHOOSE w \in waiters[k] : \A v \in waiters[k] \ {w} :
        w.prio < v.prio \/ (w.prio = v.prio /\ w.seq < v.seq)

\* _release(block): the requests of the trains woken, at their key's position,
\* and the queues without them.
Woken(block, at) ==
    LET keys == WakeKeys(block)
        request(w) == Request(w.train, w.step)
    IN [i \in {j \in DOMAIN keys : waiters[keys[j]] # {}} |-> At(at, request(FirstWaiter(keys[i])))]

\* Mutant: a woken train stays in the queue.
WaitersKept(block) == waiters

WaitersAfter(block) ==
    [k \in DOMAIN waiters |->
        IF (\E i \in DOMAIN WakeKeys(block) : WakeKeys(block)[i] = k) /\ waiters[k] # {}
          THEN waiters[k] \ {FirstWaiter(k)} ELSE waiters[k]]

\* The event _release logs, if the block was held.
Leave(block, at) ==
    IF block # Outside /\ held[block] # Free
      THEN <<Event(at, held[block], block, "leave")>> ELSE <<>>

\* Mutant: the last block is not vacated.
ExitKeepingBlock(e) ==
    LET t == e.event.train
        block == current[t]
    IN /\ e.event.kind = "request"
       /\ e.event.step > Len(Route(t))
       /\ current' = [current EXCEPT ![t] = Outside]
       /\ done' = done \cup {t}
       /\ events' = Append(events, Event(e.time, t, "EXIT", "exit"))
       /\ Process(e, NoEvents, 0)
       /\ UNCHANGED <<scenario, held, waiters, loopTrack, counter>>

\* _on_request past the last block: vacate it and leave the zone.
Exit(e) ==
    LET t == e.event.train
        block == current[t]
    IN /\ e.event.kind = "request"
       /\ e.event.step > Len(Route(t))
       /\ held' = [b \in Blocks |-> IF b = block THEN Free ELSE held[b]]
       /\ current' = [current EXCEPT ![t] = Outside]
       /\ waiters' = WaitersAfter(block)
       /\ done' = done \cup {t}
       /\ events' = Append(events \o Leave(block, e.time), Event(e.time, t, "EXIT", "exit"))
       /\ Process(e, Woken(block, e.time), Len(WakeKeys(block)))
       /\ UNCHANGED <<scenario, loopTrack, counter>>

Wants(e, block) ==
    /\ e.event.kind = "request"
    /\ e.event.step <= Len(Route(e.event.train))
    /\ block = TargetBlock(e.event.train, e.event.step)

\* Mutant: the block is taken from whoever holds it.
MayTake(t, block) == block \in Blocks

\* A block may be reserved when it is free or already the train's own.
MayEnter(t, block) == held[block] \in {Free, t}

\* _on_request for a block, or a loop, that is taken: queue for it.
Wait(e, block) ==
    LET t == e.event.train
    IN /\ Wants(e, block)
       /\ block \in Blocks => ~MayEnter(t, block)
       /\ waiters' = [waiters EXCEPT ![block] = @ \cup
                        {[prio |-> -scenario.trains[t].priority, seq |-> counter, train |-> t,
                          step |-> e.event.step]}]
       /\ counter' = counter + 1
       /\ events' = Append(events, Event(e.time, t, block, "wait"))
       /\ Process(e, NoEvents, 0)
       /\ UNCHANGED <<scenario, held, current, loopTrack, done>>

\* _on_request for a block that is free: reserve it, then vacate the previous
\* one, waking at most one train per queue.
Acquire(e, block) ==
    LET t == e.event.train
        previous == current[t]
        moving == previous \notin {Outside, block}
        clear == At(e.time + scenario.running[block], Clear(t, e.event.step))
        entered == Append(events, Event(e.time, t, block, "enter"))
    IN /\ Wants(e, block)
       /\ block \in Blocks
       /\ MayEnter(t, block)
       /\ loopTrack' = IF Route(t)[e.event.step] = "LOOP" THEN Put(loopTrack, t, block)
                       ELSE loopTrack
       /\ current' = [current EXCEPT ![t] = block]
       /\ \/ /\ moving
             /\ held' = [held EXCEPT ![block] = t, ![previous] = Free]
             /\ waiters' = WaitersAfter(previous)
             /\ events' = entered \o Leave(previous, e.time)
             /\ LET width == Len(WakeKeys(previous))
                IN Process(e, Put(Woken(previous, e.time), width + 1, clear), width + 1)
          \/ /\ ~moving
             /\ held' = [held EXCEPT ![block] = t]
             /\ events' = entered
             /\ Process(e, <<clear>>, 1)
             /\ UNCHANGED waiters
       /\ UNCHANGED <<scenario, counter, done>>

\* Mutant: a section is skipped.
AtEndSkipping(e) ==
    /\ e.event.kind = "clear"
    /\ Process(e, <<At(e.time, Request(e.event.train, e.event.step + 2))>>, 1)
    /\ UNCHANGED <<scenario, held, current, loopTrack, waiters, counter, done, events>>

\* _on_clear: at the end of a block the train asks for the next one.
AtEnd(e) ==
    /\ e.event.kind = "clear"
    /\ Process(e, <<At(e.time, Request(e.event.train, e.event.step + 1))>>, 1)
    /\ UNCHANGED <<scenario, held, current, loopTrack, waiters, counter, done, events>>

Turn ==
    \E e \in heap :
        \/ Exit(e)
        \/ \E block \in Blocks \cup {"LOOP"} : Wait(e, block) \/ Acquire(e, block)
        \/ AtEnd(e)

\* run() is over: the queue is empty.
Finished == (heap = {} \/ raised) /\ UNCHANGED vars

Next == Turn \/ Finished

\* The loop never pauses while events are pending.
Spec == Init /\ [][Next]_vars /\ WF_vars(Turn)

-----------------------------------------------------------------------------
Undone == Trains \ done

TypeOK ==
    /\ \A e \in heap :
        /\ e.time \in Nat /\ e.seq \in 0..(sequence - 1)
        /\ e.event.kind \in {"request", "clear"} /\ e.event.train \in Trains
        /\ e.event.step \in 1..4
    /\ sequence \in Nat /\ now \in Nat /\ raised = FALSE
    /\ held \in [Blocks -> Trains \cup {Free}]
    /\ current \in [Trains -> Blocks \cup {Outside}]
    /\ DOMAIN loopTrack \subseteq Trains /\ Range(loopTrack) \subseteq Tracks
    /\ \A k \in DOMAIN waiters : \A w \in waiters[k] : w.train \in Trains /\ w.seq < counter
    /\ done \subseteq Trains

\* A reservation is never leaked or shared: between two events every train
\* holds exactly the block it is in, and a train outside holds none.
HoldsItsBlock ==
    /\ \A b \in Blocks : held[b] # Free => current[held[b]] = b
    /\ \A t \in Trains : current[t] # Outside => held[current[t]] = t

\* A train that has not left the zone has exactly one future: a pending event
\* or a place in one queue.
OneFuture ==
    \A t \in Trains :
        LET pending == {e \in heap : e.event.train = t}
            queued == {k \in DOMAIN waiters : \E w \in waiters[k] : w.train = t}
        IN Cardinality(pending) + Cardinality(queued) = IF t \in done THEN 0 ELSE 1

\* The blocks a queue waits for.
Wanted(k) == IF k = "LOOP" THEN Tracks ELSE {k}

\* No lost wake-up: while trains queue for a block it is taken, or a request
\* for it is pending at this very instant, whether by a train that was woken
\* or by one that came in between and takes the block from under it.
NoLostWakeup ==
    \A k \in DOMAIN waiters : waiters[k] # {} =>
        \/ \A b \in Wanted(k) : held[b] # Free
        \/ \E e \in heap :
            /\ e.event.kind = "request" /\ e.time = now /\ e.event.step <= 3
            /\ Route(e.event.train)[e.event.step] = IF k \in Tracks THEN "LOOP" ELSE k

\* "The event queue drains with trains still stuck" only in a circular wait:
\* each stuck train waits for blocks that other stuck trains hold.
StuckIsCircular ==
    heap = {} =>
        \A t \in Undone : \E k \in DOMAIN waiters :
            /\ \E w \in waiters[k] : w.train = t
            /\ \A b \in Wanted(k) : held[b] \in Undone \ {t}

\* A train's section count, from the log.
Passed(t) == Cardinality({n \in DOMAIN events : events[n].train = t /\ events[n].action = "enter"})

Abstract == INSTANCE BlockSections WITH
    None <- Outside,
    routes <- [t \in Trains |-> [i \in 1..3 |->
                IF Route(t)[i] = "LOOP" THEN Tracks ELSE {Route(t)[i]}]],
    place <- current,
    passed <- [t \in Trains |-> Passed(t)]

\* The reservation protocol keeps the promise of block sections.
ImplementsBlockSections == Abstract!Spec

Towards(direction) == {t \in Trains : scenario.trains[t].direction = direction}

\* Two trains, or any number in one direction, always get through when
\* deadlock avoidance is on.
MeetCompletes ==
    scenario.avoid /\ (Cardinality(Trains) <= 2 \/ Trains \in {Towards("WE"), Towards("EW")})
        => <>(done = Trains)

\* micro_meet.py: a train gets "a free loop track rather than insisting on the
\* through track", which avoids the deadlock.
NeverDeadlocks == scenario.avoid => <>(done = Trains)
=============================================================================
