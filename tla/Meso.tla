-------------------------------- MODULE Meso --------------------------------
(***************************************************************************)
(* dbsim.engine.meso.MesoSimulation: trains acquire the track segments     *)
(* between stations, subject to capacity, headway and closures; a          *)
(* dispatcher (dbsim.dispatch) picks which waiting train enters next.      *)
(*                                                                         *)
(* A scenario is what the constructor receives:                            *)
(*   segments    function 0..n-1 -> [running, capacity, headway]           *)
(*   trains      tuple of [path, entry, priority, dwell], where path is a  *)
(*               function 0..k -> station; train ids are their positions   *)
(*   closures    tuple of [seg, start, end]                                *)
(*   dispatcher  "priority", "fifo", "ranked" (AltGraphDispatcher), "any"  *)
(*               (a policy that may pick every waiting train)              *)
(*   rank        the per-segment train order of the ranked dispatcher      *)
(***************************************************************************)
EXTENDS EventQueue, FiniteSets, Sequences, Functions

CONSTANTS
    Scenarios,   \* the inputs considered
    Never        \* -math.inf, as the last entry to a segment

VARIABLES
    scenario,
    occupancy,     \* _occupancy: segment -> number of trains on it
    lastEntry,     \* _last_entry: segment -> time or Never
    waiting,       \* _waiting: segment -> a set of [train, step, at]
    open,          \* _open: a set of [train, seg, enter]
    occupations,   \* occupancy records, in order: [train, seg, enter, exit]
    movements      \* MovementRecords, in order: [time, train, station, event]

vars == <<heap, sequence, now, raised, scenario, occupancy, lastEntry, waiting, open,
          occupations, movements>>

\* _segment_for
SegmentFor(a, b) == IF a <= b THEN a ELSE b

\* A segment has a track, a path is a list of stations with a segment between
\* each and the next, and a ranking places finitely many trains.
ASSUME ScenariosAssumption ==
    /\ Never \notin Int
    /\ \A s \in Scenarios :
        /\ s.segments \in [DOMAIN s.segments -> [running : Nat, capacity : Nat \ {0}, headway : Nat]]
        /\ DOMAIN s.trains = 1..Len(s.trains) /\ Len(s.trains) \in Nat
        /\ \A t \in DOMAIN s.trains :
            LET train == s.trains[t]
            IN /\ DOMAIN train.path \subseteq Nat
               /\ \E n \in DOMAIN train.path : DOMAIN train.path = 0..n
               /\ \A i \in DOMAIN train.path :
                    /\ train.path[i] \in Nat
                    /\ i + 1 \in DOMAIN train.path =>
                        SegmentFor(train.path[i], train.path[i + 1]) \in DOMAIN s.segments
               /\ train.entry \in Nat /\ train.dwell \in Nat /\ train.priority \in Int
        /\ DOMAIN s.closures = 1..Len(s.closures) /\ Len(s.closures) \in Nat
        /\ \A i \in DOMAIN s.closures :
            LET c == s.closures[i]
            IN c.seg \in DOMAIN s.segments /\ c.start \in Int /\ c.end \in Nat
        /\ s.dispatcher \in {"priority", "fifo", "ranked", "any"}
        /\ \A g \in DOMAIN s.rank :
            IsFiniteSet(DOMAIN s.rank[g]) /\ \A t \in DOMAIN s.rank[g] : s.rank[g][t] \in Nat

Segments == DOMAIN scenario.segments
Trains == DOMAIN scenario.trains
Segment(s) == scenario.segments[s]
Path(t) == scenario.trains[t].path
IsLast(t, step) == step + 1 \notin DOMAIN Path(t)

Ahead(t, step) == SegmentFor(Path(t)[step], Path(t)[step + 1])

TrainEvent(kind, t, step) == [kind |-> kind, train |-> t, step |-> step]
TryEvent(s) == [kind |-> "try", seg |-> s]

\* Mutant: nothing looks at the queue when a closure ends.
InitialWithoutClosures ==
    [i \in 1..Len(scenario.trains) |->
        At(scenario.trains[i].entry, TrainEvent("ready", i, 0))]

\* The constructor readies every train and schedules a TRY for the end of
\* every closure.
Initial ==
    [i \in 1..Len(scenario.trains) |->
        At(scenario.trains[i].entry, TrainEvent("ready", i, 0))]
    \o [i \in 1..Len(scenario.closures) |->
        At(scenario.closures[i].end, TryEvent(scenario.closures[i].seg))]

Init ==
    /\ scenario \in Scenarios
    /\ QueueInit(Initial, Len(scenario.trains) + Len(scenario.closures))
    /\ occupancy = [s \in Segments |-> 0]
    /\ lastEntry = [s \in Segments |-> Never]
    /\ waiting = [s \in Segments |-> {}]
    /\ open = {}
    /\ occupations = <<>>
    /\ movements = <<>>

\* _closed
Closed(s, t) ==
    \E i \in DOMAIN scenario.closures :
        LET c == scenario.closures[i] IN c.seg = s /\ c.start <= t /\ t < c.end

HeadwayOver(s, t) == lastEntry[s] # Never => t >= lastEntry[s] + Segment(s).headway

\* The keys by which the rule-based dispatchers order two requests.
Rank(s, t) ==
    LET rank == IF s \in DOMAIN scenario.rank THEN scenario.rank[s] ELSE <<>>
    IN IF t \in DOMAIN rank THEN rank[t] ELSE Cardinality(DOMAIN rank)

Key(s, r) ==
    CASE scenario.dispatcher = "priority" -> <<-scenario.trains[r.train].priority, r.at, r.train>>
      [] scenario.dispatcher = "fifo" -> <<r.at, r.train, 0>>
      [] scenario.dispatcher = "ranked" -> <<Rank(s, r.train), r.train, 0>>

Before(k, l) ==
    \/ k[1] < l[1]
    \/ k[1] = l[1] /\ (k[2] < l[2] \/ (k[2] = l[2] /\ k[3] < l[3]))

\* Dispatcher.select: the requests of w it may pick.
Selectable(s, w) ==
    CASE scenario.dispatcher = "any" -> w
      [] OTHER -> {r \in w : \A q \in w \ {r} : Before(Key(s, r), Key(s, q))}

\* Mutant: one train too many.
SlotsAndOne(s, n, t) ==
    LET free == Segment(s).capacity - n + 1
    IN IF free <= 0 \/ Closed(s, t) \/ ~HeadwayOver(s, t) THEN 0
       ELSE IF Segment(s).headway > 0 THEN 1 ELSE free

\* Mutant: the headway is checked once per call, not per entry.
SlotsPerCall(s, n, t) ==
    LET free == Segment(s).capacity - n
    IN IF free <= 0 \/ Closed(s, t) \/ ~HeadwayOver(s, t) THEN 0 ELSE free

\* How many trains _can_enter lets in at t while n trains are on s: an entry
\* starts a new headway, so there is a second one only without headway.
Slots(s, n, t) ==
    LET free == Segment(s).capacity - n
    IN IF free <= 0 \/ Closed(s, t) \/ ~HeadwayOver(s, t) THEN 0
       ELSE IF Segment(s).headway > 0 THEN 1 ELSE free

\* The while loop of _process_queue: w are the requests, n the trains on s.
\* An admission is the tuple of requests granted, in order; the loop ends when
\* there is no slot, no request or no selection.
Admissions(s, w, n, t) ==
    {a \in UNION {[1..k -> w] : k \in 0..Slots(s, n, t)} :
        LET left(k) == w \ {a[j] : j \in 1..(k - 1)}
        IN /\ \A k \in DOMAIN a : a[k] \in Selectable(s, left(k))
           /\ Len(a) < Slots(s, n, t) => Selectable(s, left(Len(a) + 1)) = {}}

\* _schedule_try's time; -1 stands for -inf, both are refused.
RetryAt(s, a, t) ==
    IF a # <<>> THEN t + Segment(s).headway
    ELSE IF lastEntry[s] = Never THEN -1 ELSE lastEntry[s] + Segment(s).headway

\* _process_queue(s) at the end of the handler of e, which has left the
\* requests w and n trains at s, the intervals opened and the movements moved;
\* then the handler schedules the batch after.
ProcessQueue(e, s, w, n, opened, moved, after) ==
    \E a \in Admissions(s, w, n, e.time) :
        LET left == w \ Range(a)
            full == n + Len(a) >= Segment(s).capacity
            arrival(r) == At(e.time + Segment(s).running,
                             TrainEvent("arrive", r.train, r.step + 1))
            retry == IF left # {} /\ ~full /\ ~Closed(s, e.time)
                       THEN <<At(RetryAt(s, a, e.time), TryEvent(s))>> ELSE <<>>
            batch == [i \in 1..Len(a) |-> arrival(a[i])] \o retry \o after
        IN /\ waiting' = [waiting EXCEPT ![s] = left]
           /\ occupancy' = [occupancy EXCEPT ![s] = n + Len(a)]
           /\ lastEntry' = IF a = <<>> THEN lastEntry ELSE [lastEntry EXCEPT ![s] = e.time]
           /\ open' = opened \cup
                {[train |-> r.train, seg |-> s, enter |-> e.time] : r \in Range(a)}
           /\ movements' = moved \o [i \in 1..Len(a) |->
                    [time |-> e.time, train |-> a[i].train,
                     station |-> Path(a[i].train)[a[i].step], event |-> "depart"]]
           /\ Process(e, batch, Len(batch))

\* _on_ready: the train asks for the segment ahead of it.
Ready(e) ==
    LET t == e.event.train
        i == e.event.step
        s == Ahead(t, i)
    IN /\ e.event.kind = "ready"
       /\ \/ /\ IsLast(t, i)
             /\ Process(e, NoEvents, 0)
             /\ UNCHANGED <<waiting, occupancy, lastEntry, open, movements>>
          \/ /\ ~IsLast(t, i)
             /\ ProcessQueue(e, s, waiting[s] \cup {[train |-> t, step |-> i, at |-> e.time]},
                             occupancy[s], open, movements, NoEvents)
       /\ UNCHANGED <<scenario, occupations>>

\* _on_arrive: leave the segment, let others in, go on after the dwell time.
Arrive(e) ==
    LET t == e.event.train
        i == e.event.step
        s == Ahead(t, i - 1)
        here == [time |-> e.time, train |-> t, station |-> Path(t)[i], event |-> "arrive"]
        onward == IF IsLast(t, i) THEN NoEvents
                  ELSE <<At(e.time + scenario.trains[t].dwell, TrainEvent("ready", t, i))>>
    IN /\ e.event.kind = "arrive"
       /\ \E o \in open :
            /\ o.train = t /\ o.seg = s
            /\ occupations' = Append(occupations, [train |-> t, seg |-> s,
                                                   enter |-> o.enter, exit |-> e.time])
            /\ ProcessQueue(e, s, waiting[s], occupancy[s] - 1, open \ {o},
                            Append(movements, here), onward)
       /\ UNCHANGED scenario

\* Mutant: a retry is not followed up.
TryNothing(e) ==
    /\ e.event.kind = "try"
    /\ Process(e, NoEvents, 0)
    /\ UNCHANGED <<scenario, occupancy, lastEntry, waiting, open, occupations, movements>>

\* _on_try
Try(e) ==
    /\ e.event.kind = "try"
    /\ ProcessQueue(e, e.event.seg, waiting[e.event.seg], occupancy[e.event.seg], open,
                    movements, NoEvents)
    /\ UNCHANGED <<scenario, occupations>>

Turn == \E e \in heap : Ready(e) \/ Arrive(e) \/ Try(e)

\* run() is over: the queue is empty, or schedule() raised.
Finished == (heap = {} \/ raised) /\ UNCHANGED vars

Next == Turn \/ Finished

\* The loop never pauses while events are pending.
Spec == Init /\ [][Next]_vars /\ WF_vars(Turn)

-----------------------------------------------------------------------------
Pending(event) == {e \in heap : e.event = event}
On(s) == {o \in open : o.seg = s}
WaitingFor(t) == {s \in Segments : \E r \in waiting[s] : r.train = t}
Moves(t) == {e \in heap : e.event.kind # "try" /\ e.event.train = t}

Arrivals(t) == {n \in DOMAIN movements : movements[n].train = t /\ movements[n].event = "arrive"}

\* completed_trains: an arrival at the last station of the path counts, one on
\* the way there too.
CompletedTrains ==
    {t \in Trains : \E n \in Arrivals(t), i \in DOMAIN Path(t) :
        IsLast(t, i) /\ movements[n].station = Path(t)[i]}

\* A train has arrived as often as its path has stations to reach.
AtFinalStop(t) == IsLast(t, Cardinality(Arrivals(t)))

TypeOK ==
    /\ \A e \in heap :
        /\ e.time \in Nat /\ e.seq \in 0..(sequence - 1)
        /\ \/ e.event.kind = "try" /\ e.event.seg \in Segments
           \/ e.event.kind \in {"ready", "arrive"} /\ e.event.step \in DOMAIN Path(e.event.train)
    /\ sequence \in Nat /\ now \in Nat /\ raised \in BOOLEAN
    /\ occupancy \in [Segments -> Nat]
    /\ \A s \in Segments : lastEntry[s] \in Nat \cup {Never}
    /\ \A s \in Segments : \A r \in waiting[s] : r.train \in Trains /\ r.at \in Nat
    /\ \A o \in open : o.train \in Trains /\ o.seg \in Segments /\ o.enter \in Nat
    /\ Len(occupations) \in Nat /\ Len(movements) \in Nat

\* A train is in one place: about to be ready, waiting for the one segment
\* ahead, running over it, or at the end of its path.
OnePlace ==
    \A t \in Trains : ~IsLast(t, 0) =>
        Cardinality(Moves(t)) + Cardinality(WaitingFor(t)) = IF AtFinalStop(t) THEN 0 ELSE 1

OccupancyAgrees ==
    \A s \in Segments :
        /\ occupancy[s] = Cardinality(On(s))
        /\ occupancy[s] <= Segment(s).capacity
        /\ \A o \in On(s) : \E e \in Moves(o.train) :
                e.event.kind = "arrive" /\ Ahead(o.train, e.event.step - 1) = s
                /\ e.time = o.enter + Segment(s).running

\* The counter _occupancy, the map _open and the pending arrivals agree, a
\* segment never holds more trains than it has tracks, and every train is in
\* one place.  No handler asks the loop for a time already passed: the headway
\* retry of _schedule_try is always in the future, whatever woke the queue.
OccupancyIsReal == TypeOK /\ ~raised /\ OccupancyAgrees /\ OnePlace

\* Every entry to a segment so far.
EntriesTo(s) ==
    {<<o.train, o.enter>> : o \in On(s)}
      \cup {<<r.train, r.enter>> : r \in {q \in Range(occupations) : q.seg = s}}

\* "Following trains keep their headway", and so do opposing ones: no two
\* trains ever enter a segment less than its headway apart.  A closed segment
\* is never entered, and trains in it may still leave.
HeadwayKept ==
    \A s \in Segments : \A x, y \in EntriesTo(s) :
        /\ ~Closed(s, x[2])
        /\ x # y => x[2] >= y[2] + Segment(s).headway \/ y[2] >= x[2] + Segment(s).headway

\* No lost wake-up: whenever trains wait for a segment, it is full, and a train
\* that fills it will arrive, or an event is pending that looks at its queue
\* again: the end of a closure or a headway retry.  No such event comes late:
\* at no instant before it could a train have entered.
NoLostWakeup ==
    \A s \in Segments : waiting[s] # {} =>
        \/ occupancy[s] >= Segment(s).capacity /\ On(s) # {}
        \/ \E e \in Pending(TryEvent(s)) :
            e.time >= now /\ \A x \in now..(e.time - 1) : Closed(s, x) \/ ~HeadwayOver(s, x)

\* Every train has come to the end of its path, and those that ran are the ones
\* completed_trains names: a train whose path is one station never arrives.
AllComplete ==
    /\ \A t \in Trains : AtFinalStop(t)
    /\ CompletedTrains = {t \in Trains : ~IsLast(t, 0)}

\* Every train reaches the end of its path and is named as completed, whatever
\* the dispatcher prefers and however long segments are closed.
EveryTrainCompletes == <>AllComplete
=============================================================================
