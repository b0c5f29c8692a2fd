------------------------------ MODULE MacroSim ------------------------------
(***************************************************************************)
(* dbsim.engine.trains.MacroSimulation: trains run through their scheduled *)
(* stops on the event loop; primary delays, dwell times and protected      *)
(* connections shift their departures.                                     *)
(*                                                                         *)
(* A scenario is what the constructor receives:                            *)
(*   stops     a tuple of trips, each a function from the stop index 0..k  *)
(*             to a ScheduledStop [seq, stop, arr, dep]                    *)
(*   primary   the delays declared for a <<trip, stop sequence>>, summed   *)
(*   conns     a set of Connections                                        *)
(*   minDwell  min_dwell_s                                                 *)
(***************************************************************************)
EXTENDS EventQueue, FiniteSetsExt, Sequences

CONSTANTS
    Scenarios,   \* the inputs considered
    NoTime       \* None, as an arrival or a departure time

VARIABLES
    scenario,         \* the inputs of this run
    records,          \* MovementRecords, in order
    feederArrivals,   \* _feeder_arrivals: <<trip, stop>> -> time
    waiting,          \* _waiting: <<trip, idx>> -> _Waiting
    waiters           \* _waiters_by_feeder: <<trip, stop>> -> tuple of <<trip, idx>>

vars == <<heap, sequence, now, raised, scenario, records, feederArrivals, waiting, waiters>>

\* None or a time, in seconds.
Times == Int \cup {NoTime}
ScheduledStop == [seq : Int, stop : STRING, arr : Times, dep : Times]

\* Only a train's start may be early, and none before the clock's start.
ASSUME ScenariosAssumption ==
    /\ NoTime \notin Int
    /\ \A s \in Scenarios :
        /\ DOMAIN s.stops = 1..Len(s.stops) /\ Len(s.stops) \in Nat
        /\ \A t \in DOMAIN s.stops :
            /\ 0 \in DOMAIN s.stops[t] /\ DOMAIN s.stops[t] \subseteq Nat
            /\ \A i \in DOMAIN s.stops[t] : s.stops[t][i] \in ScheduledStop
            /\ {s.stops[t][0].arr, s.stops[t][0].dep} \subseteq Nat \cup {NoTime}
        /\ \A p \in DOMAIN s.primary : s.primary[p] \in Int
        /\ \A t \in DOMAIN s.stops, p \in DOMAIN s.primary :
            p[1] = t /\ s.primary[p] < 0 =>
                LET start == IF s.stops[t][0].dep # NoTime THEN s.stops[t][0].dep
                                                           ELSE s.stops[t][0].arr
                IN /\ \A i \in DOMAIN s.stops[t] : i > 0 => p[2] # s.stops[t][i].seq
                   /\ p[2] = s.stops[t][0].seq /\ start # NoTime => start + s.primary[p] >= 0
        /\ s.minDwell \in Nat
        /\ IsFiniteSet(s.conns)
        /\ \A c \in s.conns : c.minTransfer \in Int /\ c.maxWait \in Int

OrElse(time, other) == IF time # NoTime THEN time ELSE other

Larger(a, b) == IF a >= b THEN a ELSE b

Trips == DOMAIN scenario.stops
Stop(t, i) == scenario.stops[t][i]
Last(t, i) == i + 1 \notin DOMAIN scenario.stops[t]
Event(kind, t, i) == [kind |-> kind, trip |-> t, idx |-> i]

Primary(t, seq) ==
    IF <<t, seq>> \in DOMAIN scenario.primary THEN scenario.primary[<<t, seq>>] ELSE 0

\* _conns_by_connector
Conns(t, seq) == {c \in scenario.conns : c.connector = t /\ c.seq = seq}
Feeder(c) == <<c.feeder, c.feederStop>>

\* The departures the constructor schedules: one per trip whose first stop has
\* a time, in the order of the schedules.
Origins(s) ==
    LET first(t) == s.stops[t][0]
        start(t) == OrElse(first(t).dep, first(t).arr)
        late(t) == IF <<t, first(t).seq>> \in DOMAIN s.primary THEN s.primary[<<t, first(t).seq>>] ELSE 0
    IN [t \in {u \in DOMAIN s.stops : start(u) # NoTime} |-> At(start(t) + late(t), Event("depart", t, 0))]

Init ==
    /\ scenario \in Scenarios
    /\ QueueInit(Origins(scenario), Len(scenario.stops))
    /\ records = <<>>
    /\ feederArrivals = <<>>
    /\ waiting = <<>>
    /\ waiters = <<>>

\* Mutant: the dwell at the previous stop counts as running time.
RunningTimeFromArrival(from, to) ==
    LET depart == OrElse(from.arr, from.dep)
        arrive == OrElse(to.arr, to.dep)
    IN IF NoTime \in {depart, arrive} THEN 0 ELSE Larger(0, arrive - depart)

RunningTime(from, to) ==
    LET depart == OrElse(from.dep, from.arr)
        arrive == OrElse(to.arr, to.dep)
    IN IF NoTime \in {depart, arrive} THEN 0 ELSE Larger(0, arrive - depart)

Record(e) ==
    records' = Append(records, [time |-> e.time, trip |-> e.event.trip,
                                idx |-> e.event.idx, event |-> e.event.kind])

\* _on_depart
Depart(e) ==
    LET t == e.event.trip
        i == e.event.idx
        run == RunningTime(Stop(t, i), Stop(t, i + 1))
    IN /\ e.event.kind = "depart"
       /\ Record(e)
       /\ \/ /\ Last(t, i)
             /\ Process(e, NoEvents, 0)
          \/ /\ ~Last(t, i)
             /\ Process(e, <<At(e.time + run, Event("arrive", t, i + 1))>>, 1)
       /\ UNCHANGED <<scenario, feederArrivals, waiting, waiters>>

\* Mutant: a late train makes up for it by its dwell time.
BaseWithoutDwell(t, i, at) == Larger(OrElse(Stop(t, i).dep, at), at) + Primary(t, Stop(t, i).seq)

\* The departure _decide_departure starts from, before connections.
Base(t, i, at) ==
    Larger(OrElse(Stop(t, i).dep, at), at + scenario.minDwell) + Primary(t, Stop(t, i).seq)

\* The _Waiting that _decide_departure builds for a train that reached a stop
\* at a time, when arrivals holds the feeders seen so far.  With nothing
\* pending the train departs at required.
Decision(t, i, at, arrivals) ==
    LET scheduled == OrElse(Stop(t, i).dep, at)
        base == Base(t, i, at)
        conns == Conns(t, Stop(t, i).seq)
        giveUp(c) == scheduled + c.maxWait
        hold(c) == arrivals[Feeder(c)] + c.minTransfer
        caught == {c \in conns : Feeder(c) \in DOMAIN arrivals /\ hold(c) <= giveUp(c)}
        awaited == {c \in conns : Feeder(c) \notin DOMAIN arrivals /\ giveUp(c) > base}
    IN [base |-> base,
        required |-> Max({base} \cup {hold(c) : c \in caught}),
        deadline |-> Max({base} \cup {giveUp(c) : c \in conns}),
        pending |-> {Feeder(c) : c \in awaited},
        resolved |-> FALSE]

\* The waiters of a feeder, in the order they began to wait.
WaitersOf(feeder) == IF feeder \in DOMAIN waiters THEN waiters[feeder] ELSE <<>>

Awaits(key, feeder) == ~waiting[key].resolved /\ feeder \in waiting[key].pending

\* _scheduled_departure
ScheduledDeparture(key) ==
    LET stop == Stop(key[1], key[2]) IN OrElse(stop.dep, OrElse(stop.arr, 0))

\* Mutant: max_wait is not looked at again when the feeder arrives.
ServedHoweverLate(key, feeder, at) ==
    LET w == waiting[key]
        hold(c) == at + c.minTransfer
        caught == {c \in Conns(key[1], key[2]) : Feeder(c) = feeder}
        required == Max({w.required} \cup {hold(c) : c \in caught})
        pending == w.pending \ {feeder}
    IN [w EXCEPT !.required = required, !.pending = pending,
                 !.resolved = (pending = {} /\ required > w.base)]

\* What _release_waiters makes of a waiting connector when its feeder arrives.
\* It looks the connections up under the waiter's key <<trip, idx>>, although
\* they are filed under <<trip, stop sequence>>.
Served(key, feeder, at) ==
    LET w == waiting[key]
        hold(c) == at + c.minTransfer
        caught == {c \in Conns(key[1], key[2]) :
                        Feeder(c) = feeder /\ hold(c) <= ScheduledDeparture(key) + c.maxWait}
        required == Max({w.required} \cup {hold(c) : c \in caught})
        pending == w.pending \ {feeder}
    IN [w EXCEPT !.required = required, !.pending = pending,
                 !.resolved = (pending = {} /\ required > w.base)]

WaitingAfter(feeder, at) ==
    [key \in DOMAIN waiting |->
        IF Awaits(key, feeder) /\ \E k \in DOMAIN WaitersOf(feeder) : WaitersOf(feeder)[k] = key
          THEN Served(key, feeder, at) ELSE waiting[key]]

\* _finalize_departure
Finalized(key, w, at) == At(Larger(w.required, at), Event("depart", key[1], key[2]))

\* Mutant: a released connector is marked resolved but never sent on.
ReleasesNothing(feeder, at) == NoEvents

\* The departures _release_waiters schedules, each at its waiter's position.
Releases(feeder, at) ==
    LET queue == WaitersOf(feeder)
        after == WaitingAfter(feeder, at)
    IN [k \in {j \in DOMAIN queue : Awaits(queue[j], feeder) /\ after[queue[j]].resolved} |->
            Finalized(queue[k], after[queue[k]], at)]

\* The event _decide_departure schedules for the train itself.
Onward(t, i, d) ==
    IF d.pending = {} THEN At(d.required, Event("depart", t, i))
                      ELSE At(d.deadline, Event("conn_deadline", t, i))

\* _on_arrive: release the connectors that waited for this train, then decide
\* its own departure, unless this is its last stop.
Arrive(e) ==
    LET t == e.event.trip
        i == e.event.idx
        feeder == <<t, Stop(t, i).stop>>
        arrivals == Put(feederArrivals, feeder, e.time)
        released == Releases(feeder, e.time)
        width == Len(WaitersOf(feeder))
        d == Decision(t, i, e.time, arrivals)
    IN /\ e.event.kind = "arrive"
       /\ Record(e)
       /\ feederArrivals' = arrivals
       /\ \/ /\ Last(t, i)
             /\ waiting' = WaitingAfter(feeder, e.time)
             /\ Process(e, released, width)
             /\ UNCHANGED waiters
          \/ /\ ~Last(t, i)
             /\ waiting' = IF d.pending = {} THEN WaitingAfter(feeder, e.time)
                           ELSE Put(WaitingAfter(feeder, e.time), <<t, i>>, d)
             /\ waiters' = [f \in DOMAIN waiters \cup d.pending |->
                                IF f \in d.pending THEN Append(WaitersOf(f), <<t, i>>)
                                                   ELSE waiters[f]]
             /\ Process(e, Put(released, width + 1, Onward(t, i, d)), width + 1)
       /\ UNCHANGED scenario

\* Mutant: the deadline does not check whether the hold has already ended.
ConnDeadlineAgain(e) ==
    LET key == <<e.event.trip, e.event.idx>>
    IN /\ e.event.kind = "conn_deadline"
       /\ waiting' = [waiting EXCEPT ![key].resolved = TRUE]
       /\ Process(e, <<Finalized(key, waiting[key], e.time)>>, 1)
       /\ UNCHANGED <<scenario, records, feederArrivals, waiters>>

\* _on_conn_deadline
ConnDeadline(e) ==
    LET key == <<e.event.trip, e.event.idx>>
        open == key \in DOMAIN waiting /\ ~waiting[key].resolved
    IN /\ e.event.kind = "conn_deadline"
       /\ \/ /\ open
             /\ waiting' = [waiting EXCEPT ![key].resolved = TRUE]
             /\ Process(e, <<Finalized(key, waiting[key], e.time)>>, 1)
          \/ /\ ~open
             /\ Process(e, NoEvents, 0)
             /\ UNCHANGED waiting
       /\ UNCHANGED <<scenario, records, feederArrivals, waiters>>

\* run() is over: the queue is empty, or schedule() raised.
Finished == (heap = {} \/ raised) /\ UNCHANGED vars

Turn == \E e \in heap : Depart(e) \/ Arrive(e) \/ ConnDeadline(e)

Next == Turn \/ Finished

\* The loop never pauses while events are pending.
Spec == Init /\ [][Next]_vars /\ WF_vars(Turn)

-----------------------------------------------------------------------------
Moved(t, i, kind) ==
    {r \in Range(records) : r.trip = t /\ r.idx = i /\ r.event = kind}

NeverStarts(t) == OrElse(Stop(t, 0).dep, Stop(t, 0).arr) = NoTime

Terminated(t) ==
    \E r \in Range(records) : r.trip = t /\ Last(t, r.idx) /\ (r.event = "arrive" \/ r.idx = 0)

Moves(t) == {e \in heap : e.event.trip = t /\ e.event.kind # "conn_deadline"}
Held(t) == {key \in DOMAIN waiting : key[1] = t /\ ~waiting[key].resolved}
Deadlines(key) == {e \in heap : e.event = Event("conn_deadline", key[1], key[2])}

IsEntry(e) ==
    /\ e.time \in Int /\ e.seq \in Nat
    /\ e.event.kind \in {"depart", "arrive", "conn_deadline"}
    /\ e.event.trip \in Trips /\ e.event.idx \in DOMAIN scenario.stops[e.event.trip]

MovementRecord == [time : Int, trip : Trips, idx : Nat, event : {"depart", "arrive"}]

Hold == [base : Int, required : Int, deadline : Int,
         pending : SUBSET {Feeder(c) : c \in scenario.conns}, resolved : BOOLEAN]

TypeOK ==
    /\ \A e \in heap : IsEntry(e) /\ e.seq < sequence
    /\ sequence \in Nat /\ now \in Int /\ raised \in BOOLEAN
    /\ records \in Seq(MovementRecord)
    /\ \A f \in DOMAIN feederArrivals : feederArrivals[f] \in Int
    /\ \A key \in DOMAIN waiting :
        /\ key[1] \in Trips /\ key[2] \in DOMAIN scenario.stops[key[1]]
        /\ waiting[key] \in Hold /\ waiting[key].base <= waiting[key].required
    /\ \A f \in DOMAIN waiters : waiters[f] \in Seq(DOMAIN waiting)

\* A train has exactly one future until its last stop: one pending movement,
\* or one hold with one deadline to end it.  A feeder's release and the
\* deadline can both reach a held train, in either order.  And "no acausal
\* effects": no handler ever asks the loop for a time already passed.
OneFuture ==
    TypeOK /\ ~raised /\ \A t \in Trips :
        IF Terminated(t) \/ NeverStarts(t)
          THEN Moves(t) = {} /\ Held(t) = {}
          ELSE \/ Held(t) = {} /\ \E e \in heap : Moves(t) = {e}
               \/ /\ Moves(t) = {}
                  /\ \E key \in DOMAIN waiting, e \in heap :
                        /\ Held(t) = {key}
                        /\ Deadlines(key) = {e}
                        /\ e.time = waiting[key].deadline

\* Every stop up to the i-th has a time.
Timed(t, i) ==
    \A j \in DOMAIN scenario.stops[t] : j <= i => OrElse(Stop(t, j).dep, Stop(t, j).arr) # NoTime

\* "A simulated time is never earlier than its schedule", wherever its holds
\* and the delays of other trains send it, unless the train starts early or
\* passes a stop without times, to and from which it takes no time; and no
\* train leaves a stop before it has stood there for min_dwell_s, not even
\* when a feeder or a deadline ends its hold early.
NeverEarly ==
    \A r \in Range(records) :
        LET stop == Stop(r.trip, r.idx)
            onTime == Primary(r.trip, Stop(r.trip, 0).seq) >= 0
        IN /\ r.event = "depart" =>
                \A a \in Moved(r.trip, r.idx, "arrive") : r.time >= a.time + scenario.minDwell
           /\ onTime /\ r.event = "depart" /\ stop.dep # NoTime => r.time >= stop.dep
           /\ onTime /\ r.event = "arrive" /\ stop.arr # NoTime /\ Timed(r.trip, r.idx)
                => r.time >= stop.arr

\* The earliest departure the train itself allows after arriving at a stop.
OwnDeparture(t, i, at) ==
    Larger(OrElse(Stop(t, i).dep, at), at + scenario.minDwell) + Primary(t, Stop(t, i).seq)

GiveUp(c, i, at) == OrElse(Stop(c.connector, i).dep, at) + c.maxWait

\* Departures from stops at which a train may be held: all but its first.
HeldDepartures == {r \in Range(records) : r.event = "depart" /\ r.idx > 0}

\* The Connection docstring: a connector's departure is held until its feeder's
\* arrival + min_transfer_s, where that is within its max_wait.
TransferIsKept ==
    \A r \in HeldDepartures : \A c \in Conns(r.trip, Stop(r.trip, r.idx).seq) :
        \A a \in Moved(r.trip, r.idx, "arrive") :
            \A i \in DOMAIN scenario.stops[c.feeder] :
                Stop(c.feeder, i).stop = c.feederStop =>
                    \A f \in Moved(c.feeder, i, "arrive") :
                        f.time + c.minTransfer <= GiveUp(c, r.idx, a.time)
                            => r.time >= f.time + c.minTransfer

\* No hold goes on after the longest wait among its stop's connections.
HoldIsBounded ==
    \A r \in HeldDepartures : \A a \in Moved(r.trip, r.idx, "arrive") :
        r.time <= Max({OwnDeparture(r.trip, r.idx, a.time)}
                        \cup {GiveUp(c, r.idx, a.time) :
                                c \in Conns(r.trip, Stop(r.trip, r.idx).seq)})

\* Connections that hold trains at the i-th stop of t.
Connected(t, i) == Conns(t, Stop(t, i).seq)

\* A stop with connections has a departure time and its connections under its
\* index too, where _release_waiters looks for them, and a feeder calls once at
\* the stop it feeds.
Regular ==
    /\ \A t \in Trips : \A i \in DOMAIN scenario.stops[t] :
        i > 0 /\ Connected(t, i) # {} => Stop(t, i).dep # NoTime /\ Conns(t, i) = Connected(t, i)
    /\ \A c \in scenario.conns : c.feeder \in Trips =>
        \A i, j \in DOMAIN scenario.stops[c.feeder] :
            i > 0 /\ j > 0 /\ Stop(c.feeder, i).stop = c.feederStop
                /\ Stop(c.feeder, j).stop = c.feederStop => i = j

\* In a regular scenario a protected transfer is kept: where the transfer
\* from a feeder fits into max_wait, the connector leaves no earlier than that,
\* whichever of the two trains comes first and whatever other feeders it waits
\* for.  No hold outlasts the
\* longest max_wait among the stop's connections, so a feeder that never comes,
\* or two trains that await each other, block nobody.  Where stop sequences are
\* not indices neither is certain: the release looks at the connections of no
\* stop or of another one.
ConnectionKept == Regular => TransferIsKept /\ HoldIsBounded

\* Delay spreads only through what the scenario declares: a train that is late
\* somewhere had a primary delay, a connection or less scheduled dwell than
\* min_dwell_s at a stop it already served.
DelayHasACause ==
    \A r \in Range(records) :
        LET stop == Stop(r.trip, r.idx)
            due == IF r.event = "depart" THEN stop.dep ELSE stop.arr
        IN due # NoTime /\ r.time > due =>
            \E j \in 0..r.idx :
                \/ Primary(r.trip, Stop(r.trip, j).seq) > 0
                \/ j > 0 /\ Conns(r.trip, Stop(r.trip, j).seq) # {}
                \/ j > 0 /\ Stop(r.trip, j).dep - Stop(r.trip, j).arr < scenario.minDwell

\* Every train that starts reaches its last stop, whatever it is held for.
EveryTrainArrives == <>(\A t \in Trips : Terminated(t) \/ NeverStarts(t))

\* The Connection docstring: a connector is held for a feeder that is still
\* to come, at most up to that connection's max_wait, or for the transfer from
\* one that came in time; nothing else delays it beyond its own departure.
HoldIsJustified ==
    \A r \in HeldDepartures : \A a \in Moved(r.trip, r.idx, "arrive") :
        LET conns == Conns(r.trip, Stop(r.trip, r.idx).seq)
            came(c) == {f \in DOMAIN feederArrivals : f = Feeder(c) /\ feederArrivals[f] < r.time}
        IN r.time <= Max(
               {OwnDeparture(r.trip, r.idx, a.time)}
               \cup UNION {{feederArrivals[f] + c.minTransfer : f \in came(c)} : c \in conns}
               \cup {GiveUp(c, r.idx, a.time) : c \in {d \in conns : came(d) = {}}})
=============================================================================
