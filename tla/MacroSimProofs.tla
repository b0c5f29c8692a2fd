--------------------------- MODULE MacroSimProofs ---------------------------
(***************************************************************************)
(* One future per train, no time before its schedule, no delay without a   *)
(* cause, no connection lost and no more recovered than the dwell times    *)
(* leave, in every replication, for every timetable, list of delays and    *)
(* set of connections.                                                     *)
(***************************************************************************)
EXTENDS Validation, EventQueueProofs, Extremes, FiniteSetTheorems, SequenceTheorems

Events == [kind : {"depart", "arrive", "conn_deadline"}, trip : Trips, idx : Nat]

\* Nothing twice.
Distinct(s) == \A j, k \in DOMAIN s : s[j] = s[k] => j = k

LayerTyped ==
    /\ scenario \in Scenarios
    /\ records \in Seq(MovementRecord)
    /\ \A f \in DOMAIN feederArrivals : feederArrivals[f] \in Nat
    /\ \A key \in DOMAIN waiting :
        /\ \E t \in Trips : \E i \in DOMAIN scenario.stops[t] : key = <<t, i>>
        /\ waiting[key] \in Hold /\ waiting[key].base <= waiting[key].required
    /\ \A f \in DOMAIN waiters :
        waiters[f] \in Seq(DOMAIN waiting) /\ Distinct(waiters[f])
    /\ \A e \in heap : e.event.kind = "conn_deadline" => <<e.event.trip, e.event.idx>> \in DOMAIN waiting

\* What the records and the holds say of a train that has not passed a stop
\* yet, and of one that has come to it.
Passed(t, i) == \A r \in Range(records) : r.trip = t => r.idx < i /\ ~Last(t, r.idx)

Stopped(t, i) ==
    \A r \in Range(records) : r.trip = t =>
        ~Last(t, r.idx) /\ (r.idx < i \/ (r.idx = i /\ i > 0 /\ r.event = "arrive"))

HoldsBelow(t, i) == \A key \in DOMAIN waiting : key[1] = t => key[2] < i

Due(t, i) == OrElse(Stop(t, i).dep, Stop(t, i).arr)
OnTime(t) == Primary(t, Stop(t, 0).seq) >= 0

\* A departure at x is not early, and neither is the arrival it leads to.
LeavesInTime(t, i, x) ==
    /\ \A a \in Moved(t, i, "arrive") : x >= a.time + scenario.minDwell
    /\ OnTime(t) /\ Stop(t, i).dep # NoTime => x >= Stop(t, i).dep
    /\ OnTime(t) /\ Timed(t, i) => x >= Due(t, i)

ComesInTime(t, i, x) == OnTime(t) /\ Timed(t, i) => x >= OrElse(Stop(t, i).arr, Stop(t, i).dep)

\* Where a train can be.
Departing(t, i) ==
    /\ Held(t) = {} /\ Stopped(t, i) /\ HoldsBelow(t, i + 1) /\ (Last(t, i) => i = 0)
    /\ \E e \in heap :
        Moves(t) = {e} /\ e.event = Event("depart", t, i) /\ LeavesInTime(t, i, e.time)

Running(t, i) ==
    /\ i > 0 /\ Held(t) = {} /\ Passed(t, i) /\ HoldsBelow(t, i)
    /\ \E e \in heap :
        Moves(t) = {e} /\ e.event = Event("arrive", t, i) /\ ComesInTime(t, i, e.time)

HeldAt(t, i) ==
    /\ i > 0 /\ ~Last(t, i) /\ Moves(t) = {} /\ Stopped(t, i) /\ HoldsBelow(t, i + 1)
    /\ Held(t) = {<<t, i>>} /\ LeavesInTime(t, i, waiting[<<t, i>>].base)
    /\ \E e \in heap : Deadlines(<<t, i>>) = {e} /\ e.time = waiting[<<t, i>>].deadline

AtItsEnd(t) == Moves(t) = {} /\ Held(t) = {} /\ (Terminated(t) \/ NeverStarts(t))

Placed ==
    \A t \in Trips :
        \/ AtItsEnd(t)
        \/ /\ ~NeverStarts(t)
           /\ \E i \in DOMAIN scenario.stops[t] : Departing(t, i) \/ Running(t, i) \/ HeldAt(t, i)

MacroInv == QueueOf(Events) /\ LayerTyped /\ Placed /\ NeverEarly

-----------------------------------------------------------------------------
\* What the assumption says of the scenario that runs.
LEMMA ScenarioTyping ==
    ASSUME scenario \in Scenarios
    PROVE  /\ NoTime \notin Int
           /\ Trips = 1..Len(scenario.stops) /\ Len(scenario.stops) \in Nat
           /\ \A t \in Trips : /\ 0 \in DOMAIN scenario.stops[t]
                               /\ DOMAIN scenario.stops[t] \subseteq Nat
           /\ \A t \in Trips : \A i \in DOMAIN scenario.stops[t] :
                Stop(t, i).arr \in Times /\ Stop(t, i).dep \in Times
           /\ \A t \in Trips : \A seq : Primary(t, seq) \in Int
           /\ \A t \in Trips : \A i \in DOMAIN scenario.stops[t] :
                i > 0 => Primary(t, Stop(t, i).seq) \in Nat
           /\ \A t \in Trips : ~NeverStarts(t) =>
                Due(t, 0) \in Nat /\ Due(t, 0) + Primary(t, Stop(t, 0).seq) \in Nat
           /\ scenario.minDwell \in Nat
           /\ IsFiniteSet(scenario.conns)
           /\ \A c \in scenario.conns : c.minTransfer \in Int /\ c.maxWait \in Int
  <1> DEFINE s == scenario
             start(t) == IF s.stops[t][0].dep # NoTime THEN s.stops[t][0].dep ELSE s.stops[t][0].arr
  <1>1. /\ NoTime \notin Int
        /\ DOMAIN s.stops = 1..Len(s.stops) /\ Len(s.stops) \in Nat
        /\ \A p \in DOMAIN s.primary : s.primary[p] \in Int
        /\ s.minDwell \in Nat
        /\ IsFiniteSet(s.conns)
        /\ \A c \in s.conns : c.minTransfer \in Int /\ c.maxWait \in Int
    BY ScenariosAssumption DEF ScenariosAssumption
  <1>2. \A t \in DOMAIN s.stops :
            /\ 0 \in DOMAIN s.stops[t] /\ DOMAIN s.stops[t] \subseteq Nat
            /\ \A i \in DOMAIN s.stops[t] : s.stops[t][i] \in ScheduledStop
            /\ s.stops[t][0].arr \in Nat \cup {NoTime} /\ s.stops[t][0].dep \in Nat \cup {NoTime}
    BY ScenariosAssumption DEF ScenariosAssumption
  <1>3. ASSUME NEW t \in DOMAIN s.stops, NEW p \in DOMAIN s.primary, p[1] = t, s.primary[p] < 0
        PROVE  /\ \A i \in DOMAIN s.stops[t] : i > 0 => p[2] # s.stops[t][i].seq
               /\ p[2] = s.stops[t][0].seq /\ start(t) # NoTime => start(t) + s.primary[p] >= 0
    BY <1>3, ScenariosAssumption DEF ScenariosAssumption
  <1>4. \A t \in Trips : \A i \in DOMAIN s.stops[t] : Stop(t, i).arr \in Times /\ Stop(t, i).dep \in Times
    BY <1>2 DEF Trips, Stop, ScheduledStop
  <1>5. \A t \in Trips : \A seq : Primary(t, seq) \in Int
    BY <1>1 DEF Primary
  <1>6. ASSUME NEW t \in Trips, NEW i \in DOMAIN s.stops[t], i > 0
        PROVE  Primary(t, Stop(t, i).seq) \in Nat
    <2> DEFINE p == <<t, Stop(t, i).seq>>
    <2>1. CASE p \in DOMAIN s.primary
      <3>1. p[1] = t /\ p[2] = s.stops[t][i].seq
        BY DEF Stop
      <3>2. s.primary[p] \in Int /\ ~(s.primary[p] < 0)
        BY <1>1, <1>3, <1>6, <2>1, <3>1 DEF Trips
      <3>3. Primary(t, Stop(t, i).seq) = s.primary[p]
        BY <2>1 DEF Primary
      <3> QED
        BY <3>2, <3>3
    <2>2. CASE p \notin DOMAIN s.primary
      BY <2>2 DEF Primary
    <2> QED
      BY <2>1, <2>2
  <1>7. ASSUME NEW t \in Trips, ~NeverStarts(t)
        PROVE  Due(t, 0) \in Nat /\ Due(t, 0) + Primary(t, Stop(t, 0).seq) \in Nat
    <2>1. Due(t, 0) = start(t) /\ start(t) \in Nat /\ start(t) # NoTime
      BY <1>1, <1>2, <1>7 DEF Due, OrElse, NeverStarts, Trips, Stop
    <2> DEFINE p == <<t, Stop(t, 0).seq>>
    <2>2. CASE p \in DOMAIN s.primary
      <3>1. p[1] = t /\ p[2] = s.stops[t][0].seq
        BY DEF Stop
      <3>2. Primary(t, Stop(t, 0).seq) = s.primary[p] /\ s.primary[p] \in Int
        BY <1>1, <2>2 DEF Primary
      <3>3. s.primary[p] < 0 => start(t) + s.primary[p] >= 0
        BY <1>3, <2>1, <2>2, <3>1 DEF Trips
      <3> HIDE DEF start, p
      <3> QED
        BY <2>1, <3>2, <3>3
    <2>3. CASE p \notin DOMAIN s.primary
      BY <2>1, <2>3 DEF Primary
    <2> QED
      BY <2>2, <2>3
  <1>8. \A t \in Trips : 0 \in DOMAIN s.stops[t] /\ DOMAIN s.stops[t] \subseteq Nat
    BY <1>2 DEF Trips
  <1> QED
    BY <1>1, <1>4, <1>5, <1>6, <1>7, <1>8 DEF Trips

\* Python's max() of finitely many numbers.
LEMMA MaxOf ==
    ASSUME NEW S, S \subseteq Int, IsFiniteSet(S), S # {}
    PROVE  Max(S) \in S /\ Max(S) \in Int /\ \A y \in S : y <= Max(S)
  <1>1. \E x \in S : \A y \in S : x >= y
    BY GreatestNumber
  <1>2. Max(S) \in S /\ \A y \in S : Max(S) >= y
    BY <1>1 DEF Max
  <1> QED
    BY <1>2

\* The larger of two numbers is one of them and at least both.
LEMMA LargerOf == \A a, b \in Int : /\ Larger(a, b) \in Int /\ Larger(a, b) >= a /\ Larger(a, b) >= b
                                    /\ Larger(a, b) \in {a, b}
  BY DEF Larger

\* A departure time that a train's own dwell and the schedule allow.
LEMMA BaseOf ==
    ASSUME scenario \in Scenarios, NEW t \in Trips, NEW i \in DOMAIN scenario.stops[t], i > 0,
           NEW at \in Nat
    PROVE  /\ Base(t, i, at) \in Nat /\ OrElse(Stop(t, i).dep, at) \in Int
           /\ Base(t, i, at) >= at + scenario.minDwell
           /\ Base(t, i, at) >= OrElse(Stop(t, i).dep, at)
  <1> DEFINE dep == OrElse(Stop(t, i).dep, at)
             own == at + scenario.minDwell
             late == Primary(t, Stop(t, i).seq)
  <1>1. dep \in Int
    BY ScenarioTyping DEF OrElse, Times
  <1>2. own \in Nat /\ own >= at /\ late \in Nat
    BY ScenarioTyping
  <1>3. Base(t, i, at) = Larger(dep, own) + late
    BY DEF Base
  <1> HIDE DEF dep, own, late
  <1>4. Larger(dep, own) \in Int /\ Larger(dep, own) >= dep /\ Larger(dep, own) >= own
    BY <1>1, <1>2, LargerOf
  <1>5. Base(t, i, at) \in Nat /\ Base(t, i, at) >= own /\ Base(t, i, at) >= dep
    BY <1>1, <1>2, <1>3, <1>4
  <1> QED
    BY <1>1, <1>5 DEF dep, own

\* The largest of b and what h says of the connections C.
Utmost(b, C, h) == Max({b} \cup {h[c] : c \in C})

\* A maximum over connections is at least each of its terms.
LEMMA OverConnections ==
    ASSUME scenario \in Scenarios, NEW b \in Int, NEW C, C \subseteq scenario.conns,
           NEW h, \A c \in C : h[c] \in Int
    PROVE  /\ Utmost(b, C, h) \in Int /\ Utmost(b, C, h) >= b
           /\ \A c \in C : Utmost(b, C, h) >= h[c]
  <1> DEFINE T == {h[c] : c \in C}
             S == {b} \cup T
  <1>1. IsFiniteSet(C)
    BY ScenarioTyping, FS_Subset
  <1>2. IsFiniteSet(T)
    <2> DEFINE f == [c \in C |-> h[c]]
    <2>1. f \in [C -> T] /\ \A y \in T : \E c \in C : f[c] = y
      OBVIOUS
    <2> HIDE DEF T, f
    <2>2. f \in Surjection(C, T)
      BY <2>1 DEF Surjection
    <2> QED
      BY <1>1, <2>2, FS_Surjection
  <1>3. IsFiniteSet(S) /\ S \subseteq Int /\ S # {}
    <2>1. T \subseteq Int
      OBVIOUS
    <2> HIDE DEF T
    <2>2. IsFiniteSet(T \cup {b})
      BY <1>2, FS_AddElement
    <2>3. S = T \cup {b}
      OBVIOUS
    <2> QED
      BY <2>1, <2>2, <2>3
  <1>4. Max(S) \in Int /\ \A y \in S : y <= Max(S)
    <2> HIDE DEF S
    <2> QED
      BY <1>3, MaxOf
  <1>5. b \in S /\ \A c \in C : h[c] \in S
    OBVIOUS
  <1>6. Max(S) >= b /\ \A c \in C : Max(S) >= h[c]
    BY <1>4, <1>5
  <1> QED
    BY <1>4, <1>6 DEF Utmost

Awaitable == SUBSET {Feeder(c) : c \in scenario.conns}

\* A record of five fields of these types is a hold.
LEMMA HoldFields ==
    ASSUME NEW b \in Int, NEW r \in Int, NEW l \in Int, NEW p \in Awaitable, NEW v \in BOOLEAN
    PROVE  [base |-> b, required |-> r, deadline |-> l, pending |-> p, resolved |-> v] \in Hold
  BY DEF Hold, Awaitable

\* A hold that begins: nothing before the train's own departure.
LEMMA DecisionOf ==
    ASSUME scenario \in Scenarios, NEW t \in Trips, NEW i \in DOMAIN scenario.stops[t], i > 0,
           NEW at \in Nat, NEW arrivals, \A f \in DOMAIN arrivals : arrivals[f] \in Int
    PROVE  LET d == Decision(t, i, at, arrivals)
           IN /\ d \in Hold /\ d.base = Base(t, i, at) /\ d.base <= d.required
              /\ d.required \in Nat /\ d.deadline \in Nat /\ d.base <= d.deadline
              /\ d.resolved = FALSE
  <1> DEFINE scheduled == OrElse(Stop(t, i).dep, at)
             base == Base(t, i, at)
             conns == Conns(t, Stop(t, i).seq)
             giveUp(c) == scheduled + c.maxWait
             hold(c) == arrivals[Feeder(c)] + c.minTransfer
             caught == {c \in conns : Feeder(c) \in DOMAIN arrivals /\ hold(c) <= giveUp(c)}
             awaited == {c \in conns : Feeder(c) \notin DOMAIN arrivals /\ giveUp(c) > base}
             d == Decision(t, i, at, arrivals)
             h == [c \in caught |-> hold(c)]
             g == [c \in conns |-> giveUp(c)]
  <1>1. /\ d = [base |-> base, required |-> Max({base} \cup {hold(c) : c \in caught}),
                deadline |-> Max({base} \cup {giveUp(c) : c \in conns}),
                pending |-> {Feeder(c) : c \in awaited}, resolved |-> FALSE]
    BY DEF Decision
  <1>2. base \in Nat /\ scheduled \in Int
    BY BaseOf
  <1>3. conns \subseteq scenario.conns /\ caught \subseteq scenario.conns /\ awaited \subseteq scenario.conns
    BY DEF Conns
  <1>4. \A c \in caught : h[c] = hold(c) /\ h[c] \in Int
    BY <1>3, ScenarioTyping
  <1>5. \A c \in conns : g[c] = giveUp(c) /\ g[c] \in Int
    BY <1>2, <1>3, ScenarioTyping
  <1>6. {hold(c) : c \in caught} = {h[c] : c \in caught} /\ {giveUp(c) : c \in conns} = {g[c] : c \in conns}
    BY <1>4, <1>5
  <1>7. d.base = base /\ d.resolved = FALSE /\ d.pending \in Awaitable
    BY <1>1, <1>3 DEF Awaitable
  <1>8. d.required = Utmost(base, caught, h) /\ d.deadline = Utmost(base, conns, g)
    <2>1. d.required = Max({base} \cup {hold(c) : c \in caught})
      BY <1>1
    <2>2. d.deadline = Max({base} \cup {giveUp(c) : c \in conns})
      BY <1>1
    <2> HIDE DEF h, g, base, caught, conns, hold, giveUp, d
    <2> QED
      BY <1>6, <2>1, <2>2 DEF Utmost
  <1>9. d = [base |-> d.base, required |-> d.required, deadline |-> d.deadline,
             pending |-> d.pending, resolved |-> d.resolved]
    BY <1>1
  <1> HIDE DEF h, g, caught, conns, base, d
  <1>10. d.required \in Int /\ d.required >= base
    BY <1>2, <1>3, <1>4, <1>8, OverConnections
  <1>11. d.deadline \in Int /\ d.deadline >= base
    BY <1>2, <1>3, <1>5, <1>8, OverConnections
  <1>12. d \in Hold
    <2>1. d.pending \in Awaitable
      BY <1>7
    <2>2. d.base \in Int
      BY <1>2, <1>7
    <2>3. d.resolved \in BOOLEAN
      BY <1>7, Zenon
    <2> QED
      BY <1>9, <1>10, <1>11, <2>1, <2>2, <2>3, HoldFields
  <1>13. d.required \in Nat /\ d.deadline \in Nat /\ d.base <= d.required /\ d.base <= d.deadline
    BY <1>2, <1>7, <1>10, <1>11
  <1> QED
    BY <1>7, <1>12, <1>13 DEF base, d

\* A feeder's arrival can only raise what its connector waits for.
LEMMA ServedOf ==
    ASSUME scenario \in Scenarios, NEW t \in Trips, NEW i \in DOMAIN scenario.stops[t], NEW key,
           key = <<t, i>>, waiting[key] \in Hold, NEW at \in Nat, NEW feeder
    PROVE  LET w == Served(key, feeder, at)
           IN /\ w \in Hold /\ w.base = waiting[key].base /\ w.deadline = waiting[key].deadline
              /\ w.required >= waiting[key].required
  <1> DEFINE v == waiting[key]
             hold(c) == at + c.minTransfer
             caught == {c \in Conns(key[1], key[2]) :
                            Feeder(c) = feeder /\ hold(c) <= ScheduledDeparture(key) + c.maxWait}
             h == [c \in caught |-> hold(c)]
             required == Max({v.required} \cup {hold(c) : c \in caught})
             pending == v.pending \ {feeder}
             w == Served(key, feeder, at)
  <1>1. w = [v EXCEPT !.required = required, !.pending = pending,
                      !.resolved = (pending = {} /\ required > v.base)]
    BY DEF Served
  <1>2. caught \subseteq scenario.conns
    BY DEF Conns
  <1>3. \A c \in caught : h[c] = hold(c) /\ h[c] \in Int
    BY <1>2, ScenarioTyping
  <1>4. {hold(c) : c \in caught} = {h[c] : c \in caught}
    BY <1>3
  <1>5. v.required \in Int
    BY DEF Hold
  <1>6. required \in Int /\ required >= v.required
    <2>1. required = Utmost(v.required, caught, h)
      BY <1>4 DEF Utmost
    <2> HIDE DEF h, caught, required
    <2> QED
      BY <1>2, <1>3, <1>5, <2>1, OverConnections
  <1> HIDE DEF required
  <1>7. pending \in SUBSET {Feeder(c) : c \in scenario.conns}
    BY DEF Hold
  <1> HIDE DEF pending
  <1>8. (pending = {} /\ required > v.base) \in BOOLEAN
    OBVIOUS
  <1>9. /\ w \in Hold /\ w.base = v.base /\ w.deadline = v.deadline /\ w.required = required
    BY <1>1, <1>6, <1>7, <1>8 DEF Hold
  <1> QED
    BY <1>6, <1>9

\* The scenario is read, never written.
LEMMA ScenarioFixed ==
    ASSUME scenario' = scenario
    PROVE  /\ Trips' = Trips /\ MovementRecord' = MovementRecord /\ Hold' = Hold /\ Events' = Events
           /\ \A t, i : Stop(t, i)' = Stop(t, i)
           /\ \A t, i : Last(t, i)' <=> Last(t, i)
           /\ \A t : NeverStarts(t)' <=> NeverStarts(t)
           /\ \A t : OnTime(t)' <=> OnTime(t)
           /\ \A t, i : Timed(t, i)' <=> Timed(t, i)
           /\ \A t, i : Due(t, i)' = Due(t, i)
  <1>1. /\ Trips' = Trips /\ Hold' = Hold
        /\ \A t, i : Stop(t, i)' = Stop(t, i)
    BY DEF Trips, Hold, Stop
  <1>2. MovementRecord' = MovementRecord /\ Events' = Events
    BY <1>1 DEF MovementRecord, Events
  <1>3. \A t, i : Last(t, i)' <=> Last(t, i)
    BY DEF Last
  <1>4. \A t : NeverStarts(t)' <=> NeverStarts(t)
    BY <1>1 DEF NeverStarts
  <1>5. \A t : OnTime(t)' <=> OnTime(t)
    BY <1>1 DEF OnTime, Primary
  <1>6. \A t, i : Timed(t, i)' <=> Timed(t, i)
    BY <1>1 DEF Timed
  <1>7. \A t, i : Due(t, i)' = Due(t, i)
    BY <1>1 DEF Due
  <1> QED
    BY <1>1, <1>2, <1>3, <1>4, <1>5, <1>6, <1>7

-----------------------------------------------------------------------------
\* A handler about other trains: no record of u, no hold of u more or less.
Keeps(u) ==
    /\ scenario' = scenario
    /\ \A r : r.trip = u => (r \in Range(records') <=> r \in Range(records))
    /\ \A key \in DOMAIN waiting : key[1] = u =>
        /\ key \in DOMAIN waiting'
        /\ waiting'[key].base = waiting[key].base /\ waiting'[key].deadline = waiting[key].deadline
    /\ \A key \in DOMAIN waiting' : key[1] = u => key \in DOMAIN waiting

\* What they say of a train is then still true.
LEMMA Unmoved ==
    ASSUME NEW u, Keeps(u)
    PROVE  /\ \A i : Passed(u, i) => Passed(u, i)'
           /\ \A i : Stopped(u, i) => Stopped(u, i)'
           /\ \A i : HoldsBelow(u, i) => HoldsBelow(u, i)'
           /\ \A i, k : Moved(u, i, k)' = Moved(u, i, k)
           /\ Terminated(u) => Terminated(u)'
           /\ \A i, x : LeavesInTime(u, i, x) => LeavesInTime(u, i, x)'
           /\ \A i, x : ComesInTime(u, i, x) => ComesInTime(u, i, x)'
  <1>1. \A r : r.trip = u => (r \in Range(records)' <=> r \in Range(records))
    BY DEF Keeps
  <1>2. /\ \A i : Last(u, i)' <=> Last(u, i)
        /\ OnTime(u)' <=> OnTime(u)
        /\ \A i : Timed(u, i)' <=> Timed(u, i)
        /\ \A i : Due(u, i)' = Due(u, i) /\ Stop(u, i)' = Stop(u, i)
        /\ scenario' = scenario
    BY ScenarioFixed DEF Keeps
  <1>3. \A i : Passed(u, i) => Passed(u, i)'
    BY <1>1, <1>2 DEF Passed
  <1>4. \A i : Stopped(u, i) => Stopped(u, i)'
    BY <1>1, <1>2 DEF Stopped
  <1>5. \A i : HoldsBelow(u, i) => HoldsBelow(u, i)'
    BY DEF HoldsBelow, Keeps
  <1>6. \A i, k : Moved(u, i, k)' = Moved(u, i, k)
    <2> SUFFICES ASSUME NEW i, NEW k PROVE Moved(u, i, k)' = Moved(u, i, k)
      OBVIOUS
    <2>1. \A r : r \in Moved(u, i, k)' <=> r \in Moved(u, i, k)
      BY <1>1 DEF Moved
    <2> QED
      BY <2>1
  <1>7. Terminated(u) => Terminated(u)'
    BY <1>1, <1>2 DEF Terminated
  <1>8. \A i, x : LeavesInTime(u, i, x) => LeavesInTime(u, i, x)'
    BY <1>2, <1>6 DEF LeavesInTime
  <1>9. \A i, x : ComesInTime(u, i, x) => ComesInTime(u, i, x)'
    BY <1>2 DEF ComesInTime
  <1> QED
    BY <1>3, <1>4, <1>5, <1>6, <1>7, <1>8, <1>9

\* The keys of a train's holds.
LEMMA HeldKeys ==
    ASSUME LayerTyped, NEW u, NEW key \in Held(u)
    PROVE  u \in Trips /\ key \in DOMAIN waiting /\ \E i \in DOMAIN scenario.stops[u] : key = <<u, i>>
  <1>1. PICK t \in Trips : \E i \in DOMAIN scenario.stops[t] : key = <<t, i>>
    BY DEF LayerTyped, Held
  <1>2. key[1] = u /\ key[1] = t
    BY <1>1 DEF Held
  <1> QED
    BY <1>1, <1>2 DEF Held

\* A train that the handler of e neither moves nor sends on stays in its place.
LEMMA OtherPlaced ==
    ASSUME LayerTyped, NEW u \in Trips, Keeps(u), NEW e \in heap, NEW new,
           heap' = (heap \ {e}) \cup new, e \notin Moves(u),
           \A f \in new : f.event.trip # u,
           \A key \in Held(u) : e \notin Deadlines(key),
           \A key \in DOMAIN waiting : key[1] = u => waiting'[key].resolved = waiting[key].resolved
    PROVE  /\ AtItsEnd(u) => AtItsEnd(u)'
           /\ \A i : Departing(u, i) => Departing(u, i)'
           /\ \A i : Running(u, i) => Running(u, i)'
           /\ \A i : HeldAt(u, i) => HeldAt(u, i)'
  <1>1. Moves(u)' = Moves(u)
    BY DEF Moves
  <1>2. Held(u)' = Held(u)
    BY DEF Held, Keeps
  <1>3. ASSUME NEW i, HeldAt(u, i) PROVE HeldAt(u, i)'
    <2> DEFINE key == <<u, i>>
    <2>1. key \in Held(u)
      BY <1>3 DEF HeldAt
    <2>2. /\ waiting'[key].base = waiting[key].base /\ waiting'[key].deadline = waiting[key].deadline
      BY <2>1 DEF Held, Keeps
    <2>3. PICK f \in heap : Deadlines(key) = {f} /\ f.time = waiting[key].deadline
      BY <1>3 DEF HeldAt
    <2>4. f \in heap' /\ Deadlines(key)' = {f}
      <3>1. \A g \in new : g.event # Event("conn_deadline", u, i)
        BY DEF Event
      <3>2. key[1] = u /\ key[2] = i
        OBVIOUS
      <3> HIDE DEF key
      <3>3. Deadlines(key)' = Deadlines(key)
        BY <2>1, <3>1, <3>2 DEF Deadlines
      <3>4. f \in Deadlines(key)'
        BY <2>3, <3>3
      <3> QED
        BY <2>3, <3>3, <3>4 DEF Deadlines
    <2>5. LeavesInTime(u, i, waiting[key].base)'
      <3> PICK x : x = waiting[key].base
        OBVIOUS
      <3>1. LeavesInTime(u, i, x)
        BY <1>3 DEF HeldAt
      <3>2. LeavesInTime(u, i, x)'
        BY <3>1, Unmoved
      <3> QED
        BY <2>2, <3>2
    <2>6. i > 0 /\ ~Last(u, i)' /\ Stopped(u, i)' /\ HoldsBelow(u, i + 1)'
      BY <1>3, Unmoved, ScenarioFixed DEF HeldAt, Keeps
    <2>7. Moves(u)' = {} /\ Held(u)' = {key}
      BY <1>1, <1>2, <1>3 DEF HeldAt
    <2> QED
      BY <2>2, <2>3, <2>4, <2>5, <2>6, <2>7 DEF HeldAt
  <1>4. AtItsEnd(u) => AtItsEnd(u)'
    BY <1>1, <1>2, Unmoved, ScenarioFixed DEF AtItsEnd, Keeps
  <1>5. ASSUME NEW i, Departing(u, i) PROVE Departing(u, i)'
    <2>1. PICK f \in heap :
            Moves(u) = {f} /\ f.event = Event("depart", u, i) /\ LeavesInTime(u, i, f.time)
      BY <1>5 DEF Departing
    <2>2. f \in heap' /\ Moves(u)' = {f}
      BY <1>1, <2>1 DEF Moves
    <2>3. LeavesInTime(u, i, f.time)'
      BY <2>1, Unmoved
    <2>4. Held(u)' = {} /\ Stopped(u, i)' /\ HoldsBelow(u, i + 1)' /\ (Last(u, i)' => i = 0)
      BY <1>2, <1>5, Unmoved, ScenarioFixed DEF Departing, Keeps
    <2> QED
      BY <2>1, <2>2, <2>3, <2>4 DEF Departing
  <1>6. ASSUME NEW i, Running(u, i) PROVE Running(u, i)'
    <2>1. PICK f \in heap :
            Moves(u) = {f} /\ f.event = Event("arrive", u, i) /\ ComesInTime(u, i, f.time)
      BY <1>6 DEF Running
    <2>2. f \in heap' /\ Moves(u)' = {f}
      BY <1>1, <2>1 DEF Moves
    <2>3. ComesInTime(u, i, f.time)'
      BY <2>1, Unmoved
    <2>4. i > 0 /\ Held(u)' = {} /\ Passed(u, i)' /\ HoldsBelow(u, i)'
      BY <1>2, <1>6, Unmoved DEF Running
    <2> QED
      BY <2>1, <2>2, <2>3, <2>4 DEF Running
  <1> QED
    BY <1>3, <1>4, <1>5, <1>6

\* A train whose hold ends is given its departure, once, and not too early.
LEMMA SentOn ==
    ASSUME LayerTyped, NEW u \in Trips, Keeps(u), NEW e \in heap, NEW new,
           heap' = (heap \ {e}) \cup new,
           NEW i, HeldAt(u, i), NEW f \in new, f.event = Event("depart", u, i),
           \A g \in new : g.event.trip = u /\ g.event.kind # "conn_deadline" => g = f,
           f.time \in Int, waiting[<<u, i>>].base \in Int, f.time >= waiting[<<u, i>>].base,
           \A a \in Range(records) : a.time \in Int,
           scenario \in Scenarios, i \in DOMAIN scenario.stops[u],
           waiting'[<<u, i>>].resolved,
           \A key \in DOMAIN waiting : key[1] = u /\ key # <<u, i>> =>
                waiting'[key].resolved = waiting[key].resolved
    PROVE  Departing(u, i)'
  <1>1. Moves(u) = {} /\ Held(u) = {<<u, i>>}
    BY DEF HeldAt
  <1>2. Moves(u)' = {f} /\ f \in heap'
    <2>1. f \in Moves(u)'
      BY DEF Moves, Event
    <2>2. \A g \in Moves(u)' : g = f
      BY <1>1 DEF Moves
    <2> QED
      BY <2>1, <2>2
  <1>3. Held(u)' = {}
    BY <1>1 DEF Held, Keeps
  <1>4. LeavesInTime(u, i, f.time)
    <2> PICK b, x : b = waiting[<<u, i>>].base /\ x = f.time
      OBVIOUS
    <2>1. LeavesInTime(u, i, b) /\ b \in Int /\ x \in Int /\ x >= b
      BY DEF HeldAt
    <2>2. \A a \in Moved(u, i, "arrive") : a.time + scenario.minDwell \in Int
      BY ScenarioTyping DEF Moved
    <2>3. Stop(u, i).dep \in Times /\ Due(u, i) \in Times
      BY ScenarioTyping DEF Due, OrElse
    <2>4. \A a \in Moved(u, i, "arrive") : x >= a.time + scenario.minDwell
      BY <2>1, <2>2 DEF LeavesInTime
    <2>5. OnTime(u) /\ Stop(u, i).dep # NoTime => x >= Stop(u, i).dep
      BY <2>1, <2>3 DEF LeavesInTime, Times
    <2>6. OnTime(u) /\ Timed(u, i) => x >= Due(u, i)
      <3>1. Timed(u, i) => Due(u, i) # NoTime
        <4>1. i <= i
          BY ScenarioTyping
        <4> QED
          BY <4>1 DEF Timed, Due
      <3> QED
        BY <2>1, <2>3, <3>1 DEF LeavesInTime, Times
    <2> QED
      BY <2>4, <2>5, <2>6 DEF LeavesInTime
  <1>5. LeavesInTime(u, i, f.time)'
    BY <1>4, Unmoved
  <1>6. Stopped(u, i)' /\ HoldsBelow(u, i + 1)' /\ (Last(u, i)' => i = 0)
    BY Unmoved, ScenarioFixed DEF HeldAt, Keeps
  <1> QED
    BY <1>2, <1>3, <1>5, <1>6 DEF Departing

-----------------------------------------------------------------------------
\* An event finds its train in the place it belongs to.
LEMMA EventTyping ==
    ASSUME MacroInv, NEW e \in heap
    PROVE  /\ e.time \in Nat /\ e.event.trip \in Trips /\ e.event.idx \in Nat
           /\ e.event = Event(e.event.kind, e.event.trip, e.event.idx)
           /\ e.event.kind \in {"depart", "arrive", "conn_deadline"}
  BY DEF MacroInv, QueueOf, Events, Event

\* A departure is handled for the stop its train stands at, in time,
LEMMA DepartsAt ==
    ASSUME MacroInv, NEW e \in heap, e.event.kind = "depart",
           NEW t, NEW i, t = e.event.trip, i = e.event.idx
    PROVE  /\ t \in Trips /\ i \in DOMAIN scenario.stops[t] /\ ~NeverStarts(t)
           /\ Departing(t, i) /\ Moves(t) = {e} /\ LeavesInTime(t, i, e.time)
  <1>1. t \in Trips /\ e \in Moves(t)
    BY EventTyping DEF Moves
  <1>2. PICK j \in DOMAIN scenario.stops[t] :
            ~NeverStarts(t) /\ (Departing(t, j) \/ Running(t, j) \/ HeldAt(t, j))
    BY <1>1 DEF MacroInv, Placed, AtItsEnd
  <1>3. Departing(t, j)
    BY <1>1, <1>2 DEF Running, HeldAt, Event
  <1>4. PICK f \in heap :
            Moves(t) = {f} /\ f.event = Event("depart", t, j) /\ LeavesInTime(t, j, f.time)
    BY <1>3 DEF Departing
  <1>5. f = e
    BY <1>1, <1>4
  <1>6. j = i
    BY <1>4, <1>5 DEF Event
  <1> QED
    BY <1>1, <1>2, <1>3, <1>4, <1>5, <1>6

\* an arrival for the stop its train runs to,
LEMMA ArrivesAt ==
    ASSUME MacroInv, NEW e \in heap, e.event.kind = "arrive",
           NEW t, NEW i, t = e.event.trip, i = e.event.idx
    PROVE  /\ t \in Trips /\ i \in DOMAIN scenario.stops[t] /\ ~NeverStarts(t)
           /\ Running(t, i) /\ Moves(t) = {e} /\ ComesInTime(t, i, e.time)
  <1>1. t \in Trips /\ e \in Moves(t)
    BY EventTyping DEF Moves
  <1>2. PICK j \in DOMAIN scenario.stops[t] :
            ~NeverStarts(t) /\ (Departing(t, j) \/ Running(t, j) \/ HeldAt(t, j))
    BY <1>1 DEF MacroInv, Placed, AtItsEnd
  <1>3. Running(t, j)
    BY <1>1, <1>2 DEF Departing, HeldAt, Event
  <1>4. PICK f \in heap :
            Moves(t) = {f} /\ f.event = Event("arrive", t, j) /\ ComesInTime(t, j, f.time)
    BY <1>3 DEF Running
  <1>5. f = e
    BY <1>1, <1>4
  <1>6. j = i
    BY <1>4, <1>5 DEF Event
  <1> QED
    BY <1>1, <1>2, <1>3, <1>4, <1>5, <1>6

\* and a train is held at the one stop its hold names.
LEMMA AwaitsAt ==
    ASSUME MacroInv, NEW key \in DOMAIN waiting, ~waiting[key].resolved
    PROVE  \E u \in Trips : \E j \in DOMAIN scenario.stops[u] :
                key = <<u, j>> /\ HeldAt(u, j) /\ ~NeverStarts(u)
  <1>1. PICK u \in Trips : \E j \in DOMAIN scenario.stops[u] : key = <<u, j>>
    BY DEF MacroInv, LayerTyped
  <1>2. PICK j \in DOMAIN scenario.stops[u] : key = <<u, j>>
    BY <1>1
  <1>3. key \in Held(u)
    BY <1>2 DEF Held
  <1>4. PICK i \in DOMAIN scenario.stops[u] : HeldAt(u, i) /\ ~NeverStarts(u)
    BY <1>3 DEF MacroInv, Placed, AtItsEnd, Departing, Running
  <1>5. key = <<u, i>>
    BY <1>3, <1>4 DEF HeldAt
  <1> QED
    BY <1>4, <1>5

\* The movement records have their types.
LEMMA RecordTyping == ASSUME LayerTyped PROVE \A r \in Range(records) : r \in MovementRecord
  <1>1. records \in Seq(MovementRecord)
    BY DEF LayerTyped
  <1>2. \A k \in 1..Len(records) : records[k] \in MovementRecord
    BY <1>1, ElementOfSeq
  <1>3. DOMAIN records = 1..Len(records)
    BY <1>1, LenProperties
  <1> QED
    BY <1>2, <1>3 DEF Range

\* A record of a departure that is not early, or of an arrival before which its
\* train had no record at the stop, keeps the records free of early times.
LEMMA RecordInv ==
    ASSUME MacroInv, scenario' = scenario, NEW rec \in MovementRecord,
           records' = Append(records, rec),
           \/ rec.event = "depart" /\ LeavesInTime(rec.trip, rec.idx, rec.time)
           \/ /\ rec.event = "arrive" /\ ComesInTime(rec.trip, rec.idx, rec.time)
              /\ Passed(rec.trip, rec.idx)
    PROVE  /\ NeverEarly' /\ records' \in Seq(MovementRecord)
           /\ Range(records') = Range(records) \cup {rec}
  <1>1. records' \in Seq(MovementRecord) /\ Range(records') = Range(records) \cup {rec}
    BY RecordAppended DEF MacroInv, LayerTyped
  <1>2. \A r \in Range(records) : r \in MovementRecord
    BY RecordTyping DEF MacroInv
  <1>3. /\ \A t, i : Stop(t, i)' = Stop(t, i)
        /\ \A t : OnTime(t)' <=> OnTime(t)
        /\ \A t, i : Timed(t, i)' <=> Timed(t, i)
        /\ scenario' = scenario
    BY ScenarioFixed
  <1> DEFINE Fine(r) ==
                /\ r.event = "depart" =>
                    \A a \in Moved(r.trip, r.idx, "arrive") : r.time >= a.time + scenario.minDwell
                /\ OnTime(r.trip) /\ r.event = "depart" /\ Stop(r.trip, r.idx).dep # NoTime
                    => r.time >= Stop(r.trip, r.idx).dep
                /\ OnTime(r.trip) /\ r.event = "arrive" /\ Stop(r.trip, r.idx).arr # NoTime
                     /\ Timed(r.trip, r.idx) => r.time >= Stop(r.trip, r.idx).arr
             FineNext(r) ==
                /\ r.event = "depart" =>
                    \A a \in Moved(r.trip, r.idx, "arrive")' : r.time >= a.time + scenario.minDwell
                /\ OnTime(r.trip) /\ r.event = "depart" /\ Stop(r.trip, r.idx).dep # NoTime
                    => r.time >= Stop(r.trip, r.idx).dep
                /\ OnTime(r.trip) /\ r.event = "arrive" /\ Stop(r.trip, r.idx).arr # NoTime
                     /\ Timed(r.trip, r.idx) => r.time >= Stop(r.trip, r.idx).arr
  <1>4. \A r \in Range(records) : Fine(r)
    BY DEF MacroInv, NeverEarly, OnTime
  <1>5. ASSUME NEW r \in Range(records) PROVE FineNext(r)
    <2>1. ASSUME r.event = "depart" PROVE Moved(r.trip, r.idx, "arrive")' = Moved(r.trip, r.idx, "arrive")
      <3>1. CASE rec.event = "depart"
        BY <1>1, <3>1 DEF Moved
      <3>2. CASE rec.event = "arrive"
        <4>1. rec.trip = r.trip => r.idx < rec.idx
          BY <3>2 DEF Passed
        <4>2. r.idx \in Nat /\ rec.idx \in Nat
          BY <1>2 DEF MovementRecord
        <4>3. ~(rec.trip = r.trip /\ rec.idx = r.idx)
          BY <4>1, <4>2
        <4> QED
          BY <1>1, <4>3 DEF Moved
      <3> QED
        BY <3>1, <3>2
    <2>2. Fine(r)
      BY <1>4
    <2> QED
      BY <2>1, <2>2
  <1>6. FineNext(rec)
    <2>1. CASE rec.event = "depart"
      <3>1. Moved(rec.trip, rec.idx, "arrive")' = Moved(rec.trip, rec.idx, "arrive")
        BY <1>1, <2>1 DEF Moved
      <3> QED
        BY <2>1, <3>1 DEF LeavesInTime
    <2>2. CASE rec.event = "arrive"
      BY <2>2 DEF ComesInTime, OrElse
    <2> QED
      BY <2>1, <2>2
  <1>7. \A r \in Range(records)' : FineNext(r)
    BY <1>1, <1>5, <1>6
  <1>8. NeverEarly'
    <2> SUFFICES ASSUME NEW r \in Range(records)'
                 PROVE  /\ r.event = "depart" =>
                            \A a \in Moved(r.trip, r.idx, "arrive")' : r.time >= a.time + scenario'.minDwell
                        /\ OnTime(r.trip)' /\ r.event = "depart" /\ Stop(r.trip, r.idx)'.dep # NoTime
                            => r.time >= Stop(r.trip, r.idx)'.dep
                        /\ OnTime(r.trip)' /\ r.event = "arrive" /\ Stop(r.trip, r.idx)'.arr # NoTime
                             /\ Timed(r.trip, r.idx)' => r.time >= Stop(r.trip, r.idx)'.arr
      BY DEF NeverEarly, OnTime
    <2>1. FineNext(r)
      BY <1>7
    <2> QED
      BY <1>3, <2>1
  <1> QED
    BY <1>1, <1>8

-----------------------------------------------------------------------------
\* A handler that schedules one event, not for the past, or none.
LEMMA OneCall ==
    ASSUME MacroInv, NEW e \in heap, scenario' = scenario, NEW c,
           c.time \in Nat, c.event \in Events, c.time >= e.time, Process(e, <<c>>, 1)
    PROVE  /\ heap' = (heap \ {e}) \cup {NewEntry(c, 1)} /\ QueueOf(Events)'
           /\ NewEntry(c, 1).event = c.event /\ NewEntry(c, 1).time = c.time
  <1> DEFINE b == <<c>>
  <1>1. DOMAIN b = {1} /\ b[1] = c
    OBVIOUS
  <1>2. 1 \in Nat /\ DOMAIN b \subseteq 1..1 /\ Process(e, b, 1) /\ QueueOf(Events)
    BY <1>1 DEF MacroInv
  <1>3. NewEntries(b) = {NewEntry(c, 1)}
    BY <1>1 DEF NewEntries
  <1>4. \A i \in DOMAIN b : b[i].time \in Nat /\ b[i].event \in Events /\ b[i].time >= e.time
    BY <1>1
  <1> HIDE DEF b
  <1>5. /\ heap' = (heap \ {e}) \cup NewEntries(b) /\ raised' = FALSE
        /\ heap' \subseteq [time : Nat, seq : Nat, event : Events]
        /\ \A f \in heap' : f.seq < sequence' /\ now' <= f.time
        /\ sequence' \in Nat /\ now' \in Nat
    BY <1>2, <1>4, CausalProcess
  <1>6. Events' = Events
    BY ScenarioFixed
  <1>7. QueueOf(Events)'
    BY <1>5, <1>6 DEF QueueOf
  <1> QED
    BY <1>3, <1>5, <1>7 DEF NewEntry

\* A handler that schedules nothing only takes its event off the heap.
LEMMA NoCall ==
    ASSUME MacroInv, NEW e \in heap, scenario' = scenario, Process(e, NoEvents, 0)
    PROVE  heap' = (heap \ {e}) \cup {} /\ QueueOf(Events)'
  <1>1. DOMAIN NoEvents = {}
    BY DEF NoEvents
  <1>2. 0 \in Nat /\ DOMAIN NoEvents \subseteq 1..0 /\ QueueOf(Events)
    BY <1>1 DEF MacroInv
  <1>3. NewEntries(NoEvents) = {}
    BY <1>1 DEF NewEntries
  <1>4. /\ heap' = (heap \ {e}) \cup NewEntries(NoEvents) /\ raised' = FALSE
        /\ heap' \subseteq [time : Nat, seq : Nat, event : Events]
        /\ \A f \in heap' : f.seq < sequence' /\ now' <= f.time
        /\ sequence' \in Nat /\ now' \in Nat
    BY <1>1, <1>2, CausalProcess
  <1>5. Events' = Events
    BY ScenarioFixed
  <1>6. QueueOf(Events)'
    BY <1>4, <1>5 DEF QueueOf
  <1> QED
    BY <1>3, <1>4, <1>6

\* A run takes as long as scheduled, and never less than no time.
LEMMA RunOf ==
    ASSUME scenario \in Scenarios, NEW t \in Trips, NEW i \in DOMAIN scenario.stops[t],
           i + 1 \in DOMAIN scenario.stops[t], NEW x \in Nat
    PROVE  LET run == RunningTime(Stop(t, i), Stop(t, i + 1))
               to == OrElse(Stop(t, i + 1).arr, Stop(t, i + 1).dep)
           IN /\ run \in Nat
              /\ Due(t, i) # NoTime /\ to # NoTime /\ x >= Due(t, i) => x + run >= to
  <1> DEFINE from == Due(t, i)
             to == OrElse(Stop(t, i + 1).arr, Stop(t, i + 1).dep)
             run == RunningTime(Stop(t, i), Stop(t, i + 1))
  <1>1. /\ from \in Times /\ to \in Times /\ NoTime \notin Int
        /\ run = IF NoTime \in {from, to} THEN 0 ELSE Larger(0, to - from)
    BY ScenarioTyping DEF Due, OrElse, RunningTime
  <1> HIDE DEF from, to, run
  <1>2. CASE from = NoTime \/ to = NoTime
    BY <1>1, <1>2 DEF from, to, run
  <1>3. CASE from \in Int /\ to \in Int
    <2>1. run = Larger(0, to - from)
      BY <1>1, <1>3
    <2>2. run \in Int /\ run >= 0 /\ run >= to - from
      BY <1>3, <2>1, LargerOf
    <2>3. run \in Nat /\ (x >= from => x + run >= to)
      BY <1>3, <2>2
    <2> QED
      BY <2>3 DEF from, to, run
  <1> QED
    BY <1>1, <1>2, <1>3 DEF Times

\* _on_depart keeps the invariant.
LEMMA DepartInv == ASSUME MacroInv, NEW e \in heap, Depart(e) PROVE MacroInv'
  <1>1. PICK t, i, rec :
            /\ t = e.event.trip /\ i = e.event.idx
            /\ rec = [time |-> e.time, trip |-> t, idx |-> i, event |-> "depart"]
    OBVIOUS
  <1>2. /\ e.event.kind = "depart" /\ records' = Append(records, rec)
        /\ scenario' = scenario /\ feederArrivals' = feederArrivals
        /\ waiting' = waiting /\ waiters' = waiters
    BY <1>1 DEF Depart, Record
  <1>3. /\ t \in Trips /\ i \in DOMAIN scenario.stops[t] /\ ~NeverStarts(t)
        /\ Departing(t, i) /\ Moves(t) = {e} /\ LeavesInTime(t, i, e.time)
    BY <1>1, <1>2, DepartsAt
  <1>4. scenario \in Scenarios /\ e.time \in Nat /\ i \in Nat
    BY <1>3, EventTyping, ScenarioTyping DEF MacroInv, LayerTyped
  <1>5. rec \in MovementRecord /\ rec.trip = t /\ rec.idx = i /\ rec.event = "depart" /\ rec.time = e.time
    BY <1>1, <1>3, <1>4 DEF MovementRecord
  <1>6. /\ NeverEarly' /\ records' \in Seq(MovementRecord) /\ Range(records') = Range(records) \cup {rec}
    BY <1>2, <1>3, <1>5, RecordInv
  <1>7. ASSUME NEW new, heap' = (heap \ {e}) \cup new, \A f \in new : f.event.kind = "arrive"
        PROVE  LayerTyped'
    <2>1. Trips' = Trips /\ MovementRecord' = MovementRecord /\ Hold' = Hold
      BY <1>2, ScenarioFixed
    <2>2. \A f \in heap' : f.event.kind = "conn_deadline" => f \in heap
      BY <1>7
    <2> QED
      BY <1>2, <1>6, <2>1, <2>2 DEF MacroInv, LayerTyped
  <1>8. ASSUME NEW u \in Trips, u # t, NEW new, heap' = (heap \ {e}) \cup new,
               \A f \in new : f.event.trip = t
        PROVE  \/ AtItsEnd(u)'
               \/ /\ ~NeverStarts(u)'
                  /\ \E j \in DOMAIN scenario.stops[u] : Departing(u, j)' \/ Running(u, j)' \/ HeldAt(u, j)'
    <2>1. Keeps(u)
      BY <1>2, <1>5, <1>6, <1>8 DEF Keeps
    <2>2. e \notin Moves(u) /\ \A f \in new : f.event.trip # u
      BY <1>1, <1>8 DEF Moves
    <2>3. \A key : e \notin Deadlines(key)
      BY <1>2 DEF Deadlines, Event
    <2>4. /\ AtItsEnd(u) => AtItsEnd(u)'
          /\ \A j : Departing(u, j) => Departing(u, j)'
          /\ \A j : Running(u, j) => Running(u, j)'
          /\ \A j : HeldAt(u, j) => HeldAt(u, j)'
      BY <1>2, <1>8, <2>1, <2>2, <2>3, OtherPlaced DEF MacroInv
    <2>5. NeverStarts(u)' <=> NeverStarts(u)
      BY <1>2, ScenarioFixed
    <2> QED
      BY <2>4, <2>5 DEF MacroInv, Placed
  <1>9. \A u : Trips' = Trips /\ (NeverStarts(u)' <=> NeverStarts(u)) /\ \A j : Last(u, j)' <=> Last(u, j)
    BY <1>2, ScenarioFixed
  <1>10. Held(t)' = {} /\ HoldsBelow(t, i + 1)'
    BY <1>2, <1>3 DEF Departing, Held, HoldsBelow
  <1>11. CASE Last(t, i) /\ Process(e, NoEvents, 0)
    <2>1. heap' = (heap \ {e}) \cup {} /\ QueueOf(Events)'
      BY <1>2, <1>11, NoCall
    <2>2. Moves(t)' = {}
      BY <1>3, <2>1 DEF Moves
    <2>3. Terminated(t)'
      <3>1. i = 0
        BY <1>3, <1>11 DEF Departing
      <3> QED
        BY <1>5, <1>6, <1>9, <1>11, <3>1 DEF Terminated
    <2>4. AtItsEnd(t)'
      BY <1>10, <2>2, <2>3 DEF AtItsEnd
    <2> PICK new : new = {}
      OBVIOUS
    <2>5. heap' = (heap \ {e}) \cup new /\ \A f \in new : f.event.trip = t /\ f.event.kind = "arrive"
      BY <2>1
    <2>6. LayerTyped'
      BY <1>7, <2>5
    <2>7. ASSUME NEW u \in Trips, u # t
          PROVE  \/ AtItsEnd(u)'
                 \/ /\ ~NeverStarts(u)'
                    /\ \E j \in DOMAIN scenario.stops[u] : Departing(u, j)' \/ Running(u, j)' \/ HeldAt(u, j)'
      BY <1>8, <2>5, <2>7
    <2>8. Placed'
      BY <1>2, <1>9, <2>4, <2>7 DEF Placed
    <2> QED
      BY <1>6, <2>1, <2>6, <2>8 DEF MacroInv
  <1>12. CASE /\ ~Last(t, i)
              /\ Process(e, <<At(e.time + RunningTime(Stop(t, i), Stop(t, i + 1)), Event("arrive", t, i + 1))>>, 1)
    <2>1. PICK run, c, j : /\ run = RunningTime(Stop(t, i), Stop(t, i + 1)) /\ j = i + 1
                           /\ c = At(e.time + run, Event("arrive", t, j))
      OBVIOUS
    <2>2. j \in DOMAIN scenario.stops[t] /\ j \in Nat /\ j > 0 /\ i < j
      BY <1>4, <1>12, <2>1 DEF Last
    <2>3. /\ run \in Nat
          /\ Due(t, i) # NoTime /\ OrElse(Stop(t, j).arr, Stop(t, j).dep) # NoTime /\ e.time >= Due(t, i)
                => e.time + run >= OrElse(Stop(t, j).arr, Stop(t, j).dep)
      BY <1>3, <1>4, <2>1, <2>2, RunOf
    <2>4. /\ c.time \in Nat /\ c.time >= e.time /\ c.time = e.time + run
          /\ c.event = Event("arrive", t, j) /\ c.event \in Events
          /\ c.event.kind = "arrive" /\ c.event.trip = t
      BY <1>3, <1>4, <2>1, <2>2, <2>3 DEF At, Event, Events
    <2>5. PICK f : f = NewEntry(c, 1)
      OBVIOUS
    <2>6. /\ heap' = (heap \ {e}) \cup {f} /\ QueueOf(Events)'
          /\ f.event = c.event /\ f.time = c.time
      BY <1>2, <1>12, <2>1, <2>4, <2>5, OneCall
    <2>7. Moves(t)' = {f}
      BY <1>3, <2>4, <2>6 DEF Moves
    <2>8. ComesInTime(t, j, f.time)'
      <3>1. OnTime(t) /\ Timed(t, j) => f.time >= OrElse(Stop(t, j).arr, Stop(t, j).dep)
        <4> SUFFICES ASSUME OnTime(t), Timed(t, j)
                     PROVE  f.time >= OrElse(Stop(t, j).arr, Stop(t, j).dep)
          OBVIOUS
        <4>1. Timed(t, i) /\ i <= j /\ j <= j
          <5>1. \A k \in DOMAIN scenario.stops[t] : k <= i => k <= j
            BY <1>3, <1>4, <2>2, ScenarioTyping
          <5> QED
            BY <1>4, <2>2, <5>1 DEF Timed
        <4>2. Due(t, i) # NoTime
          BY <1>3, <4>1 DEF Timed, Due
        <4>3. OrElse(Stop(t, j).arr, Stop(t, j).dep) # NoTime
          BY <2>2, <4>1 DEF Timed, OrElse
        <4>4. e.time >= Due(t, i)
          BY <1>3, <4>1 DEF LeavesInTime
        <4> QED
          BY <2>3, <2>4, <2>6, <4>2, <4>3, <4>4
      <3>2. (OnTime(t)' <=> OnTime(t)) /\ (Timed(t, j)' <=> Timed(t, j)) /\ Stop(t, j)' = Stop(t, j)
        BY <1>2, ScenarioFixed
      <3> QED
        BY <3>1, <3>2 DEF ComesInTime
    <2>9. Passed(t, j)'
      <3>1. \A r \in Range(records) : r.trip = t => r.idx < j /\ ~Last(t, r.idx)
        <4> SUFFICES ASSUME NEW r \in Range(records), r.trip = t PROVE r.idx < j /\ ~Last(t, r.idx)
          OBVIOUS
        <4>1. ~Last(t, r.idx) /\ (r.idx < i \/ r.idx = i)
          BY <1>3 DEF Departing, Stopped
        <4>2. r.idx \in Nat
          BY RecordTyping DEF MacroInv, MovementRecord
        <4> QED
          BY <1>4, <2>2, <4>1, <4>2
      <3> QED
        BY <1>5, <1>6, <1>9, <1>12, <2>2, <3>1 DEF Passed
    <2>10. Running(t, j)'
      BY <1>10, <2>1, <2>2, <2>4, <2>6, <2>7, <2>8, <2>9 DEF Running
    <2> PICK new : new = {f}
      OBVIOUS
    <2>11. heap' = (heap \ {e}) \cup new /\ \A g \in new : g.event.trip = t /\ g.event.kind = "arrive"
      BY <2>4, <2>6
    <2>12. LayerTyped'
      BY <1>7, <2>11
    <2>13. ASSUME NEW u \in Trips, u # t
           PROVE  \/ AtItsEnd(u)'
                  \/ /\ ~NeverStarts(u)'
                     /\ \E k \in DOMAIN scenario.stops[u] : Departing(u, k)' \/ Running(u, k)' \/ HeldAt(u, k)'
      BY <1>8, <2>11, <2>13
    <2>14. Placed'
      BY <1>2, <1>3, <1>9, <2>2, <2>10, <2>13 DEF Placed
    <2> QED
      BY <1>6, <2>6, <2>12, <2>14 DEF MacroInv
  <1>13. \/ Last(t, i) /\ Process(e, NoEvents, 0)
         \/ /\ ~Last(t, i)
            /\ Process(e, <<At(e.time + RunningTime(Stop(t, i), Stop(t, i + 1)), Event("arrive", t, i + 1))>>, 1)
    BY <1>1 DEF Depart
  <1> QED
    BY <1>11, <1>12, <1>13

\* A deadline sends its train on, unless a feeder has done so before.
LEMMA ConnDeadlineInv == ASSUME MacroInv, NEW e \in heap, ConnDeadline(e) PROVE MacroInv'
  <1>1. PICK t, i, key : t = e.event.trip /\ i = e.event.idx /\ key = <<t, i>>
    OBVIOUS
  <1>2. /\ e.event.kind = "conn_deadline" /\ records' = records /\ scenario' = scenario
        /\ feederArrivals' = feederArrivals /\ waiters' = waiters
    BY DEF ConnDeadline
  <1>3. /\ t \in Trips /\ i \in Nat /\ e.time \in Nat /\ e.event = Event("conn_deadline", t, i)
        /\ key \in DOMAIN waiting /\ key[1] = t /\ key[2] = i /\ scenario \in Scenarios
    BY <1>1, <1>2, EventTyping DEF MacroInv, LayerTyped
  <1>4. /\ Trips' = Trips /\ MovementRecord' = MovementRecord /\ Hold' = Hold
        /\ \A u : NeverStarts(u)' <=> NeverStarts(u)
    BY <1>2, ScenarioFixed
  <1>5. \A u : e \notin Moves(u)
    BY <1>2 DEF Moves
  <1>6. NeverEarly'
    <2>1. /\ \A u, j : Stop(u, j)' = Stop(u, j)
          /\ \A u : OnTime(u)' <=> OnTime(u)
          /\ \A u, j : Timed(u, j)' <=> Timed(u, j)
          /\ \A u, j, k : Moved(u, j, k)' = Moved(u, j, k)
      BY <1>2, ScenarioFixed DEF Moved
    <2> QED
      BY <1>2, <2>1 DEF MacroInv, NeverEarly, OnTime
  <1>7. CASE key \in DOMAIN waiting /\ ~waiting[key].resolved
    <2>1. /\ waiting' = [waiting EXCEPT ![key].resolved = TRUE]
          /\ Process(e, <<Finalized(key, waiting[key], e.time)>>, 1)
      BY <1>1, <1>7 DEF ConnDeadline
    <2>2. i \in DOMAIN scenario.stops[t] /\ HeldAt(t, i) /\ ~NeverStarts(t)
      <3>1. PICK u \in Trips : \E j \in DOMAIN scenario.stops[u] :
                key = <<u, j>> /\ HeldAt(u, j) /\ ~NeverStarts(u)
        BY <1>7, AwaitsAt
      <3>2. PICK j \in DOMAIN scenario.stops[u] : key = <<u, j>> /\ HeldAt(u, j) /\ ~NeverStarts(u)
        BY <3>1
      <3>3. u = t /\ j = i
        BY <1>3, <3>2
      <3> QED
        BY <3>2, <3>3
    <2>3. PICK w, v : w = waiting[key] /\ v = waiting'[key]
      OBVIOUS
    <2>4. w \in Hold /\ w.base \in Int /\ w.required \in Int /\ w.base <= w.required
      BY <1>3, <2>3 DEF MacroInv, LayerTyped, Hold
    <2>5. /\ DOMAIN waiting' = DOMAIN waiting
          /\ \A k \in DOMAIN waiting : k # key => waiting'[k] = waiting[k]
          /\ v = [w EXCEPT !.resolved = TRUE]
      BY <1>3, <2>1, <2>3
    <2>6. v \in Hold /\ v.resolved = TRUE /\ v.base = w.base /\ v.deadline = w.deadline /\ v.required = w.required
      BY <2>4, <2>5 DEF Hold
    <2>7. PICK x : x = Larger(w.required, e.time)
      OBVIOUS
    <2>8. x \in Nat /\ x >= e.time /\ x >= w.base
      <3> PICK b, r, at : b = w.base /\ r = w.required /\ at = e.time
        OBVIOUS
      <3>1. b \in Int /\ r \in Int /\ b <= r
        BY <2>4
      <3>2. at \in Nat
        BY <1>3
      <3>3. x = Larger(r, at)
        BY <2>7
      <3>4. x \in Int /\ x >= r /\ x >= at
        <4>1. r \in Int /\ at \in Int
          BY <3>1, <3>2
        <4>2. Larger(r, at) \in Int /\ Larger(r, at) >= r /\ Larger(r, at) >= at
          BY <4>1, LargerOf
        <4> QED
          BY <3>3, <4>2
      <3>5. x \in Nat /\ x >= b /\ x >= at
        BY <3>1, <3>2, <3>4
      <3> QED
        BY <3>5
    <2>9. PICK c : c = At(x, Event("depart", t, i))
      OBVIOUS
    <2>10. /\ Process(e, <<c>>, 1) /\ c.time = x /\ c.event = Event("depart", t, i) /\ c.event \in Events
           /\ c.event.kind = "depart" /\ c.event.trip = t
      BY <1>3, <2>1, <2>3, <2>7, <2>9 DEF Finalized, At, Event, Events
    <2>11. PICK f : f = NewEntry(c, 1)
      OBVIOUS
    <2>12. /\ heap' = (heap \ {e}) \cup {f} /\ QueueOf(Events)' /\ f.event = c.event /\ f.time = c.time
      BY <1>2, <1>3, <2>8, <2>10, <2>11, OneCall
    <2>13. PICK new : new = {f}
      OBVIOUS
    <2>14. /\ heap' = (heap \ {e}) \cup new /\ f \in new
           /\ \A g \in new : g = f /\ g.event.trip = t /\ g.event.kind = "depart"
      BY <2>10, <2>12, <2>13
    <2>15. \A u : Keeps(u)
      BY <1>2, <2>3, <2>5, <2>6 DEF Keeps
    <2>16. LayerTyped'
      <3>1. \A k \in DOMAIN waiting' : /\ \E u \in Trips : \E j \in DOMAIN scenario.stops[u] : k = <<u, j>>
                                       /\ waiting'[k] \in Hold /\ waiting'[k].base <= waiting'[k].required
        <4>1. \A k \in DOMAIN waiting : /\ \E u \in Trips : \E j \in DOMAIN scenario.stops[u] : k = <<u, j>>
                                        /\ waiting[k] \in Hold /\ waiting[k].base <= waiting[k].required
          BY DEF MacroInv, LayerTyped
        <4>2. v \in Hold /\ v.base <= v.required
          BY <2>4, <2>6
        <4> QED
          BY <2>3, <2>5, <4>1, <4>2
      <3>2. \A g \in heap' : g.event.kind = "conn_deadline" => g \in heap
        BY <2>14
      <3> QED
        BY <1>2, <1>4, <2>5, <3>1, <3>2 DEF MacroInv, LayerTyped
    <2>17. Departing(t, i)'
      <3>1. \A a \in Range(records) : a.time \in Int
        BY RecordTyping DEF MacroInv, MovementRecord
      <3>2. /\ waiting[<<t, i>>].base \in Int /\ f.time >= waiting[<<t, i>>].base
            /\ waiting'[<<t, i>>].resolved /\ f.time \in Int /\ f.event = Event("depart", t, i)
        BY <1>1, <2>3, <2>4, <2>6, <2>8, <2>10, <2>12
      <3>3. \A k \in DOMAIN waiting : k[1] = t /\ k # <<t, i>> => waiting'[k].resolved = waiting[k].resolved
        BY <1>1, <2>5
      <3>4. Keeps(t) /\ LayerTyped
        BY <2>15 DEF MacroInv
      <3> QED
        BY <1>3, <2>2, <2>14, <3>1, <3>2, <3>3, <3>4, SentOn
    <2>18. ASSUME NEW u \in Trips, u # t
           PROVE  \/ AtItsEnd(u)'
                  \/ /\ ~NeverStarts(u)'
                     /\ \E k \in DOMAIN scenario.stops[u] : Departing(u, k)' \/ Running(u, k)' \/ HeldAt(u, k)'
      <3>1. \A k \in Held(u) : e \notin Deadlines(k)
        <4> SUFFICES ASSUME NEW k \in Held(u), e.event = Event("conn_deadline", k[1], k[2]) PROVE FALSE
          BY DEF Deadlines
        <4>1. k[1] = u
          BY DEF Held
        <4> QED
          BY <1>3, <2>18, <4>1 DEF Event
      <3>2. \A k \in DOMAIN waiting : k[1] = u => waiting'[k].resolved = waiting[k].resolved
        BY <1>3, <2>5, <2>18
      <3>3. Keeps(u) /\ LayerTyped /\ e \notin Moves(u) /\ \A g \in new : g.event.trip # u
        BY <1>5, <2>14, <2>15, <2>18 DEF MacroInv
      <3>4. /\ AtItsEnd(u) => AtItsEnd(u)'
            /\ \A j : Departing(u, j) => Departing(u, j)'
            /\ \A j : Running(u, j) => Running(u, j)'
            /\ \A j : HeldAt(u, j) => HeldAt(u, j)'
        BY <2>14, <3>1, <3>2, <3>3, OtherPlaced
      <3> QED
        BY <1>4, <3>4 DEF MacroInv, Placed
    <2>19. Placed'
      BY <1>2, <1>4, <2>2, <2>17, <2>18 DEF Placed
    <2> QED
      BY <1>6, <2>12, <2>16, <2>19 DEF MacroInv
  <1>8. CASE ~(key \in DOMAIN waiting /\ ~waiting[key].resolved)
    <2>1. waiting' = waiting /\ Process(e, NoEvents, 0)
      BY <1>1, <1>8 DEF ConnDeadline
    <2>2. PICK new : new = {}
      OBVIOUS
    <2>3. heap' = (heap \ {e}) \cup new /\ QueueOf(Events)'
      BY <1>2, <2>1, <2>2, NoCall
    <2>4. LayerTyped'
      BY <1>2, <1>4, <2>1, <2>2, <2>3 DEF MacroInv, LayerTyped
    <2>5. ASSUME NEW u \in Trips
          PROVE  \/ AtItsEnd(u)'
                 \/ /\ ~NeverStarts(u)'
                    /\ \E k \in DOMAIN scenario.stops[u] : Departing(u, k)' \/ Running(u, k)' \/ HeldAt(u, k)'
      <3>1. \A k \in Held(u) : e \notin Deadlines(k)
        <4> SUFFICES ASSUME NEW k \in Held(u), e.event = Event("conn_deadline", k[1], k[2]) PROVE FALSE
          BY DEF Deadlines
        <4>1. k[1] = t /\ k[2] = i
          BY <1>3 DEF Event
        <4>2. k = key /\ ~waiting[k].resolved /\ k \in DOMAIN waiting
          <5>1. PICK j : k = <<u, j>>
            BY HeldKeys DEF MacroInv
          <5>2. u = t /\ j = i
            BY <4>1, <5>1
          <5> QED
            BY <1>1, <5>1, <5>2 DEF Held
        <4> QED
          BY <1>8, <4>2
      <3>2. Keeps(u) /\ LayerTyped /\ e \notin Moves(u) /\ \A g \in new : g.event.trip # u
        BY <1>2, <1>5, <2>1, <2>2 DEF MacroInv, Keeps
      <3>3. /\ AtItsEnd(u) => AtItsEnd(u)'
            /\ \A j : Departing(u, j) => Departing(u, j)'
            /\ \A j : Running(u, j) => Running(u, j)'
            /\ \A j : HeldAt(u, j) => HeldAt(u, j)'
        BY <2>1, <2>3, <3>1, <3>2, OtherPlaced
      <3> QED
        BY <1>4, <3>3 DEF MacroInv, Placed
    <2>6. Placed'
      BY <1>2, <1>4, <2>5 DEF Placed
    <2> QED
      BY <1>6, <2>3, <2>4, <2>6 DEF MacroInv
  <1> QED
    BY <1>7, <1>8

-----------------------------------------------------------------------------
\* Joining the end of a queue one is not in.
LEMMA AppendFresh ==
    ASSUME NEW S, NEW T, NEW s, NEW x, NEW q, q = Append(s, x), s \in Seq(S),
           Distinct(s), x \notin S, S \subseteq T, x \in T
    PROVE  q \in Seq(T) /\ Distinct(q)
  <1> DEFINE n == Len(s)
  <1>1. n \in Nat /\ DOMAIN s = 1..n /\ \A k \in 1..n : s[k] \in S
    BY LenProperties, ElementOfSeq
  <1>2. s \in Seq(T)
    BY <1>1, SeqDef
  <1>3. /\ q \in Seq(T) /\ Len(q) = n + 1
        /\ \A k \in 1..n : q[k] = s[k]
        /\ q[n + 1] = x
    BY <1>2, AppendProperties
  <1>4. DOMAIN q = 1..(n + 1)
    BY <1>3, LenProperties
  <1>5. ASSUME NEW j \in DOMAIN q, NEW k \in DOMAIN q, q[j] = q[k] PROVE j = k
    <2>1. \A m \in DOMAIN q : m \in 1..n \/ m = n + 1
      BY <1>1, <1>4
    <2> HIDE DEF n
    <2>2. \A m \in 1..n : q[m] = s[m] /\ q[m] # x
      BY <1>1, <1>3
    <2> QED
      BY <1>1, <1>3, <1>5, <2>1, <2>2 DEF Distinct
  <1> QED
    BY <1>3, <1>5 DEF Distinct

\* The list of waiters of a feeder names holds, each once,
LEMMA WaitersTyping ==
    ASSUME LayerTyped, NEW f
    PROVE  /\ WaitersOf(f) \in Seq(DOMAIN waiting)
           /\ Distinct(WaitersOf(f))
           /\ Len(WaitersOf(f)) \in Nat /\ DOMAIN WaitersOf(f) = 1..Len(WaitersOf(f))
           /\ \A k \in DOMAIN WaitersOf(f) : WaitersOf(f)[k] \in DOMAIN waiting
  <1> PICK q : q = WaitersOf(f)
    OBVIOUS
  <1>1. q \in Seq(DOMAIN waiting) /\ Distinct(q)
    <2>1. CASE f \in DOMAIN waiters
      <3>1. q = waiters[f]
        BY <2>1 DEF WaitersOf
      <3> QED
        BY <2>1, <3>1 DEF LayerTyped
    <2>2. CASE f \notin DOMAIN waiters
      <3>1. q = <<>>
        BY <2>2 DEF WaitersOf
      <3> QED
        BY <3>1, EmptySeq DEF Distinct
    <2> QED
      BY <2>1, <2>2
  <1>2. Len(q) \in Nat /\ DOMAIN q = 1..Len(q)
    BY <1>1, LenProperties
  <1>3. \A k \in DOMAIN q : q[k] \in DOMAIN waiting
    BY <1>1, <1>2, ElementOfSeq
  <1> QED
    BY <1>1, <1>2, <1>3

\* also with a new hold at its end.
LEMMA WaiterJoins ==
    ASSUME LayerTyped, NEW f, NEW key, key \notin DOMAIN waiting,
           NEW T, DOMAIN waiting \subseteq T, key \in T,
           NEW q, q = Append(WaitersOf(f), key)
    PROVE  q \in Seq(T) /\ Distinct(q)
  <1>1. WaitersOf(f) \in Seq(DOMAIN waiting) /\ Distinct(WaitersOf(f))
    BY WaitersTyping
  <1>2. PICK s, S : s = WaitersOf(f) /\ S = DOMAIN waiting
    OBVIOUS
  <1>3. s \in Seq(S) /\ Distinct(s) /\ q = Append(s, key) /\ S \subseteq T /\ key \notin S
    BY <1>1, <1>2
  <1> QED
    BY ONLY <1>3, key \in T, AppendFresh

\* A feeder's arrival rewrites holds, ends some and begins none.
LEMMA AfterRelease ==
    ASSUME MacroInv, NEW feeder, NEW at \in Nat, NEW key \in DOMAIN waiting
    PROVE  LET w == WaitingAfter(feeder, at)[key]
           IN /\ w \in Hold /\ w.base <= w.required
              /\ w.base = waiting[key].base /\ w.deadline = waiting[key].deadline
              /\ w.resolved # waiting[key].resolved =>
                    /\ ~waiting[key].resolved
                    /\ \E k \in DOMAIN Releases(feeder, at) : WaitersOf(feeder)[k] = key
  <1> PICK w, v, q : w = WaitingAfter(feeder, at)[key] /\ v = waiting[key] /\ q = WaitersOf(feeder)
    OBVIOUS
  <1>1. scenario \in Scenarios /\ v \in Hold /\ v.base <= v.required
    BY DEF MacroInv, LayerTyped
  <1>2. PICK t \in Trips : \E i \in DOMAIN scenario.stops[t] : key = <<t, i>>
    BY DEF MacroInv, LayerTyped
  <1>3. PICK i \in DOMAIN scenario.stops[t] : key = <<t, i>>
    BY <1>2
  <1>4. CASE Awaits(key, feeder) /\ \E k \in DOMAIN q : q[k] = key
    <2>1. w = Served(key, feeder, at)
      BY <1>4 DEF WaitingAfter
    <2>2. w \in Hold /\ w.base = v.base /\ w.deadline = v.deadline /\ w.required >= v.required
      BY <1>1, <1>3, <2>1, ServedOf
    <2>3. w.base <= w.required
      <3> PICK a, b, c : a = v.base /\ b = v.required /\ c = w.required
        OBVIOUS
      <3>1. a \in Int /\ b \in Int /\ c \in Int /\ a <= b /\ b <= c
        BY <1>1, <2>2 DEF Hold
      <3> QED
        BY <2>2, <3>1
    <2>4. ASSUME w.resolved # v.resolved PROVE ~v.resolved /\ \E k \in DOMAIN Releases(feeder, at) : q[k] = key
      <3>1. ~v.resolved /\ w.resolved
        BY <1>1, <1>4, <2>2, <2>4 DEF Awaits, Hold
      <3>2. PICK k \in DOMAIN q : q[k] = key
        BY <1>4
      <3>3. k \in DOMAIN Releases(feeder, at)
        BY <1>4, <3>1, <3>2 DEF Releases
      <3> QED
        BY <3>1, <3>2, <3>3
    <2> QED
      BY <2>2, <2>3, <2>4
  <1>5. CASE ~(Awaits(key, feeder) /\ \E k \in DOMAIN q : q[k] = key)
    <2>1. w = v
      BY <1>5 DEF WaitingAfter
    <2> QED
      BY <1>1, <2>1
  <1> QED
    BY <1>4, <1>5

\* Those it ends were held, each its train's only hold, and are sent on at
\* once or later.
LEMMA ReleasedAt ==
    ASSUME MacroInv, NEW feeder, NEW at \in Nat, NEW k \in DOMAIN Releases(feeder, at)
    PROVE  LET c == Releases(feeder, at)[k]
               key == WaitersOf(feeder)[k]
           IN /\ k \in 1..Len(WaitersOf(feeder)) /\ key \in DOMAIN waiting /\ ~waiting[key].resolved
              /\ WaitingAfter(feeder, at)[key].resolved
              /\ \E u \in Trips : \E j \in DOMAIN scenario.stops[u] :
                    /\ key = <<u, j>> /\ HeldAt(u, j) /\ ~NeverStarts(u)
                    /\ c.event = Event("depart", u, j)
              /\ c.event \in Events /\ c.event.kind = "depart"
              /\ c.time \in Nat /\ c.time >= at
              /\ waiting[key].base \in Int /\ c.time >= waiting[key].base
  <1> PICK c, key, q, w : /\ c = Releases(feeder, at)[k] /\ q = WaitersOf(feeder) /\ key = q[k]
                          /\ w = WaitingAfter(feeder, at)[key]
    OBVIOUS
  <1>1. k \in DOMAIN q /\ Awaits(key, feeder) /\ w.resolved /\ c = Finalized(key, w, at)
    BY DEF Releases
  <1>2. k \in 1..Len(q) /\ key \in DOMAIN waiting /\ ~waiting[key].resolved
    BY <1>1, WaitersTyping DEF MacroInv, Awaits
  <1>3. PICK u \in Trips : \E j \in DOMAIN scenario.stops[u] :
            key = <<u, j>> /\ HeldAt(u, j) /\ ~NeverStarts(u)
    BY <1>2, AwaitsAt
  <1>4. PICK j \in DOMAIN scenario.stops[u] : key = <<u, j>> /\ HeldAt(u, j) /\ ~NeverStarts(u)
    BY <1>3
  <1>5. w \in Hold /\ w.base <= w.required /\ w.base = waiting[key].base
    BY <1>2, AfterRelease
  <1>6. PICK b, r, x : b = w.base /\ r = w.required /\ x = Larger(r, at)
    OBVIOUS
  <1>7. b \in Int /\ r \in Int /\ at \in Int /\ b <= r
    BY <1>5, <1>6 DEF Hold
  <1>8. x \in Int /\ x >= r /\ x >= at
    <2>1. Larger(r, at) \in Int /\ Larger(r, at) >= r /\ Larger(r, at) >= at
      BY <1>7, LargerOf
    <2> QED
      BY <1>6, <2>1
  <1>9. x \in Nat /\ x >= at /\ x >= b
    <2>1. x >= b
      BY <1>7, <1>8
    <2>2. x \in Nat
      BY <1>8
    <2> QED
      BY <1>8, <2>1, <2>2
  <1>10. c.time = x /\ c.event = Event("depart", u, j)
    <2>1. key[1] = u /\ key[2] = j
      BY <1>4
    <2>2. c = At(x, Event("depart", u, j))
      BY <1>1, <1>6, <2>1 DEF Finalized
    <2> QED
      BY <2>2 DEF At
  <1>11. c.event \in Events /\ c.event.kind = "depart"
    <2>1. j \in Nat
      BY ScenarioTyping DEF MacroInv, LayerTyped
    <2> QED
      BY <1>10, <2>1 DEF Event, Events
  <1> QED
    BY <1>1, <1>2, <1>4, <1>5, <1>6, <1>7, <1>9, <1>10, <1>11

\* A train that came in time and stands as long as it must is not early.
LEMMA StandsItsTime ==
    ASSUME MacroInv, scenario' = scenario, NEW t \in Trips, NEW i \in DOMAIN scenario.stops[t],
           Running(t, i), NEW at \in Nat, ComesInTime(t, i, at),
           NEW rec, rec.time = at, rec.idx = i, Range(records') = Range(records) \cup {rec},
           NEW x \in Int, x >= Base(t, i, at)
    PROVE  LeavesInTime(t, i, x)'
  <1>1. scenario \in Scenarios /\ i \in Nat /\ i > 0 /\ i <= i
    BY ScenarioTyping DEF MacroInv, LayerTyped, Running
  <1> DEFINE stop == Stop(t, i)
  <1>2. PICK base, own, dep, arr : /\ base = Base(t, i, at) /\ own = at + scenario.minDwell
                                   /\ dep = stop.dep /\ arr = stop.arr
    OBVIOUS
  <1>3. base \in Nat /\ OrElse(dep, at) \in Int /\ base >= own /\ base >= OrElse(dep, at)
    BY <1>1, <1>2, BaseOf
  <1>4. own \in Nat /\ own >= at
    BY <1>1, <1>2, ScenarioTyping
  <1>5. dep \in Times /\ arr \in Times /\ NoTime \notin Int
    BY <1>1, <1>2, ScenarioTyping
  <1>6. x >= base /\ x >= own /\ x >= at
    <2>1. x >= base
      BY <1>2
    <2> QED
      BY <1>3, <1>4, <2>1
  <1>7. \A r \in Moved(t, i, "arrive")' : r.time = at
    <2>1. \A r \in Range(records) : r.trip = t => r.idx # i
      <3>1. \A r \in Range(records) : r.idx \in Nat
        BY RecordTyping DEF MacroInv, MovementRecord
      <3> QED
        BY <1>1, <3>1 DEF Running, Passed
    <2> QED
      BY <2>1 DEF Moved
  <1>8. dep # NoTime => x >= dep
    <2>1. dep # NoTime => base >= dep
      BY <1>3 DEF OrElse
    <2> QED
      BY <1>3, <1>5, <1>6, <2>1 DEF Times
  <1>9. OnTime(t) /\ Timed(t, i) => x >= Due(t, i)
    <2> SUFFICES ASSUME OnTime(t), Timed(t, i) PROVE x >= Due(t, i)
      OBVIOUS
    <2>1. CASE dep # NoTime
      BY <1>2, <1>8, <2>1 DEF Due, OrElse
    <2>2. CASE dep = NoTime
      <3>1. Due(t, i) = arr /\ arr # NoTime
        BY <1>1, <1>2, <2>2 DEF Due, OrElse, Timed
      <3>2. at >= arr
        BY <1>2, <3>1 DEF ComesInTime, OrElse
      <3>3. arr \in Int
        BY <1>5, <3>1 DEF Times
      <3> QED
        BY <1>6, <3>1, <3>2, <3>3
    <2> QED
      BY <2>1, <2>2
  <1>10. /\ Stop(t, i)' = stop /\ (OnTime(t)' <=> OnTime(t)) /\ (Timed(t, i)' <=> Timed(t, i))
         /\ Due(t, i)' = Due(t, i)
    BY ScenarioFixed
  <1>11. \A r \in Moved(t, i, "arrive")' : x >= r.time + scenario'.minDwell
    BY <1>2, <1>6, <1>7
  <1> QED
    BY <1>2, <1>8, <1>9, <1>10, <1>11 DEF LeavesInTime

\* What an arrival makes of the layer's state: it may begin a hold at key, for
\* the feeders P.
Arrived(feeder, at, key, P) ==
    /\ feederArrivals' = Put(feederArrivals, feeder, at)
    /\ DOMAIN waiting \subseteq DOMAIN waiting' /\ DOMAIN waiting' \subseteq DOMAIN waiting \cup {key}
    /\ \A k \in DOMAIN waiting : waiting'[k] = WaitingAfter(feeder, at)[k]
    /\ key \in DOMAIN waiting' => waiting'[key] \in Hold /\ waiting'[key].base <= waiting'[key].required
    /\ P # {} => key \in DOMAIN waiting'
    /\ DOMAIN waiters' = DOMAIN waiters \cup P
    /\ \A f \in P : waiters'[f] = Append(WaitersOf(f), key)
    /\ \A f \in DOMAIN waiters \ P : waiters'[f] = waiters[f]
    /\ \A g \in heap' : g.event.kind = "conn_deadline" =>
            g \in heap \/ <<g.event.trip, g.event.idx>> \in DOMAIN waiting'

\* After an arrival holds, waiters and records still have their types.
LEMMA ArriveTyping ==
    ASSUME MacroInv, scenario' = scenario, records' \in Seq(MovementRecord),
           NEW feeder, NEW at \in Nat, NEW key, key \notin DOMAIN waiting, NEW P,
           \E u \in Trips : \E j \in DOMAIN scenario.stops[u] : key = <<u, j>>,
           Arrived(feeder, at, key, P)
    PROVE  LayerTyped'
  <1> USE DEF Arrived
  <1>1. Trips' = Trips /\ MovementRecord' = MovementRecord /\ Hold' = Hold
    BY ScenarioFixed
  <1>2. \A f \in DOMAIN feederArrivals' : feederArrivals'[f] \in Nat
    BY DEF Put, MacroInv, LayerTyped
  <1>3. ASSUME NEW k \in DOMAIN waiting'
        PROVE  /\ \E u \in Trips : \E j \in DOMAIN scenario.stops[u] : k = <<u, j>>
               /\ waiting'[k] \in Hold /\ waiting'[k].base <= waiting'[k].required
    <2>1. CASE k \in DOMAIN waiting
      <3>1. \E u \in Trips : \E j \in DOMAIN scenario.stops[u] : k = <<u, j>>
        BY <2>1 DEF MacroInv, LayerTyped
      <3> PICK w : w = WaitingAfter(feeder, at)[k]
        OBVIOUS
      <3>2. w \in Hold /\ w.base <= w.required
        BY <2>1, AfterRelease
      <3>3. waiting'[k] = w
        BY <2>1
      <3> QED
        BY <3>1, <3>2, <3>3
    <2>2. CASE k = key
      BY <1>3, <2>2
    <2> QED
      BY <1>3, <2>1, <2>2
  <1>4. ASSUME NEW f \in DOMAIN waiters'
        PROVE  waiters'[f] \in Seq(DOMAIN waiting') /\ Distinct(waiters'[f])
    <2>1. CASE f \in P
      <3> PICK T, q : T = DOMAIN waiting' /\ q = Append(WaitersOf(f), key)
        OBVIOUS
      <3>1. DOMAIN waiting \subseteq T /\ key \in T /\ LayerTyped
        BY <2>1 DEF MacroInv
      <3>3. q \in Seq(T) /\ Distinct(q)
        BY <3>1, WaiterJoins
      <3>4. waiters'[f] = q
        BY <2>1
      <3> QED
        BY <3>3, <3>4
    <2>2. CASE f \in DOMAIN waiters \ P
      <3>1. waiters[f] \in Seq(DOMAIN waiting)
        BY <2>2 DEF MacroInv, LayerTyped
      <3> PICK S, T, s : S = DOMAIN waiting /\ T = DOMAIN waiting' /\ s = waiters[f]
        OBVIOUS
      <3>2. s \in Seq(S) /\ S \subseteq T
        BY <3>1
      <3>3. s \in Seq(T)
        <4>1. Len(s) \in Nat /\ DOMAIN s = 1..Len(s) /\ \A k \in 1..Len(s) : s[k] \in S
          BY <3>2, LenProperties, ElementOfSeq
        <4> QED
          BY <3>2, <4>1, SeqDef
      <3>4. Distinct(s)
        BY <2>2 DEF MacroInv, LayerTyped
      <3> QED
        BY <2>2, <3>3, <3>4
    <2> QED
      BY <1>4, <2>1, <2>2
  <1>5. \A g \in heap' : g.event.kind = "conn_deadline" => <<g.event.trip, g.event.idx>> \in DOMAIN waiting'
    <2>1. \A g \in heap : g.event.kind = "conn_deadline" => <<g.event.trip, g.event.idx>> \in DOMAIN waiting
      BY DEF MacroInv, LayerTyped
    <2> QED
      BY <2>1
  <1>6. scenario' \in Scenarios
    BY DEF MacroInv, LayerTyped
  <1> QED
    BY <1>1, <1>2, <1>3, <1>4, <1>5, <1>6 DEF LayerTyped

\* The other trains, when one arrives: each keeps its place, or its hold ends
\* and it is given its departure.
LEMMA OthersAtArrival ==
    ASSUME MacroInv, scenario' = scenario, NEW e \in heap, e.event.kind = "arrive",
           NEW t, t = e.event.trip,
           NEW rec, rec.trip = t, Range(records') = Range(records) \cup {rec},
           NEW feeder, NEW at \in Nat,
           DOMAIN waiting \subseteq DOMAIN waiting',
           \A k \in DOMAIN waiting' : k \notin DOMAIN waiting => k[1] = t,
           \A k \in DOMAIN waiting : waiting'[k] = WaitingAfter(feeder, at)[k],
           NEW b, heap' = (heap \ {e}) \cup NewEntries(b),
           DOMAIN Releases(feeder, at) \subseteq DOMAIN b,
           \A k \in DOMAIN Releases(feeder, at) : b[k] = Releases(feeder, at)[k],
           \A k \in DOMAIN b : k \notin DOMAIN Releases(feeder, at) => b[k].event.trip = t,
           NEW u \in Trips, u # t
    PROVE  \/ AtItsEnd(u)'
           \/ /\ ~NeverStarts(u)'
              /\ \E j \in DOMAIN scenario.stops[u] : Departing(u, j)' \/ Running(u, j)' \/ HeldAt(u, j)'
  <1> PICK R, A, q, new : /\ R = Releases(feeder, at) /\ A = WaitingAfter(feeder, at)
                          /\ q = WaitersOf(feeder) /\ new = NewEntries(b)
    OBVIOUS
  <1>1. heap' = (heap \ {e}) \cup new
    OBVIOUS
  <1>2. \A g \in new : \E k \in DOMAIN b : g = NewEntry(b[k], k)
    BY DEF NewEntries
  <1>3. \A k \in DOMAIN b : NewEntry(b[k], k) \in new
    BY DEF NewEntries
  <1>4. \A k : NewEntry(b[k], k).event = b[k].event /\ NewEntry(b[k], k).time = b[k].time
    BY DEF NewEntry
  <1>5. \A k \in DOMAIN waiting : /\ waiting'[k] = A[k]
                                  /\ A[k].base = waiting[k].base /\ A[k].deadline = waiting[k].deadline
                                  /\ A[k].resolved # waiting[k].resolved => \E j \in DOMAIN R : q[j] = k
    BY AfterRelease
  <1>6. Keeps(u)
    <2>1. \A r : r.trip = u => (r \in Range(records') <=> r \in Range(records))
      OBVIOUS
    <2> QED
      BY <1>5, <2>1 DEF Keeps
  <1>7. LayerTyped /\ scenario \in Scenarios
    BY DEF MacroInv, LayerTyped
  <1>8. NeverStarts(u)' <=> NeverStarts(u)
    BY ScenarioFixed
  <1>9. e \notin Moves(u) /\ \A k : e \notin Deadlines(k)
    BY DEF Moves, Deadlines, Event
  <1>10. ASSUME NEW k \in DOMAIN R
         PROVE  \E v, j : q[k] = <<v, j>> /\ R[k].event.trip = v
    <2>1. PICK c, key : c = R[k] /\ key = q[k]
      OBVIOUS
    <2>2. \E v \in Trips : \E j \in DOMAIN scenario.stops[v] : key = <<v, j>> /\ c.event = Event("depart", v, j)
      BY <2>1, ReleasedAt
    <2> QED
      BY <2>1, <2>2 DEF Event
  <1>11. CASE \E k \in DOMAIN R : R[k].event.trip = u
    <2>1. PICK k \in DOMAIN R : R[k].event.trip = u
      BY <1>11
    <2>2. PICK c, key : c = R[k] /\ key = q[k]
      OBVIOUS
    <2>3. /\ key \in DOMAIN waiting /\ A[key].resolved
          /\ \E v \in Trips : \E j \in DOMAIN scenario.stops[v] :
                key = <<v, j>> /\ HeldAt(v, j) /\ ~NeverStarts(v) /\ c.event = Event("depart", v, j)
          /\ c.time \in Nat /\ waiting[key].base \in Int /\ c.time >= waiting[key].base
      BY <2>1, <2>2, ReleasedAt
    <2>4. PICK v \in Trips : \E j \in DOMAIN scenario.stops[v] :
                key = <<v, j>> /\ HeldAt(v, j) /\ ~NeverStarts(v) /\ c.event = Event("depart", v, j)
      BY <2>3
    <2>5. PICK j \in DOMAIN scenario.stops[v] :
                key = <<v, j>> /\ HeldAt(v, j) /\ ~NeverStarts(v) /\ c.event = Event("depart", v, j)
      BY <2>4
    <2>6. u = v
      BY <2>1, <2>2, <2>5 DEF Event
    <2>7. \A l \in DOMAIN R : R[l].event.trip = u => l = k
      <3> SUFFICES ASSUME NEW l \in DOMAIN R, R[l].event.trip = u PROVE l = k
        OBVIOUS
      <3>1. PICK d, kk : d = R[l] /\ kk = q[l]
        OBVIOUS
      <3>2. \E x \in Trips : \E y \in DOMAIN scenario.stops[x] :
                kk = <<x, y>> /\ HeldAt(x, y) /\ d.event = Event("depart", x, y)
        BY <3>1, ReleasedAt
      <3>3. PICK x, y : kk = <<x, y>> /\ HeldAt(x, y) /\ d.event = Event("depart", x, y)
        BY <3>2
      <3>4. x = u
        BY <3>1, <3>3 DEF Event
      <3>5. Held(u) = {key} /\ Held(u) = {kk}
        BY <2>5, <2>6, <3>3, <3>4 DEF HeldAt
      <3>6. q[l] = q[k]
        BY <2>2, <3>1, <3>5
      <3>7. k \in DOMAIN q /\ l \in DOMAIN q
        BY <2>1, ReleasedAt, WaitersTyping, <1>7
      <3> QED
        BY <1>7, <3>6, <3>7, WaitersTyping DEF Distinct
    <2>8. PICK f : f = NewEntry(b[k], k)
      OBVIOUS
    <2>9. f \in new /\ f.event = Event("depart", u, j) /\ f.time = c.time
      BY <1>3, <1>4, <2>1, <2>2, <2>5, <2>6, <2>8
    <2>10. \A g \in new : g.event.trip = u /\ g.event.kind # "conn_deadline" => g = f
      <3> SUFFICES ASSUME NEW g \in new, g.event.trip = u PROVE g = f
        OBVIOUS
      <3>1. PICK l \in DOMAIN b : g = NewEntry(b[l], l)
        BY <1>2
      <3>2. b[l].event.trip = u
        BY <1>4, <3>1
      <3>3. l \in DOMAIN R /\ R[l].event.trip = u
        BY <3>2
      <3> QED
        BY <2>7, <2>8, <3>1, <3>3
    <2>11. \A k2 \in DOMAIN waiting : k2[1] = u /\ k2 # <<u, j>> => waiting'[k2].resolved = waiting[k2].resolved
      <3> SUFFICES ASSUME NEW k2 \in DOMAIN waiting, k2[1] = u, waiting'[k2].resolved # waiting[k2].resolved
                   PROVE  k2 = <<u, j>>
        OBVIOUS
      <3>1. A[k2].resolved # waiting[k2].resolved
        BY <1>5
      <3>2. ~waiting[k2].resolved
        BY <3>1, AfterRelease
      <3>3. k2 \in Held(u)
        BY <3>2 DEF Held
      <3> QED
        BY <2>5, <2>6, <3>3 DEF HeldAt
    <2>12. \A a \in Range(records) : a.time \in Int
      BY <1>7, RecordTyping DEF MovementRecord
    <2>13. /\ waiting[<<u, j>>].base \in Int /\ f.time >= waiting[<<u, j>>].base /\ f.time \in Int
           /\ waiting'[<<u, j>>].resolved
      BY <1>5, <2>3, <2>5, <2>6, <2>9
    <2>14. HeldAt(u, j) /\ j \in DOMAIN scenario.stops[u] /\ ~NeverStarts(u)
      BY <2>5, <2>6
    <2>15. Departing(u, j)'
      BY <1>1, <1>6, <1>7, <2>9, <2>10, <2>11, <2>12, <2>13, <2>14, SentOn
    <2> QED
      BY <1>8, <2>14, <2>15
  <1>12. CASE \A k \in DOMAIN R : R[k].event.trip # u
    <2>1. \A g \in new : g.event.trip # u
      <3> SUFFICES ASSUME NEW g \in new PROVE g.event.trip # u
        OBVIOUS
      <3>1. PICK l \in DOMAIN b : g = NewEntry(b[l], l)
        BY <1>2
      <3> QED
        BY <1>4, <1>12, <3>1
    <2>2. \A key \in DOMAIN waiting : key[1] = u => waiting'[key].resolved = waiting[key].resolved
      <3> SUFFICES ASSUME NEW key \in DOMAIN waiting, key[1] = u, A[key].resolved # waiting[key].resolved
                   PROVE  FALSE
        BY <1>5
      <3>1. PICK k \in DOMAIN R : q[k] = key
        BY <1>5
      <3>2. PICK v, j : key = <<v, j>> /\ R[k].event.trip = v
        <4>1. \E v, j : q[k] = <<v, j>> /\ R[k].event.trip = v
          BY <1>10
        <4> QED
          BY <3>1, <4>1
      <3>3. v = u
        BY <3>2
      <3> QED
        BY <1>12, <3>2, <3>3
    <2>3. /\ AtItsEnd(u) => AtItsEnd(u)'
          /\ \A j : Departing(u, j) => Departing(u, j)'
          /\ \A j : Running(u, j) => Running(u, j)'
          /\ \A j : HeldAt(u, j) => HeldAt(u, j)'
      BY <1>1, <1>6, <1>7, <1>9, <2>1, <2>2, OtherPlaced
    <2> QED
      BY <1>8, <2>3 DEF MacroInv, Placed
  <1> QED
    BY <1>11, <1>12

\* The batch of an arrival: causal, and the new entries it makes.
LEMMA ArriveCalls ==
    ASSUME MacroInv, scenario' = scenario, NEW e \in heap, NEW feeder, NEW b, NEW width \in Nat,
           Len(WaitersOf(feeder)) <= width, DOMAIN b \subseteq 1..width,
           \A k \in DOMAIN b :
                \/ k \in DOMAIN Releases(feeder, e.time) /\ b[k] = Releases(feeder, e.time)[k]
                \/ b[k].time \in Nat /\ b[k].event \in Events /\ b[k].time >= e.time,
           Process(e, b, width)
    PROVE  heap' = (heap \ {e}) \cup NewEntries(b) /\ QueueOf(Events)'
  <1>1. e.time \in Nat
    BY EventTyping
  <1>2. ASSUME NEW k \in DOMAIN b
        PROVE  b[k].time \in Nat /\ b[k].event \in Events /\ b[k].time >= e.time
    <2>1. CASE k \in DOMAIN Releases(feeder, e.time) /\ b[k] = Releases(feeder, e.time)[k]
      <3> PICK c, at : c = b[k] /\ at = e.time
        OBVIOUS
      <3>1. at \in Nat /\ k \in DOMAIN Releases(feeder, at) /\ c = Releases(feeder, at)[k]
        BY <1>1, <2>1
      <3>2. c.time \in Nat /\ c.event \in Events /\ c.time >= at
        BY <3>1, ReleasedAt
      <3> QED
        BY <3>2
    <2> QED
      BY <1>2, <2>1
  <1>3. /\ heap' = (heap \ {e}) \cup NewEntries(b) /\ raised' = FALSE
        /\ heap' \subseteq [time : Nat, seq : Nat, event : Events]
        /\ \A f \in heap' : f.seq < sequence' /\ now' <= f.time
        /\ sequence' \in Nat /\ now' \in Nat
    <2>1. QueueOf(Events)
      BY DEF MacroInv
    <2>2. /\ \A i \in DOMAIN b : b[i].time \in Nat /\ b[i].event \in Events
          /\ \A i \in DOMAIN b : b[i].time >= e.time
      BY <1>2
    <2> QED
      BY <2>1, <2>2, CausalProcess
  <1>4. Events' = Events
    BY ScenarioFixed
  <1> QED
    BY <1>3, <1>4 DEF QueueOf

\* A train that comes in: what it holds, and what the handler makes of that.
LEMMA NoHoldYet ==
    ASSUME MacroInv, NEW t \in Trips, NEW i \in DOMAIN scenario.stops[t], Running(t, i)
    PROVE  /\ <<t, i>> \notin DOMAIN waiting
           /\ \A g \in heap : g.event # Event("conn_deadline", t, i)
           /\ \A feeder : \A at \in Nat : \A k \in DOMAIN waiting :
                k[1] = t => waiting[k].resolved /\ WaitingAfter(feeder, at)[k].resolved
           /\ \A feeder : \A at \in Nat : \A k \in DOMAIN Releases(feeder, at) :
                Releases(feeder, at)[k].event.trip # t
  <1>1. i \in Nat /\ Held(t) = {} /\ HoldsBelow(t, i)
    BY ScenarioTyping DEF MacroInv, LayerTyped, Running
  <1>2. <<t, i>> \notin DOMAIN waiting
    <2> PICK key : key = <<t, i>>
      OBVIOUS
    <2>1. key[1] = t /\ key[2] = i
      OBVIOUS
    <2>2. key \notin DOMAIN waiting
      BY <1>1, <2>1 DEF HoldsBelow
    <2> QED
      BY <2>2
  <1>3. \A g \in heap : g.event # Event("conn_deadline", t, i)
    BY <1>2 DEF MacroInv, LayerTyped, Event
  <1>4. ASSUME NEW feeder, NEW at \in Nat, NEW k \in DOMAIN waiting, k[1] = t
        PROVE  waiting[k].resolved /\ WaitingAfter(feeder, at)[k].resolved
    <2>1. waiting[k].resolved
      BY <1>1, <1>4 DEF Held
    <2>2. WaitingAfter(feeder, at)[k] = waiting[k]
      BY <2>1 DEF WaitingAfter, Awaits
    <2> QED
      BY <2>1, <2>2
  <1>5. ASSUME NEW feeder, NEW at \in Nat, NEW k \in DOMAIN Releases(feeder, at),
               Releases(feeder, at)[k].event.trip = t
        PROVE  FALSE
    <2> PICK c, key : c = Releases(feeder, at)[k] /\ key = WaitersOf(feeder)[k]
      OBVIOUS
    <2>1. /\ key \in DOMAIN waiting /\ ~waiting[key].resolved
          /\ \E u \in Trips : \E j \in DOMAIN scenario.stops[u] : key = <<u, j>> /\ c.event = Event("depart", u, j)
      BY ReleasedAt
    <2>2. PICK u, j : key = <<u, j>> /\ c.event = Event("depart", u, j)
      BY <2>1
    <2>3. key[1] = t
      BY <1>5, <2>2 DEF Event
    <2> QED
      BY <1>1, <2>1, <2>3 DEF Held
  <1> QED
    BY <1>2, <1>3, <1>4, <1>5

\* _on_arrive keeps the invariant.
LEMMA ArriveInv == ASSUME MacroInv, NEW e \in heap, Arrive(e) PROVE MacroInv'
  <1>1. PICK t, i, feeder, at, rec, key, arrivals, A, R, width, d :
            /\ t = e.event.trip /\ i = e.event.idx /\ feeder = <<t, Stop(t, i).stop>> /\ at = e.time
            /\ rec = [time |-> at, trip |-> t, idx |-> i, event |-> "arrive"] /\ key = <<t, i>>
            /\ arrivals = Put(feederArrivals, feeder, at)
            /\ A = WaitingAfter(feeder, at) /\ R = Releases(feeder, at)
            /\ width = Len(WaitersOf(feeder)) /\ d = Decision(t, i, at, arrivals)
    OBVIOUS
  <1>2. /\ e.event.kind = "arrive" /\ records' = Append(records, rec)
        /\ scenario' = scenario /\ feederArrivals' = arrivals
    BY <1>1 DEF Arrive, Record
  <1>3. /\ t \in Trips /\ i \in DOMAIN scenario.stops[t] /\ ~NeverStarts(t)
        /\ Running(t, i) /\ Moves(t) = {e} /\ ComesInTime(t, i, at)
    BY <1>1, <1>2, ArrivesAt
  <1>4. scenario \in Scenarios /\ LayerTyped /\ at \in Nat /\ i \in Nat /\ i > 0
    BY <1>1, <1>3, EventTyping, ScenarioTyping DEF MacroInv, LayerTyped, Running
  <1>5. /\ rec \in MovementRecord /\ rec.trip = t /\ rec.idx = i /\ rec.event = "arrive" /\ rec.time = at
    BY <1>1, <1>3, <1>4 DEF MovementRecord
  <1>6. NeverEarly' /\ records' \in Seq(MovementRecord) /\ Range(records') = Range(records) \cup {rec}
    <2>1. ComesInTime(rec.trip, rec.idx, rec.time) /\ Passed(rec.trip, rec.idx)
      BY <1>3, <1>5 DEF Running
    <2> QED
      BY <1>2, <1>5, <2>1, RecordInv
  <1>7. /\ key \notin DOMAIN waiting /\ key[1] = t /\ key[2] = i
        /\ \A g \in heap : g.event # Event("conn_deadline", t, i)
        /\ \A k \in DOMAIN waiting : k[1] = t => waiting[k].resolved /\ A[k].resolved
        /\ \A k \in DOMAIN R : R[k].event.trip # t
    <2>1. /\ <<t, i>> \notin DOMAIN waiting
          /\ \A g \in heap : g.event # Event("conn_deadline", t, i)
      BY <1>3, NoHoldYet
    <2>2. /\ \A k \in DOMAIN waiting : k[1] = t => waiting[k].resolved /\ WaitingAfter(feeder, at)[k].resolved
          /\ \A k \in DOMAIN Releases(feeder, at) : Releases(feeder, at)[k].event.trip # t
      BY <1>3, <1>4, NoHoldYet
    <2> QED
      BY <1>1, <2>1, <2>2
  <1>8. width \in Nat /\ DOMAIN R \subseteq 1..width /\ DOMAIN A = DOMAIN waiting
    <2>1. width \in Nat /\ DOMAIN WaitersOf(feeder) = 1..width
      BY <1>1, <1>4, WaitersTyping
    <2>2. DOMAIN R \subseteq DOMAIN WaitersOf(feeder)
      BY <1>1 DEF Releases
    <2> QED
      BY <1>1, <2>1, <2>2 DEF WaitingAfter
  <1>9. \A k \in DOMAIN R : R[k].event.kind = "depart"
    BY <1>1, <1>4, ReleasedAt
  <1>10. ASSUME NEW b, heap' = (heap \ {e}) \cup NewEntries(b), DOMAIN R \subseteq DOMAIN b,
                \A k \in DOMAIN R : b[k] = R[k],
                \A k \in DOMAIN b : k \notin DOMAIN R => b[k].event.trip = t,
                DOMAIN waiting \subseteq DOMAIN waiting',
                DOMAIN waiting' \subseteq DOMAIN waiting \cup {key},
                \A k \in DOMAIN waiting : waiting'[k] = A[k],
                \/ AtItsEnd(t)'
                \/ Departing(t, i)'
                \/ HeldAt(t, i)'
         PROVE  Placed'
    <2>1. ASSUME NEW u \in Trips, u # t
          PROVE  \/ AtItsEnd(u)'
                 \/ /\ ~NeverStarts(u)'
                    /\ \E j \in DOMAIN scenario.stops[u] : Departing(u, j)' \/ Running(u, j)' \/ HeldAt(u, j)'
      <3>1. \A k \in DOMAIN waiting' : k \notin DOMAIN waiting => k[1] = t
        BY <1>7, <1>10
      <3>2. /\ DOMAIN Releases(feeder, at) \subseteq DOMAIN b
            /\ \A k \in DOMAIN Releases(feeder, at) : b[k] = Releases(feeder, at)[k]
            /\ \A k \in DOMAIN b : k \notin DOMAIN Releases(feeder, at) => b[k].event.trip = t
            /\ \A k \in DOMAIN waiting : waiting'[k] = WaitingAfter(feeder, at)[k]
        BY <1>1, <1>10
      <3>3. /\ e.event.kind = "arrive" /\ t = e.event.trip /\ rec.trip = t /\ scenario' = scenario
            /\ Range(records') = Range(records) \cup {rec} /\ at \in Nat
            /\ DOMAIN waiting \subseteq DOMAIN waiting' /\ heap' = (heap \ {e}) \cup NewEntries(b)
        BY <1>1, <1>2, <1>4, <1>5, <1>6, <1>10
      <3> QED
        BY <2>1, <3>1, <3>2, <3>3, OthersAtArrival
    <2>2. Trips' = Trips /\ \A u : NeverStarts(u)' <=> NeverStarts(u)
      BY <1>2, ScenarioFixed
    <2> QED
      BY <1>2, <1>3, <1>10, <2>1, <2>2 DEF Placed
  <1>11. \A k : NewEntry(R[k], k).event = R[k].event
    BY DEF NewEntry
  <1>12. CASE /\ Last(t, i) /\ waiting' = A /\ waiters' = waiters /\ Process(e, R, width)
    <2>1. heap' = (heap \ {e}) \cup NewEntries(R) /\ QueueOf(Events)'
      <3>1. \A k \in DOMAIN R : k \in DOMAIN Releases(feeder, e.time) /\ R[k] = Releases(feeder, e.time)[k]
        BY <1>1
      <3>2. Len(WaitersOf(feeder)) <= width
        BY <1>1, <1>8
      <3>3. scenario' = scenario /\ width \in Nat /\ DOMAIN R \subseteq 1..width /\ Process(e, R, width)
        BY <1>2, <1>8, <1>12
      <3> QED
        BY <3>1, <3>2, <3>3, ArriveCalls
    <2>2. \A g \in NewEntries(R) : g.event.trip # t /\ g.event.kind = "depart"
      <3>1. \A g \in NewEntries(R) : \E k \in DOMAIN R : g = NewEntry(R[k], k)
        BY DEF NewEntries
      <3> SUFFICES ASSUME NEW g \in NewEntries(R) PROVE g.event.trip # t /\ g.event.kind = "depart"
        OBVIOUS
      <3>2. PICK k \in DOMAIN R : g = NewEntry(R[k], k)
        BY <3>1
      <3>3. g.event = R[k].event
        BY <1>11, <3>2
      <3> QED
        BY <1>7, <1>9, <3>3
    <2>3. AtItsEnd(t)'
      <3>1. Moves(t)' = {}
        BY <1>3, <2>1, <2>2 DEF Moves
      <3>2. Held(t)' = {}
        BY <1>7, <1>8, <1>12 DEF Held
      <3>3. Terminated(t)'
        BY <1>2, <1>5, <1>6, <1>12, ScenarioFixed DEF Terminated
      <3> QED
        BY <3>1, <3>2, <3>3 DEF AtItsEnd
    <2>4. Placed'
      BY <1>8, <1>10, <1>12, <2>1, <2>3
    <2>5. LayerTyped'
      <3> PICK P : P = {}
        OBVIOUS
      <3>1. \A g \in heap' : g.event.kind = "conn_deadline" => g \in heap
        BY <2>1, <2>2
      <3>2. /\ DOMAIN waiting \subseteq DOMAIN waiting' /\ DOMAIN waiting' \subseteq DOMAIN waiting \cup {key}
            /\ key \notin DOMAIN waiting' /\ DOMAIN waiters' = DOMAIN waiters \cup P
            /\ \A k \in DOMAIN waiting : waiting'[k] = WaitingAfter(feeder, at)[k]
        BY <1>1, <1>7, <1>8, <1>12
      <3>3. \E u \in Trips : \E j \in DOMAIN scenario.stops[u] : key = <<u, j>>
        BY <1>1, <1>3
      <3>4. /\ scenario' = scenario /\ records' \in Seq(MovementRecord) /\ at \in Nat
            /\ feederArrivals' = Put(feederArrivals, feeder, at) /\ key \notin DOMAIN waiting
        BY <1>1, <1>2, <1>4, <1>6, <1>7
      <3>5. /\ \A f \in P : waiters'[f] = Append(WaitersOf(f), key)
            /\ \A f \in DOMAIN waiters \ P : waiters'[f] = waiters[f]
            /\ P # {} => key \in DOMAIN waiting'
            /\ key \in DOMAIN waiting' => waiting'[key] \in Hold /\ waiting'[key].base <= waiting'[key].required
        BY <1>12, <3>2
      <3>6. Arrived(feeder, at, key, P)
        BY <3>1, <3>2, <3>4, <3>5 DEF Arrived
      <3> QED
        BY <3>3, <3>4, <3>6, ArriveTyping
    <2> QED
      BY <1>6, <2>1, <2>4, <2>5 DEF MacroInv
  <1>13. ASSUME ~Last(t, i),
                NEW b, b = Put(R, width + 1, Onward(t, i, d)), Process(e, b, width + 1),
                waiting' = IF d.pending = {} THEN A ELSE Put(A, key, d),
                waiters' = [f \in DOMAIN waiters \cup d.pending |->
                                IF f \in d.pending THEN Append(WaitersOf(f), key) ELSE waiters[f]]
         PROVE  MacroInv'
    <2>1. /\ d \in Hold /\ d.base = Base(t, i, at) /\ d.base <= d.required
          /\ d.required \in Nat /\ d.deadline \in Nat /\ d.base <= d.deadline /\ d.resolved = FALSE
      <3>1. \A f \in DOMAIN arrivals : arrivals[f] \in Int
        BY <1>1, <1>4 DEF LayerTyped, Put
      <3> QED
        <4>1. /\ t \in Trips /\ i \in DOMAIN scenario.stops[t] /\ i > 0 /\ at \in Nat /\ scenario \in Scenarios
              /\ d = Decision(t, i, at, arrivals)
          BY <1>1, <1>3, <1>4
        <4> QED
          BY <3>1, <4>1, DecisionOf
    <2>2. d.base \in Nat /\ d.base >= at
      <3>1. d.base \in Nat /\ d.base >= at + scenario.minDwell
        BY <1>3, <1>4, <2>1, BaseOf
      <3>2. scenario.minDwell \in Nat
        BY <1>4, ScenarioTyping
      <3> QED
        BY <1>4, <3>1, <3>2
    <2>3. PICK c, n : c = Onward(t, i, d) /\ n = width + 1
      OBVIOUS
    <2>4. /\ n \in Nat /\ n \notin DOMAIN R /\ width <= n
          /\ DOMAIN b = DOMAIN R \cup {n} /\ DOMAIN b \subseteq 1..n /\ b[n] = c
          /\ \A k \in DOMAIN R : b[k] = R[k]
      <3>1. n \in Nat /\ n \notin DOMAIN R /\ width <= n /\ n \in 1..n /\ DOMAIN R \subseteq 1..n
        BY <1>8, <2>3
      <3> QED
        BY <1>13, <2>3, <3>1 DEF Put
    <2>5. /\ c.event = Event(IF d.pending = {} THEN "depart" ELSE "conn_deadline", t, i)
          /\ c.time = IF d.pending = {} THEN d.required ELSE d.deadline
      BY <2>3 DEF Onward, At
    <2>6. c.event \in Events /\ c.event.trip = t /\ c.time \in Nat /\ c.time >= at
      <3>1. c.event \in Events /\ c.event.trip = t
        BY <1>3, <1>4, <2>5 DEF Event, Events
      <3> PICK x, base : x = c.time /\ base = d.base
        OBVIOUS
      <3>2. x \in Nat /\ base \in Nat /\ base <= x /\ base >= at
        BY <2>1, <2>2, <2>5
      <3>3. x >= at
        BY <1>4, <3>2
      <3> QED
        BY <3>1, <3>2, <3>3
    <2>7. heap' = (heap \ {e}) \cup NewEntries(b) /\ QueueOf(Events)'
      <3>1. \A k \in DOMAIN b :
                \/ k \in DOMAIN Releases(feeder, e.time) /\ b[k] = Releases(feeder, e.time)[k]
                \/ b[k].time \in Nat /\ b[k].event \in Events /\ b[k].time >= e.time
        BY <1>1, <2>4, <2>6
      <3>2. Len(WaitersOf(feeder)) <= n /\ n \in Nat /\ DOMAIN b \subseteq 1..n /\ Process(e, b, n)
        BY <1>1, <1>13, <2>3, <2>4
      <3> QED
        BY <1>2, <3>1, <3>2, ArriveCalls
    <2>8. PICK f : f = NewEntry(c, n)
      OBVIOUS
    <2>9. f.event = c.event /\ f.time = c.time /\ f \in heap'
      BY <2>4, <2>7, <2>8 DEF NewEntries, NewEntry
    <2>10. \A g \in heap' : g \in heap \ {e} \/ g = f \/ (g.event.trip # t /\ g.event.kind = "depart")
      <3>1. \A g \in NewEntries(b) : g = f \/ \E k \in DOMAIN R : g = NewEntry(R[k], k)
        BY <2>4, <2>8 DEF NewEntries
      <3> QED
        BY <1>7, <1>9, <1>11, <2>7, <3>1
    <2>11. /\ DOMAIN waiting \subseteq DOMAIN waiting' /\ DOMAIN waiting' \subseteq DOMAIN waiting \cup {key}
           /\ \A k \in DOMAIN waiting : waiting'[k] = A[k]
           /\ key \in DOMAIN waiting' <=> d.pending # {}
           /\ key \in DOMAIN waiting' => waiting'[key] = d
      <3>1. CASE d.pending = {}
        BY <1>7, <1>8, <1>13, <3>1
      <3>2. CASE d.pending # {}
        BY <1>7, <1>8, <1>13, <3>2 DEF Put
      <3> QED
        BY <3>1, <3>2
    <2>12. Stopped(t, i)' /\ HoldsBelow(t, i + 1)' /\ ~Last(t, i)'
      <3>1. \A j : Last(t, j)' <=> Last(t, j)
        BY <1>2, ScenarioFixed
      <3>2. \A r \in Range(records) : r.trip = t => r.idx < i /\ ~Last(t, r.idx)
        BY <1>3 DEF Running, Passed
      <3>3. Stopped(t, i)'
        BY <1>4, <1>5, <1>6, <1>13, <3>1, <3>2 DEF Stopped
      <3>4. \A k \in DOMAIN waiting : k[1] = t => k[2] < i + 1
        <4>1. \A k \in DOMAIN waiting : k[1] = t => k[2] < i /\ k[2] \in Nat
          <5> SUFFICES ASSUME NEW k \in DOMAIN waiting, k[1] = t PROVE k[2] < i /\ k[2] \in Nat
            OBVIOUS
          <5>1. PICK u \in Trips : \E j \in DOMAIN scenario.stops[u] : k = <<u, j>>
            BY <1>4 DEF LayerTyped
          <5>2. k[2] \in Nat
            BY <1>4, <5>1, ScenarioTyping
          <5> QED
            BY <1>3, <5>2 DEF Running, HoldsBelow
        <4> QED
          BY <1>4, <4>1
      <3>5. HoldsBelow(t, i + 1)'
        BY <1>4, <1>7, <2>11, <3>4 DEF HoldsBelow
      <3> QED
        BY <1>13, <3>1, <3>3, <3>5
    <2>13. \A x \in Int : x >= d.base => LeavesInTime(t, i, x)'
      BY <1>2, <1>3, <1>4, <1>5, <1>6, <2>1, StandsItsTime
    <2>14. ASSUME d.pending = {} PROVE Departing(t, i)'
      <3>1. Moves(t)' = {f}
        BY <1>3, <2>5, <2>9, <2>10, <2>14 DEF Moves, Event
      <3>2. Held(t)' = {}
        BY <1>7, <2>11, <2>14 DEF Held
      <3>3. LeavesInTime(t, i, f.time)'
        <4> PICK x, base : x = f.time /\ base = d.base
          OBVIOUS
        <4>1. x \in Int /\ x >= base
          BY <2>1, <2>2, <2>5, <2>9, <2>14
        <4>2. LeavesInTime(t, i, x)'
          BY <2>13, <4>1
        <4> QED
          BY <4>2
      <3>4. f.event = Event("depart", t, i)
        BY <2>5, <2>9, <2>14
      <3> QED
        BY <2>9, <2>12, <3>1, <3>2, <3>3, <3>4 DEF Departing
    <2>15. ASSUME d.pending # {} PROVE HeldAt(t, i)'
      <3>1. Moves(t)' = {}
        BY <1>3, <2>5, <2>9, <2>10, <2>15 DEF Moves, Event
      <3>2. Held(t)' = {key}
        BY <1>7, <2>1, <2>11, <2>15 DEF Held
      <3>3. LeavesInTime(t, i, d.base)'
        BY <2>2, <2>13
      <3>4. f.event = Event("conn_deadline", t, i) /\ f.time = d.deadline
        BY <2>5, <2>9, <2>15
      <3>5. Deadlines(key)' = {f}
        <4>1. \A g \in heap' : g.event = Event("conn_deadline", t, i) => g = f
          BY <1>7, <2>10 DEF Event
        <4> QED
          BY <1>7, <2>9, <3>4, <4>1 DEF Deadlines
      <3>6. waiting'[key] = d
        BY <2>11, <2>15
      <3> QED
        BY <1>1, <1>4, <2>9, <2>12, <3>1, <3>2, <3>3, <3>4, <3>5, <3>6 DEF HeldAt
    <2>16. Placed'
      <3>1. \/ AtItsEnd(t)'
            \/ Departing(t, i)'
            \/ HeldAt(t, i)'
        BY <2>14, <2>15
      <3>2. \A k \in DOMAIN b : k \notin DOMAIN R => b[k].event.trip = t
        BY <2>4, <2>6
      <3> QED
        BY <1>10, <2>4, <2>7, <2>11, <3>1, <3>2
    <2>17. LayerTyped'
      <3> PICK P : P = d.pending
        OBVIOUS
      <3>1. \A g \in heap' : g.event.kind = "conn_deadline" =>
                g \in heap \/ <<g.event.trip, g.event.idx>> \in DOMAIN waiting'
        <4>1. f.event.kind = "conn_deadline" => <<f.event.trip, f.event.idx>> \in DOMAIN waiting'
          <5>1. CASE d.pending = {}
            BY <2>5, <2>9, <5>1 DEF Event
          <5>2. CASE d.pending # {}
            <6>1. f.event = Event("conn_deadline", t, i) /\ key \in DOMAIN waiting'
              BY <2>5, <2>9, <2>11, <5>2
            <6> QED
              BY <1>1, <6>1 DEF Event
          <5> QED
            BY <5>1, <5>2
        <4> QED
          BY <2>10, <4>1
      <3>2. /\ DOMAIN waiters' = DOMAIN waiters \cup P
            /\ \A g \in P : waiters'[g] = Append(WaitersOf(g), key)
            /\ \A g \in DOMAIN waiters \ P : waiters'[g] = waiters[g]
        BY <1>13
      <3>3. \E u \in Trips : \E j \in DOMAIN scenario.stops[u] : key = <<u, j>>
        BY <1>1, <1>3
      <3>4. /\ key \in DOMAIN waiting' => waiting'[key] \in Hold /\ waiting'[key].base <= waiting'[key].required
            /\ P # {} => key \in DOMAIN waiting'
            /\ \A k \in DOMAIN waiting : waiting'[k] = WaitingAfter(feeder, at)[k]
        BY <1>1, <2>1, <2>11
      <3>5. /\ scenario' = scenario /\ records' \in Seq(MovementRecord) /\ at \in Nat
            /\ feederArrivals' = Put(feederArrivals, feeder, at) /\ key \notin DOMAIN waiting
            /\ DOMAIN waiting \subseteq DOMAIN waiting' /\ DOMAIN waiting' \subseteq DOMAIN waiting \cup {key}
        BY <1>1, <1>2, <1>4, <1>6, <1>7, <2>11
      <3>6. Arrived(feeder, at, key, P)
        BY <3>1, <3>2, <3>4, <3>5 DEF Arrived
      <3> QED
        BY <3>3, <3>5, <3>6, ArriveTyping
    <2> QED
      BY <1>6, <2>7, <2>16, <2>17 DEF MacroInv
  <1>14. \/ /\ Last(t, i) /\ waiting' = A /\ waiters' = waiters /\ Process(e, R, width)
         \/ /\ ~Last(t, i) /\ Process(e, Put(R, width + 1, Onward(t, i, d)), width + 1)
            /\ waiting' = IF d.pending = {} THEN A ELSE Put(A, key, d)
            /\ waiters' = [f \in DOMAIN waiters \cup d.pending |->
                            IF f \in d.pending THEN Append(WaitersOf(f), key) ELSE waiters[f]]
    BY <1>1 DEF Arrive
  <1> QED
    BY <1>12, <1>13, <1>14

-----------------------------------------------------------------------------
\* The constructor schedules every train that has a starting time, none before
\* the clock's start.
LEMMA OriginsOf ==
    ASSUME scenario \in Scenarios, NEW b, b = Origins(scenario)
    PROVE  /\ DOMAIN b \subseteq 1..Len(scenario.stops) /\ Len(scenario.stops) \in Nat
           /\ \A t \in Trips : t \in DOMAIN b <=> ~NeverStarts(t)
           /\ \A t \in DOMAIN b : /\ t \in Trips /\ b[t].event = Event("depart", t, 0)
                                  /\ b[t].time = Due(t, 0) + Primary(t, Stop(t, 0).seq)
                                  /\ b[t].time \in Nat /\ b[t].event \in Events
  <1>1. DOMAIN b = {t \in Trips : ~NeverStarts(t)}
    BY DEF Origins, Trips, NeverStarts, Stop
  <1>2. Trips = 1..Len(scenario.stops) /\ Len(scenario.stops) \in Nat
    BY ScenarioTyping
  <1>3. ASSUME NEW t \in DOMAIN b
        PROVE  b[t] = At(Due(t, 0) + Primary(t, Stop(t, 0).seq), Event("depart", t, 0))
    BY <1>1, <1>3 DEF Origins, Trips, Due, Primary, Stop, NeverStarts
  <1>4. ASSUME NEW t \in DOMAIN b
        PROVE  /\ t \in Trips /\ b[t].event = Event("depart", t, 0)
               /\ b[t].time = Due(t, 0) + Primary(t, Stop(t, 0).seq)
               /\ b[t].time \in Nat /\ b[t].event \in Events
    <2>1. t \in Trips /\ ~NeverStarts(t)
      BY <1>1
    <2>2. Due(t, 0) + Primary(t, Stop(t, 0).seq) \in Nat
      BY <2>1, ScenarioTyping
    <2>3. /\ b[t].event = Event("depart", t, 0)
          /\ b[t].time = Due(t, 0) + Primary(t, Stop(t, 0).seq)
      BY <1>3 DEF At
    <2>4. Event("depart", t, 0) \in Events
      BY <2>1 DEF Event, Events
    <2> QED
      BY <2>1, <2>2, <2>3, <2>4
  <1> QED
    BY <1>1, <1>2, <1>4

\* At first every trip that starts has its departure pending.
LEMMA InitInv == Init => MacroInv
  <1> SUFFICES ASSUME Init PROVE MacroInv
    OBVIOUS
  <1>1. /\ scenario \in Scenarios /\ records = <<>> /\ feederArrivals = <<>>
        /\ waiting = <<>> /\ waiters = <<>>
    BY DEF Init
  <1>2. PICK b, n : b = Origins(scenario) /\ n = Len(scenario.stops)
    OBVIOUS
  <1>3. /\ DOMAIN b \subseteq 1..n /\ n \in Nat
        /\ \A t \in Trips : t \in DOMAIN b <=> ~NeverStarts(t)
        /\ \A t \in DOMAIN b : /\ t \in Trips /\ b[t].event = Event("depart", t, 0)
                               /\ b[t].time = Due(t, 0) + Primary(t, Stop(t, 0).seq)
                               /\ b[t].time \in Nat /\ b[t].event \in Events
    BY <1>1, <1>2, OriginsOf
  <1>4. QueueOf(Events) /\ heap = FirstEntries(b)
    <2>1. QueueInit(b, n)
      BY <1>2 DEF Init
    <2> QED
      BY <1>3, <2>1, CausalInit
  <1>5. /\ \A f \in heap : \E t \in DOMAIN b : f = FirstEntry(b[t], t)
        /\ \A t \in DOMAIN b : FirstEntry(b[t], t) \in heap
    BY <1>4 DEF FirstEntries
  <1>6. \A t : FirstEntry(b[t], t).event = b[t].event /\ FirstEntry(b[t], t).time = b[t].time
    BY DEF FirstEntry
  <1>7. DOMAIN records = {} /\ DOMAIN waiting = {} /\ DOMAIN waiters = {} /\ DOMAIN feederArrivals = {}
    BY <1>1
  <1>8. Range(records) = {}
    BY <1>7 DEF Range
  <1>9. LayerTyped
    <2>1. records \in Seq(MovementRecord)
      BY <1>1, EmptySeq
    <2>2. ASSUME NEW f \in heap PROVE f.event.kind = "depart"
      <3>1. PICK u \in DOMAIN b : f = FirstEntry(b[u], u)
        BY <1>5
      <3>2. f.event = Event("depart", u, 0)
        BY <1>3, <1>6, <3>1
      <3> QED
        BY <3>2 DEF Event
    <2> QED
      BY <1>1, <1>7, <2>1, <2>2 DEF LayerTyped
  <1>10. ASSUME NEW t \in Trips, NeverStarts(t) PROVE AtItsEnd(t)
    <2>1. \A f \in heap : f.event.trip # t
      <3> SUFFICES ASSUME NEW f \in heap PROVE f.event.trip # t
        OBVIOUS
      <3>1. PICK u \in DOMAIN b : f = FirstEntry(b[u], u)
        BY <1>5
      <3>2. f.event = Event("depart", u, 0)
        BY <1>3, <1>6, <3>1
      <3>3. ~NeverStarts(u)
        BY <1>3
      <3> QED
        BY <1>10, <3>2, <3>3 DEF Event
    <2> QED
      BY <1>7, <1>10, <2>1 DEF AtItsEnd, Moves, Held
  <1>11. ASSUME NEW t \in Trips, ~NeverStarts(t) PROVE Departing(t, 0)
    <2> PICK f : f = FirstEntry(b[t], t)
      OBVIOUS
    <2>1. /\ t \in DOMAIN b /\ f \in heap /\ f.event = Event("depart", t, 0)
          /\ f.time = Due(t, 0) + Primary(t, Stop(t, 0).seq)
      BY <1>3, <1>5, <1>6, <1>11
    <2>2. Moves(t) = {f}
      <3>1. ASSUME NEW g \in heap, g.event.trip = t PROVE g = f
        <4>1. PICK u \in DOMAIN b : g = FirstEntry(b[u], u)
          BY <1>5
        <4>2. g.event = Event("depart", u, 0)
          BY <1>3, <1>6, <4>1
        <4>3. u = t
          BY <3>1, <4>2 DEF Event
        <4> QED
          BY <4>1, <4>3
      <3> QED
        BY <2>1, <3>1 DEF Moves, Event
    <2>3. LeavesInTime(t, 0, f.time)
      <3> PICK x, due, late : x = f.time /\ due = Due(t, 0) /\ late = Primary(t, Stop(t, 0).seq)
        OBVIOUS
      <3>1. x = due + late /\ due \in Nat /\ late \in Int
        BY <1>1, <1>11, <2>1, ScenarioTyping
      <3>2. late >= 0 => x >= due
        BY <3>1
      <3>3. Stop(t, 0).dep # NoTime => due = Stop(t, 0).dep
        BY DEF Due, OrElse
      <3> QED
        BY <1>8, <3>2, <3>3 DEF LeavesInTime, OnTime, Moved
    <2> QED
      BY <1>7, <1>8, <2>1, <2>2, <2>3 DEF Departing, Held, Stopped, HoldsBelow
  <1>12. Placed
    <2>1. \A t \in Trips : 0 \in DOMAIN scenario.stops[t]
      BY <1>1, ScenarioTyping
    <2> QED
      BY <1>10, <1>11, <2>1 DEF Placed
  <1>13. NeverEarly
    BY <1>8 DEF NeverEarly
  <1> QED
    BY <1>4, <1>9, <1>12, <1>13 DEF MacroInv

\* Every handler keeps the invariant.
LEMMA NextInv == ASSUME MacroInv, [Next]_vars PROVE MacroInv'
  <1>1. CASE Turn
    BY <1>1, DepartInv, ArriveInv, ConnDeadlineInv DEF Turn
  <1>2. CASE UNCHANGED vars
    <2>1. /\ heap' = heap /\ sequence' = sequence /\ now' = now /\ raised' = raised
          /\ scenario' = scenario /\ records' = records /\ feederArrivals' = feederArrivals
          /\ waiting' = waiting /\ waiters' = waiters
      BY <1>2 DEF vars
    <2>2. QueueOf(Events)'
      <3>1. Events' = Events
        BY <2>1, ScenarioFixed
      <3> QED
        BY <2>1, <3>1 DEF MacroInv, QueueOf
    <2>3. LayerTyped'
      <3>1. Trips' = Trips /\ MovementRecord' = MovementRecord /\ Hold' = Hold
        BY <2>1, ScenarioFixed
      <3> QED
        BY <2>1, <3>1 DEF MacroInv, LayerTyped
    <2>4. ASSUME NEW t \in Trips
          PROVE  \/ AtItsEnd(t)'
                 \/ /\ ~NeverStarts(t)'
                    /\ \E i \in DOMAIN scenario.stops[t] : Departing(t, i)' \/ Running(t, i)' \/ HeldAt(t, i)'
      <3>1. Keeps(t)
        BY <2>1 DEF Keeps
      <3>2. Moves(t)' = Moves(t) /\ Held(t)' = Held(t) /\ (NeverStarts(t)' <=> NeverStarts(t))
        BY <2>1, ScenarioFixed DEF Moves, Held
      <3>3. /\ AtItsEnd(t) => AtItsEnd(t)'
            /\ \A i : Departing(t, i) => Departing(t, i)'
            /\ \A i : Running(t, i) => Running(t, i)'
            /\ \A i : HeldAt(t, i) => HeldAt(t, i)'
        <4>1. \A i : Last(t, i)' <=> Last(t, i)
          BY <2>1, ScenarioFixed
        <4>2. \A key : Deadlines(key)' = Deadlines(key)
          BY <2>1 DEF Deadlines
        <4>3. AtItsEnd(t) => AtItsEnd(t)'
          BY <3>1, <3>2, Unmoved DEF AtItsEnd
        <4>4. \A i : Departing(t, i) => Departing(t, i)'
          BY <2>1, <3>1, <3>2, <4>1, Unmoved DEF Departing
        <4>5. \A i : Running(t, i) => Running(t, i)'
          BY <2>1, <3>1, <3>2, Unmoved DEF Running
        <4>6. \A i : HeldAt(t, i) => HeldAt(t, i)'
          BY <2>1, <3>1, <3>2, <4>1, <4>2, Unmoved DEF HeldAt
        <4> QED
          BY <4>3, <4>4, <4>5, <4>6
      <3> QED
        BY <3>2, <3>3 DEF MacroInv, Placed
    <2>5. Placed'
      <3>1. Trips' = Trips
        BY <2>1, ScenarioFixed
      <3> QED
        BY <2>1, <2>4, <3>1 DEF Placed
    <2>6. NeverEarly'
      BY <2>1 DEF MacroInv, NeverEarly, Moved, Stop, Primary, Timed
    <2> QED
      BY <2>2, <2>3, <2>5, <2>6 DEF MacroInv
  <1> QED
    BY <1>1, <1>2 DEF Next, Finished

\* Every reachable state of every scenario is one of these.
THEOREM MacroInvariant == Spec => []MacroInv
  <1>1. MacroInv /\ [Next]_vars => MacroInv'
    BY NextInv
  <1> QED
    BY InitInv, <1>1, PTL DEF Spec

-----------------------------------------------------------------------------
\* The places of the trains put their events and holds at stops they have.
LEMMA MacroTyped == MacroInv => TypeOK
  <1> SUFFICES ASSUME MacroInv PROVE TypeOK
    OBVIOUS
  <1>1. scenario \in Scenarios
    BY DEF MacroInv, LayerTyped
  <1>2. ASSUME NEW e \in heap PROVE IsEntry(e) /\ e.seq < sequence
    <2>1. /\ e.time \in Nat /\ e.event.trip \in Trips
          /\ e.event.kind \in {"depart", "arrive", "conn_deadline"}
      BY EventTyping
    <2>2. e.seq \in Nat /\ e.seq < sequence
      BY DEF MacroInv, QueueOf
    <2>3. e.event.idx \in DOMAIN scenario.stops[e.event.trip]
      <3>1. CASE e.event.kind = "depart"
        BY <3>1, DepartsAt
      <3>2. CASE e.event.kind = "arrive"
        BY <3>2, ArrivesAt
      <3>3. CASE e.event.kind = "conn_deadline"
        <4> PICK u, j : u = e.event.trip /\ j = e.event.idx
          OBVIOUS
        <4>1. <<u, j>> \in DOMAIN waiting
          BY <3>3 DEF MacroInv, LayerTyped
        <4>2. PICK t \in Trips : \E i \in DOMAIN scenario.stops[t] : <<u, j>> = <<t, i>>
          BY <4>1 DEF MacroInv, LayerTyped
        <4>3. u = t /\ j \in DOMAIN scenario.stops[t]
          BY <4>2
        <4> QED
          BY <4>3
      <3> QED
        BY <2>1, <3>1, <3>2, <3>3
    <2> QED
      BY <2>1, <2>2, <2>3 DEF IsEntry
  <1>3. ASSUME NEW key \in DOMAIN waiting
        PROVE  key[1] \in Trips /\ key[2] \in DOMAIN scenario.stops[key[1]]
    <2>1. PICK t \in Trips : \E i \in DOMAIN scenario.stops[t] : key = <<t, i>>
      BY DEF MacroInv, LayerTyped
    <2>2. PICK i \in DOMAIN scenario.stops[t] : key = <<t, i>>
      BY <2>1
    <2> QED
      BY <2>2
  <1>4. sequence \in Nat /\ now \in Int /\ raised \in BOOLEAN
    <2>1. sequence \in Nat /\ now \in Nat /\ raised = FALSE
      BY DEF MacroInv, QueueOf
    <2>2. raised \in BOOLEAN
      BY <2>1, Zenon
    <2> QED
      BY <2>1, <2>2
  <1>5. /\ records \in Seq(MovementRecord)
        /\ \A f \in DOMAIN feederArrivals : feederArrivals[f] \in Int
        /\ \A key \in DOMAIN waiting : waiting[key] \in Hold /\ waiting[key].base <= waiting[key].required
        /\ \A f \in DOMAIN waiters : waiters[f] \in Seq(DOMAIN waiting)
    BY DEF MacroInv, LayerTyped
  <1> QED
    BY <1>2, <1>3, <1>4, <1>5 DEF TypeOK

\* Where each train is gives it one pending movement or one hold.
LEMMA FuturesArePlaced == MacroInv => OneFuture
  <1> SUFFICES ASSUME MacroInv PROVE OneFuture
    OBVIOUS
  <1>1. ASSUME NEW t \in Trips
        PROVE  IF Terminated(t) \/ NeverStarts(t)
                 THEN Moves(t) = {} /\ Held(t) = {}
                 ELSE \/ Held(t) = {} /\ \E e \in heap : Moves(t) = {e}
                      \/ /\ Moves(t) = {}
                         /\ \E key \in DOMAIN waiting, e \in heap :
                               /\ Held(t) = {key}
                               /\ Deadlines(key) = {e}
                               /\ e.time = waiting[key].deadline
    <2>1. CASE AtItsEnd(t)
      BY <2>1 DEF AtItsEnd
    <2>2. CASE /\ ~NeverStarts(t)
               /\ \E i \in DOMAIN scenario.stops[t] : Departing(t, i) \/ Running(t, i) \/ HeldAt(t, i)
      <3>1. PICK i \in DOMAIN scenario.stops[t] : Departing(t, i) \/ Running(t, i) \/ HeldAt(t, i)
        BY <2>2
      <3>2. ~Terminated(t)
        BY <3>1 DEF Terminated, Departing, Running, HeldAt, Stopped, Passed
      <3>3. CASE Departing(t, i) \/ Running(t, i)
        BY <2>2, <3>2, <3>3 DEF Departing, Running
      <3>4. CASE HeldAt(t, i)
        <4> PICK key : key = <<t, i>>
          OBVIOUS
        <4>1. key \in DOMAIN waiting
          BY <3>4 DEF HeldAt, Held
        <4> QED
          BY <2>2, <3>2, <3>4, <4>1 DEF HeldAt
      <3> QED
        BY <3>1, <3>3, <3>4
    <2> QED
      BY <2>1, <2>2 DEF MacroInv, Placed
  <1>2. TypeOK /\ ~raised
    BY MacroTyped DEF MacroInv, QueueOf
  <1> QED
    BY <1>1, <1>2 DEF OneFuture

\* Whatever the timetable, the delays and the connections, a train has one
\* pending movement or one hold with one deadline until its last stop, and no
\* handler schedules anything for the past.
THEOREM FuturesAreUnique == Spec => []OneFuture
  BY MacroInvariant, FuturesArePlaced, PTL

\* No hold, release or deadline sends a train off before its schedule or its
\* dwell time.
THEOREM NothingIsEarly == Spec => []NeverEarly
  <1>1. MacroInv => NeverEarly
    BY DEF MacroInv
  <1> QED
    BY <1>1, MacroInvariant, PTL

\* A run ends with every train at its last stop: no hold is left that nothing
\* would end.
THEOREM NobodyIsLeftBehind == Spec => [](heap = {} => \A t \in Trips : Terminated(t) \/ NeverStarts(t))
  <1>1. OneFuture /\ heap = {} => \A t \in Trips : Terminated(t) \/ NeverStarts(t)
    <2> SUFFICES ASSUME OneFuture, heap = {}, NEW t \in Trips, ~Terminated(t), ~NeverStarts(t)
                 PROVE  FALSE
      OBVIOUS
    <2>1. (\E e \in heap : Moves(t) = {e}) \/ (\E e \in heap : TRUE)
      BY DEF OneFuture
    <2> QED
      BY <2>1
  <1> QED
    BY <1>1, FuturesAreUnique, PTL

-----------------------------------------------------------------------------
\* What each handler does to the heap, the records and the holds: the facts
\* the next two invariants are kept by.
Feed(e) == <<e.event.trip, Stop(e.event.trip, e.event.idx).stop>>
Arrivals(e) == Put(feederArrivals, Feed(e), e.time)
DecisionAt(e) == Decision(e.event.trip, e.event.idx, e.time, Arrivals(e))
KeyOf(e) == <<e.event.trip, e.event.idx>>
HoldAfter(e, key) == WaitingAfter(Feed(e), e.time)[key]

\* _on_depart records the departure and calls at most for the next arrival.
LEMMA DepartEffect ==
    ASSUME MacroInv, NEW e \in heap, Depart(e), NEW t, NEW i, t = e.event.trip, i = e.event.idx
    PROVE  /\ e.event.kind = "depart" /\ scenario' = scenario
           /\ feederArrivals' = feederArrivals /\ waiting' = waiting /\ waiters' = waiters
           /\ \E rec : /\ rec.trip = t /\ rec.idx = i /\ rec.event = "depart" /\ rec.time = e.time
                       /\ Range(records') = Range(records) \cup {rec}
           /\ \A g \in heap' :
                \/ g \in heap \ {e}
                \/ /\ ~Last(t, i) /\ g.event = Event("arrive", t, i + 1)
                   /\ g.time = e.time + RunningTime(Stop(t, i), Stop(t, i + 1))
  <1>1. PICK rec : rec = [time |-> e.time, trip |-> t, idx |-> i, event |-> "depart"]
    OBVIOUS
  <1>2. /\ e.event.kind = "depart" /\ records' = Append(records, rec)
        /\ scenario' = scenario /\ feederArrivals' = feederArrivals
        /\ waiting' = waiting /\ waiters' = waiters
    BY <1>1 DEF Depart, Record
  <1>3. t \in Trips /\ i \in DOMAIN scenario.stops[t]
    BY <1>2, DepartsAt
  <1>4. scenario \in Scenarios /\ e.time \in Nat /\ i \in Nat
    BY <1>3, EventTyping, ScenarioTyping DEF MacroInv, LayerTyped
  <1>5. rec \in MovementRecord /\ rec.trip = t /\ rec.idx = i /\ rec.event = "depart" /\ rec.time = e.time
    BY <1>1, <1>3, <1>4 DEF MovementRecord
  <1>6. Range(records') = Range(records) \cup {rec}
    BY <1>2, <1>5, RecordAppended DEF MacroInv, LayerTyped
  <1>7. CASE Last(t, i) /\ Process(e, NoEvents, 0)
    <2>1. heap' = (heap \ {e}) \cup {}
      BY <1>2, <1>7, NoCall
    <2> QED
      BY <1>2, <1>5, <1>6, <2>1
  <1>8. CASE /\ ~Last(t, i)
             /\ Process(e, <<At(e.time + RunningTime(Stop(t, i), Stop(t, i + 1)), Event("arrive", t, i + 1))>>, 1)
    <2>1. PICK run, c, j : /\ run = RunningTime(Stop(t, i), Stop(t, i + 1)) /\ j = i + 1
                           /\ c = At(e.time + run, Event("arrive", t, j))
      OBVIOUS
    <2>2. j \in DOMAIN scenario.stops[t] /\ j \in Nat
      BY <1>4, <1>8, <2>1 DEF Last
    <2>3. run \in Nat
      BY <1>3, <1>4, <2>1, <2>2, RunOf
    <2>4. /\ c.time \in Nat /\ c.time >= e.time /\ c.time = e.time + run
          /\ c.event = Event("arrive", t, j) /\ c.event \in Events
      BY <1>3, <1>4, <2>1, <2>2, <2>3 DEF At, Event, Events
    <2>5. PICK f : f = NewEntry(c, 1)
      OBVIOUS
    <2>6. heap' = (heap \ {e}) \cup {f} /\ f.event = c.event /\ f.time = c.time
      BY <1>2, <1>8, <2>1, <2>4, <2>5, OneCall
    <2>7. \A g \in heap' : g \in heap \ {e} \/ g = f
      BY <2>6
    <2>8. f.event = Event("arrive", t, i + 1) /\ f.time = e.time + RunningTime(Stop(t, i), Stop(t, i + 1))
      BY <2>1, <2>4, <2>6
    <2> QED
      BY <1>2, <1>5, <1>6, <1>8, <2>7, <2>8
  <1> QED
    BY <1>7, <1>8 DEF Depart

\* A deadline leaves the records alone and sends on only the train it ends
\* the hold of.
LEMMA DeadlineEffect ==
    ASSUME MacroInv, NEW e \in heap, ConnDeadline(e), NEW key, key = KeyOf(e)
    PROVE  /\ e.event = Event("conn_deadline", key[1], key[2]) /\ scenario' = scenario
           /\ records' = records /\ feederArrivals' = feederArrivals /\ waiters' = waiters
           /\ DOMAIN waiting' = DOMAIN waiting
           /\ \A k \in DOMAIN waiting : waiting'[k] = waiting[k] \/ waiting'[k] = [waiting[k] EXCEPT !.resolved = TRUE]
           /\ \A g \in heap' :
                \/ g \in heap \ {e}
                \/ /\ key \in DOMAIN waiting /\ ~waiting[key].resolved
                   /\ g.event = Event("depart", key[1], key[2])
                   /\ g.time = Larger(waiting[key].required, e.time)
  <1>1. PICK t, i : t = e.event.trip /\ i = e.event.idx
    OBVIOUS
  <1>2. /\ e.event.kind = "conn_deadline" /\ records' = records /\ scenario' = scenario
        /\ feederArrivals' = feederArrivals /\ waiters' = waiters
    BY DEF ConnDeadline
  <1>3. key = <<t, i>> /\ key[1] = t /\ key[2] = i
    BY <1>1 DEF KeyOf
  <1>4. e.event = Event("conn_deadline", t, i) /\ e.time \in Nat /\ t \in Trips /\ i \in Nat
    BY <1>1, <1>2, EventTyping
  <1>5. CASE key \in DOMAIN waiting /\ ~waiting[key].resolved
    <2>1. /\ waiting' = [waiting EXCEPT ![key].resolved = TRUE]
          /\ Process(e, <<Finalized(key, waiting[key], e.time)>>, 1)
      BY <1>5 DEF ConnDeadline, KeyOf
    <2>2. PICK x, r : x = Larger(r, e.time) /\ r = waiting[key].required
      OBVIOUS
    <2>3. x \in Nat /\ x >= e.time
      <3>1. r \in Int
        BY <1>5, <2>2 DEF MacroInv, LayerTyped, Hold
      <3>2. x \in Int /\ x >= e.time
        <4> PICK at : at = e.time
          OBVIOUS
        <4>1. r \in Int /\ at \in Int
          BY <1>4, <3>1
        <4>2. Larger(r, at) \in Int /\ Larger(r, at) >= at
          BY <4>1, LargerOf
        <4> QED
          BY <2>2, <4>2
      <3> QED
        BY <1>4, <3>2
    <2>4. PICK c : c = At(x, Event("depart", t, i))
      OBVIOUS
    <2>5. /\ Process(e, <<c>>, 1) /\ c.time = x /\ c.event = Event("depart", t, i) /\ c.event \in Events
      BY <1>3, <1>4, <2>1, <2>2, <2>4 DEF Finalized, At, Event, Events
    <2>6. PICK f : f = NewEntry(c, 1)
      OBVIOUS
    <2>7. heap' = (heap \ {e}) \cup {f} /\ f.event = c.event /\ f.time = c.time
      BY <1>2, <1>4, <2>3, <2>5, <2>6, OneCall
    <2>8. \A g \in heap' : g \in heap \ {e} \/ g = f
      BY <2>7
    <2>9. /\ DOMAIN waiting' = DOMAIN waiting
          /\ \A k \in DOMAIN waiting : waiting'[k] = waiting[k] \/ waiting'[k] = [waiting[k] EXCEPT !.resolved = TRUE]
      BY <1>5, <2>1
    <2> QED
      BY <1>2, <1>3, <1>4, <1>5, <2>2, <2>5, <2>7, <2>8, <2>9
  <1>6. CASE ~(key \in DOMAIN waiting /\ ~waiting[key].resolved)
    <2>1. waiting' = waiting /\ Process(e, NoEvents, 0)
      BY <1>6 DEF ConnDeadline, KeyOf
    <2>2. heap' = (heap \ {e}) \cup {}
      BY <1>2, <2>1, NoCall
    <2> QED
      BY <1>2, <1>3, <1>4, <2>1, <2>2
  <1> QED
    BY <1>5, <1>6

\* _on_arrive records the arrival, tells the connectors that wait for the train
\* and sends on those whose hold it ends, and decides the train's own departure.
LEMMA ArriveEffect ==
    ASSUME MacroInv, NEW e \in heap, Arrive(e), NEW t, NEW i, t = e.event.trip, i = e.event.idx
    PROVE  /\ e.event.kind = "arrive" /\ scenario' = scenario
           /\ feederArrivals' = Arrivals(e)
           /\ \E rec : /\ rec.trip = t /\ rec.idx = i /\ rec.event = "arrive" /\ rec.time = e.time
                       /\ Range(records') = Range(records) \cup {rec}
           /\ DOMAIN waiting \subseteq DOMAIN waiting'
           /\ \A k \in DOMAIN waiting : waiting'[k] = HoldAfter(e, k)
           /\ \A k \in DOMAIN waiting' : k \in DOMAIN waiting
                \/ (k = <<t, i>> /\ ~Last(t, i) /\ DecisionAt(e).pending # {} /\ waiting'[k] = DecisionAt(e))
           /\ \A f : \A k \in DOMAIN WaitersOf(f) :
                k \in DOMAIN WaitersOf(f)' /\ WaitersOf(f)'[k] = WaitersOf(f)[k]
           /\ \A f \in DecisionAt(e).pending : ~Last(t, i) =>
                \E k \in DOMAIN WaitersOf(f)' : WaitersOf(f)'[k] = <<t, i>>
           /\ \A g \in heap' :
                \/ g \in heap \ {e}
                \/ \E k \in DOMAIN waiting :
                    /\ ~waiting[k].resolved /\ HoldAfter(e, k).resolved
                    /\ g.event = Event("depart", k[1], k[2])
                    /\ g.time = Larger(HoldAfter(e, k).required, e.time)
                \/ /\ ~Last(t, i)
                   /\ g.event = Onward(t, i, DecisionAt(e)).event /\ g.time = Onward(t, i, DecisionAt(e)).time
  <1>1. PICK feeder, at, rec, key, arrivals, A, R, width, d :
            /\ feeder = <<t, Stop(t, i).stop>> /\ at = e.time
            /\ rec = [time |-> at, trip |-> t, idx |-> i, event |-> "arrive"] /\ key = <<t, i>>
            /\ arrivals = Put(feederArrivals, feeder, at)
            /\ A = WaitingAfter(feeder, at) /\ R = Releases(feeder, at)
            /\ width = Len(WaitersOf(feeder)) /\ d = Decision(t, i, at, arrivals)
    OBVIOUS
  <1>2. /\ e.event.kind = "arrive" /\ records' = Append(records, rec)
        /\ scenario' = scenario /\ feederArrivals' = arrivals
    BY <1>1 DEF Arrive, Record
  <1>3. /\ arrivals = Arrivals(e) /\ d = DecisionAt(e)
        /\ \A k : HoldAfter(e, k) = A[k]
    BY <1>1 DEF Arrivals, Feed, DecisionAt, HoldAfter
  <1>4. t \in Trips /\ i \in DOMAIN scenario.stops[t] /\ Running(t, i)
    BY <1>1, <1>2, ArrivesAt
  <1>5. scenario \in Scenarios /\ LayerTyped /\ at \in Nat /\ i \in Nat /\ i > 0
    BY <1>1, <1>4, EventTyping, ScenarioTyping DEF MacroInv, LayerTyped, Running
  <1>6. /\ rec \in MovementRecord /\ rec.trip = t /\ rec.idx = i /\ rec.event = "arrive" /\ rec.time = e.time
    BY <1>1, <1>4, <1>5 DEF MovementRecord
  <1>7. Range(records') = Range(records) \cup {rec}
    BY <1>2, <1>6, RecordAppended DEF MacroInv, LayerTyped
  <1>8. width \in Nat /\ DOMAIN R \subseteq 1..width /\ DOMAIN A = DOMAIN waiting
    <2>1. width \in Nat /\ DOMAIN WaitersOf(feeder) = 1..width
      BY <1>1, <1>5, WaitersTyping
    <2>2. DOMAIN R \subseteq DOMAIN WaitersOf(feeder)
      BY <1>1 DEF Releases
    <2> QED
      BY <1>1, <2>1, <2>2 DEF WaitingAfter
  <1>9. ASSUME NEW k \in DOMAIN R
        PROVE  \E x \in DOMAIN waiting : /\ ~waiting[x].resolved /\ A[x].resolved
                                         /\ R[k].event = Event("depart", x[1], x[2])
                                         /\ R[k].time = Larger(A[x].required, at)
    <2>1. PICK x : x = WaitersOf(feeder)[k]
      OBVIOUS
    <2>2. x \in DOMAIN waiting /\ ~waiting[x].resolved /\ A[x].resolved
      BY <1>1, <1>5, <1>9, <2>1, ReleasedAt
    <2>3. R[k] = Finalized(x, A[x], at)
      BY <1>1, <1>9, <2>1 DEF Releases
    <2>4. R[k].event = Event("depart", x[1], x[2]) /\ R[k].time = Larger(A[x].required, at)
      BY <2>3 DEF Finalized, At
    <2> QED
      BY <2>2, <2>4
  <1>10. \A c, k : NewEntry(c, k).event = c.event /\ NewEntry(c, k).time = c.time
    BY DEF NewEntry
  <1>11. CASE /\ Last(t, i) /\ waiting' = A /\ waiters' = waiters /\ Process(e, R, width)
    <2>1. heap' = (heap \ {e}) \cup NewEntries(R)
      <3>1. \A k \in DOMAIN R : k \in DOMAIN Releases(feeder, e.time) /\ R[k] = Releases(feeder, e.time)[k]
        BY <1>1
      <3>2. Len(WaitersOf(feeder)) <= width
        BY <1>1, <1>8
      <3>3. scenario' = scenario /\ width \in Nat /\ DOMAIN R \subseteq 1..width /\ Process(e, R, width)
        BY <1>2, <1>8, <1>11
      <3> QED
        BY <3>1, <3>2, <3>3, ArriveCalls
    <2>2. ASSUME NEW g \in heap', g \notin heap \ {e}
          PROVE  \E k \in DOMAIN waiting :
                    /\ ~waiting[k].resolved /\ A[k].resolved
                    /\ g.event = Event("depart", k[1], k[2]) /\ g.time = Larger(A[k].required, at)
      <3>1. PICK k \in DOMAIN R : g = NewEntry(R[k], k)
        BY <2>1, <2>2 DEF NewEntries
      <3>2. g.event = R[k].event /\ g.time = R[k].time
        BY <1>10, <3>1
      <3> QED
        BY <1>9, <3>2
    <2>3. \A f : WaitersOf(f)' = WaitersOf(f)
      BY <1>11 DEF WaitersOf
    <2>4. at = e.time
      BY <1>1
    <2>5. /\ DOMAIN waiting' = DOMAIN waiting
          /\ \A k \in DOMAIN waiting : waiting'[k] = HoldAfter(e, k)
      BY <1>3, <1>8, <1>11
    <2>6. \A g \in heap' : g \in heap \ {e} \/ \E k \in DOMAIN waiting :
                    /\ ~waiting[k].resolved /\ HoldAfter(e, k).resolved
                    /\ g.event = Event("depart", k[1], k[2]) /\ g.time = Larger(HoldAfter(e, k).required, e.time)
      BY <1>3, <2>2, <2>4
    <2> QED
      BY <1>2, <1>3, <1>6, <1>7, <1>11, <2>3, <2>5, <2>6
  <1>12. ASSUME ~Last(t, i),
                NEW b, b = Put(R, width + 1, Onward(t, i, d)), Process(e, b, width + 1),
                waiting' = IF d.pending = {} THEN A ELSE Put(A, key, d),
                waiters' = [f \in DOMAIN waiters \cup d.pending |->
                                IF f \in d.pending THEN Append(WaitersOf(f), key) ELSE waiters[f]]
         PROVE  /\ DOMAIN waiting \subseteq DOMAIN waiting'
                /\ \A k \in DOMAIN waiting : waiting'[k] = A[k]
                /\ \A k \in DOMAIN waiting' : k \in DOMAIN waiting
                     \/ (k = key /\ d.pending # {} /\ waiting'[k] = d)
                /\ \A f : \A k \in DOMAIN WaitersOf(f) :
                     k \in DOMAIN WaitersOf(f)' /\ WaitersOf(f)'[k] = WaitersOf(f)[k]
                /\ \A f \in d.pending : \E k \in DOMAIN WaitersOf(f)' : WaitersOf(f)'[k] = key
                /\ \A g \in heap' :
                     \/ g \in heap \ {e}
                     \/ \E k \in DOMAIN waiting :
                         /\ ~waiting[k].resolved /\ A[k].resolved
                         /\ g.event = Event("depart", k[1], k[2]) /\ g.time = Larger(A[k].required, at)
                     \/ g.event = Onward(t, i, d).event /\ g.time = Onward(t, i, d).time
    <2>1. key \notin DOMAIN waiting
      BY <1>1, <1>4, NoHoldYet
    <2>2. /\ DOMAIN waiting \subseteq DOMAIN waiting'
          /\ \A k \in DOMAIN waiting : waiting'[k] = A[k]
          /\ \A k \in DOMAIN waiting' : k \in DOMAIN waiting
                \/ (k = key /\ d.pending # {} /\ waiting'[k] = d)
      <3>1. CASE d.pending = {}
        BY <1>8, <1>12, <3>1
      <3>2. CASE d.pending # {}
        BY <1>8, <1>12, <2>1, <3>2 DEF Put
      <3> QED
        BY <3>1, <3>2
    <2>3. /\ d \in Hold /\ d.base \in Nat /\ d.base >= at /\ d.base <= d.required
          /\ d.required \in Nat /\ d.deadline \in Nat /\ d.base <= d.deadline
      <3>1. \A f \in DOMAIN arrivals : arrivals[f] \in Int
        BY <1>1, <1>5 DEF LayerTyped, Put
      <3>2. /\ d \in Hold /\ d.base = Base(t, i, at) /\ d.base <= d.required
            /\ d.required \in Nat /\ d.deadline \in Nat /\ d.base <= d.deadline
        <4>1. /\ t \in Trips /\ i \in DOMAIN scenario.stops[t] /\ i > 0 /\ at \in Nat /\ scenario \in Scenarios
              /\ d = Decision(t, i, at, arrivals)
          BY <1>1, <1>4, <1>5
        <4> QED
          BY <3>1, <4>1, DecisionOf
      <3>3. d.base \in Nat /\ d.base >= at + scenario.minDwell
        BY <1>4, <1>5, <3>2, BaseOf
      <3>4. scenario.minDwell \in Nat
        BY <1>5, ScenarioTyping
      <3>5. d.base >= at
        BY <1>5, <3>3, <3>4
      <3> QED
        BY <3>2, <3>3, <3>5
    <2>4. PICK c, n : c = Onward(t, i, d) /\ n = width + 1
      OBVIOUS
    <2>5. /\ n \in Nat /\ n \notin DOMAIN R /\ width <= n
          /\ DOMAIN b = DOMAIN R \cup {n} /\ DOMAIN b \subseteq 1..n /\ b[n] = c
          /\ \A k \in DOMAIN R : b[k] = R[k]
      <3>1. n \in Nat /\ n \notin DOMAIN R /\ width <= n /\ n \in 1..n /\ DOMAIN R \subseteq 1..n
        BY <1>8, <2>4
      <3> QED
        BY <1>12, <2>4, <3>1 DEF Put
    <2>6. /\ c.event = Event(IF d.pending = {} THEN "depart" ELSE "conn_deadline", t, i)
          /\ c.time = IF d.pending = {} THEN d.required ELSE d.deadline
      BY <2>4 DEF Onward, At
    <2>7. c.event \in Events /\ c.time \in Nat /\ c.time >= at
      <3>1. c.event \in Events
        BY <1>4, <1>5, <2>6 DEF Event, Events
      <3> PICK x, base : x = c.time /\ base = d.base
        OBVIOUS
      <3>2. x \in Nat /\ base \in Nat /\ base <= x /\ base >= at
        BY <2>3, <2>6
      <3>3. x >= at
        BY <1>5, <3>2
      <3> QED
        BY <3>1, <3>2, <3>3
    <2>8. heap' = (heap \ {e}) \cup NewEntries(b)
      <3>1. \A k \in DOMAIN b :
                \/ k \in DOMAIN Releases(feeder, e.time) /\ b[k] = Releases(feeder, e.time)[k]
                \/ b[k].time \in Nat /\ b[k].event \in Events /\ b[k].time >= e.time
        BY <1>1, <2>5, <2>7
      <3>2. Len(WaitersOf(feeder)) <= n /\ n \in Nat /\ DOMAIN b \subseteq 1..n /\ Process(e, b, n)
        BY <1>1, <1>12, <2>4, <2>5
      <3> QED
        BY <1>2, <3>1, <3>2, ArriveCalls
    <2>9. ASSUME NEW g \in heap', g \notin heap \ {e}
          PROVE  \/ \E k \in DOMAIN waiting :
                    /\ ~waiting[k].resolved /\ A[k].resolved
                    /\ g.event = Event("depart", k[1], k[2]) /\ g.time = Larger(A[k].required, at)
                 \/ g.event = c.event /\ g.time = c.time
      <3>1. PICK k \in DOMAIN b : g = NewEntry(b[k], k)
        BY <2>8, <2>9 DEF NewEntries
      <3>2. g.event = b[k].event /\ g.time = b[k].time
        BY <1>10, <3>1
      <3> QED
        BY <1>9, <2>5, <3>2
    <2>10. ASSUME NEW f
           PROVE  /\ \A k \in DOMAIN WaitersOf(f) :
                        k \in DOMAIN WaitersOf(f)' /\ WaitersOf(f)'[k] = WaitersOf(f)[k]
                  /\ f \in d.pending => \E k \in DOMAIN WaitersOf(f)' : WaitersOf(f)'[k] = key
      <3>1. CASE f \in d.pending
        <4> PICK q, p : q = WaitersOf(f) /\ p = WaitersOf(f)'
          OBVIOUS
        <4>1. p = Append(q, key)
          BY <1>12, <3>1 DEF WaitersOf
        <4> PICK T : T = DOMAIN waiting \cup {key}
          OBVIOUS
        <4>2. q \in Seq(T) /\ key \in T
          <5>1. q \in Seq(DOMAIN waiting)
            BY <1>5, WaitersTyping
          <5>2. Len(q) \in Nat /\ DOMAIN q = 1..Len(q) /\ \A k \in 1..Len(q) : q[k] \in DOMAIN waiting
            BY <5>1, LenProperties, ElementOfSeq
          <5> QED
            BY <5>1, <5>2, SeqDef
        <4>3. /\ p \in Seq(T) /\ Len(p) = Len(q) + 1 /\ p[Len(q) + 1] = key
              /\ \A k \in 1..Len(q) : p[k] = q[k]
          BY <4>1, <4>2, AppendProperties
        <4>4. Len(q) \in Nat /\ DOMAIN q = 1..Len(q) /\ DOMAIN p = 1..(Len(q) + 1)
          BY <4>2, <4>3, LenProperties
        <4>5. PICK n2 : n2 = Len(q)
          OBVIOUS
        <4>6. n2 \in Nat /\ DOMAIN q = 1..n2 /\ DOMAIN p = 1..(n2 + 1) /\ p[n2 + 1] = key /\ \A k \in 1..n2 : p[k] = q[k]
          BY <4>3, <4>4, <4>5
        <4>7. n2 + 1 \in DOMAIN p /\ DOMAIN q \subseteq DOMAIN p
          BY <4>6
        <4> QED
          BY <4>6, <4>7
      <3>2. CASE f \notin d.pending
        <4>1. WaitersOf(f)' = WaitersOf(f)
          BY <1>12, <3>2 DEF WaitersOf
        <4> QED
          BY <3>2, <4>1
      <3> QED
        BY <3>1, <3>2
    <2> QED
      BY <2>2, <2>4, <2>9, <2>10
  <1>13. \/ /\ Last(t, i) /\ waiting' = A /\ waiters' = waiters /\ Process(e, R, width)
         \/ /\ ~Last(t, i)
            /\ waiting' = IF d.pending = {} THEN A ELSE Put(A, key, d)
            /\ waiters' = [f \in DOMAIN waiters \cup d.pending |->
                            IF f \in d.pending THEN Append(WaitersOf(f), key) ELSE waiters[f]]
            /\ Process(e, Put(R, width + 1, Onward(t, i, d)), width + 1)
    BY <1>1 DEF Arrive
  <1>14. CASE ~Last(t, i)
    <2>1. PICK b : b = Put(R, width + 1, Onward(t, i, d))
      OBVIOUS
    <2>2. /\ waiting' = IF d.pending = {} THEN A ELSE Put(A, key, d)
          /\ waiters' = [f \in DOMAIN waiters \cup d.pending |->
                            IF f \in d.pending THEN Append(WaitersOf(f), key) ELSE waiters[f]]
          /\ Process(e, b, width + 1)
      BY <1>13, <1>14, <2>1
    <2>3. /\ DOMAIN waiting \subseteq DOMAIN waiting'
          /\ \A k \in DOMAIN waiting : waiting'[k] = A[k]
          /\ \A k \in DOMAIN waiting' : k \in DOMAIN waiting
                \/ (k = key /\ d.pending # {} /\ waiting'[k] = d)
          /\ \A f : \A k \in DOMAIN WaitersOf(f) :
                k \in DOMAIN WaitersOf(f)' /\ WaitersOf(f)'[k] = WaitersOf(f)[k]
          /\ \A f \in d.pending : \E k \in DOMAIN WaitersOf(f)' : WaitersOf(f)'[k] = key
          /\ \A g \in heap' :
                \/ g \in heap \ {e}
                \/ \E k \in DOMAIN waiting :
                     /\ ~waiting[k].resolved /\ A[k].resolved
                     /\ g.event = Event("depart", k[1], k[2]) /\ g.time = Larger(A[k].required, at)
                \/ g.event = Onward(t, i, d).event /\ g.time = Onward(t, i, d).time
      BY <1>12, <1>14, <2>1, <2>2
    <2>4. at = e.time /\ key = <<t, i>>
      BY <1>1
    <2> HIDE DEF WaitersOf, Onward, HoldAfter, DecisionAt
    <2> QED
      BY <1>2, <1>3, <1>6, <1>7, <1>14, <2>3, <2>4
  <1> QED
    BY <1>11, <1>13, <1>14
-----------------------------------------------------------------------------
\* What can make a train late at its j-th stop.
Cause(t, j) ==
    \/ Primary(t, Stop(t, j).seq) > 0
    \/ j > 0 /\ Conns(t, Stop(t, j).seq) # {}
    \/ j > 0 /\ Stop(t, j).dep - Stop(t, j).arr < scenario.minDwell

Undisturbed(t, n) == \A j \in 0..n : ~Cause(t, j)

\* The train has times at all its stops, and reaches none before it leaves the
\* one before.
WellTimed(t) ==
    \A i \in DOMAIN scenario.stops[t] : ~Last(t, i) =>
        /\ Due(t, i) # NoTime /\ (i > 0 => Stop(t, i).arr # NoTime /\ Stop(t, i).dep # NoTime)
        /\ Stop(t, i + 1).arr # NoTime /\ Due(t, i) <= Stop(t, i + 1).arr

Unhurried(t, i, kind, x) ==
    WellTimed(t) =>
        /\ kind = "depart" /\ Undisturbed(t, i) => x <= Due(t, i)
        /\ kind = "arrive" /\ Undisturbed(t, i - 1) => x <= Stop(t, i).arr

\* No movement, done or to come, is late before something has disturbed its
\* train; only connections begin holds.
CauseInv ==
    /\ \A r \in Range(records) :
        /\ ~NeverStarts(r.trip) /\ r.idx \in DOMAIN scenario.stops[r.trip]
        /\ r.event = "arrive" => r.idx > 0
        /\ Unhurried(r.trip, r.idx, r.event, r.time)
    /\ \A e \in heap : Unhurried(e.event.trip, e.event.idx, e.event.kind, e.time)
    /\ \A key \in DOMAIN waiting : Cause(key[1], key[2])

\* What can make a train late stands in the scenario.
LEMMA CausesFixed ==
    ASSUME scenario' = scenario
    PROVE  /\ \A t, j : Cause(t, j)' <=> Cause(t, j)
           /\ \A t, i, k, x : Unhurried(t, i, k, x)' <=> Unhurried(t, i, k, x)
           /\ \A t : NeverStarts(t)' <=> NeverStarts(t)
  <1>1. \A t, j : Cause(t, j)' <=> Cause(t, j)
    BY DEF Cause, Primary, Stop, Conns
  <1>2. \A t, n : Undisturbed(t, n)' <=> Undisturbed(t, n)
    BY <1>1 DEF Undisturbed
  <1>3. \A t : WellTimed(t)' <=> WellTimed(t)
    BY ScenarioFixed DEF WellTimed
  <1>4. \A t, i, k, x : Unhurried(t, i, k, x)' <=> Unhurried(t, i, k, x)
    BY <1>2, <1>3, ScenarioFixed DEF Unhurried
  <1> QED
    BY <1>1, <1>4, ScenarioFixed

\* Nothing holds a train at a stop without connections.
LEMMA UnconnectedDecision ==
    ASSUME scenario \in Scenarios, NEW t \in Trips, NEW i \in DOMAIN scenario.stops[t], i > 0,
           NEW at \in Nat, NEW arrivals, Conns(t, Stop(t, i).seq) = {}
    PROVE  LET d == Decision(t, i, at, arrivals) IN d.pending = {} /\ d.required = Base(t, i, at)
  <1> DEFINE d == Decision(t, i, at, arrivals)
             hold(c) == arrivals[Feeder(c)] + c.minTransfer
             giveUp(c) == OrElse(Stop(t, i).dep, at) + c.maxWait
             caught == {c \in Conns(t, Stop(t, i).seq) : Feeder(c) \in DOMAIN arrivals /\ hold(c) <= giveUp(c)}
             awaited == {c \in Conns(t, Stop(t, i).seq) :
                            Feeder(c) \notin DOMAIN arrivals /\ giveUp(c) > Base(t, i, at)}
  <1>1. d.pending = {Feeder(c) : c \in awaited} /\ d.required = Max({Base(t, i, at)} \cup {hold(c) : c \in caught})
    BY DEF Decision
  <1>2. caught = {} /\ awaited = {}
    OBVIOUS
  <1>3. d.pending = {} /\ d.required = Max({Base(t, i, at)})
    <2>1. PICK held : held = {hold(c) : c \in caught}
      OBVIOUS
    <2>2. held = {} /\ {Feeder(c) : c \in awaited} = {}
      BY <1>2, <2>1
    <2>3. d.pending = {}
      BY <1>1, <2>2
    <2> HIDE DEF caught, awaited, hold, d
    <2>4. {Base(t, i, at)} \cup held = {Base(t, i, at)}
      BY <2>2
    <2>5. d.required = Max({Base(t, i, at)} \cup held)
      BY <1>1, <2>1
    <2> QED
      BY <2>3, <2>4, <2>5
  <1>4. PICK base, S : base = Base(t, i, at) /\ S = {base}
    OBVIOUS
  <1>5. base \in Int
    BY <1>4, BaseOf
  <1>6. Max(S) = base
    <2>1. IsFiniteSet(S) /\ S # {} /\ S \subseteq Int
      BY <1>4, <1>5, FS_Singleton
    <2>2. Max(S) \in S
      BY <2>1, MaxOf
    <2> QED
      BY <1>4, <2>2
  <1> QED
    BY <1>3, <1>4, <1>6

\* A train that is in time and nothing holds up leaves in time,
LEMMA LeavesUnhurried ==
    ASSUME scenario \in Scenarios, NEW t \in Trips, NEW i \in DOMAIN scenario.stops[t], i > 0,
           ~Last(t, i), NEW at \in Nat, Unhurried(t, i, "arrive", at)
    PROVE  Unhurried(t, i, "depart", Base(t, i, at))
  <1> SUFFICES ASSUME WellTimed(t), Undisturbed(t, i) PROVE Base(t, i, at) <= Due(t, i)
    BY DEF Unhurried
  <1>1. PICK dep, arr, dwell, late, base : /\ dep = Stop(t, i).dep /\ arr = Stop(t, i).arr
                                           /\ dwell = scenario.minDwell
                                           /\ late = Primary(t, Stop(t, i).seq) /\ base = Base(t, i, at)
    OBVIOUS
  <1>2. i \in Nat /\ dep \in Times /\ arr \in Times /\ late \in Nat /\ dwell \in Nat
    BY <1>1, ScenarioTyping
  <1>3. dep # NoTime /\ arr # NoTime
    BY <1>1 DEF WellTimed
  <1>4. dep \in Int /\ arr \in Int
    BY <1>2, <1>3 DEF Times
  <1>5. Undisturbed(t, i - 1)
    <2>1. \A j \in 0..(i - 1) : j \in 0..i
      BY <1>2
    <2> QED
      BY <2>1 DEF Undisturbed
  <1>6. at <= arr
    BY <1>1, <1>5 DEF Unhurried
  <1>7. i \in 0..i /\ ~Cause(t, i)
    BY <1>2 DEF Undisturbed
  <1>8. ~(late > 0) /\ ~(dep - arr < dwell)
    BY <1>1, <1>7 DEF Cause
  <1>9. base = Larger(dep, at + dwell) + late
    BY <1>1, <1>3 DEF Base, OrElse
  <1>10. late = 0 /\ dep >= at + dwell
    BY <1>2, <1>4, <1>6, <1>8
  <1>11. Larger(dep, at + dwell) = dep
    BY <1>2, <1>4, <1>10 DEF Larger
  <1>12. base = dep
    BY <1>4, <1>9, <1>10, <1>11
  <1>13. Due(t, i) = dep
    BY <1>1, <1>3 DEF Due, OrElse
  <1> QED
    BY <1>1, <1>4, <1>12, <1>13

\* and one that leaves in time comes in time.
LEMMA ComesUnhurried ==
    ASSUME scenario \in Scenarios, NEW t \in Trips, NEW i \in DOMAIN scenario.stops[t],
           ~Last(t, i), NEW x \in Nat, Unhurried(t, i, "depart", x)
    PROVE  Unhurried(t, i + 1, "arrive", x + RunningTime(Stop(t, i), Stop(t, i + 1)))
  <1>1. PICK j, run, from, to : /\ j = i + 1 /\ run = RunningTime(Stop(t, i), Stop(t, i + 1))
                                /\ from = Due(t, i) /\ to = Stop(t, i + 1).arr
    OBVIOUS
  <1>2. i \in Nat /\ j \in DOMAIN scenario.stops[t] /\ j - 1 = i
    BY <1>1, ScenarioTyping DEF Last
  <1> SUFFICES ASSUME WellTimed(t), Undisturbed(t, i) PROVE x + run <= to
    BY <1>1, <1>2 DEF Unhurried
  <1>3. from # NoTime /\ to # NoTime /\ from <= to
    BY <1>1 DEF WellTimed
  <1>4. from \in Int /\ to \in Int
    <2>1. Stop(t, i).dep \in Times /\ Stop(t, i).arr \in Times /\ Stop(t, j).arr \in Times
      BY <1>2, ScenarioTyping
    <2> QED
      BY <1>1, <1>3, <2>1 DEF Due, OrElse, Times
  <1>5. run = Larger(0, to - from)
    BY <1>1, <1>3 DEF RunningTime, Due, OrElse
  <1>6. run = to - from
    BY <1>3, <1>4, <1>5 DEF Larger
  <1>7. x <= from
    BY <1>1 DEF Unhurried
  <1> QED
    BY <1>3, <1>4, <1>6, <1>7

\* _on_depart,
LEMMA DepartCause == ASSUME MacroInv, CauseInv, NEW e \in heap, Depart(e) PROVE CauseInv'
  <1>1. PICK t, i : t = e.event.trip /\ i = e.event.idx
    OBVIOUS
  <1>2. /\ e.event.kind = "depart" /\ scenario' = scenario /\ waiting' = waiting
        /\ \E rec : /\ rec.trip = t /\ rec.idx = i /\ rec.event = "depart" /\ rec.time = e.time
                    /\ Range(records') = Range(records) \cup {rec}
        /\ \A g \in heap' :
                \/ g \in heap \ {e}
                \/ /\ ~Last(t, i) /\ g.event = Event("arrive", t, i + 1)
                   /\ g.time = e.time + RunningTime(Stop(t, i), Stop(t, i + 1))
    BY <1>1, DepartEffect
  <1>3. t \in Trips /\ i \in DOMAIN scenario.stops[t] /\ ~NeverStarts(t)
    BY <1>1, <1>2, DepartsAt
  <1>4. scenario \in Scenarios /\ e.time \in Nat
    BY EventTyping DEF MacroInv, LayerTyped
  <1>5. Unhurried(t, i, "depart", e.time)
    BY <1>1, <1>2 DEF CauseInv
  <1>6. ASSUME NEW r \in Range(records')
        PROVE  /\ ~NeverStarts(r.trip) /\ r.idx \in DOMAIN scenario.stops[r.trip]
               /\ r.event = "arrive" => r.idx > 0
               /\ Unhurried(r.trip, r.idx, r.event, r.time)
    BY <1>2, <1>3, <1>5, <1>6 DEF CauseInv
  <1>7. ASSUME NEW g \in heap' PROVE Unhurried(g.event.trip, g.event.idx, g.event.kind, g.time)
    <2>1. CASE g \in heap \ {e}
      BY <2>1 DEF CauseInv
    <2>2. CASE /\ ~Last(t, i) /\ g.event = Event("arrive", t, i + 1)
               /\ g.time = e.time + RunningTime(Stop(t, i), Stop(t, i + 1))
      <3>1. Unhurried(t, i + 1, "arrive", e.time + RunningTime(Stop(t, i), Stop(t, i + 1)))
        BY <1>3, <1>4, <1>5, <2>2, ComesUnhurried
      <3>2. g.event.trip = t /\ g.event.idx = i + 1 /\ g.event.kind = "arrive"
        BY <2>2 DEF Event
      <3> QED
        BY <2>2, <3>1, <3>2
    <2> QED
      BY <1>2, <2>1, <2>2
  <1>8. \A key \in DOMAIN waiting' : Cause(key[1], key[2])
    BY <1>2 DEF CauseInv
  <1> QED
    BY <1>2, <1>6, <1>7, <1>8, CausesFixed DEF CauseInv

\* A departure from a stop with a cause for delay may come at any time.
LEMMA DisturbedThere ==
    ASSUME LayerTyped, CauseInv, NEW key \in DOMAIN waiting, NEW x
    PROVE  Unhurried(key[1], key[2], "depart", x)
  <1>1. PICK t \in Trips : \E i \in DOMAIN scenario.stops[t] : key = <<t, i>>
    BY DEF LayerTyped
  <1>2. PICK i \in DOMAIN scenario.stops[t] : key = <<t, i>>
    BY <1>1
  <1>3. i \in Nat
    BY ScenarioTyping DEF LayerTyped
  <1>4. Cause(t, i) /\ i \in 0..i
    BY <1>2, <1>3 DEF CauseInv
  <1> QED
    BY <1>2, <1>4 DEF Unhurried, Undisturbed

\* _on_conn_deadline
LEMMA DeadlineCause == ASSUME MacroInv, CauseInv, NEW e \in heap, ConnDeadline(e) PROVE CauseInv'
  <1>1. PICK key : key = KeyOf(e)
    OBVIOUS
  <1>2. /\ scenario' = scenario /\ records' = records /\ DOMAIN waiting' = DOMAIN waiting
        /\ \A g \in heap' :
                \/ g \in heap \ {e}
                \/ /\ key \in DOMAIN waiting /\ ~waiting[key].resolved
                   /\ g.event = Event("depart", key[1], key[2])
                   /\ g.time = Larger(waiting[key].required, e.time)
    BY <1>1, DeadlineEffect
  <1>3. ASSUME NEW g \in heap' PROVE Unhurried(g.event.trip, g.event.idx, g.event.kind, g.time)
    <2>1. CASE g \in heap \ {e}
      BY <2>1 DEF CauseInv
    <2>2. CASE key \in DOMAIN waiting /\ g.event = Event("depart", key[1], key[2])
      <3>1. g.event.trip = key[1] /\ g.event.idx = key[2] /\ g.event.kind = "depart"
        BY <2>2 DEF Event
      <3> QED
        BY <2>2, <3>1, DisturbedThere DEF MacroInv
    <2> QED
      BY <1>2, <2>1, <2>2
  <1> QED
    BY <1>2, <1>3, CausesFixed DEF CauseInv

\* and _on_arrive make no train late that nothing disturbs.
LEMMA ArriveCause == ASSUME MacroInv, CauseInv, NEW e \in heap, Arrive(e) PROVE CauseInv'
  <1>1. PICK t, i, at, d : t = e.event.trip /\ i = e.event.idx /\ at = e.time /\ d = DecisionAt(e)
    OBVIOUS
  <1>2. /\ e.event.kind = "arrive" /\ scenario' = scenario
        /\ \E rec : /\ rec.trip = t /\ rec.idx = i /\ rec.event = "arrive" /\ rec.time = at
                    /\ Range(records') = Range(records) \cup {rec}
        /\ \A k \in DOMAIN waiting' : k \in DOMAIN waiting \/ (k = <<t, i>> /\ d.pending # {})
        /\ \A g \in heap' :
                \/ g \in heap \ {e}
                \/ \E k \in DOMAIN waiting : g.event = Event("depart", k[1], k[2])
                \/ ~Last(t, i) /\ g.event = Onward(t, i, d).event /\ g.time = Onward(t, i, d).time
    BY <1>1, ArriveEffect
  <1>3. t \in Trips /\ i \in DOMAIN scenario.stops[t] /\ ~NeverStarts(t) /\ i > 0
    BY <1>1, <1>2, ArrivesAt DEF Running
  <1>4. scenario \in Scenarios /\ at \in Nat
    BY <1>1, EventTyping DEF MacroInv, LayerTyped
  <1>5. Unhurried(t, i, "arrive", at)
    BY <1>1, <1>2 DEF CauseInv
  <1>6. d = Decision(t, i, at, Arrivals(e))
    BY <1>1 DEF DecisionAt
  <1>7. Conns(t, Stop(t, i).seq) # {} => Cause(t, i)
    BY <1>3 DEF Cause
  <1>8. ASSUME NEW r \in Range(records')
        PROVE  /\ ~NeverStarts(r.trip) /\ r.idx \in DOMAIN scenario.stops[r.trip]
               /\ r.event = "arrive" => r.idx > 0
               /\ Unhurried(r.trip, r.idx, r.event, r.time)
    BY <1>2, <1>3, <1>5, <1>8 DEF CauseInv
  <1>9. \A key \in DOMAIN waiting' : Cause(key[1], key[2])
    <2>1. d.pending # {} => Conns(t, Stop(t, i).seq) # {}
      BY <1>3, <1>4, <1>6, UnconnectedDecision
    <2> SUFFICES ASSUME NEW key \in DOMAIN waiting' PROVE Cause(key[1], key[2])
      OBVIOUS
    <2>2. CASE key \in DOMAIN waiting
      BY <2>2 DEF CauseInv
    <2>3. CASE key = <<t, i>> /\ d.pending # {}
      <3>1. key[1] = t /\ key[2] = i
        BY <2>3
      <3> QED
        BY <1>7, <2>1, <2>3, <3>1
    <2> QED
      BY <1>2, <2>2, <2>3
  <1>10. ASSUME NEW g \in heap' PROVE Unhurried(g.event.trip, g.event.idx, g.event.kind, g.time)
    <2>1. CASE g \in heap \ {e}
      BY <2>1 DEF CauseInv
    <2>2. CASE \E k \in DOMAIN waiting : g.event = Event("depart", k[1], k[2])
      <3>1. PICK k \in DOMAIN waiting : g.event = Event("depart", k[1], k[2])
        BY <2>2
      <3>2. g.event.trip = k[1] /\ g.event.idx = k[2] /\ g.event.kind = "depart"
        BY <3>1 DEF Event
      <3> QED
        BY <3>2, DisturbedThere DEF MacroInv
    <2>3. CASE ~Last(t, i) /\ g.event = Onward(t, i, d).event /\ g.time = Onward(t, i, d).time
      <3>1. CASE d.pending # {}
        <4>1. g.event.kind = "conn_deadline"
          BY <2>3, <3>1 DEF Onward, At, Event
        <4> QED
          BY <4>1 DEF Unhurried
      <3>2. CASE d.pending = {}
        <4>1. g.event.trip = t /\ g.event.idx = i /\ g.event.kind = "depart" /\ g.time = d.required
          BY <2>3, <3>2 DEF Onward, At, Event
        <4>2. CASE Conns(t, Stop(t, i).seq) = {}
          <5>1. d.required = Base(t, i, at)
            BY <1>3, <1>4, <1>6, <4>2, UnconnectedDecision
          <5>2. Unhurried(t, i, "depart", Base(t, i, at))
            BY <1>3, <1>4, <1>5, <2>3, LeavesUnhurried
          <5> QED
            BY <4>1, <5>1, <5>2
        <4>3. CASE Conns(t, Stop(t, i).seq) # {}
          <5>1. Cause(t, i) /\ i \in 0..i
            BY <1>3, <1>4, <1>7, <4>3, ScenarioTyping
          <5> QED
            BY <4>1, <5>1 DEF Unhurried, Undisturbed
        <4> QED
          BY <4>2, <4>3
      <3> QED
        BY <3>1, <3>2
    <2> QED
      BY <1>2, <2>1, <2>2, <2>3
  <1> QED
    BY <1>2, <1>8, <1>9, <1>10, CausesFixed DEF CauseInv

\* At first only the origins' departures are pending.
LEMMA FirstDepartures ==
    ASSUME Init, NEW e \in heap
    PROVE  \E t \in Trips : /\ ~NeverStarts(t) /\ e.event = Event("depart", t, 0)
                           /\ e.time = Due(t, 0) + Primary(t, Stop(t, 0).seq)
  <1>1. PICK b, n : b = Origins(scenario) /\ n = Len(scenario.stops)
    OBVIOUS
  <1>2. /\ DOMAIN b \subseteq 1..n /\ n \in Nat
        /\ \A t \in Trips : t \in DOMAIN b <=> ~NeverStarts(t)
        /\ \A t \in DOMAIN b : /\ t \in Trips /\ b[t].event = Event("depart", t, 0)
                               /\ b[t].time = Due(t, 0) + Primary(t, Stop(t, 0).seq)
                               /\ b[t].time \in Nat /\ b[t].event \in Events
    BY <1>1, OriginsOf DEF Init
  <1>3. heap = FirstEntries(b)
    <2>1. QueueInit(b, n)
      BY <1>1 DEF Init
    <2> QED
      BY <1>2, <2>1, CausalInit
  <1>4. PICK t \in DOMAIN b : e = FirstEntry(b[t], t)
    BY <1>3 DEF FirstEntries
  <1>5. e.event = b[t].event /\ e.time = b[t].time
    BY <1>4 DEF FirstEntry
  <1> QED
    BY <1>2, <1>5

\* The constructor's departures are as late as the delays of the origins.
LEMMA CauseInit == Init => CauseInv
  <1> SUFFICES ASSUME Init PROVE CauseInv
    OBVIOUS
  <1>1. records = <<>> /\ waiting = <<>> /\ MacroInv
    BY InitInv DEF Init
  <1>2. Range(records) = {} /\ DOMAIN waiting = {}
    BY <1>1 DEF Range
  <1>3. ASSUME NEW e \in heap PROVE Unhurried(e.event.trip, e.event.idx, e.event.kind, e.time)
    <2> SUFFICES ASSUME e.event.kind # "conn_deadline"
                 PROVE  Unhurried(e.event.trip, e.event.idx, e.event.kind, e.time)
      BY DEF Unhurried
    <2>1. PICK t : /\ t \in Trips /\ ~NeverStarts(t)
                   /\ e.event = Event("depart", t, 0) /\ e.time = Due(t, 0) + Primary(t, Stop(t, 0).seq)
      BY FirstDepartures
    <2>2. e.event.kind = "depart" /\ e.event.trip = t /\ e.event.idx = 0
      BY <2>1 DEF Event
    <2>3. PICK due, late : due = Due(t, 0) /\ late = Primary(t, Stop(t, 0).seq)
      OBVIOUS
    <2>4. due \in Nat /\ late \in Int
      BY <1>1, <2>1, <2>3, ScenarioTyping DEF MacroInv, LayerTyped
    <2>5. Undisturbed(t, 0) => ~(late > 0)
      BY <2>3 DEF Undisturbed, Cause
    <2>6. ~(late > 0) => due + late <= due
      BY <2>4
    <2> QED
      BY <2>1, <2>2, <2>3, <2>5, <2>6 DEF Unhurried
  <1> QED
    BY <1>2, <1>3 DEF CauseInv

\* Each handler keeps the lateness that has causes.
LEMMA CauseStep == MacroInv /\ CauseInv /\ [Next]_vars => CauseInv'
  <1> SUFFICES ASSUME MacroInv, CauseInv, [Next]_vars PROVE CauseInv'
    OBVIOUS
  <1>1. CASE Turn
    BY <1>1, DepartCause, ArriveCause, DeadlineCause DEF Turn
  <1>2. CASE UNCHANGED vars
    <2>1. scenario' = scenario /\ heap' = heap /\ records' = records /\ waiting' = waiting
      BY <1>2 DEF vars
    <2> QED
      BY <2>1, CausesFixed DEF CauseInv
  <1> QED
    BY <1>1, <1>2 DEF Next, Finished

\* So a train that is late has been disturbed.
LEMMA LateForACause ==
    ASSUME MacroInv, CauseInv, \A t \in Trips : NeverStarts(t) \/ WellTimed(t)
    PROVE  DelayHasACause
  <1> SUFFICES ASSUME NEW r \in Range(records), NEW due,
                      due = IF r.event = "depart" THEN Stop(r.trip, r.idx).dep ELSE Stop(r.trip, r.idx).arr,
                      due # NoTime, r.time > due, \A j \in 0..r.idx : ~Cause(r.trip, j)
               PROVE  FALSE
    BY DEF DelayHasACause, Cause
  <1>1. /\ r.trip \in Trips /\ r.idx \in Nat /\ r.time \in Int /\ r.event \in {"depart", "arrive"}
        /\ r.idx \in DOMAIN scenario.stops[r.trip] /\ scenario \in Scenarios
    BY RecordTyping DEF MacroInv, LayerTyped, MovementRecord, CauseInv
  <1>2. /\ WellTimed(r.trip) /\ Unhurried(r.trip, r.idx, r.event, r.time)
        /\ r.event = "arrive" => r.idx > 0
    BY <1>1 DEF CauseInv
  <1>3. Undisturbed(r.trip, r.idx) /\ Undisturbed(r.trip, r.idx - 1)
    <2>1. \A j \in 0..(r.idx - 1) : j \in 0..r.idx
      BY <1>1
    <2> QED
      BY <2>1 DEF Undisturbed
  <1>4. due \in Int
    BY <1>1, ScenarioTyping DEF Times
  <1>5. r.time <= due
    <2>1. CASE r.event = "depart"
      BY <1>2, <1>3, <2>1 DEF Unhurried, Due, OrElse
    <2>2. CASE r.event = "arrive"
      BY <1>2, <1>3, <2>2 DEF Unhurried
    <2> QED
      BY <1>1, <2>1, <2>2
  <1> QED
    BY <1>1, <1>4, <1>5

\* Whatever holds, waits and delays there are, no train of a timetable with
\* times at every stop becomes late by itself: where one is late it had a
\* delay of its own, a connection or too short a dwell at a stop it has served.
THEOREM DelaysHaveCauses ==
    Spec => []((\A t \in Trips : NeverStarts(t) \/ WellTimed(t)) => DelayHasACause)
  <1>1. MacroInv /\ CauseInv => ((\A t \in Trips : NeverStarts(t) \/ WellTimed(t)) => DelayHasACause)
    BY LateForACause
  <1> QED
    BY <1>1, CauseInit, CauseStep, MacroInvariant, PTL DEF Spec
-----------------------------------------------------------------------------
Until(c, i) == Stop(c.connector, i).dep + c.maxWait

\* A departure at x keeps the transfer from c's feeder, when F says which
\* feeders have come: x is after the wait, or after the transfer.
Settled(F, c, i, x) ==
    \/ x >= Until(c, i)
    \/ /\ Feeder(c) \in DOMAIN F
       /\ F[Feeder(c)] + c.minTransfer <= Until(c, i) => x >= F[Feeder(c)] + c.minTransfer

\* The end of a hold that begins at a time.
Latest(t, i, at) == Max({OwnDeparture(t, i, at)} \cup {GiveUp(c, i, at) : c \in Connected(t, i)})

AllSettled(F, t, i, x) == \A c \in Connected(t, i) : Settled(F, c, i, x)
InBounds(t, i, x) == \A a \in Moved(t, i, "arrive") : x <= Latest(t, i, a.time)

Kept(t, i, x) == i > 0 => AllSettled(feederArrivals, t, i, x) /\ InBounds(t, i, x)

\* A hold waits for, or has seen to, each connection of its stop.
Holds(F, t, i, w) ==
    /\ w.required <= w.deadline
    /\ w.pending \subseteq {Feeder(c) : c \in Connected(t, i)}
    /\ \A c \in Connected(t, i) :
        /\ Until(c, i) <= w.deadline
        /\ (Feeder(c) \in w.pending /\ Feeder(c) \notin DOMAIN F) \/ Settled(F, c, i, w.required)

Ends(t, i, w) == \A a \in Moved(t, i, "arrive") : w.deadline = Latest(t, i, a.time)

Calls(r, c) == r.event = "arrive" /\ <<r.trip, Stop(r.trip, r.idx).stop>> = Feeder(c)

KeptInv ==
    /\ \A r \in Range(records) : r.event = "depart" => Kept(r.trip, r.idx, r.time)
    /\ \A e \in heap : e.event.kind = "depart" => Kept(e.event.trip, e.event.idx, e.time)
    /\ \A t \in Trips : \A i \in DOMAIN scenario.stops[t] :
        <<t, i>> \in DOMAIN waiting /\ ~waiting[<<t, i>>].resolved =>
            Holds(feederArrivals, t, i, waiting[<<t, i>>]) /\ Ends(t, i, waiting[<<t, i>>])
    /\ \A key \in DOMAIN waiting : \A f \in waiting[key].pending :
        \E k \in DOMAIN WaitersOf(f) : WaitersOf(f)[k] = key
    /\ \A c \in scenario.conns :
        /\ \A r \in Range(records) : Calls(r, c) =>
            Feeder(c) \in DOMAIN feederArrivals /\ feederArrivals[Feeder(c)] = r.time
        /\ Feeder(c) \in DOMAIN feederArrivals => \E r \in Range(records) : Calls(r, c)

\* Nothing in these depends on more than the scenario, the arrivals of the
\* feeders and the arrivals at the stop.
LEMMA KeptFixed ==
    ASSUME scenario' = scenario
    PROVE  /\ Regular' <=> Regular
           /\ \A t, i : Connected(t, i)' = Connected(t, i)
           /\ \A F, t, i, x : AllSettled(F, t, i, x)' <=> AllSettled(F, t, i, x)
           /\ \A F, t, i, w : Holds(F, t, i, w)' <=> Holds(F, t, i, w)
           /\ \A t, i : Moved(t, i, "arrive")' = Moved(t, i, "arrive") =>
                /\ \A x : InBounds(t, i, x)' <=> InBounds(t, i, x)
                /\ \A w : Ends(t, i, w)' <=> Ends(t, i, w)
           /\ \A t, i, at : Latest(t, i, at)' = Latest(t, i, at)
           /\ \A r, c : Calls(r, c)' <=> Calls(r, c)
  <1>1. /\ Trips' = Trips
        /\ \A t, i : Stop(t, i)' = Stop(t, i)
        /\ \A t, seq : Conns(t, seq)' = Conns(t, seq)
        /\ \A t, seq : Primary(t, seq)' = Primary(t, seq)
    BY ScenarioFixed DEF Conns, Primary
  <1>2. \A t, i : Connected(t, i)' = Connected(t, i)
    BY <1>1 DEF Connected
  <1>3. Regular' <=> Regular
    BY <1>1, <1>2 DEF Regular
  <1>4. \A c, i : Until(c, i)' = Until(c, i)
    BY <1>1 DEF Until
  <1>5. \A F, c, i, x : Settled(F, c, i, x)' <=> Settled(F, c, i, x)
    BY <1>4 DEF Settled
  <1>6. \A F, t, i, x : AllSettled(F, t, i, x)' <=> AllSettled(F, t, i, x)
    BY <1>2, <1>5 DEF AllSettled
  <1>7. \A F, t, i, w : Holds(F, t, i, w)' <=> Holds(F, t, i, w)
    BY <1>2, <1>4, <1>5 DEF Holds
  <1>8. \A t, i, at : Latest(t, i, at)' = Latest(t, i, at)
    <2>1. \A t, i, at : OwnDeparture(t, i, at)' = OwnDeparture(t, i, at)
      BY <1>1 DEF OwnDeparture
    <2>2. \A c, i, at : GiveUp(c, i, at)' = GiveUp(c, i, at)
      BY <1>1 DEF GiveUp
    <2> QED
      BY <1>2, <2>1, <2>2 DEF Latest
  <1>9. ASSUME NEW t, NEW i, Moved(t, i, "arrive")' = Moved(t, i, "arrive")
        PROVE  /\ \A x : InBounds(t, i, x)' <=> InBounds(t, i, x)
               /\ \A w : Ends(t, i, w)' <=> Ends(t, i, w)
    BY <1>8, <1>9 DEF InBounds, Ends
  <1>10. \A r, c : Calls(r, c)' <=> Calls(r, c)
    BY <1>1 DEF Calls
  <1> QED
    BY <1>2, <1>3, <1>6, <1>7, <1>8, <1>9, <1>10

\* A maximum is at most what bounds each of its terms.
LEMMA UtmostBelow ==
    ASSUME scenario \in Scenarios, NEW b \in Int, NEW C, C \subseteq scenario.conns,
           NEW h, \A c \in C : h[c] \in Int, NEW m \in Int, b <= m, \A c \in C : h[c] <= m
    PROVE  Utmost(b, C, h) <= m
  <1> DEFINE T == {h[c] : c \in C}
             S == {b} \cup T
  <1>1. IsFiniteSet(T)
    <2> DEFINE f == [c \in C |-> h[c]]
    <2>1. f \in [C -> T] /\ \A y \in T : \E c \in C : f[c] = y
      OBVIOUS
    <2>2. IsFiniteSet(C)
      BY ScenarioTyping, FS_Subset
    <2> HIDE DEF T, f
    <2>3. f \in Surjection(C, T)
      BY <2>1 DEF Surjection
    <2> QED
      BY <2>2, <2>3, FS_Surjection
  <1>2. T \subseteq Int
    OBVIOUS
  <1>3. IsFiniteSet(S) /\ S \subseteq Int /\ S # {}
    <2> HIDE DEF T
    <2>1. IsFiniteSet(T \cup {b})
      BY <1>1, FS_AddElement
    <2>2. S = T \cup {b}
      OBVIOUS
    <2> QED
      BY <1>2, <2>1, <2>2
  <1>4. \A y \in S : y <= m
    OBVIOUS
  <1> HIDE DEF S
  <1>5. Max(S) \in S
    BY <1>3, MaxOf
  <1>6. Max(S) <= m
    BY <1>4, <1>5
  <1> QED
    BY <1>6 DEF Utmost, S

\* The wait for a connection of a stop ends at a time.
LEMMA WaitEnds ==
    ASSUME scenario \in Scenarios, Regular, NEW t \in Trips, NEW i \in DOMAIN scenario.stops[t], i > 0,
           NEW c \in Connected(t, i)
    PROVE  /\ c \in scenario.conns /\ c.connector = t /\ c.minTransfer \in Int /\ c.maxWait \in Int
           /\ Stop(t, i).dep \in Int /\ Until(c, i) = Stop(t, i).dep + c.maxWait /\ Until(c, i) \in Int
           /\ Conns(t, i) = Connected(t, i)
           /\ \A at : GiveUp(c, i, at) = Until(c, i)
  <1>1. c \in scenario.conns /\ c.connector = t /\ c.minTransfer \in Int /\ c.maxWait \in Int
    BY ScenarioTyping DEF Connected, Conns
  <1>2. Stop(t, i).dep # NoTime /\ Conns(t, i) = Connected(t, i)
    BY DEF Regular
  <1>3. Stop(t, i).dep \in Int
    BY <1>2, ScenarioTyping DEF Times
  <1>4. Until(c, i) = Stop(t, i).dep + c.maxWait /\ Until(c, i) \in Int
    BY <1>1, <1>3 DEF Until
  <1>5. \A at : GiveUp(c, i, at) = Until(c, i)
    BY <1>1, <1>2 DEF GiveUp, Until, OrElse
  <1> QED
    BY <1>1, <1>2, <1>3, <1>4, <1>5

\* Who leaves later keeps the transfer as well.
LEMMA SettledLater ==
    ASSUME scenario \in Scenarios, Regular, NEW t \in Trips, NEW i \in DOMAIN scenario.stops[t], i > 0,
           NEW c \in Connected(t, i), NEW F, \A f \in DOMAIN F : F[f] \in Int,
           NEW x \in Int, NEW y \in Int, x <= y, Settled(F, c, i, x)
    PROVE  Settled(F, c, i, y)
  <1>1. c.minTransfer \in Int /\ Until(c, i) \in Int
    BY WaitEnds
  <1>2. PICK u, f : u = Until(c, i) /\ f = F[Feeder(c)] + c.minTransfer
    OBVIOUS
  <1>3. Feeder(c) \in DOMAIN F => f \in Int
    BY <1>1, <1>2
  <1>4. CASE x >= u
    BY <1>1, <1>2, <1>4 DEF Settled
  <1>5. CASE Feeder(c) \in DOMAIN F /\ (f <= u => x >= f)
    <2>1. f <= u => y >= f
      BY <1>3, <1>5
    <2> QED
      BY <1>2, <1>5, <2>1 DEF Settled
  <1> QED
    BY <1>2, <1>4, <1>5 DEF Settled

\* A train that comes in: its departure, or its hold, sees to every connection
\* of the stop, and ends when the last wait does.
LEMMA DecisionKept ==
    ASSUME scenario \in Scenarios, Regular, NEW t \in Trips, NEW i \in DOMAIN scenario.stops[t], i > 0,
           NEW at \in Nat, NEW F, \A f \in DOMAIN F : F[f] \in Int
    PROVE  LET d == Decision(t, i, at, F)
           IN Holds(F, t, i, d) /\ d.deadline = Latest(t, i, at)
  <1> DEFINE conns == Connected(t, i)
             scheduled == OrElse(Stop(t, i).dep, at)
             base == Base(t, i, at)
             giveUp(c) == scheduled + c.maxWait
             hold(c) == F[Feeder(c)] + c.minTransfer
             caught == {c \in conns : Feeder(c) \in DOMAIN F /\ hold(c) <= giveUp(c)}
             awaited == {c \in conns : Feeder(c) \notin DOMAIN F /\ giveUp(c) > base}
             d == Decision(t, i, at, F)
             h == [c \in caught |-> hold(c)]
             g == [c \in conns |-> giveUp(c)]
  <1>1. d = [base |-> base, required |-> Max({base} \cup {hold(c) : c \in caught}),
             deadline |-> Max({base} \cup {giveUp(c) : c \in conns}),
             pending |-> {Feeder(c) : c \in awaited}, resolved |-> FALSE]
    BY DEF Decision, Connected
  <1>2. base \in Nat
    BY BaseOf
  <1>3. \A c \in conns : /\ c \in scenario.conns /\ c.minTransfer \in Int /\ Until(c, i) \in Int
                         /\ giveUp(c) = Until(c, i) /\ GiveUp(c, i, at) = Until(c, i)
    <2> SUFFICES ASSUME NEW c \in conns
                 PROVE  /\ c \in scenario.conns /\ c.minTransfer \in Int /\ Until(c, i) \in Int
                        /\ giveUp(c) = Until(c, i) /\ GiveUp(c, i, at) = Until(c, i)
      OBVIOUS
    <2>1. /\ c \in scenario.conns /\ c.connector = t /\ c.minTransfer \in Int /\ Until(c, i) \in Int
          /\ \A x : GiveUp(c, i, x) = Until(c, i)
      BY WaitEnds
    <2>2. giveUp(c) = GiveUp(c, i, at)
      BY <2>1 DEF GiveUp
    <2> QED
      BY <2>1, <2>2
  <1>4. conns \subseteq scenario.conns /\ caught \subseteq scenario.conns
    BY <1>3
  <1>5. \A c \in caught : h[c] = hold(c) /\ h[c] \in Int /\ h[c] <= Until(c, i) /\ c \in conns
    BY <1>3
  <1>6. \A c \in conns : g[c] = Until(c, i) /\ g[c] \in Int
    BY <1>3
  <1>7. d.required = Utmost(base, caught, h)
    <2>1. d.required = Max({base} \cup {hold(c) : c \in caught})
      BY <1>1
    <2>2. {hold(c) : c \in caught} = {h[c] : c \in caught}
      BY <1>5
    <2> HIDE DEF h, base, caught, hold, d
    <2> QED
      BY <2>1, <2>2 DEF Utmost
  <1>8. d.deadline = Utmost(base, conns, g) /\ d.deadline = Latest(t, i, at)
    <2>1. d.deadline = Max({base} \cup {giveUp(c) : c \in conns})
      BY <1>1
    <2>2. {giveUp(c) : c \in conns} = {g[c] : c \in conns}
      BY <1>3
    <2>3. {giveUp(c) : c \in conns} = {GiveUp(c, i, at) : c \in conns}
      BY <1>3
    <2>4. base = OwnDeparture(t, i, at)
      BY DEF Base, OwnDeparture
    <2>5. Latest(t, i, at) = Max({OwnDeparture(t, i, at)} \cup {GiveUp(c, i, at) : c \in conns})
      BY DEF Latest
    <2> HIDE DEF g, base, conns, giveUp, d
    <2> QED
      BY <2>1, <2>2, <2>3, <2>4, <2>5 DEF Utmost
  <1>9. d.pending = {Feeder(c) : c \in awaited}
    BY <1>1
  <1>10. /\ d.required \in Int /\ d.required >= base
         /\ \A c \in caught : d.required >= h[c]
    <2> HIDE DEF h, caught, base, d
    <2> QED
      BY <1>2, <1>4, <1>5, <1>7, OverConnections
  <1>11. /\ d.deadline \in Int /\ d.deadline >= base
         /\ \A c \in conns : d.deadline >= g[c]
    <2>1. conns \subseteq scenario.conns
      BY <1>4
    <2>2. base \in Int /\ \A c \in conns : g[c] \in Int
      BY <1>2, <1>6
    <2>3. d.deadline = Utmost(base, conns, g)
      BY <1>8
    <2> HIDE DEF g, h, conns, base, d, scheduled, caught, awaited
    <2>4. /\ Utmost(base, conns, g) \in Int /\ Utmost(base, conns, g) >= base
          /\ \A c \in conns : Utmost(base, conns, g) >= g[c]
      BY <2>1, <2>2, OverConnections
    <2> QED
      BY <2>3, <2>4
  <1>12. d.required <= d.deadline
    <2> HIDE DEF h, g, caught, conns, base, d
    <2>1. PICK m : m = d.deadline
      OBVIOUS
    <2>2. m \in Int /\ base \in Int /\ base <= m
      BY <1>2, <1>11, <2>1
    <2>3. ASSUME NEW c \in caught PROVE h[c] <= m
      <3>1. c \in conns /\ h[c] <= Until(c, i) /\ h[c] \in Int
        BY <1>5
      <3>2. Until(c, i) \in Int /\ m >= Until(c, i)
        BY <1>6, <1>11, <2>1, <3>1
      <3> QED
        BY <2>2, <3>1, <3>2
    <2>4. Utmost(base, caught, h) <= m
      BY <1>4, <1>5, <2>2, <2>3, UtmostBelow
    <2> QED
      BY <1>7, <2>1, <2>4
  <1>13. ASSUME NEW c \in conns
         PROVE  /\ Until(c, i) <= d.deadline
                /\ (Feeder(c) \in d.pending /\ Feeder(c) \notin DOMAIN F) \/ Settled(F, c, i, d.required)
    <2>1. PICK u, x, m, b : u = Until(c, i) /\ x = d.required /\ m = d.deadline /\ b = base
      OBVIOUS
    <2>2. u \in Int /\ x \in Int /\ m \in Int /\ b \in Nat /\ u <= m /\ b <= x
      BY <1>2, <1>6, <1>10, <1>11, <2>1
    <2>3. CASE Feeder(c) \in DOMAIN F
      <3>1. PICK y : y = hold(c)
        OBVIOUS
      <3>2. y <= u => x >= y
        <4> SUFFICES ASSUME y <= u PROVE x >= y
          OBVIOUS
        <4>1. c \in caught
          BY <1>3, <2>1, <2>3, <3>1
        <4> QED
          BY <1>5, <1>10, <2>1, <3>1, <4>1
      <3> QED
        BY <2>1, <2>2, <2>3, <3>1, <3>2 DEF Settled
    <2>4. CASE Feeder(c) \notin DOMAIN F /\ u > b
      <3>1. c \in awaited
        BY <1>3, <2>1, <2>4
      <3> QED
        BY <1>9, <2>1, <2>2, <2>4, <3>1
    <2>5. CASE ~(u > b)
      <3>1. x >= u
        BY <2>2, <2>5
      <3> QED
        BY <2>1, <2>2, <3>1 DEF Settled
    <2> QED
      BY <2>3, <2>4, <2>5
  <1>14. d.pending \subseteq {Feeder(c) : c \in conns}
    BY <1>9
  <1> HIDE DEF d, conns
  <1>15. Holds(F, t, i, d)
    BY <1>12, <1>13, <1>14 DEF Holds, conns
  <1> QED
    BY <1>8, <1>15 DEF d

\* A feeder calls where it feeds once, so it has not been seen before it comes.
LEMMA FirstCall ==
    ASSUME MacroInv, CauseInv, Regular, KeptInv, NEW e \in heap, e.event.kind = "arrive",
           NEW c \in scenario.conns, Feeder(c) = Feed(e)
    PROVE  Feeder(c) \notin DOMAIN feederArrivals
  <1>1. PICK t, i : t = e.event.trip /\ i = e.event.idx
    OBVIOUS
  <1>2. t \in Trips /\ i \in DOMAIN scenario.stops[t] /\ Running(t, i)
    BY <1>1, ArrivesAt
  <1>3. i > 0 /\ i \in Nat /\ c.feeder = t /\ c.feederStop = Stop(t, i).stop
    <2>1. i > 0 /\ i \in Nat
      BY <1>2, ScenarioTyping DEF Running, MacroInv, LayerTyped
    <2>2. <<c.feeder, c.feederStop>> = <<t, Stop(t, i).stop>>
      BY <1>1 DEF Feeder, Feed
    <2> QED
      BY <2>1, <2>2
  <1> SUFFICES ASSUME Feeder(c) \in DOMAIN feederArrivals PROVE FALSE
    OBVIOUS
  <1>4. PICK r \in Range(records) : Calls(r, c)
    BY DEF KeptInv
  <1>5. r.trip = t /\ r.event = "arrive" /\ Stop(t, r.idx).stop = c.feederStop
    <2>1. r.event = "arrive" /\ <<r.trip, Stop(r.trip, r.idx).stop>> = <<c.feeder, c.feederStop>>
      BY <1>4 DEF Calls, Feeder
    <2> QED
      BY <1>3, <2>1
  <1>6. r.idx \in DOMAIN scenario.stops[t] /\ r.idx > 0
    BY <1>5 DEF CauseInv
  <1>7. r.idx = i
    BY <1>2, <1>3, <1>5, <1>6 DEF Regular
  <1>8. r.idx < i
    BY <1>2, <1>5 DEF Running, Passed
  <1> QED
    BY <1>3, <1>7, <1>8

\* What was seen to before a feeder comes stays so.
LEMMA SettledStays ==
    ASSUME NEW c, NEW F, NEW f, NEW at, NEW i, NEW x, Feeder(c) = f => f \notin DOMAIN F,
           Settled(F, c, i, x)
    PROVE  Settled(Put(F, f, at), c, i, x)
  <1>1. PICK g, u, m : g = Feeder(c) /\ u = Until(c, i) /\ m = c.minTransfer
    OBVIOUS
  <1>2. x >= u \/ (g \in DOMAIN F /\ (F[g] + m <= u => x >= F[g] + m))
    BY <1>1 DEF Settled
  <1>3. x >= u \/ (g \in DOMAIN Put(F, f, at) /\ (Put(F, f, at)[g] + m <= u => x >= Put(F, f, at)[g] + m))
    <2>1. g \in DOMAIN F => g \in DOMAIN Put(F, f, at) /\ Put(F, f, at)[g] = F[g]
      BY <1>1 DEF Put
    <2> QED
      BY <1>2, <2>1
  <1> QED
    BY <1>1, <1>3 DEF Settled

\* When a feeder comes, the holds that wait for it see to its connections and
\* the others lose nothing.
LEMMA ServedKept ==
    ASSUME scenario \in Scenarios, Regular, NEW t \in Trips, NEW i \in DOMAIN scenario.stops[t], i > 0,
           NEW key, key = <<t, i>>, NEW w, key \in DOMAIN waiting, w = waiting[key], ~w.resolved, w \in Hold,
           NEW F, \A f \in DOMAIN F : F[f] \in Int, Holds(F, t, i, w),
           NEW feeder, NEW at \in Nat,
           \A c \in scenario.conns : Feeder(c) = feeder => feeder \notin DOMAIN F,
           feeder \in w.pending => \E k \in DOMAIN WaitersOf(feeder) : WaitersOf(feeder)[k] = key
    PROVE  LET v == WaitingAfter(feeder, at)[key]
           IN Holds(Put(F, feeder, at), t, i, v) /\ v.deadline = w.deadline
  <1>1. PICK v, G : v = WaitingAfter(feeder, at)[key] /\ G = Put(F, feeder, at)
    OBVIOUS
  <1>2. /\ w.required \in Int /\ w.deadline \in Int /\ w.required <= w.deadline
        /\ w.pending \subseteq {Feeder(c) : c \in Connected(t, i)}
    BY DEF Hold, Holds
  <1>3. \A c \in Connected(t, i) : /\ c \in scenario.conns /\ Until(c, i) \in Int /\ Until(c, i) <= w.deadline
                                   /\ (Feeder(c) \in w.pending /\ Feeder(c) \notin DOMAIN F)
                                        \/ Settled(F, c, i, w.required)
    BY WaitEnds DEF Holds
  <1>4. ASSUME NEW c \in Connected(t, i), NEW x, Settled(F, c, i, x) PROVE Settled(G, c, i, x)
    BY <1>1, <1>3, <1>4, SettledStays
  <1>5. CASE feeder \notin w.pending
    <2>1. v = w
      BY <1>1, <1>5 DEF WaitingAfter, Awaits
    <2>2. \A c \in Connected(t, i) :
            (Feeder(c) \in w.pending /\ Feeder(c) \notin DOMAIN G) \/ Settled(G, c, i, w.required)
      <3> SUFFICES ASSUME NEW c \in Connected(t, i), ~Settled(G, c, i, w.required)
                   PROVE  Feeder(c) \in w.pending /\ Feeder(c) \notin DOMAIN G
        OBVIOUS
      <3>1. Feeder(c) \in w.pending /\ Feeder(c) \notin DOMAIN F
        BY <1>3, <1>4
      <3>2. Feeder(c) # feeder
        BY <1>5, <3>1
      <3> QED
        BY <1>1, <3>1, <3>2 DEF Put
    <2> QED
      BY <1>1, <1>2, <1>3, <2>1, <2>2 DEF Holds
  <1>6. CASE feeder \in w.pending
    <2> DEFINE hold(c) == at + c.minTransfer
               caught == {c \in Conns(t, i) : Feeder(c) = feeder /\ hold(c) <= ScheduledDeparture(key) + c.maxWait}
               h == [c \in caught |-> hold(c)]
               required == Max({w.required} \cup {hold(c) : c \in caught})
    <2>1. v = Served(key, feeder, at)
      BY <1>1, <1>6 DEF WaitingAfter, Awaits
    <2>2. key[1] = t /\ key[2] = i
      OBVIOUS
    <2>3. v = [w EXCEPT !.required = required, !.pending = w.pending \ {feeder},
                        !.resolved = (w.pending \ {feeder} = {} /\ required > w.base)]
      BY <2>1, <2>2 DEF Served
    <2>4. /\ v.required = required /\ v.pending = w.pending \ {feeder} /\ v.deadline = w.deadline
      BY <2>3 DEF Hold
    <2>5. Conns(t, i) = Connected(t, i) /\ Stop(t, i).dep \in Int
      <3>1. PICK c \in Connected(t, i) : Feeder(c) = feeder
        BY <1>2, <1>6
      <3> QED
        BY WaitEnds
    <2>6. ScheduledDeparture(key) = Stop(t, i).dep
      BY <2>2, <2>5, ScenarioTyping DEF ScheduledDeparture, OrElse
    <2>7. \A c \in Connected(t, i) : c.minTransfer \in Int /\ ScheduledDeparture(key) + c.maxWait = Until(c, i)
      BY <2>6, WaitEnds
    <2>8. \A c \in caught : /\ c \in Connected(t, i) /\ h[c] = hold(c) /\ h[c] \in Int /\ h[c] <= Until(c, i)
      BY <2>5, <2>7
    <2>9. caught \subseteq scenario.conns
      BY <1>3, <2>8
    <2>10. required = Utmost(w.required, caught, h)
      <3>1. {hold(c) : c \in caught} = {h[c] : c \in caught}
        BY <2>8
      <3>2. required = Max({w.required} \cup {hold(c) : c \in caught})
        OBVIOUS
      <3> HIDE DEF h, caught, hold, required
      <3> QED
        BY <3>1, <3>2 DEF Utmost
    <2>11. /\ required \in Int /\ required >= w.required
           /\ \A c \in caught : required >= h[c]
      <3> HIDE DEF h, caught, required
      <3> QED
        BY <1>2, <2>8, <2>9, <2>10, OverConnections
    <2>12. required <= w.deadline
      <3> HIDE DEF h, caught, required
      <3>1. PICK m, b : m = w.deadline /\ b = w.required
        OBVIOUS
      <3>2. m \in Int /\ b \in Int /\ b <= m
        BY <1>2, <3>1
      <3>3. ASSUME NEW c \in caught PROVE h[c] <= m
        <4>1. h[c] \in Int /\ h[c] <= Until(c, i) /\ Until(c, i) \in Int /\ Until(c, i) <= m
          BY <1>3, <2>8, <3>1
        <4> QED
          BY <3>2, <4>1
      <3>4. Utmost(b, caught, h) <= m
        BY <2>8, <2>9, <3>2, <3>3, UtmostBelow
      <3> QED
        BY <2>10, <3>1, <3>4
    <2>13. ASSUME NEW c \in Connected(t, i)
           PROVE  (Feeder(c) \in v.pending /\ Feeder(c) \notin DOMAIN G) \/ Settled(G, c, i, required)
      <3>1. CASE Feeder(c) = feeder
        <4>1. feeder \in DOMAIN G /\ G[feeder] = at
          BY <1>1 DEF Put
        <4>2. hold(c) <= Until(c, i) => c \in caught
          BY <2>5, <2>7, <3>1
        <4>3. hold(c) <= Until(c, i) => required >= hold(c)
          BY <2>8, <2>11, <4>2
        <4> HIDE DEF required, caught, h
        <4> QED
          BY <3>1, <4>1, <4>3 DEF Settled
      <3>2. CASE Feeder(c) # feeder /\ ~Settled(F, c, i, w.required)
        <4>1. Feeder(c) \in w.pending /\ Feeder(c) \notin DOMAIN F
          BY <1>3, <3>2
        <4> QED
          BY <1>1, <2>4, <3>2, <4>1 DEF Put
      <3>3. CASE Settled(F, c, i, w.required)
        <4>1. \A f \in DOMAIN F : F[f] \in Int
          OBVIOUS
        <4> HIDE DEF required, caught, h
        <4>2. PICK x, y : x = w.required /\ y = required
          OBVIOUS
        <4>3. x \in Int /\ y \in Int /\ x <= y /\ Settled(F, c, i, x)
          BY <1>2, <2>11, <3>3, <4>2
        <4>4. Settled(F, c, i, y)
          BY <4>1, <4>3, SettledLater
        <4>5. Settled(G, c, i, y)
          BY <1>4, <4>4
        <4> QED
          BY <4>2, <4>5
      <3> QED
        BY <3>1, <3>2, <3>3
    <2> HIDE DEF required
    <2>14. Holds(G, t, i, v)
      BY <1>2, <1>3, <2>4, <2>12, <2>13 DEF Holds
    <2> QED
      BY <1>1, <2>4, <2>14
  <1> QED
    BY <1>5, <1>6

\* _on_depart records a departure that was kept.
LEMMA DepartKept == ASSUME MacroInv, KeptInv, NEW e \in heap, Depart(e) PROVE KeptInv'
  <1>1. PICK t, i : t = e.event.trip /\ i = e.event.idx
    OBVIOUS
  <1>2. /\ e.event.kind = "depart" /\ scenario' = scenario /\ feederArrivals' = feederArrivals
        /\ waiting' = waiting /\ waiters' = waiters
        /\ \E rec : /\ rec.trip = t /\ rec.idx = i /\ rec.event = "depart" /\ rec.time = e.time
                    /\ Range(records') = Range(records) \cup {rec}
        /\ \A g \in heap' : g \in heap \ {e} \/ g.event = Event("arrive", t, i + 1)
    BY <1>1, DepartEffect
  <1>3. \A u, j : Moved(u, j, "arrive")' = Moved(u, j, "arrive")
    BY <1>2 DEF Moved
  <1>4. \A u, j, x : Kept(u, j, x)' <=> Kept(u, j, x)
    BY <1>2, <1>3, KeptFixed DEF Kept
  <1>5. \A r \in Range(records') : r.event = "depart" => Kept(r.trip, r.idx, r.time)'
    BY <1>1, <1>2, <1>4 DEF KeptInv
  <1>6. \A g \in heap' : g.event.kind = "depart" => Kept(g.event.trip, g.event.idx, g.time)'
    BY <1>2, <1>4 DEF KeptInv, Event
  <1>7. \A u \in Trips : \A j \in DOMAIN scenario.stops[u] :
            <<u, j>> \in DOMAIN waiting /\ ~waiting[<<u, j>>].resolved =>
                Holds(feederArrivals, u, j, waiting[<<u, j>>])' /\ Ends(u, j, waiting[<<u, j>>])'
    <2> SUFFICES ASSUME NEW u \in Trips, NEW j \in DOMAIN scenario.stops[u],
                        <<u, j>> \in DOMAIN waiting, ~waiting[<<u, j>>].resolved
                 PROVE  Holds(feederArrivals, u, j, waiting[<<u, j>>])' /\ Ends(u, j, waiting[<<u, j>>])'
      OBVIOUS
    <2> PICK F, w : F = feederArrivals /\ w = waiting[<<u, j>>]
      OBVIOUS
    <2>1. Holds(F, u, j, w) /\ Ends(u, j, w)
      BY DEF KeptInv
    <2>2. Holds(F, u, j, w)' /\ Ends(u, j, w)'
      BY <1>2, <1>3, <2>1, KeptFixed
    <2> QED
      BY <1>2, <2>2
  <1>8. \A c : \A r \in Range(records') : Calls(r, c) <=> r \in Range(records) /\ Calls(r, c)
    BY <1>2 DEF Calls
  <1>9. \A f : WaitersOf(f)' = WaitersOf(f)
    BY <1>2 DEF WaitersOf
  <1>10. \A c \in scenario.conns :
            /\ \A r \in Range(records') : Calls(r, c) =>
                Feeder(c) \in DOMAIN feederArrivals /\ feederArrivals[Feeder(c)] = r.time
            /\ Feeder(c) \in DOMAIN feederArrivals => \E r \in Range(records') : Calls(r, c)
    BY <1>2, <1>8 DEF KeptInv
  <1>11. \A key \in DOMAIN waiting : \A f \in waiting[key].pending :
            \E k \in DOMAIN WaitersOf(f)' : WaitersOf(f)'[k] = key
    BY <1>9 DEF KeptInv
  <1>12. Trips' = Trips /\ \A r, c : Calls(r, c)' <=> Calls(r, c)
    BY <1>2, ScenarioFixed, KeptFixed
  <1> HIDE DEF Kept, Holds, Ends, Calls, WaitersOf
  <1> QED
    BY <1>2, <1>5, <1>6, <1>7, <1>10, <1>11, <1>12 DEF KeptInv

\* A hold that has nothing left to wait for, or has waited long enough, is
\* ended at a time that keeps every transfer.
LEMMA ReleaseKept ==
    ASSUME scenario \in Scenarios, Regular, NEW t \in Trips, NEW i \in DOMAIN scenario.stops[t], i > 0,
           NEW F, \A f \in DOMAIN F : F[f] \in Int, NEW w, w.required \in Int, w.deadline \in Int,
           Holds(F, t, i, w), NEW at \in Nat, at <= w.deadline, w.pending = {} \/ at = w.deadline
    PROVE  LET x == Larger(w.required, at)
           IN x \in Int /\ x <= w.deadline /\ AllSettled(F, t, i, x)
  <1>1. PICK x, b, m : x = Larger(b, at) /\ b = w.required /\ m = w.deadline
    OBVIOUS
  <1>2. b \in Int /\ m \in Int /\ at \in Int /\ b <= m /\ at <= m
    BY <1>1 DEF Holds
  <1>3. x \in Int /\ x >= b /\ x >= at /\ x <= m
    <2>1. x \in {b, at} /\ x \in Int /\ x >= b /\ x >= at
      <3>1. Larger(b, at) \in Int /\ Larger(b, at) >= b /\ Larger(b, at) >= at /\ Larger(b, at) \in {b, at}
        BY <1>2, LargerOf
      <3> QED
        BY <1>1, <3>1
    <2> QED
      BY <1>2, <2>1
  <1>4. ASSUME NEW c \in Connected(t, i) PROVE Settled(F, c, i, x)
    <2>1. /\ Until(c, i) \in Int /\ Until(c, i) <= m
          /\ (Feeder(c) \in w.pending \/ Settled(F, c, i, b))
      BY <1>1, WaitEnds DEF Holds
    <2>2. CASE Settled(F, c, i, b)
      BY <1>2, <1>3, <2>2, SettledLater
    <2>3. CASE Feeder(c) \in w.pending
      <3>1. at = m
        BY <1>1, <2>3
      <3>2. x >= Until(c, i)
        BY <1>2, <1>3, <2>1, <3>1
      <3> QED
        BY <3>2 DEF Settled
    <2> QED
      BY <2>1, <2>2, <2>3
  <1> QED
    BY <1>1, <1>3, <1>4 DEF AllSettled

\* _on_conn_deadline ends a hold when the last wait is over.
LEMMA DeadlineKept == ASSUME MacroInv, Regular, KeptInv, NEW e \in heap, ConnDeadline(e) PROVE KeptInv'
  <1>1. PICK key : key = KeyOf(e)
    OBVIOUS
  <1>2. /\ e.event = Event("conn_deadline", key[1], key[2]) /\ scenario' = scenario
        /\ records' = records /\ feederArrivals' = feederArrivals /\ waiters' = waiters
        /\ DOMAIN waiting' = DOMAIN waiting
        /\ \A k \in DOMAIN waiting : waiting'[k] = waiting[k] \/ waiting'[k] = [waiting[k] EXCEPT !.resolved = TRUE]
        /\ \A g \in heap' :
            \/ g \in heap \ {e}
            \/ /\ key \in DOMAIN waiting /\ ~waiting[key].resolved
               /\ g.event = Event("depart", key[1], key[2])
               /\ g.time = Larger(waiting[key].required, e.time)
    BY <1>1, DeadlineEffect
  <1>3. scenario \in Scenarios /\ LayerTyped
    BY DEF MacroInv, LayerTyped
  <1>4. \A u, j : Moved(u, j, "arrive")' = Moved(u, j, "arrive")
    BY <1>2 DEF Moved
  <1>5. \A u, j, x : Kept(u, j, x)' <=> Kept(u, j, x)
    BY <1>2, <1>4, KeptFixed DEF Kept
  <1>6. \A k \in DOMAIN waiting : /\ waiting'[k].pending = waiting[k].pending
                                  /\ ~waiting'[k].resolved => waiting'[k] = waiting[k]
    <2> SUFFICES ASSUME NEW k \in DOMAIN waiting
                 PROVE  /\ waiting'[k].pending = waiting[k].pending
                        /\ ~waiting'[k].resolved => waiting'[k] = waiting[k]
      OBVIOUS
    <2>1. waiting[k] \in Hold
      BY <1>3 DEF LayerTyped
    <2>2. [waiting[k] EXCEPT !.resolved = TRUE].resolved = TRUE
      BY <2>1 DEF Hold
    <2>3. [waiting[k] EXCEPT !.resolved = TRUE].pending = waiting[k].pending
      BY <2>1 DEF Hold
    <2> QED
      BY <1>2, <2>2, <2>3
  <1>7. ASSUME NEW g \in heap', g.event.kind = "depart" PROVE Kept(g.event.trip, g.event.idx, g.time)'
    <2>1. CASE g \in heap \ {e}
      BY <1>5, <1>7, <2>1 DEF KeptInv
    <2>2. CASE /\ key \in DOMAIN waiting /\ ~waiting[key].resolved
               /\ g.event = Event("depart", key[1], key[2])
               /\ g.time = Larger(waiting[key].required, e.time)
      <3>1. PICK u \in Trips : \E j \in DOMAIN scenario.stops[u] : key = <<u, j>> /\ HeldAt(u, j)
        BY <2>2, AwaitsAt
      <3>2. PICK j \in DOMAIN scenario.stops[u] : key = <<u, j>> /\ HeldAt(u, j)
        BY <3>1
      <3>3. PICK w, F, at : w = waiting[key] /\ F = feederArrivals /\ at = e.time
        OBVIOUS
      <3>4. w \in Hold /\ w.required \in Int /\ w.deadline \in Int /\ j > 0 /\ at \in Nat
        BY <1>3, <2>2, <3>2, <3>3, EventTyping DEF LayerTyped, Hold, HeldAt
      <3>5. Holds(F, u, j, w) /\ Ends(u, j, w)
        BY <2>2, <3>2, <3>3 DEF KeptInv
      <3>6. at = w.deadline
        <4>1. e \in Deadlines(<<u, j>>)
          BY <1>2, <3>2 DEF Deadlines
        <4> QED
          BY <3>2, <3>3, <4>1 DEF HeldAt
      <3>7. \A f \in DOMAIN F : F[f] \in Int
        BY <1>3, <3>3 DEF LayerTyped
      <3>8. PICK x : x = Larger(w.required, at)
        OBVIOUS
      <3>9. x \in Int /\ x <= w.deadline /\ AllSettled(F, u, j, x)
        <4>1. at <= w.deadline
          BY <3>4, <3>6
        <4> QED
          BY <1>3, <3>4, <3>5, <3>6, <3>7, <3>8, <4>1, ReleaseKept
      <3>10. InBounds(u, j, x)
        BY <3>5, <3>9 DEF Ends, InBounds
      <3>11. Kept(u, j, x)
        BY <3>3, <3>9, <3>10 DEF Kept
      <3>12. g.event.trip = u /\ g.event.idx = j /\ g.time = x
        BY <2>2, <3>2, <3>3, <3>8 DEF Event
      <3> QED
        BY <1>5, <3>11, <3>12
    <2> QED
      BY <1>2, <2>1, <2>2
  <1>8. \A r \in Range(records') : r.event = "depart" => Kept(r.trip, r.idx, r.time)'
    BY <1>2, <1>5 DEF KeptInv
  <1>9. \A u \in Trips : \A j \in DOMAIN scenario.stops[u] :
            <<u, j>> \in DOMAIN waiting' /\ ~waiting'[<<u, j>>].resolved =>
                Holds(feederArrivals, u, j, waiting[<<u, j>>])' /\ Ends(u, j, waiting[<<u, j>>])'
    <2> SUFFICES ASSUME NEW u \in Trips, NEW j \in DOMAIN scenario.stops[u],
                        <<u, j>> \in DOMAIN waiting', ~waiting'[<<u, j>>].resolved
                 PROVE  Holds(feederArrivals, u, j, waiting[<<u, j>>])' /\ Ends(u, j, waiting[<<u, j>>])'
      OBVIOUS
    <2> PICK F, w, k : F = feederArrivals /\ w = waiting[k] /\ k = <<u, j>>
      OBVIOUS
    <2>1. waiting'[k] = w /\ ~w.resolved /\ k \in DOMAIN waiting
      BY <1>2, <1>6
    <2>2. Holds(F, u, j, w) /\ Ends(u, j, w)
      BY <2>1 DEF KeptInv
    <2>3. Holds(F, u, j, w)' /\ Ends(u, j, w)'
      BY <1>2, <1>4, <2>2, KeptFixed
    <2> QED
      BY <1>2, <2>1, <2>3
  <1>10. \A f : WaitersOf(f)' = WaitersOf(f)
    BY <1>2 DEF WaitersOf
  <1>11. \A k \in DOMAIN waiting' : \A f \in waiting'[k].pending :
            \E n \in DOMAIN WaitersOf(f)' : WaitersOf(f)'[n] = k
    BY <1>2, <1>6, <1>10 DEF KeptInv
  <1>12. Trips' = Trips /\ \A r, c : Calls(r, c)' <=> Calls(r, c)
    BY <1>2, ScenarioFixed, KeptFixed
  <1>13. \A c \in scenario.conns :
            /\ \A r \in Range(records) : Calls(r, c) =>
                Feeder(c) \in DOMAIN feederArrivals /\ feederArrivals[Feeder(c)] = r.time
            /\ Feeder(c) \in DOMAIN feederArrivals => \E r \in Range(records) : Calls(r, c)
    BY DEF KeptInv
  <1> HIDE DEF Kept, Holds, Ends, Calls, WaitersOf
  <1> QED
    BY <1>2, <1>7, <1>8, <1>9, <1>11, <1>12, <1>13 DEF KeptInv

\* An arrival is the earliest event there is.
LEMMA ArrivesFirst == ASSUME MacroInv, NEW e \in heap, Arrive(e) PROVE \A f \in heap : e.time <= f.time
  <1>1. \A f \in heap : f.time \in Nat
    BY EventTyping
  <1>2. PICK t, i, A, R, d, feeder, q, width :
            \/ /\ Last(t, i) /\ waiting' = A /\ Process(e, R, width) /\ waiters' = q
            \/ /\ ~Last(t, i) /\ Process(e, Put(R, width + 1, Onward(t, i, d)), width + 1)
    <2>1. PICK t, i, feeder, A, R, d, width, q :
            /\ t = e.event.trip /\ i = e.event.idx /\ feeder = <<t, Stop(t, i).stop>>
            /\ A = WaitingAfter(feeder, e.time) /\ R = Releases(feeder, e.time)
            /\ d = Decision(t, i, e.time, Put(feederArrivals, feeder, e.time))
            /\ width = Len(WaitersOf(feeder)) /\ q = waiters
      OBVIOUS
    <2> QED
      BY <2>1 DEF Arrive
  <1>3. IsNext(e)
    BY <1>2 DEF Process
  <1>4. ASSUME NEW f \in heap PROVE e.time <= f.time
    <2>1. f = e \/ Precedes(e, f)
      BY <1>3 DEF IsNext
    <2> QED
      BY <1>1, <2>1 DEF Precedes
  <1> QED
    BY <1>4

\* _on_arrive sees to the transfers from the train, and to those to it.
LEMMA ArriveKept ==
    ASSUME MacroInv, CauseInv, Regular, KeptInv, NEW e \in heap, Arrive(e) PROVE KeptInv'
  <1>1. PICK t, i, at, d, feeder, F, G : /\ t = e.event.trip /\ i = e.event.idx /\ at = e.time /\ d = DecisionAt(e)
                                         /\ feeder = Feed(e) /\ F = feederArrivals /\ G = Arrivals(e)
    OBVIOUS
  <1>2. PICK A : \A k : A[k] = HoldAfter(e, k)
    <2>1. \A k : WaitingAfter(feeder, at)[k] = HoldAfter(e, k)
      BY <1>1 DEF HoldAfter
    <2> QED
      BY <2>1
  <1>3. /\ e.event.kind = "arrive" /\ scenario' = scenario /\ feederArrivals' = G
        /\ \E rec : /\ rec.trip = t /\ rec.idx = i /\ rec.event = "arrive" /\ rec.time = at
                    /\ Range(records') = Range(records) \cup {rec}
        /\ DOMAIN waiting \subseteq DOMAIN waiting'
        /\ \A k \in DOMAIN waiting : waiting'[k] = A[k]
        /\ \A k \in DOMAIN waiting' : k \in DOMAIN waiting
                \/ (k = <<t, i>> /\ ~Last(t, i) /\ d.pending # {} /\ waiting'[k] = d)
        /\ \A f : \A k \in DOMAIN WaitersOf(f) :
                k \in DOMAIN WaitersOf(f)' /\ WaitersOf(f)'[k] = WaitersOf(f)[k]
        /\ \A f \in d.pending : ~Last(t, i) => \E k \in DOMAIN WaitersOf(f)' : WaitersOf(f)'[k] = <<t, i>>
        /\ \A g \in heap' :
                \/ g \in heap \ {e}
                \/ \E k \in DOMAIN waiting :
                    /\ ~waiting[k].resolved /\ A[k].resolved
                    /\ g.event = Event("depart", k[1], k[2]) /\ g.time = Larger(A[k].required, at)
                \/ ~Last(t, i) /\ g.event = Onward(t, i, d).event /\ g.time = Onward(t, i, d).time
    BY <1>1, <1>2, ArriveEffect
  <1>4. PICK rec : /\ rec.trip = t /\ rec.idx = i /\ rec.event = "arrive" /\ rec.time = at
                   /\ Range(records') = Range(records) \cup {rec}
    BY <1>3
  <1>5. t \in Trips /\ i \in DOMAIN scenario.stops[t] /\ Running(t, i) /\ i > 0 /\ i \in Nat /\ Moves(t) = {e}
    <2>1. t \in Trips /\ i \in DOMAIN scenario.stops[t] /\ Running(t, i) /\ Moves(t) = {e}
      BY <1>1, <1>3, ArrivesAt
    <2> QED
      BY <2>1, ScenarioTyping DEF Running, MacroInv, LayerTyped
  <1>6. scenario \in Scenarios /\ LayerTyped /\ at \in Nat /\ \A f \in DOMAIN F : F[f] \in Int
    BY <1>1, EventTyping DEF MacroInv, LayerTyped
  <1>7. G = Put(F, feeder, at) /\ d = Decision(t, i, at, G) /\ feeder = <<t, Stop(t, i).stop>>
    BY <1>1 DEF Arrivals, DecisionAt, Feed
  <1>8. \A f \in DOMAIN G : G[f] \in Int
    BY <1>6, <1>7 DEF Put
  <1>9. \A c \in scenario.conns : Feeder(c) = feeder => Feeder(c) \notin DOMAIN F
    BY <1>1, <1>3, FirstCall
  <1>10. \A u, j : u # t \/ j # i => Moved(u, j, "arrive")' = Moved(u, j, "arrive")
    BY <1>4 DEF Moved
  <1>11. Moved(t, i, "arrive")' = {rec}
    <2>1. \A r \in Range(records) : r.trip = t => r.idx # i
      <3>1. \A r \in Range(records) : r.idx \in Nat
        BY <1>6, RecordTyping DEF MovementRecord
      <3> QED
        BY <1>5, <3>1 DEF Running, Passed
    <2> QED
      BY <1>4, <2>1 DEF Moved
  <1>12. ASSUME NEW u \in Trips, NEW j \in DOMAIN scenario.stops[u], NEW x, Kept(u, j, x), u # t \/ j # i
         PROVE  Kept(u, j, x)'
    <2> SUFFICES ASSUME j > 0 PROVE AllSettled(feederArrivals, u, j, x)' /\ InBounds(u, j, x)'
      BY DEF Kept
    <2>1. AllSettled(F, u, j, x) /\ InBounds(u, j, x)
      BY <1>1, <1>12 DEF Kept
    <2>2. AllSettled(G, u, j, x)
      <3>1. \A c \in Connected(u, j) : c \in scenario.conns
        BY DEF Connected, Conns
      <3> SUFFICES ASSUME NEW c \in Connected(u, j) PROVE Settled(G, c, j, x)
        BY DEF AllSettled
      <3>2. Feeder(c) = feeder => feeder \notin DOMAIN F
        BY <1>9, <3>1
      <3>3. Settled(F, c, j, x)
        BY <2>1 DEF AllSettled
      <3> QED
        BY <1>7, <3>2, <3>3, SettledStays
    <2>3. AllSettled(G, u, j, x)' /\ InBounds(u, j, x)'
      BY <1>3, <1>10, <1>12, <2>1, <2>2, KeptFixed
    <2> QED
      BY <1>3, <2>3
  <1>13. ASSUME NEW u \in Trips, NEW j \in DOMAIN scenario.stops[u],
                <<u, j>> \in DOMAIN waiting, ~waiting[<<u, j>>].resolved
         PROVE  /\ u # t /\ j > 0
                /\ Holds(G, u, j, A[<<u, j>>]) /\ Ends(u, j, A[<<u, j>>])
                /\ A[<<u, j>>].required \in Int /\ A[<<u, j>>].deadline \in Int /\ at <= A[<<u, j>>].deadline
    <2>1. PICK k, w, v : k = <<u, j>> /\ w = waiting[k] /\ v = A[k]
      OBVIOUS
    <2>2. w \in Hold /\ Holds(F, u, j, w) /\ Ends(u, j, w)
      BY <1>1, <1>6, <1>13, <2>1 DEF KeptInv, LayerTyped
    <2>3. HeldAt(u, j)
      <3>1. PICK x \in Trips : \E y \in DOMAIN scenario.stops[x] : k = <<x, y>> /\ HeldAt(x, y)
        BY <1>13, <2>1, AwaitsAt
      <3>2. PICK y : k = <<x, y>> /\ HeldAt(x, y)
        BY <3>1
      <3>3. x = u /\ y = j
        BY <2>1, <3>2
      <3> QED
        BY <3>2, <3>3
    <2>4. u # t /\ j > 0
      BY <1>5, <2>3 DEF HeldAt
    <2>5. v = WaitingAfter(feeder, at)[k]
      BY <1>1, <1>2, <2>1 DEF HoldAfter
    <2>6. feeder \in w.pending => \E n \in DOMAIN WaitersOf(feeder) : WaitersOf(feeder)[n] = k
      BY <1>13, <2>1 DEF KeptInv
    <2>7. \A c \in scenario.conns : Feeder(c) = feeder => feeder \notin DOMAIN F
      BY <1>9
    <2>8. Holds(Put(F, feeder, at), u, j, WaitingAfter(feeder, at)[k]) /\ WaitingAfter(feeder, at)[k].deadline = w.deadline
      <3>1. k \in DOMAIN waiting /\ ~w.resolved
        BY <1>13, <2>1
      <3> QED
        BY <1>6, <2>1, <2>2, <2>4, <2>6, <2>7, <3>1, ServedKept
    <2>9. v \in Hold
      BY <1>6, <1>13, <2>1, <2>5, AfterRelease
    <2>10. at <= w.deadline
      <3>1. PICK f \in heap : f.time = w.deadline
        BY <2>1, <2>3 DEF HeldAt
      <3> QED
        BY <1>1, <3>1, ArrivesFirst
    <2>11. Holds(G, u, j, v) /\ v.deadline = w.deadline
      BY <1>7, <2>5, <2>8
    <2> QED
      BY <2>1, <2>2, <2>4, <2>9, <2>10, <2>11 DEF Hold, Ends
  <1>14. Holds(G, t, i, d) /\ d.deadline = Latest(t, i, at)
    BY <1>5, <1>6, <1>7, <1>8, DecisionKept
  <1>15. ASSUME NEW g \in heap', g.event.kind = "depart" PROVE Kept(g.event.trip, g.event.idx, g.time)'
    <2>1. CASE g \in heap \ {e}
      <3>1. PICK u, j : u = g.event.trip /\ j = g.event.idx
        OBVIOUS
      <3>2. u \in Trips /\ j \in DOMAIN scenario.stops[u] /\ Moves(u) = {g}
        BY <1>15, <2>1, <3>1, DepartsAt
      <3>3. u # t
        BY <1>5, <2>1, <3>2
      <3>4. Kept(u, j, g.time)
        BY <1>15, <2>1, <3>1 DEF KeptInv
      <3> QED
        BY <1>12, <3>1, <3>2, <3>3, <3>4
    <2>2. CASE \E k \in DOMAIN waiting :
                /\ ~waiting[k].resolved /\ A[k].resolved
                /\ g.event = Event("depart", k[1], k[2]) /\ g.time = Larger(A[k].required, at)
      <3>1. PICK k \in DOMAIN waiting :
                /\ ~waiting[k].resolved /\ A[k].resolved
                /\ g.event = Event("depart", k[1], k[2]) /\ g.time = Larger(A[k].required, at)
        BY <2>2
      <3>2. PICK u \in Trips : \E j \in DOMAIN scenario.stops[u] : k = <<u, j>>
        BY <1>6 DEF LayerTyped
      <3>3. PICK j \in DOMAIN scenario.stops[u] : k = <<u, j>>
        BY <3>2
      <3>4. PICK v, x : v = A[k] /\ x = Larger(v.required, at)
        OBVIOUS
      <3>5. /\ u # t /\ j > 0 /\ Holds(G, u, j, v) /\ Ends(u, j, v)
            /\ v.required \in Int /\ v.deadline \in Int /\ at <= v.deadline
        BY <1>13, <3>1, <3>3, <3>4
      <3>6. v.pending = {}
        <4>1. v = WaitingAfter(feeder, at)[k] /\ v.resolved /\ ~waiting[k].resolved
          BY <1>1, <1>2, <3>1, <3>4 DEF HoldAfter
        <4>2. v = Served(k, feeder, at)
          BY <4>1 DEF WaitingAfter
        <4>3. waiting[k] \in Hold
          BY <1>6 DEF LayerTyped
        <4>4. v.resolved => v.pending = {}
          BY <4>2, <4>3 DEF Served, Hold
        <4> QED
          BY <4>1, <4>4
      <3>7. x \in Int /\ x <= v.deadline /\ AllSettled(G, u, j, x)
        BY <1>6, <1>8, <3>4, <3>5, <3>6, ReleaseKept
      <3>8. InBounds(u, j, x)
        BY <3>5, <3>7 DEF Ends, InBounds
      <3>9. AllSettled(G, u, j, x)' /\ InBounds(u, j, x)'
        BY <1>3, <1>10, <3>5, <3>7, <3>8, KeptFixed
      <3>10. Kept(u, j, x)'
        BY <1>3, <3>9 DEF Kept
      <3>11. g.event.trip = u /\ g.event.idx = j /\ g.time = x
        BY <3>1, <3>3, <3>4 DEF Event
      <3> QED
        BY <3>10, <3>11
    <2>3. CASE ~Last(t, i) /\ g.event = Onward(t, i, d).event /\ g.time = Onward(t, i, d).time
      <3>1. d.pending = {} /\ g.event.trip = t /\ g.event.idx = i /\ g.time = d.required
        BY <1>15, <2>3 DEF Onward, At, Event
      <3>2. AllSettled(G, t, i, d.required) /\ d.required <= Latest(t, i, at)
        BY <1>14, <3>1 DEF Holds, AllSettled
      <3>3. PICK x : x = d.required
        OBVIOUS
      <3>4. AllSettled(G, t, i, x)' /\ x <= Latest(t, i, at)'
        BY <1>3, <3>2, <3>3, KeptFixed
      <3>5. InBounds(t, i, x)'
        BY <1>4, <1>11, <3>4 DEF InBounds
      <3>6. Kept(t, i, x)'
        BY <1>3, <3>4, <3>5 DEF Kept
      <3> QED
        BY <3>1, <3>3, <3>6
    <2> QED
      BY <1>3, <2>1, <2>2, <2>3
  <1>16. ASSUME NEW r \in Range(records'), r.event = "depart" PROVE Kept(r.trip, r.idx, r.time)'
    <2>1. r \in Range(records)
      BY <1>4, <1>16
    <2>2. Kept(r.trip, r.idx, r.time) /\ r.idx \in DOMAIN scenario.stops[r.trip] /\ r.trip \in Trips
      BY <1>6, <1>16, <2>1, RecordTyping DEF KeptInv, CauseInv, MovementRecord
    <2>3. r.trip # t \/ r.idx # i
      BY <1>5, <2>1 DEF Running, Passed
    <2> QED
      BY <1>12, <2>2, <2>3
  <1>17. ASSUME NEW u \in Trips, NEW j \in DOMAIN scenario.stops[u],
                <<u, j>> \in DOMAIN waiting', ~waiting'[<<u, j>>].resolved
         PROVE  Holds(feederArrivals, u, j, waiting[<<u, j>>])' /\ Ends(u, j, waiting[<<u, j>>])'
    <2>1. PICK k, v : k = <<u, j>> /\ v = waiting'[k]
      OBVIOUS
    <2>2. CASE k \in DOMAIN waiting
      <3>1. v = A[k] /\ ~v.resolved
        BY <1>3, <1>17, <2>1, <2>2
      <3>2. ~waiting[k].resolved
        <4>1. waiting[k].resolved => A[k] = waiting[k]
          BY <1>1, <1>2, <2>2 DEF HoldAfter, WaitingAfter, Awaits
        <4> QED
          BY <3>1, <4>1
      <3>3. u # t /\ Holds(G, u, j, v) /\ Ends(u, j, v)
        BY <1>13, <2>1, <2>2, <3>1, <3>2
      <3>4. Holds(G, u, j, v)' /\ Ends(u, j, v)'
        BY <1>3, <1>10, <3>3, KeptFixed
      <3> QED
        BY <1>3, <2>1, <3>4
    <2>3. CASE k = <<t, i>> /\ v = d
      <3>1. u = t /\ j = i
        BY <2>1, <2>3
      <3>2. Holds(G, t, i, d)' /\ d.deadline = Latest(t, i, at)'
        BY <1>3, <1>14, KeptFixed
      <3>3. Ends(t, i, d)'
        BY <1>4, <1>11, <3>2 DEF Ends
      <3> QED
        BY <1>3, <2>1, <2>3, <3>1, <3>2, <3>3
    <2> QED
      BY <1>3, <1>17, <2>1, <2>2, <2>3
  <1>18. ASSUME NEW k \in DOMAIN waiting', NEW f \in waiting'[k].pending
         PROVE  \E n \in DOMAIN WaitersOf(f)' : WaitersOf(f)'[n] = k
    <2>1. CASE k \in DOMAIN waiting
      <3>1. waiting[k] \in Hold
        BY <1>6, <2>1 DEF LayerTyped
      <3>2. A[k] = waiting[k] \/ A[k] = Served(k, feeder, at)
        BY <1>1, <1>2, <2>1 DEF HoldAfter, WaitingAfter
      <3>3. A[k].pending \subseteq waiting[k].pending
        BY <3>1, <3>2 DEF Served, Hold
      <3>4. PICK n \in DOMAIN WaitersOf(f) : WaitersOf(f)[n] = k
        BY <1>3, <1>18, <2>1, <3>3 DEF KeptInv
      <3> QED
        BY <1>3, <3>4
    <2>2. CASE k = <<t, i>> /\ ~Last(t, i) /\ waiting'[k] = d
      BY <1>3, <1>18, <2>2
    <2> QED
      BY <1>3, <2>1, <2>2
  <1>19. \A c : Calls(rec, c) <=> Feeder(c) = feeder
    BY <1>4, <1>7 DEF Calls
  <1>20. ASSUME NEW c \in scenario.conns
         PROVE  /\ \A r \in Range(records') : Calls(r, c) =>
                    Feeder(c) \in DOMAIN G /\ G[Feeder(c)] = r.time
                /\ Feeder(c) \in DOMAIN G => \E r \in Range(records') : Calls(r, c)
    <2>1. /\ \A r \in Range(records) : Calls(r, c) => Feeder(c) \in DOMAIN F /\ F[Feeder(c)] = r.time
          /\ Feeder(c) \in DOMAIN F => \E r \in Range(records) : Calls(r, c)
      BY <1>1 DEF KeptInv
    <2>2. CASE Feeder(c) = feeder
      <3>1. \A r \in Range(records') : Calls(r, c) => r = rec
        BY <1>4, <1>9, <2>1, <2>2
      <3>2. Calls(rec, c) /\ feeder \in DOMAIN G /\ G[feeder] = at
        BY <1>7, <1>19, <2>2 DEF Put
      <3> QED
        BY <1>4, <2>2, <3>1, <3>2
    <2>3. CASE Feeder(c) # feeder
      <3>1. ~Calls(rec, c)
        BY <1>19, <2>3
      <3>2. /\ Feeder(c) \in DOMAIN G <=> Feeder(c) \in DOMAIN F
            /\ Feeder(c) \in DOMAIN F => G[Feeder(c)] = F[Feeder(c)]
        BY <1>7, <2>3 DEF Put
      <3> QED
        BY <1>4, <2>1, <3>1, <3>2
    <2> QED
      BY <2>2, <2>3
  <1>21. Trips' = Trips /\ \A r, c : Calls(r, c)' <=> Calls(r, c)
    BY <1>3, ScenarioFixed, KeptFixed
  <1> HIDE DEF Kept, Holds, Ends, Calls, WaitersOf
  <1> QED
    BY <1>3, <1>15, <1>16, <1>17, <1>18, <1>20, <1>21 DEF KeptInv

\* Before the first event no connection has been seen to.
LEMMA KeptInit == Init => KeptInv
  <1> SUFFICES ASSUME Init PROVE KeptInv
    OBVIOUS
  <1>1. records = <<>> /\ waiting = <<>> /\ feederArrivals = <<>>
    BY DEF Init
  <1>2. Range(records) = {} /\ DOMAIN waiting = {} /\ DOMAIN feederArrivals = {}
    BY <1>1 DEF Range
  <1>3. ASSUME NEW e \in heap PROVE Kept(e.event.trip, e.event.idx, e.time)
    <2>1. PICK t : e.event = Event("depart", t, 0)
      BY FirstDepartures
    <2>2. e.event.idx = 0
      BY <2>1 DEF Event
    <2> QED
      BY <2>2 DEF Kept
  <1> QED
    BY <1>2, <1>3 DEF KeptInv

\* Each handler sees to the connections of a regular scenario.
LEMMA KeptStep ==
    ASSUME MacroInv, CauseInv, Regular => KeptInv, [Next]_vars
    PROVE  (Regular => KeptInv)'
  <1>1. scenario' = scenario
    BY DEF Next, Turn, Depart, Arrive, ConnDeadline, Finished, vars
  <1>2. Regular' <=> Regular
    BY <1>1, KeptFixed
  <1> SUFFICES ASSUME Regular PROVE KeptInv'
    BY <1>2
  <1>3. CASE Turn
    BY <1>3, DepartKept, ArriveKept, DeadlineKept DEF Turn
  <1>4. CASE UNCHANGED vars
    <2>1. /\ heap' = heap /\ records' = records /\ waiting' = waiting
          /\ feederArrivals' = feederArrivals /\ waiters' = waiters
      BY <1>4 DEF vars
    <2>2. \A t, i : Moved(t, i, "arrive")' = Moved(t, i, "arrive")
      BY <2>1 DEF Moved
    <2>3. /\ Trips' = Trips
          /\ \A t, i, x : Kept(t, i, x)' <=> Kept(t, i, x)
          /\ \A F, t, i, w : Holds(F, t, i, w)' <=> Holds(F, t, i, w)
          /\ \A t, i, w : Ends(t, i, w)' <=> Ends(t, i, w)
          /\ \A r, c : Calls(r, c)' <=> Calls(r, c)
          /\ \A f : WaitersOf(f)' = WaitersOf(f)
      BY <1>1, <2>1, <2>2, ScenarioFixed, KeptFixed DEF Kept, WaitersOf
    <2> HIDE DEF Kept, Holds, Ends, Calls, WaitersOf
    <2> QED
      BY <1>1, <2>1, <2>3 DEF KeptInv
  <1> QED
    BY <1>3, <1>4 DEF Next, Finished

\* The departures of a regular scenario have kept their transfers.
LEMMA TransfersKept == ASSUME MacroInv, CauseInv, Regular, KeptInv PROVE TransferIsKept
  <1> SUFFICES ASSUME NEW r \in HeldDepartures, NEW c \in Conns(r.trip, Stop(r.trip, r.idx).seq),
                      NEW a \in Moved(r.trip, r.idx, "arrive"), NEW i,
                      Stop(c.feeder, i).stop = c.feederStop, NEW f \in Moved(c.feeder, i, "arrive"),
                      f.time + c.minTransfer <= GiveUp(c, r.idx, a.time)
               PROVE  r.time >= f.time + c.minTransfer
    BY DEF TransferIsKept
  <1>1. /\ scenario \in Scenarios /\ r.trip \in Trips /\ r.idx \in DOMAIN scenario.stops[r.trip]
        /\ r.idx > 0 /\ r.time \in Int /\ r \in Range(records) /\ r.event = "depart"
    BY RecordTyping DEF HeldDepartures, CauseInv, MacroInv, LayerTyped, MovementRecord
  <1>2. f \in Range(records) /\ f.time \in Int /\ Calls(f, c)
    BY RecordTyping DEF Moved, Calls, Feeder, MacroInv, LayerTyped, MovementRecord
  <1>3. c \in Connected(r.trip, r.idx)
    BY DEF Connected
  <1>4. /\ c \in scenario.conns /\ c.minTransfer \in Int /\ Until(c, r.idx) \in Int
        /\ GiveUp(c, r.idx, a.time) = Until(c, r.idx)
    BY <1>1, <1>3, WaitEnds
  <1>5. feederArrivals[Feeder(c)] = f.time
    BY <1>2, <1>4 DEF KeptInv
  <1>6. Settled(feederArrivals, c, r.idx, r.time)
    BY <1>1, <1>3 DEF KeptInv, Kept, AllSettled
  <1>7. r.time >= Until(c, r.idx) \/ r.time >= f.time + c.minTransfer
    BY <1>4, <1>5, <1>6 DEF Settled
  <1> QED
    BY <1>1, <1>2, <1>4, <1>7

\* They have not outlasted the waits.
LEMMA HoldsBounded == ASSUME MacroInv, CauseInv, KeptInv PROVE HoldIsBounded
  <1> SUFFICES ASSUME NEW r \in HeldDepartures, NEW a \in Moved(r.trip, r.idx, "arrive")
               PROVE  r.time <= Latest(r.trip, r.idx, a.time)
    BY DEF HoldIsBounded, Latest, Connected
  <1>1. r.idx > 0 /\ r \in Range(records) /\ r.event = "depart"
    BY DEF HeldDepartures
  <1>2. InBounds(r.trip, r.idx, r.time)
    BY <1>1 DEF KeptInv, Kept
  <1> QED
    BY <1>2 DEF InBounds

\* However many feeders a train waits for, whichever of them comes first or
\* never, and whatever delays them, it leaves a stop with the transfers that
\* fit into their waits and never after the last of the waits, in every
\* scenario where a connection's stop is found and a feeder calls once.
THEOREM ConnectionsAreKept == Spec => []ConnectionKept
  <1>1. MacroInv /\ CauseInv /\ (Regular => KeptInv) /\ [Next]_vars => (Regular => KeptInv)'
    BY KeptStep
  <1>2. Init => (Regular => KeptInv)
    BY KeptInit
  <1>3. MacroInv /\ CauseInv /\ (Regular => KeptInv) => ConnectionKept
    BY TransfersKept, HoldsBounded DEF ConnectionKept
  <1> QED
    BY <1>1, <1>2, <1>3, CauseInit, CauseStep, MacroInvariant, PTL DEF Spec
-----------------------------------------------------------------------------
\* The snapshot reports numbers.
Reported ==
    LET observed == Observed(scenario.snapshot, "arr") IN \A x \in DOMAIN observed : observed[x] \in Int

\* What run_validation gives the simulation: delays at the origins only, no
\* connections and no least dwell, for trips whose stops have numbers and
\* times in order; and the snapshot reports numbers.
Validated ==
    /\ scenario.conns = {} /\ scenario.minDwell = 0
    /\ \A p \in DOMAIN scenario.primary : \E t \in Trips : p = <<t, Stop(t, 0).seq>>
    /\ \A t \in Trips : ~NeverStarts(t) =>
        /\ WellTimed(t)
        /\ \A i \in DOMAIN scenario.stops[t] \ {0} :
            Stop(t, i).seq # Stop(t, 0).seq /\ (~Last(t, i) => Stop(t, i).arr <= Stop(t, i).dep)
    /\ "snapshot" \in DOMAIN scenario => Reported

\* The dwell times before the i-th stop, and how late a train leaves a stop
\* that was as late as Origin at its first one.
Slack(t, i) == MapThenSumSet(LAMBDA j : Stop(t, j).dep - Stop(t, j).arr, 1..(i - 1))
Origin(t) == Primary(t, Stop(t, 0).seq)
LateAfter(t, i) == IF i = 0 THEN Origin(t) ELSE Larger(0, Origin(t) - Slack(t, i + 1))

Reaches(t, i) == \A j \in 0..(i - 1) : ~Last(t, j)

Recovers(t, i, kind, x) ==
    /\ kind = "depart" => Reaches(t, i) /\ x = Due(t, i) + LateAfter(t, i)
    /\ kind = "arrive" => i > 0 /\ Reaches(t, i) /\ x = Stop(t, i).arr + LateAfter(t, i - 1)

RecoveryInv ==
    Validated =>
        /\ \A r \in Range(records) : Recovers(r.trip, r.idx, r.event, r.time)
        /\ \A e \in heap : Recovers(e.event.trip, e.event.idx, e.event.kind, e.time)
        /\ DOMAIN waiting = {}

\* How late trains may be stands in the scenario.
LEMMA RecoveryFixed ==
    ASSUME scenario' = scenario
    PROVE  /\ Validated' <=> Validated
           /\ \A t, i, k, x : Recovers(t, i, k, x)' <=> Recovers(t, i, k, x)
  <1>1. \A t, i : Stop(t, i)' = Stop(t, i) /\ Last(t, i)' = Last(t, i)
    BY DEF Stop, Last
  <1>2. \A t, i : Slack(t, i)' = Slack(t, i)
    BY DEF Slack, Stop, MapThenSumSet, MapThenFoldSet
  <1>3. \A t : Origin(t)' = Origin(t)
    BY DEF Origin, Primary, Stop
  <1>4. \A t, i : LateAfter(t, i)' = LateAfter(t, i)
    BY <1>2, <1>3 DEF LateAfter
  <1>5. \A t, i, k, x : Recovers(t, i, k, x)' <=> Recovers(t, i, k, x)
    BY <1>1, <1>4, ScenarioFixed DEF Recovers, Reaches, Due
  <1>6. Validated' <=> Validated
    <2>1. \A t : WellTimed(t)' <=> WellTimed(t)
      BY ScenarioFixed DEF WellTimed
    <2>2. \A t : NeverStarts(t)' <=> NeverStarts(t)
      BY <1>1 DEF NeverStarts
    <2>3. Reported' <=> Reported
      BY DEF Reported
    <2>4. \A t : Primary(t, Stop(t, 0).seq)' = Primary(t, Stop(t, 0).seq)
      BY <1>3 DEF Origin
    <2> QED
      BY <1>1, <2>1, <2>2, <2>3 DEF Validated, Trips
  <1> QED
    BY <1>5, <1>6

\* The stops a train of a validated run comes to have times in order.
LEMMA ValidatedStops ==
    ASSUME scenario \in Scenarios, Validated, NEW t \in Trips, ~NeverStarts(t), NEW n \in Nat, Reaches(t, n)
    PROVE  /\ \A j \in 0..n : j \in DOMAIN scenario.stops[t]
           /\ \A j \in 1..(n - 1) : /\ Stop(t, j).arr \in Int /\ Stop(t, j).dep \in Int
                                    /\ Stop(t, j).arr <= Stop(t, j).dep
           /\ n > 0 => Stop(t, n).arr \in Int
           /\ Origin(t) \in Int /\ Due(t, 0) \in Int
  <1>1. 0 \in DOMAIN scenario.stops[t] /\ Origin(t) \in Int /\ Due(t, 0) \in Int
    BY ScenarioTyping DEF Origin
  <1>2. ASSUME NEW j \in 0..n PROVE j \in DOMAIN scenario.stops[t]
    <2>1. CASE j = 0
      BY <1>1, <2>1
    <2>2. CASE j > 0
      <3>1. j - 1 \in 0..(n - 1) /\ (j - 1) + 1 = j
        BY <2>2
      <3>2. ~Last(t, j - 1)
        BY <3>1 DEF Reaches
      <3> QED
        BY <3>1, <3>2 DEF Last
    <2> QED
      BY <2>1, <2>2
  <1>3. WellTimed(t) /\ \A i \in DOMAIN scenario.stops[t] \ {0} : ~Last(t, i) => Stop(t, i).arr <= Stop(t, i).dep
    BY DEF Validated
  <1>4. \A j \in 0..n : Stop(t, j).arr \in Int \cup {NoTime} /\ Stop(t, j).dep \in Int \cup {NoTime}
    BY <1>2, ScenarioTyping DEF Times
  <1>5. ASSUME NEW j \in 1..(n - 1)
        PROVE  /\ Stop(t, j).arr \in Int /\ Stop(t, j).dep \in Int
               /\ Stop(t, j).arr <= Stop(t, j).dep
    <2>1. j \in 0..n /\ j > 0 /\ j \in 0..(n - 1)
      OBVIOUS
    <2>2. ~Last(t, j) /\ j \in DOMAIN scenario.stops[t]
      BY <1>2, <2>1 DEF Reaches
    <2> QED
      BY <1>3, <1>4, <2>1, <2>2 DEF WellTimed
  <1>6. ASSUME n > 0 PROVE Stop(t, n).arr \in Int
    <2>1. n - 1 \in 0..(n - 1) /\ n - 1 \in 0..n /\ n \in 0..n /\ (n - 1) + 1 = n
      BY <1>6
    <2>2. ~Last(t, n - 1) /\ n - 1 \in DOMAIN scenario.stops[t]
      BY <1>2, <2>1 DEF Reaches
    <2>3. Stop(t, n).arr # NoTime
      BY <1>3, <2>1, <2>2 DEF WellTimed
    <2> QED
      BY <1>4, <2>1, <2>3
  <1> QED
    BY <1>1, <1>2, <1>5, <1>6

\* The dwell times of the stops add up.
LEMMA SlackAdds ==
    ASSUME scenario \in Scenarios, NEW t, NEW n \in Nat, n > 0,
           \A j \in 1..n : Stop(t, j).arr \in Int /\ Stop(t, j).dep \in Int
    PROVE  /\ Slack(t, n) \in Int /\ Slack(t, n + 1) \in Int
           /\ Slack(t, n + 1) = Slack(t, n) + (Stop(t, n).dep - Stop(t, n).arr)
           /\ Slack(t, 1) = 0
  <1>1. PICK g : g = [j \in 1..n |-> Stop(t, j).dep - Stop(t, j).arr]
    OBVIOUS
  <1>2. \A j \in 1..n : g[j] = Stop(t, j).dep - Stop(t, j).arr /\ g[j] \in Int
    BY <1>1
  <1>3. ASSUME NEW m \in Nat, m <= n
        PROVE  \E f : SumsOver(1..m, g, f) /\ Slack(t, m + 1) = f[1..m]
    <2>1. PICK S : S = 1..m /\ S = 1..((m + 1) - 1)
      BY <1>3
    <2>2. /\ IsFiniteSet(S) /\ \A x \in S : g[x] \in Int
          /\ \A j \in S : g[j] = Stop(t, j).dep - Stop(t, j).arr
      BY <1>2, <1>3, <2>1, FS_Interval
    <2> DEFINE Fits(f) == f = [s \in SUBSET S |-> IF s = {} THEN 0
                                 ELSE (Stop(t, CHOOSE x \in s : TRUE).dep - Stop(t, CHOOSE x \in s : TRUE).arr)
                                        + f[s \ {CHOOSE x \in s : TRUE}]]
               sum == CHOOSE f : Fits(f)
    <2>3. ASSUME NEW f PROVE Fits(f) <=> SumsOver(S, g, f)
      <3>1. \A s \in SUBSET S : s # {} => Pick(s) \in S
        BY DEF Pick
      <3>2. [s \in SUBSET S |-> IF s = {} THEN 0
                  ELSE (Stop(t, CHOOSE x \in s : TRUE).dep - Stop(t, CHOOSE x \in s : TRUE).arr)
                         + f[s \ {CHOOSE x \in s : TRUE}]]
              = [s \in SUBSET S |-> IF s = {} THEN 0 ELSE g[Pick(s)] + f[s \ {Pick(s)}]]
        BY <2>2, <3>1 DEF Pick
      <3> HIDE DEF Fits, sum
      <3>3. IsFold(S, g, f) <=> SumsOver(S, g, f)
        BY <2>2, SetSumsDefined
      <3> QED
        BY <3>2, <3>3 DEF Fits, IsFold
    <2>4. \E f : SumsOver(S, g, f)
      <3> HIDE DEF Fits, sum
      <3> QED
        BY <2>2, SetSumsExist
    <2>5. SumsOver(S, g, sum)
      <3> HIDE DEF Fits
      <3> QED
        BY <2>3, <2>4
    <2>6. Slack(t, m + 1) = sum[S]
      BY <2>1 DEF Slack, MapThenSumSet, MapThenFoldSet
    <2> QED
      BY <2>1, <2>5, <2>6
  <1>4. PICK e : SumsOver(1..(n - 1), g, e) /\ Slack(t, n) = e[1..(n - 1)]
    <2>1. n - 1 \in Nat /\ n - 1 <= n /\ (n - 1) + 1 = n
      OBVIOUS
    <2> QED
      BY <1>3, <2>1
  <1>5. PICK f : SumsOver(1..n, g, f) /\ Slack(t, n + 1) = f[1..n]
    BY <1>3
  <1>6. Slack(t, 1) = 0
    <2>1. PICK z : SumsOver(1..0, g, z) /\ Slack(t, 0 + 1) = z[1..0]
      BY <1>3
    <2>2. 1..0 = {} /\ 0 + 1 = 1
      OBVIOUS
    <2> QED
      BY <2>1, <2>2 DEF SumsOver
  <1>7. PICK S, R : S = 1..n /\ R = 1..(n - 1) /\ R \in SUBSET S /\ S \in SUBSET S /\ n \in S /\ S \ {n} = R
    OBVIOUS
  <1>8. /\ IsFiniteSet(S) /\ IsFiniteSet(R) /\ \A x \in S : g[x] \in Int
        /\ SumsOver(S, g, f) /\ SumsOver(R, g, e)
    BY <1>2, <1>4, <1>5, <1>7, FS_Interval
  <1>9. f[S] = g[n] + f[R]
    <2>1. TakenApart(S, g, f)
      BY <1>8, SumTakenApart
    <2>2. f[S] = g[n] + f[S \ {n}]
      BY <1>7, <2>1 DEF TakenApart
    <2> QED
      BY <1>7, <2>2
  <1>10. e[R] = f[R]
    <2>1. SameOn(R, e, f)
      BY <1>7, <1>8, SetSumsAgree
    <2> QED
      BY <2>1 DEF SameOn
  <1>11. f[R] \in Int /\ f[S] \in Int
    BY <1>5, <1>7 DEF SumsOver
  <1>12. n \in 1..n
    OBVIOUS
  <1> QED
    BY <1>2, <1>4, <1>5, <1>6, <1>7, <1>9, <1>10, <1>11, <1>12

\* A train that is as late as its origin delay less the slack so far is so
\* again when it leaves the next stop,
LEMMA RecoversAtStop ==
    ASSUME scenario \in Scenarios, Validated, NEW t \in Trips, ~NeverStarts(t),
           NEW i \in DOMAIN scenario.stops[t], ~Last(t, i), NEW at \in Nat, Recovers(t, i, "arrive", at)
    PROVE  Recovers(t, i, "depart", Base(t, i, at))
  <1>1. /\ i \in Nat /\ i > 0 /\ Reaches(t, i) /\ at = Stop(t, i).arr + LateAfter(t, i - 1)
    BY ScenarioTyping DEF Recovers
  <1>2. Reaches(t, i + 1)
    <2>1. \A j \in 0..((i + 1) - 1) : j \in 0..(i - 1) \/ j = i
      BY <1>1
    <2> QED
      BY <1>1, <2>1 DEF Reaches
  <1>3. PICK n \in Nat : n = i + 1
    BY <1>1
  <1>4. /\ \A j \in 1..i : Stop(t, j).arr \in Int /\ Stop(t, j).dep \in Int /\ Stop(t, j).arr <= Stop(t, j).dep
        /\ Origin(t) \in Int
    <2>0. Reaches(t, n)
      BY <1>2, <1>3
    <2>1. \A j \in 1..(n - 1) : Stop(t, j).arr \in Int /\ Stop(t, j).dep \in Int /\ Stop(t, j).arr <= Stop(t, j).dep
      BY <2>0, ValidatedStops
    <2>2. n - 1 = i
      BY <1>1, <1>3
    <2>3. Origin(t) \in Int
      BY <2>0, ValidatedStops
    <2>4. 1..(n - 1) = 1..i
      BY <2>2
    <2> QED
      BY <2>1, <2>3, <2>4
  <1>5. PICK arr, dep, P, x, y :
            /\ arr \in Int /\ dep \in Int /\ P \in Int
            /\ arr = Stop(t, i).arr /\ dep = Stop(t, i).dep /\ P = Origin(t)
            /\ x = Slack(t, i) /\ y = Slack(t, i + 1)
    <2>1. i \in 1..i
      BY <1>1
    <2> QED
      BY <1>4, <2>1
  <1>6. x \in Int /\ y \in Int /\ y = x + (dep - arr) /\ arr <= dep /\ Slack(t, 1) = 0
    <2>1. /\ Slack(t, i) \in Int /\ Slack(t, i + 1) \in Int
          /\ Slack(t, i + 1) = Slack(t, i) + (Stop(t, i).dep - Stop(t, i).arr)
          /\ Slack(t, 1) = 0
      BY <1>1, <1>4, SlackAdds
    <2>2. i \in 1..i
      BY <1>1
    <2> QED
      BY <1>4, <1>5, <2>1, <2>2
  <1>7. Primary(t, Stop(t, i).seq) = 0 /\ scenario.minDwell = 0
    <2>1. <<t, Stop(t, i).seq>> \notin DOMAIN scenario.primary
      <3> SUFFICES ASSUME <<t, Stop(t, i).seq>> \in DOMAIN scenario.primary PROVE FALSE
        OBVIOUS
      <3>1. PICK u \in Trips : <<t, Stop(t, i).seq>> = <<u, Stop(u, 0).seq>>
        BY DEF Validated
      <3>2. Stop(t, i).seq = Stop(t, 0).seq
        BY <3>1
      <3> QED
        BY <1>1, <3>2 DEF Validated
    <2> QED
      BY <2>1 DEF Primary, Validated
  <1>8. dep # NoTime
    BY <1>5, ScenarioTyping
  <1>9. Base(t, i, at) = Larger(dep, at + 0) + 0
    BY <1>5, <1>7, <1>8 DEF Base, OrElse
  <1>10. Due(t, i) = dep
    BY <1>5, <1>8 DEF Due, OrElse
  <1>11. LateAfter(t, i) = Larger(0, P - y)
    BY <1>1, <1>5 DEF LateAfter
  <1>12. PICK late : late = LateAfter(t, i - 1)
    OBVIOUS
  <1>13. Larger(dep, at + 0) = dep + Larger(0, P - y)
    <2>1. CASE i = 1
      <3>1. late = P /\ x = 0
        BY <1>5, <1>6, <1>12, <2>1 DEF LateAfter
      <3> QED
        BY <1>1, <1>5, <1>6, <1>12, <3>1 DEF Larger
    <2>2. CASE i # 1
      <3>1. i - 1 # 0 /\ (i - 1) + 1 = i
        BY <1>1, <2>2
      <3>2. late = Larger(0, P - x)
        BY <1>5, <1>12, <3>1 DEF LateAfter
      <3> QED
        BY <1>1, <1>5, <1>6, <1>12, <3>2 DEF Larger
    <2> QED
      BY <2>1, <2>2
  <1>14. dep + Larger(0, P - y) \in Int
    BY <1>5, <1>6 DEF Larger
  <1>15. Base(t, i, at) = Due(t, i) + LateAfter(t, i)
    BY <1>9, <1>10, <1>11, <1>13, <1>14
  <1> QED
    BY <1>1, <1>15 DEF Recovers

\* and when it comes to the stop after that.
LEMMA RecoversOnTheWay ==
    ASSUME scenario \in Scenarios, Validated, NEW t \in Trips, ~NeverStarts(t),
           NEW i \in DOMAIN scenario.stops[t], ~Last(t, i), NEW x \in Nat, Recovers(t, i, "depart", x)
    PROVE  Recovers(t, i + 1, "arrive", x + RunningTime(Stop(t, i), Stop(t, i + 1)))
  <1>1. i \in Nat /\ Reaches(t, i) /\ x = Due(t, i) + LateAfter(t, i)
    BY ScenarioTyping DEF Recovers
  <1>2. PICK n \in Nat : n = i + 1
    BY <1>1
  <1>3. Reaches(t, n)
    <2>1. \A j \in 0..(n - 1) : j \in 0..(i - 1) \/ j = i
      BY <1>1, <1>2
    <2> QED
      BY <1>1, <2>1 DEF Reaches
  <1>4. /\ Stop(t, n).arr \in Int /\ n > 0 /\ n - 1 = i
        /\ i > 0 => Stop(t, i).dep \in Int
        /\ Origin(t) \in Int /\ Due(t, 0) \in Int
    <2>1. /\ \A j \in 1..(n - 1) : Stop(t, j).arr \in Int /\ Stop(t, j).dep \in Int
          /\ n > 0 => Stop(t, n).arr \in Int
          /\ Origin(t) \in Int /\ Due(t, 0) \in Int
      BY <1>3, ValidatedStops
    <2>2. n > 0 /\ n - 1 = i /\ (i > 0 => i \in 1..(n - 1))
      BY <1>1, <1>2
    <2> QED
      BY <2>1, <2>2
  <1>5. PICK from, to, run, late : /\ from = Due(t, i) /\ to = Stop(t, i + 1).arr /\ late = LateAfter(t, i)
                                   /\ run = RunningTime(Stop(t, i), Stop(t, i + 1))
    OBVIOUS
  <1>6. NoTime \notin Int
    BY ScenarioTyping
  <1>7. from \in Int /\ to \in Int
    <2>1. CASE i = 0
      BY <1>2, <1>4, <1>5, <2>1
    <2>2. CASE i > 0
      BY <1>2, <1>4, <1>5, <1>6, <2>2 DEF Due, OrElse
    <2> QED
      BY <1>1, <2>1, <2>2
  <1>8. from <= to
    BY <1>5 DEF Validated, WellTimed
  <1>9. run = Larger(0, to - from)
    BY <1>5, <1>6, <1>7 DEF RunningTime, Due, OrElse
  <1>10. run = to - from
    BY <1>7, <1>8, <1>9 DEF Larger
  <1>11. late \in Int
    <2>1. CASE i = 0
      BY <1>4, <1>5, <2>1 DEF LateAfter
    <2>2. CASE i > 0
      <3>1. \A j \in 1..i : Stop(t, j).arr \in Int /\ Stop(t, j).dep \in Int
        BY <1>2, <1>3, <1>4, ValidatedStops
      <3>2. Slack(t, i + 1) \in Int
        BY <1>1, <2>2, <3>1, SlackAdds
      <3> QED
        BY <1>4, <1>5, <2>2, <3>2 DEF LateAfter, Larger
    <2> QED
      BY <1>1, <2>1, <2>2
  <1>12. x + run = to + late
    BY <1>1, <1>5, <1>7, <1>10, <1>11
  <1> QED
    BY <1>2, <1>3, <1>4, <1>5, <1>12 DEF Recovers

\* _on_depart,
LEMMA DepartRecovers ==
    ASSUME MacroInv, CauseInv, RecoveryInv, NEW e \in heap, Depart(e)
    PROVE  RecoveryInv'
  <1> SUFFICES ASSUME Validated
               PROVE  /\ \A r \in Range(records') : Recovers(r.trip, r.idx, r.event, r.time)
                      /\ \A g \in heap' : Recovers(g.event.trip, g.event.idx, g.event.kind, g.time)
                      /\ DOMAIN waiting' = {}
    <2>1. scenario' = scenario
      BY DEF Depart
    <2> QED
      BY <2>1, RecoveryFixed DEF RecoveryInv
  <1>1. PICK t, i : t = e.event.trip /\ i = e.event.idx
    OBVIOUS
  <1>2. /\ e.event.kind = "depart" /\ waiting' = waiting
        /\ \E rec : /\ rec.trip = t /\ rec.idx = i /\ rec.event = "depart" /\ rec.time = e.time
                    /\ Range(records') = Range(records) \cup {rec}
        /\ \A g \in heap' :
                \/ g \in heap \ {e}
                \/ /\ ~Last(t, i) /\ g.event = Event("arrive", t, i + 1)
                   /\ g.time = e.time + RunningTime(Stop(t, i), Stop(t, i + 1))
    BY <1>1, DepartEffect
  <1>3. t \in Trips /\ i \in DOMAIN scenario.stops[t] /\ ~NeverStarts(t)
    BY <1>1, <1>2, DepartsAt
  <1>4. scenario \in Scenarios /\ e.time \in Nat
    BY EventTyping DEF MacroInv, LayerTyped
  <1>5. Recovers(t, i, "depart", e.time)
    BY <1>1, <1>2 DEF RecoveryInv
  <1>6. ASSUME NEW r \in Range(records') PROVE Recovers(r.trip, r.idx, r.event, r.time)
    BY <1>2, <1>5, <1>6 DEF RecoveryInv
  <1>7. ASSUME NEW g \in heap' PROVE Recovers(g.event.trip, g.event.idx, g.event.kind, g.time)
    <2>1. CASE g \in heap \ {e}
      BY <2>1 DEF RecoveryInv
    <2>2. CASE /\ ~Last(t, i) /\ g.event = Event("arrive", t, i + 1)
               /\ g.time = e.time + RunningTime(Stop(t, i), Stop(t, i + 1))
      <3>1. Recovers(t, i + 1, "arrive", e.time + RunningTime(Stop(t, i), Stop(t, i + 1)))
        BY <1>3, <1>4, <1>5, <2>2, RecoversOnTheWay
      <3>2. g.event.trip = t /\ g.event.idx = i + 1 /\ g.event.kind = "arrive"
        BY <2>2 DEF Event
      <3> QED
        BY <2>2, <3>1, <3>2
    <2> QED
      BY <1>2, <2>1, <2>2
  <1> QED
    BY <1>2, <1>6, <1>7 DEF RecoveryInv

\* _on_conn_deadline
LEMMA DeadlineRecovers ==
    ASSUME MacroInv, RecoveryInv, NEW e \in heap, ConnDeadline(e)
    PROVE  RecoveryInv'
  <1> SUFFICES ASSUME Validated
               PROVE  /\ \A r \in Range(records') : Recovers(r.trip, r.idx, r.event, r.time)
                      /\ \A g \in heap' : Recovers(g.event.trip, g.event.idx, g.event.kind, g.time)
                      /\ DOMAIN waiting' = {}
    <2>1. scenario' = scenario
      BY DEF ConnDeadline
    <2> QED
      BY <2>1, RecoveryFixed DEF RecoveryInv
  <1>1. PICK key : key = KeyOf(e)
    OBVIOUS
  <1>2. /\ records' = records /\ DOMAIN waiting' = DOMAIN waiting
        /\ \A g \in heap' : g \in heap \ {e} \/ key \in DOMAIN waiting
    BY <1>1, DeadlineEffect
  <1> QED
    BY <1>2 DEF RecoveryInv

\* and _on_arrive keep a validated train as late as it should be.
LEMMA ArriveRecovers ==
    ASSUME MacroInv, CauseInv, RecoveryInv, NEW e \in heap, Arrive(e)
    PROVE  RecoveryInv'
  <1> SUFFICES ASSUME Validated
               PROVE  /\ \A r \in Range(records') : Recovers(r.trip, r.idx, r.event, r.time)
                      /\ \A g \in heap' : Recovers(g.event.trip, g.event.idx, g.event.kind, g.time)
                      /\ DOMAIN waiting' = {}
    <2>1. scenario' = scenario
      BY DEF Arrive
    <2> QED
      BY <2>1, RecoveryFixed DEF RecoveryInv
  <1>1. PICK t, i, at, d : t = e.event.trip /\ i = e.event.idx /\ at = e.time /\ d = DecisionAt(e)
    OBVIOUS
  <1>2. /\ e.event.kind = "arrive"
        /\ \E rec : /\ rec.trip = t /\ rec.idx = i /\ rec.event = "arrive" /\ rec.time = at
                    /\ Range(records') = Range(records) \cup {rec}
        /\ \A k \in DOMAIN waiting' : k \in DOMAIN waiting \/ (k = <<t, i>> /\ d.pending # {})
        /\ \A g \in heap' :
                \/ g \in heap \ {e}
                \/ \E k \in DOMAIN waiting : g.event = Event("depart", k[1], k[2])
                \/ ~Last(t, i) /\ g.event = Onward(t, i, d).event /\ g.time = Onward(t, i, d).time
    BY <1>1, ArriveEffect
  <1>3. t \in Trips /\ i \in DOMAIN scenario.stops[t] /\ ~NeverStarts(t) /\ i > 0
    BY <1>1, <1>2, ArrivesAt DEF Running
  <1>4. scenario \in Scenarios /\ at \in Nat
    BY <1>1, EventTyping DEF MacroInv, LayerTyped
  <1>5. Recovers(t, i, "arrive", at) /\ DOMAIN waiting = {}
    BY <1>1, <1>2 DEF RecoveryInv
  <1>6. d.pending = {} /\ d.required = Base(t, i, at)
    <2>1. d = Decision(t, i, at, Arrivals(e))
      BY <1>1 DEF DecisionAt
    <2>2. Conns(t, Stop(t, i).seq) = {}
      BY DEF Conns, Validated
    <2> QED
      BY <1>3, <1>4, <2>1, <2>2, UnconnectedDecision
  <1>7. ASSUME NEW r \in Range(records') PROVE Recovers(r.trip, r.idx, r.event, r.time)
    BY <1>2, <1>5, <1>7 DEF RecoveryInv
  <1>8. ASSUME NEW g \in heap' PROVE Recovers(g.event.trip, g.event.idx, g.event.kind, g.time)
    <2>1. CASE g \in heap \ {e}
      BY <2>1 DEF RecoveryInv
    <2>2. CASE ~Last(t, i) /\ g.event = Onward(t, i, d).event /\ g.time = Onward(t, i, d).time
      <3>1. g.event.trip = t /\ g.event.idx = i /\ g.event.kind = "depart" /\ g.time = d.required
        BY <1>6, <2>2 DEF Onward, At, Event
      <3>2. Recovers(t, i, "depart", Base(t, i, at))
        BY <1>3, <1>4, <1>5, <2>2, RecoversAtStop
      <3> QED
        BY <1>6, <3>1, <3>2
    <2> QED
      BY <1>2, <1>5, <2>1, <2>2
  <1> QED
    BY <1>2, <1>5, <1>6, <1>7, <1>8 DEF RecoveryInv

\* The origins' departures are late by the delays given to them.
LEMMA RecoveryInit == Init => RecoveryInv
  <1> SUFFICES ASSUME Init, Validated
               PROVE  /\ \A r \in Range(records) : Recovers(r.trip, r.idx, r.event, r.time)
                      /\ \A e \in heap : Recovers(e.event.trip, e.event.idx, e.event.kind, e.time)
                      /\ DOMAIN waiting = {}
    BY DEF RecoveryInv
  <1>1. records = <<>> /\ waiting = <<>>
    BY DEF Init
  <1>2. Range(records) = {} /\ DOMAIN waiting = {}
    BY <1>1 DEF Range
  <1>3. ASSUME NEW e \in heap PROVE Recovers(e.event.trip, e.event.idx, e.event.kind, e.time)
    <2>1. PICK t : /\ t \in Trips /\ ~NeverStarts(t)
                   /\ e.event = Event("depart", t, 0) /\ e.time = Due(t, 0) + Primary(t, Stop(t, 0).seq)
      BY FirstDepartures
    <2>2. e.event.kind = "depart" /\ e.event.trip = t /\ e.event.idx = 0
      BY <2>1 DEF Event
    <2>3. LateAfter(t, 0) = Primary(t, Stop(t, 0).seq)
      BY DEF LateAfter, Origin
    <2>4. Reaches(t, 0)
      BY DEF Reaches
    <2> QED
      BY <2>1, <2>2, <2>3, <2>4 DEF Recovers
  <1> QED
    BY <1>2, <1>3

\* Each step keeps what the trains of a validated run have left of their delay.
LEMMA RecoveryStep == MacroInv /\ CauseInv /\ RecoveryInv /\ [Next]_vars => RecoveryInv'
  <1> SUFFICES ASSUME MacroInv, CauseInv, RecoveryInv, [Next]_vars PROVE RecoveryInv'
    OBVIOUS
  <1>1. CASE Turn
    BY <1>1, DepartRecovers, ArriveRecovers, DeadlineRecovers DEF Turn
  <1>2. CASE UNCHANGED vars
    <2>1. scenario' = scenario /\ heap' = heap /\ records' = records /\ waiting' = waiting
      BY <1>2 DEF vars
    <2> QED
      BY <2>1, RecoveryFixed DEF RecoveryInv
  <1> QED
    BY <1>1, <1>2 DEF Next, Finished

\* The dwell times of stops that no train leaves before it comes add up to no
\* less than nothing.
LEMMA SlackGrows ==
    ASSUME scenario \in Scenarios, NEW t, NEW n \in Nat, n > 0,
           \A j \in 1..n : Stop(t, j).arr \in Int /\ Stop(t, j).dep \in Int /\ Stop(t, j).arr <= Stop(t, j).dep
    PROVE  Slack(t, n + 1) \in Nat
  <1> DEFINE K == {k \in Nat : k <= n => Slack(t, k + 1) \in Nat}
  <1>1. 0 \in K
    <2>1. Slack(t, 1) = 0
      BY SlackAdds
    <2> QED
      BY <2>1
  <1>2. ASSUME NEW k \in Nat, k \in K PROVE k + 1 \in K
    <2> SUFFICES ASSUME k + 1 <= n PROVE Slack(t, (k + 1) + 1) \in Nat
      OBVIOUS
    <2>1. PICK m \in Nat : m = k + 1 /\ m > 0 /\ m <= n /\ m \in 1..n
      OBVIOUS
    <2>2. \A j \in 1..m : Stop(t, j).arr \in Int /\ Stop(t, j).dep \in Int
      BY <2>1
    <2>3. Slack(t, m + 1) = Slack(t, m) + (Stop(t, m).dep - Stop(t, m).arr)
      BY <2>1, <2>2, SlackAdds
    <2>4. Slack(t, m) \in Nat
      BY <1>2, <2>1
    <2>5. Stop(t, m).arr \in Int /\ Stop(t, m).dep \in Int /\ Stop(t, m).arr <= Stop(t, m).dep
      BY <2>1
    <2>6. Slack(t, m + 1) \in Nat
      BY <2>3, <2>4, <2>5
    <2> QED
      BY <2>1, <2>6
  <1> HIDE DEF K
  <1>3. Nat \subseteq K
    BY <1>1, <1>2, NumbersReached
  <1> QED
    BY <1>3 DEF K

\* A pair of the validation compares with what the train has left of its delay.
LEMMA PairIsLate ==
    ASSUME MacroInv, CauseInv, RecoveryInv, Validated, "snapshot" \in DOMAIN scenario, NEW p \in Pairs
    PROVE  /\ p.simulated = LateAfter(p.trip, p.idx - 1) /\ p.origin = Origin(p.trip)
           /\ p.idx \in Nat /\ p.idx > 0 /\ p.origin \in Int /\ p.simulated \in Int /\ p.observed \in Int
           /\ p.origin >= 0 => p.simulated <= p.origin
           /\ \E r \in Range(records) :
                p = [trip |-> r.trip, idx |-> r.idx, origin |-> Origin(r.trip),
                     observed |-> Observed(scenario.snapshot, "arr")[<<scenario.ids[r.trip], Stop(r.trip, r.idx).seq>>],
                     simulated |-> Deviation(r)]
  <1>1. PICK t, i, d :
            /\ t \in Trips /\ i \in DOMAIN scenario.stops[t] /\ d \in Simulated(t, i)
            /\ Stop(t, i).arr # NoTime
            /\ <<scenario.ids[t], Stop(t, i).seq>> \in DOMAIN Observed(scenario.snapshot, "arr")
            /\ p = [trip |-> t, idx |-> i, origin |-> Primary(t, Stop(t, 0).seq),
                    observed |-> Observed(scenario.snapshot, "arr")[<<scenario.ids[t], Stop(t, i).seq>>],
                    simulated |-> d]
    BY DEF Pairs
  <1>2. PICK r \in Range(records) : r.trip = t /\ r.idx = i /\ r.event = "arrive" /\ d = Deviation(r)
    BY <1>1 DEF Simulated, Moved
  <1>3. p.observed \in Int
    BY <1>1 DEF Validated, Reported
  <1>4. i \in Nat /\ i > 0 /\ Reaches(t, i) /\ r.time = Stop(t, i).arr + LateAfter(t, i - 1)
    BY <1>1, <1>2, ScenarioTyping DEF RecoveryInv, Recovers, MacroInv, LayerTyped
  <1>5. ~NeverStarts(t) /\ scenario \in Scenarios
    BY <1>2 DEF CauseInv, MacroInv, LayerTyped
  <1>6. /\ \A j \in 1..(i - 1) : /\ Stop(t, j).arr \in Int /\ Stop(t, j).dep \in Int
                                 /\ Stop(t, j).arr <= Stop(t, j).dep
        /\ Stop(t, i).arr \in Int /\ Origin(t) \in Int
    BY <1>1, <1>4, <1>5, ValidatedStops
  <1>7. LateAfter(t, i - 1) \in Int /\ (Origin(t) >= 0 => LateAfter(t, i - 1) <= Origin(t))
    <2>1. PICK n \in Nat : n = i - 1
      BY <1>4
    <2>2. LateAfter(t, n) \in Int /\ (Origin(t) >= 0 => LateAfter(t, n) <= Origin(t))
      <3>1. CASE n = 0
        BY <1>6, <3>1 DEF LateAfter
      <3>2. CASE n > 0
        <4>1. \A j \in 1..n : Stop(t, j).arr \in Int /\ Stop(t, j).dep \in Int /\ Stop(t, j).arr <= Stop(t, j).dep
          BY <1>6, <2>1
        <4>2. Slack(t, n + 1) \in Nat
          BY <1>5, <3>2, <4>1, SlackGrows
        <4> QED
          BY <1>6, <3>2, <4>2 DEF LateAfter, Larger
      <3> QED
        BY <3>1, <3>2
    <2> QED
      BY <2>1, <2>2
  <1>8. d = LateAfter(t, i - 1)
    <2>1. Movement(r).scheduled = Stop(t, i).arr
      BY <1>2 DEF Movement
    <2>2. Deviation(r) = r.time - Stop(t, i).arr
      BY <1>1, <2>1 DEF Deviation
    <2>3. PICK x, y : x = Stop(t, i).arr /\ y = LateAfter(t, i - 1)
      OBVIOUS
    <2> QED
      BY <1>2, <1>4, <1>6, <1>7, <2>2, <2>3
  <1>9. p.trip = t /\ p.idx = i /\ p.origin = Origin(t) /\ p.simulated = d
    BY <1>1 DEF Origin
  <1>10. p = [trip |-> r.trip, idx |-> r.idx, origin |-> Origin(r.trip),
              observed |-> Observed(scenario.snapshot, "arr")[<<scenario.ids[r.trip], Stop(r.trip, r.idx).seq>>],
              simulated |-> Deviation(r)]
    BY <1>1, <1>2 DEF Origin
  <1> QED
    BY <1>2, <1>3, <1>4, <1>6, <1>7, <1>8, <1>9, <1>10

\* There is no more than one pair for each record.
LEMMA PairsFinite ==
    ASSUME MacroInv, CauseInv, RecoveryInv, Validated, "snapshot" \in DOMAIN scenario
    PROVE  IsFiniteSet(Pairs)
  <1>1. PICK n \in Nat : DOMAIN records = 1..n
    <2>1. records \in Seq(MovementRecord)
      BY DEF MacroInv, LayerTyped
    <2> QED
      BY <2>1, LenProperties
  <1> DEFINE pair(r) == [trip |-> r.trip, idx |-> r.idx, origin |-> Origin(r.trip),
                         observed |-> Observed(scenario.snapshot, "arr")[<<scenario.ids[r.trip], Stop(r.trip, r.idx).seq>>],
                         simulated |-> Deviation(r)]
  <1>2. PICK of : of = [k \in 1..n |-> pair(records[k])]
    OBVIOUS
  <1>3. PICK T : T = {of[k] : k \in 1..n}
    OBVIOUS
  <1>4. of \in Surjection(1..n, T)
    <2> HIDE DEF pair
    <2> QED
      BY <1>2, <1>3 DEF Surjection
  <1>5. IsFiniteSet(T)
    BY <1>4, FS_Interval, FS_Surjection
  <1>6. ASSUME NEW p \in Pairs PROVE p \in T
    <2>1. PICK r \in Range(records) : p = pair(r)
      BY PairIsLate
    <2>2. PICK k \in 1..n : r = records[k]
      BY <1>1 DEF Range
    <2> HIDE DEF pair
    <2> QED
      BY <1>2, <1>3, <2>1, <2>2
  <1> QED
    BY <1>5, <1>6, FS_Subset

\* The errors of the model add up,
LEMMA ModelErrors ==
    ASSUME NEW S, IsFiniteSet(S), \A p \in S : p.simulated \in Int /\ p.observed \in Int,
           NEW g, g = [p \in S |-> Apart(p.simulated, p.observed)]
    PROVE  \E f : SumsOver(S, g, f) /\ Mae(S).model = f[S]
  <1> DEFINE Fits(f) == f = [s \in SUBSET S |-> IF s = {} THEN 0
                               ELSE Apart((CHOOSE x \in s : TRUE).simulated, (CHOOSE x \in s : TRUE).observed)
                                      + f[s \ {CHOOSE x \in s : TRUE}]]
             sum == CHOOSE f : Fits(f)
  <1>1. \A x \in S : g[x] \in Int /\ g[x] = Apart(x.simulated, x.observed)
    BY DEF Apart
  <1>2. ASSUME NEW f PROVE Fits(f) <=> SumsOver(S, g, f)
    <2>1. PICK F, G : /\ F = [s \in SUBSET S |-> IF s = {} THEN 0
                                ELSE Apart((CHOOSE x \in s : TRUE).simulated, (CHOOSE x \in s : TRUE).observed)
                                       + f[s \ {CHOOSE x \in s : TRUE}]]
                      /\ G = [s \in SUBSET S |-> IF s = {} THEN 0 ELSE g[Pick(s)] + f[s \ {Pick(s)}]]
      OBVIOUS
    <2>2. \A s \in SUBSET S : s # {} => Pick(s) \in S
      BY DEF Pick
    <2>3. F = G
      BY <1>1, <2>1, <2>2 DEF Pick
    <2>4. Fits(f) <=> f = F
      BY <2>1
    <2> HIDE DEF Fits, sum
    <2>5. IsFold(S, g, f) <=> SumsOver(S, g, f)
      BY <1>1, SetSumsDefined
    <2>6. IsFold(S, g, f) <=> f = G
      BY <2>1 DEF IsFold
    <2> QED
      BY <2>3, <2>4, <2>5, <2>6
  <1>3. \E f : SumsOver(S, g, f)
    <2> HIDE DEF Fits, sum
    <2> QED
      BY <1>1, SetSumsExist
  <1>4. SumsOver(S, g, sum)
    <2> HIDE DEF Fits
    <2> QED
      BY <1>2, <1>3
  <1>5. Mae(S).model = sum[S]
    BY DEF Mae, MapThenSumSet, MapThenFoldSet
  <1> HIDE DEF Fits, sum
  <1> QED
    BY <1>4, <1>5

\* and those of the baseline.
LEMMA BaselineErrors ==
    ASSUME NEW S, IsFiniteSet(S), \A p \in S : p.origin \in Int /\ p.observed \in Int,
           NEW g, g = [p \in S |-> Apart(p.origin, p.observed)]
    PROVE  \E f : SumsOver(S, g, f) /\ Mae(S).baseline = f[S]
  <1> DEFINE Fits(f) == f = [s \in SUBSET S |-> IF s = {} THEN 0
                               ELSE Apart((CHOOSE x \in s : TRUE).origin, (CHOOSE x \in s : TRUE).observed)
                                      + f[s \ {CHOOSE x \in s : TRUE}]]
             sum == CHOOSE f : Fits(f)
  <1>1. \A x \in S : g[x] \in Int /\ g[x] = Apart(x.origin, x.observed)
    BY DEF Apart
  <1>2. ASSUME NEW f PROVE Fits(f) <=> SumsOver(S, g, f)
    <2>1. PICK F, G : /\ F = [s \in SUBSET S |-> IF s = {} THEN 0
                                ELSE Apart((CHOOSE x \in s : TRUE).origin, (CHOOSE x \in s : TRUE).observed)
                                       + f[s \ {CHOOSE x \in s : TRUE}]]
                      /\ G = [s \in SUBSET S |-> IF s = {} THEN 0 ELSE g[Pick(s)] + f[s \ {Pick(s)}]]
      OBVIOUS
    <2>2. \A s \in SUBSET S : s # {} => Pick(s) \in S
      BY DEF Pick
    <2>3. F = G
      BY <1>1, <2>1, <2>2 DEF Pick
    <2>4. Fits(f) <=> f = F
      BY <2>1
    <2> HIDE DEF Fits, sum
    <2>5. IsFold(S, g, f) <=> SumsOver(S, g, f)
      BY <1>1, SetSumsDefined
    <2>6. IsFold(S, g, f) <=> f = G
      BY <2>1 DEF IsFold
    <2> QED
      BY <2>3, <2>4, <2>5, <2>6
  <1>3. \E f : SumsOver(S, g, f)
    <2> HIDE DEF Fits, sum
    <2> QED
      BY <1>1, SetSumsExist
  <1>4. SumsOver(S, g, sum)
    <2> HIDE DEF Fits
    <2> QED
      BY <1>2, <1>3
  <1>5. Mae(S).baseline = sum[S]
    BY DEF Mae, MapThenSumSet, MapThenFoldSet
  <1> HIDE DEF Fits, sum
  <1> QED
    BY <1>4, <1>5

\* So the predictions are what is left, and the errors less than the
\* baseline's.
LEMMA RecoveryFound ==
    ASSUME MacroInv, CauseInv, RecoveryInv, Validated
    PROVE  RecoveryIsTheSlack
  <1> SUFFICES ASSUME "snapshot" \in DOMAIN scenario
               PROVE  LET slack(t, i) == MapThenSumSet(LAMBDA j : Stop(t, j).dep - Stop(t, j).arr, 1..(i - 1))
                          recovering == {p \in Pairs : p.origin > 0 /\ 2 * p.observed <= p.origin + p.simulated}
                      IN /\ \A p \in Pairs :
                              p.simulated = IF p.idx = 1 THEN p.origin ELSE Larger(0, p.origin - slack(p.trip, p.idx))
                         /\ (\E p \in recovering : p.simulated < p.origin /\ 2 * p.observed < p.origin + p.simulated)
                              => Score(recovering, 1).beatsBaseline
    BY DEF RecoveryIsTheSlack
  <1> DEFINE recovering == {p \in Pairs : p.origin > 0 /\ 2 * p.observed <= p.origin + p.simulated}
  <1>1. ASSUME NEW p \in Pairs
        PROVE  p.simulated = IF p.idx = 1 THEN p.origin ELSE Larger(0, p.origin - Slack(p.trip, p.idx))
    <2>1. PICK t, i : t = p.trip /\ i = p.idx
      OBVIOUS
    <2>2. p.simulated = LateAfter(t, i - 1) /\ p.origin = Origin(t) /\ i \in Nat /\ i > 0
      BY <1>1, <2>1, PairIsLate
    <2>3. (i - 1 = 0 <=> i = 1) /\ (i - 1) + 1 = i
      BY <2>2
    <2> QED
      BY <2>1, <2>2, <2>3 DEF LateAfter
  <1>2. ASSUME NEW b \in recovering, b.simulated < b.origin, 2 * b.observed < b.origin + b.simulated
        PROVE  Score(recovering, 1).beatsBaseline
    <2>1. \A p \in recovering : /\ p.origin \in Int /\ p.simulated \in Int /\ p.observed \in Int
                                /\ p.origin > 0 /\ p.simulated <= p.origin
                                /\ 2 * p.observed <= p.origin + p.simulated
      <3> SUFFICES ASSUME NEW p \in recovering
                   PROVE  /\ p.origin \in Int /\ p.simulated \in Int /\ p.observed \in Int
                          /\ p.origin > 0 /\ p.simulated <= p.origin
                          /\ 2 * p.observed <= p.origin + p.simulated
        OBVIOUS
      <3>1. p \in Pairs /\ p.origin > 0 /\ 2 * p.observed <= p.origin + p.simulated
        OBVIOUS
      <3>2. /\ p.origin \in Int /\ p.simulated \in Int /\ p.observed \in Int
            /\ p.origin >= 0 => p.simulated <= p.origin
        BY <3>1, PairIsLate
      <3> QED
        BY <3>1, <3>2
    <2>2. IsFiniteSet(recovering)
      <3>1. recovering \in SUBSET Pairs
        OBVIOUS
      <3> HIDE DEF recovering
      <3> QED
        BY <3>1, PairsFinite, FS_Subset
    <2> HIDE DEF recovering
    <2>3. PICK S : S = recovering
      OBVIOUS
    <2>4. PICK g, h : /\ g = [p \in S |-> Apart(p.simulated, p.observed)]
                      /\ h = [p \in S |-> Apart(p.origin, p.observed)]
      OBVIOUS
    <2>5. PICK e : SumsOver(S, g, e) /\ Mae(S).model = e[S]
      BY <2>1, <2>2, <2>3, <2>4, ModelErrors
    <2>6. PICK f : SumsOver(S, h, f) /\ Mae(S).baseline = f[S]
      BY <2>1, <2>2, <2>3, <2>4, BaselineErrors
    <2>7. \A p \in S : g[p] \in Int /\ h[p] \in Int /\ g[p] <= h[p]
      BY <2>1, <2>3, <2>4 DEF Apart
    <2>8. b \in S /\ g[b] < h[b]
      BY <1>2, <2>1, <2>3, <2>4 DEF Apart
    <2>9. e[S] < f[S]
      BY <2>2, <2>3, <2>5, <2>6, <2>7, <2>8, SetSumLess
    <2>10. {p \in S : Apart(p.origin, 0) >= 1} = S
      BY <2>1, <2>3 DEF Apart
    <2>11. Score(S, 1).beatsBaseline = (Mae(S).model < Mae(S).baseline)
      BY <2>10 DEF Score
    <2> QED
      BY <2>3, <2>5, <2>6, <2>9, <2>11
  <1> QED
    BY <1>1, <1>2 DEF Slack

\* Downstream of its origin a train of a validated run has what the dwell times
\* have left of its delay; so the model's error is less than the baseline's
\* over the trains that made up at least half of it, one of them more.
THEOREM DelaysAreRecovered == Spec => [](Validated => RecoveryIsTheSlack)
  <1>1. MacroInv /\ CauseInv /\ RecoveryInv => (Validated => RecoveryIsTheSlack)
    BY RecoveryFound
  <1> QED
    BY <1>1, CauseInit, CauseStep, RecoveryInit, RecoveryStep, MacroInvariant, PTL DEF Spec
-----------------------------------------------------------------------------
\* A scenario's origins leave after the clock's start.
LEMMA OriginsTimed ==
    ASSUME NEW s \in Scenarios, NEW b, b = Origins(s)
    PROVE  /\ Len(s.stops) \in Nat /\ DOMAIN b \subseteq 1..Len(s.stops)
           /\ \A t \in DOMAIN b : b[t].time \in Nat
  <1>1. DOMAIN s.stops = 1..Len(s.stops) /\ Len(s.stops) \in Nat /\ NoTime \notin Int
    BY ScenariosAssumption DEF ScenariosAssumption
  <1> DEFINE start(t) == OrElse(s.stops[t][0].dep, s.stops[t][0].arr)
             late(t) == IF <<t, s.stops[t][0].seq>> \in DOMAIN s.primary
                        THEN s.primary[<<t, s.stops[t][0].seq>>] ELSE 0
  <1>2. DOMAIN b = {t \in DOMAIN s.stops : start(t) # NoTime}
    BY DEF Origins
  <1>3. ASSUME NEW t \in DOMAIN b PROVE b[t].time \in Nat
    <2>1. t \in DOMAIN s.stops /\ start(t) # NoTime /\ b[t].time = start(t) + late(t)
      <3>1. b[t] = At(start(t) + late(t), Event("depart", t, 0))
        BY <1>2 DEF Origins
      <3> HIDE DEF start, late
      <3> QED
        BY <1>2, <3>1 DEF At
    <2>2. start(t) \in Nat
      BY <2>1, ScenariosAssumption DEF ScenariosAssumption, OrElse
    <2>3. late(t) \in Int /\ (late(t) < 0 => start(t) + late(t) >= 0)
      <3>1. CASE <<t, s.stops[t][0].seq>> \in DOMAIN s.primary
        <4>1. PICK p \in DOMAIN s.primary : p = <<t, s.stops[t][0].seq>>
          BY <3>1
        <4>2. p[1] = t /\ late(t) = s.primary[p] /\ s.primary[p] \in Int
          BY <3>1, <4>1, ScenariosAssumption DEF ScenariosAssumption
        <4>3. start(t) = IF s.stops[t][0].dep # NoTime THEN s.stops[t][0].dep ELSE s.stops[t][0].arr
          BY DEF OrElse
        <4>4. ASSUME s.primary[p] < 0 PROVE start(t) # NoTime => start(t) + s.primary[p] >= 0
          <5>1. LET from == IF s.stops[t][0].dep # NoTime THEN s.stops[t][0].dep ELSE s.stops[t][0].arr
                IN p[2] = s.stops[t][0].seq /\ from # NoTime => from + s.primary[p] >= 0
            BY <2>1, <4>2, <4>4, ScenariosAssumption DEF ScenariosAssumption
          <5> QED
            BY <4>1, <4>3, <5>1
        <4> HIDE DEF start, late
        <4> QED
          BY <2>1, <4>2, <4>4
      <3>2. CASE <<t, s.stops[t][0].seq>> \notin DOMAIN s.primary
        BY <3>2
      <3> QED
        BY <3>1, <3>2
    <2> HIDE DEF start, late
    <2> QED
      BY <2>1, <2>2, <2>3
  <1> QED
    BY <1>1, <1>2, <1>3

\* A replication begins as a simulation of its sample.
LEMMA ReplicationBegins ==
    ASSUME MacroInv, Len(outcomes) \in Nat, Replicate
    PROVE  Init'
  <1>1. PICK sample \in SamplePrimary(scenario) :
            scenario' = [scenario EXCEPT !.primary = sample] /\ Restart([scenario EXCEPT !.primary = sample])
    BY DEF Replicate
  <1>2. PICK s : s = [scenario EXCEPT !.primary = sample]
    OBVIOUS
  <1>3. s \in Scenarios
    <2>1. scenario \in Scenarios
      BY DEF MacroInv, LayerTyped
    <2>2. Len(outcomes) + 1 < scenario.reps
      BY DEF Replicate
    <2>3. scenario.reps \in Int
      BY <2>1, SamplesAssumption DEF SamplesAssumption
    <2>4. scenario.reps > 1
      BY <2>2, <2>3
    <2> QED
      BY <1>1, <1>2, <2>1, <2>4, SamplesAssumption DEF SamplesAssumption
  <1>4. PICK b, n : b = Origins(s) /\ n = Len(s.stops)
    OBVIOUS
  <1>5. /\ heap' = Entries(b, n, 0) /\ sequence' = n /\ now' = 0 /\ raised' = FALSE
        /\ records' = <<>> /\ feederArrivals' = <<>> /\ waiting' = <<>> /\ waiters' = <<>>
        /\ scenario' = s
    BY <1>1, <1>2, <1>4 DEF Restart, Replicate, Over
  <1>6. n \in Nat /\ DOMAIN b \subseteq 1..n /\ \A t \in DOMAIN b : b[t].time \in Nat
    BY <1>3, <1>4, OriginsTimed
  <1>7. Accepts(b, n, 0, n) /\ n \in 0..n /\ (n < n) = FALSE
    BY <1>6 DEF Accepts
  <1>8. QueueInit(b, n)'
    BY <1>5, <1>7 DEF QueueInit
  <1>9. QueueInit(Origins(scenario), Len(scenario.stops))'
    BY <1>4, <1>5, <1>8
  <1> QED
    BY <1>3, <1>5, <1>9 DEF Init

\* The outcomes collected so far can be counted.
OutcomesInv == \E S : outcomes \in Seq(S)

\* A step of an experiment collects an outcome, or none,
LEMMA OutcomesKept == ASSUME OutcomesInv, [ExperimentNext]_<<vars, experimentVars>> PROVE OutcomesInv'
  <1>1. PICK S : outcomes \in Seq(S)
    BY DEF OutcomesInv
  <1>2. CASE outcomes' = outcomes
    BY <1>1, <1>2 DEF OutcomesInv
  <1>3. CASE outcomes' = Append(outcomes, Outcome)
    <2>1. PICK o, T : o = Outcome /\ T = S \cup {o}
      OBVIOUS
    <2>2. outcomes \in Seq(T)
      <3>1. Len(outcomes) \in Nat /\ outcomes \in [1..Len(outcomes) -> S]
        BY <1>1, LenProperties
      <3>2. outcomes \in [1..Len(outcomes) -> T]
        BY <2>1, <3>1
      <3> QED
        BY <3>1, <3>2, SeqDef
    <2>3. Append(outcomes, o) \in Seq(T)
      BY <2>1, <2>2, AppendProperties
    <2>4. outcomes' \in Seq(T)
      BY <1>3, <2>1, <2>3
    <2> QED
      BY <2>4 DEF OutcomesInv
  <1> QED
    BY <1>2, <1>3 DEF ExperimentNext, Replicate, Aggregate, Collect, experimentVars

\* and is one of the simulation or begins another.
LEMMA ExperimentStep ==
    ASSUME MacroInv, OutcomesInv, [ExperimentNext]_<<vars, experimentVars>>
    PROVE  [Next]_vars \/ Init'
  <1>1. Len(outcomes) \in Nat
    BY LenProperties DEF OutcomesInv
  <1> QED
    BY <1>1, ReplicationBegins DEF ExperimentNext, Aggregate

\* In every replication, whatever ran before it: a train that has not reached
\* its last stop has one future, none is early, delays have causes, connections
\* are kept and delays recovered.
THEOREM EveryReplicationIsARun ==
    Experiment => [](/\ OneFuture /\ NeverEarly
                     /\ (\A t \in Trips : NeverStarts(t) \/ WellTimed(t)) => DelayHasACause
                     /\ ConnectionKept
                     /\ Validated => RecoveryIsTheSlack)
  <1> DEFINE Inv == MacroInv /\ CauseInv /\ (Regular => KeptInv) /\ RecoveryInv
             Safe == /\ OneFuture /\ NeverEarly
                     /\ (\A t \in Trips : NeverStarts(t) \/ WellTimed(t)) => DelayHasACause
                     /\ ConnectionKept
                     /\ Validated => RecoveryIsTheSlack
  <1>1. Init => Inv
    BY InitInv, CauseInit, KeptInit, RecoveryInit
  <1>2. Inv /\ [Next]_vars => Inv'
    <2> SUFFICES ASSUME Inv, [Next]_vars PROVE Inv'
      OBVIOUS
    <2>1. MacroInv'
      BY NextInv
    <2>2. CauseInv' /\ RecoveryInv'
      BY CauseStep, RecoveryStep
    <2>3. (Regular => KeptInv)'
      BY KeptStep
    <2> QED
      BY <2>1, <2>2, <2>3
  <1>3. Inv /\ OutcomesInv /\ [ExperimentNext]_<<vars, experimentVars>> => [Next]_vars \/ Init'
    BY ExperimentStep
  <1>4. Inv => Safe
    BY FuturesArePlaced, LateForACause, TransfersKept, HoldsBounded, RecoveryFound DEF ConnectionKept, MacroInv
  <1>5. OutcomesInv /\ [ExperimentNext]_<<vars, experimentVars>> => OutcomesInv'
    BY OutcomesKept
  <1>6. ExperimentInit => Init /\ OutcomesInv
    <2>1. <<>> \in Seq({})
      BY EmptySeq
    <2> QED
      BY <2>1 DEF ExperimentInit, OutcomesInv
  <1> HIDE DEF Inv, Safe
  <1>7. Experiment => []Safe
    BY <1>1, <1>2, <1>3, <1>4, <1>5, <1>6, PTL DEF Experiment
  <1> QED
    BY <1>7 DEF Safe
=============================================================================
