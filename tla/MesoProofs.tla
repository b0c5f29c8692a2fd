----------------------------- MODULE MesoProofs -----------------------------
(***************************************************************************)
(* Capacity, headway, closures, bookkeeping and wake-ups of the meso       *)
(* layer, the peaks of its records, and what the conflicts of a timetable  *)
(* foretell of them, for every corridor, timetable, closure list and       *)
(* dispatcher.                                                             *)
(***************************************************************************)
EXTENDS Conflicts, EventQueueProofs, Extremes, FiniteSetTheorems, SequenceTheorems

Events == [kind : {"ready", "arrive"}, train : Trains, step : Nat]
            \cup [kind : {"try"}, seg : Segments]
Requests == [train : Trains, step : Nat, at : Nat]
Openings == [train : Trains, seg : Segments, enter : Nat]
Occupations == [train : Trains, seg : Segments, enter : Nat, exit : Nat]
Movements == [time : Nat, train : Trains, station : Nat, event : {"depart", "arrive"}]

LayerTyped ==
    /\ scenario \in Scenarios
    /\ occupancy \in [Segments -> Nat]
    /\ lastEntry \in [Segments -> Nat \cup {Never}]
    /\ waiting \in [Segments -> SUBSET Requests]
    /\ \A s \in Segments : \A r, q \in waiting[s] : r.train = q.train => r = q
    /\ open \subseteq Openings /\ IsFiniteSet(open)
    /\ occupations \in Seq(Occupations)
    /\ movements \in Seq(Movements)

Opens(t) == {o \in open : o.train = t}

\* The four places of a train that has reached the i-th station of its path.
AtStation(t, i) ==
    /\ WaitingFor(t) = {} /\ Opens(t) = {}
    /\ IsLast(t, i) => i = 0
    /\ \E e \in heap : Moves(t) = {e} /\ e.event = TrainEvent("ready", t, i)

InQueue(t, i) ==
    /\ Moves(t) = {} /\ Opens(t) = {} /\ ~IsLast(t, i)
    /\ WaitingFor(t) = {Ahead(t, i)}
    /\ \A r \in waiting[Ahead(t, i)] : r.train = t => r.step = i

UnderWay(t, i) ==
    /\ WaitingFor(t) = {} /\ ~IsLast(t, i)
    /\ \E e \in heap, o \in open :
        /\ Moves(t) = {e} /\ Opens(t) = {o}
        /\ e.event = TrainEvent("arrive", t, i + 1)
        /\ o.seg = Ahead(t, i) /\ e.time = o.enter + Segment(o.seg).running

AtEnd(t, i) == Moves(t) = {} /\ WaitingFor(t) = {} /\ Opens(t) = {} /\ IsLast(t, i)

Reached(t, i) == IsFiniteSet(Arrivals(t)) /\ Cardinality(Arrivals(t)) = i

Placed ==
    \A t \in Trains : \E i \in DOMAIN Path(t) :
        /\ Reached(t, i)
        /\ AtStation(t, i) \/ InQueue(t, i) \/ UnderWay(t, i) \/ AtEnd(t, i)

Counted == \A s \in Segments : occupancy[s] = Cardinality(On(s)) /\ occupancy[s] <= Segment(s).capacity

\* Entries are spaced, and the last one is remembered.
Spaced ==
    /\ HeadwayKept
    /\ \A s \in Segments : \A x \in EntriesTo(s) : lastEntry[s] \in Nat /\ x[2] <= lastEntry[s]

\* Queues are looked at in time, and whenever a closure ends.
Awake ==
    /\ NoLostWakeup
    /\ \A i \in DOMAIN scenario.closures :
        LET c == scenario.closures[i]
        IN c.end > now => \E e \in Pending(TryEvent(c.seg)) : e.time = c.end

MesoInv == QueueOf(Events) /\ LayerTyped /\ Counted /\ Placed /\ Spaced /\ Awake

-----------------------------------------------------------------------------
\* What the assumption says of the scenario that runs.
LEMMA ScenarioTyping ==
    ASSUME scenario \in Scenarios
    PROVE  /\ Never \notin Int
           /\ \A s \in Segments : /\ Segment(s).running \in Nat
                                  /\ Segment(s).capacity \in Nat /\ Segment(s).capacity > 0
                                  /\ Segment(s).headway \in Nat
           /\ Trains = 1..Len(scenario.trains) /\ Len(scenario.trains) \in Nat
           /\ \A t \in Trains : /\ t \in Nat
                                /\ scenario.trains[t].entry \in Nat
                                /\ scenario.trains[t].dwell \in Nat
                                /\ scenario.trains[t].priority \in Int
           /\ \A t \in Trains : /\ 0 \in DOMAIN Path(t) /\ DOMAIN Path(t) \subseteq Nat
                                /\ \A i \in DOMAIN Path(t) : Path(t)[i] \in Nat
                                /\ \A i \in DOMAIN Path(t) : ~IsLast(t, i) => Ahead(t, i) \in Segments
           /\ DOMAIN scenario.closures = 1..Len(scenario.closures) /\ Len(scenario.closures) \in Nat
           /\ \A i \in DOMAIN scenario.closures : /\ scenario.closures[i].seg \in Segments
                                                 /\ scenario.closures[i].start \in Int
                                                 /\ scenario.closures[i].end \in Nat
           /\ scenario.dispatcher \in {"priority", "fifo", "ranked", "any"}
           /\ \A g \in DOMAIN scenario.rank :
                /\ IsFiniteSet(DOMAIN scenario.rank[g])
                /\ \A t \in DOMAIN scenario.rank[g] : scenario.rank[g][t] \in Nat
  <1> DEFINE s == scenario
  <1>1. /\ Never \notin Int
        /\ s.segments \in [DOMAIN s.segments -> [running : Nat, capacity : Nat \ {0}, headway : Nat]]
        /\ DOMAIN s.trains = 1..Len(s.trains) /\ Len(s.trains) \in Nat
        /\ DOMAIN s.closures = 1..Len(s.closures) /\ Len(s.closures) \in Nat
        /\ s.dispatcher \in {"priority", "fifo", "ranked", "any"}
    BY ScenariosAssumption DEF ScenariosAssumption
  <1>2. \A t \in DOMAIN s.trains :
            /\ 0 \in DOMAIN s.trains[t].path /\ DOMAIN s.trains[t].path \subseteq Nat
            /\ \A i \in DOMAIN s.trains[t].path :
                /\ s.trains[t].path[i] \in Nat
                /\ i + 1 \in DOMAIN s.trains[t].path =>
                    SegmentFor(s.trains[t].path[i], s.trains[t].path[i + 1]) \in DOMAIN s.segments
            /\ s.trains[t].entry \in Nat /\ s.trains[t].dwell \in Nat
            /\ s.trains[t].priority \in Int
    <2>1. \A t \in DOMAIN s.trains : \E n \in Nat : DOMAIN s.trains[t].path = 0..n
      BY ScenariosAssumption DEF ScenariosAssumption
    <2>2. \A t \in DOMAIN s.trains :
            /\ \A i \in DOMAIN s.trains[t].path :
                /\ s.trains[t].path[i] \in Nat
                /\ i + 1 \in DOMAIN s.trains[t].path =>
                    SegmentFor(s.trains[t].path[i], s.trains[t].path[i + 1]) \in DOMAIN s.segments
            /\ s.trains[t].entry \in Nat /\ s.trains[t].dwell \in Nat
            /\ s.trains[t].priority \in Int
      BY ScenariosAssumption DEF ScenariosAssumption
    <2> QED
      BY <2>1, <2>2
  <1>3. \A i \in DOMAIN s.closures : /\ s.closures[i].seg \in DOMAIN s.segments
                                     /\ s.closures[i].start \in Int /\ s.closures[i].end \in Nat
    BY ScenariosAssumption DEF ScenariosAssumption
  <1>4. \A g \in DOMAIN s.rank : /\ IsFiniteSet(DOMAIN s.rank[g])
                                 /\ \A t \in DOMAIN s.rank[g] : s.rank[g][t] \in Nat
    BY ScenariosAssumption DEF ScenariosAssumption
  <1>5. \A g \in Segments : /\ Segment(g).running \in Nat
                            /\ Segment(g).capacity \in Nat /\ Segment(g).capacity > 0
                            /\ Segment(g).headway \in Nat
    BY <1>1 DEF Segments, Segment
  <1>6. \A t \in Trains : /\ 0 \in DOMAIN Path(t) /\ DOMAIN Path(t) \subseteq Nat
                          /\ \A i \in DOMAIN Path(t) : Path(t)[i] \in Nat
                          /\ \A i \in DOMAIN Path(t) : ~IsLast(t, i) => Ahead(t, i) \in Segments
    BY <1>2 DEF Trains, Path, IsLast, Ahead, Segments
  <1> QED
    BY <1>1, <1>2, <1>3, <1>4, <1>5, <1>6 DEF Trains, Segments

\* The rule-based dispatchers compare tuples of numbers that are bounded below
\* and differ from train to train: one request comes first.
LEMMA LeastKey ==
    ASSUME NEW W, W # {}, NEW key, NEW low \in Int,
           \A r \in W : /\ key[r][1] \in Int /\ key[r][1] >= low
                        /\ key[r][2] \in Nat /\ key[r][3] \in Nat,
           \A r, q \in W : r # q => key[r][2] # key[q][2] \/ key[r][3] # key[q][3]
    PROVE  \E r \in W : \A q \in W \ {r} : Before(key[r], key[q])
  <1> DEFINE firsts == {key[r][1] - low : r \in W}
  <1>1. PICK x \in firsts : \A y \in firsts : x <= y
    <2>1. firsts \subseteq Nat /\ firsts # {}
      OBVIOUS
    <2> HIDE DEF firsts
    <2> QED
      BY <2>1, LeastNumber
  <1>2. PICK u \in W : x = key[u][1] - low
    OBVIOUS
  <1> DEFINE U == {r \in W : key[r][1] = key[u][1]}
             seconds == {key[r][2] : r \in U}
  <1>3. PICK y \in seconds : \A z \in seconds : y <= z
    <2>1. seconds \subseteq Nat /\ key[u][2] \in seconds
      OBVIOUS
    <2> HIDE DEF seconds
    <2> QED
      BY <2>1, LeastNumber
  <1>4. PICK v \in U : y = key[v][2]
    OBVIOUS
  <1> DEFINE V == {r \in U : key[r][2] = key[v][2]}
             thirds == {key[r][3] : r \in V}
  <1>5. PICK z \in thirds : \A k \in thirds : z <= k
    <2>1. thirds \subseteq Nat /\ key[v][3] \in thirds
      OBVIOUS
    <2> HIDE DEF thirds
    <2> QED
      BY <2>1, LeastNumber
  <1>6. PICK r \in V : z = key[r][3]
    OBVIOUS
  <1>7. ASSUME NEW q \in W \ {r} PROVE Before(key[r], key[q])
    <2>1. /\ key[r][1] = key[u][1] /\ key[r][2] = key[v][2]
          /\ key[r][1] \in Int /\ key[r][2] \in Nat /\ key[r][3] \in Nat
          /\ key[q][1] \in Int /\ key[q][2] \in Nat /\ key[q][3] \in Nat
      OBVIOUS
    <2>2. key[r][1] <= key[q][1]
      <3>1. key[q][1] - low \in firsts
        OBVIOUS
      <3>2. x <= key[q][1] - low
        BY <1>1, <3>1
      <3> HIDE DEF U, V, firsts, seconds, thirds
      <3> QED
        BY <1>2, <2>1, <3>2
    <2>3. key[q][1] = key[r][1] => key[r][2] <= key[q][2]
      <3>1. key[q][1] = key[r][1] => key[q][2] \in seconds
        BY <2>1
      <3> HIDE DEF U, V, firsts, seconds, thirds
      <3> QED
        BY <1>3, <1>4, <2>1, <3>1
    <2>4. key[q][1] = key[r][1] /\ key[q][2] = key[r][2] => key[r][3] <= key[q][3]
      <3>1. key[q][1] = key[r][1] /\ key[q][2] = key[r][2] => key[q][3] \in thirds
        BY <2>1
      <3> HIDE DEF U, V, firsts, seconds, thirds
      <3> QED
        BY <1>5, <1>6, <2>1, <3>1
    <2>5. key[r][2] # key[q][2] \/ key[r][3] # key[q][3]
      OBVIOUS
    <2> HIDE DEF U, V, firsts, seconds, thirds
    <2> QED
      BY <2>1, <2>2, <2>3, <2>4, <2>5 DEF Before
  <1> QED
    BY <1>7

\* Requests to a segment: one per train.
IsQueue(w) == w \in SUBSET Requests /\ \A r, q \in w : r.train = q.train => r = q

\* No dispatcher of the repository leaves a queue waiting.
LEMMA SomeoneSelected ==
    ASSUME scenario \in Scenarios, NEW s \in Segments, NEW w, IsQueue(w), w # {}
    PROVE  Selectable(s, w) # {}
  <1>1. \A r \in w : r.train \in Trains /\ r.at \in Nat /\ r.train \in Nat
    BY ScenarioTyping DEF IsQueue, Requests
  <1>2. \A r, q \in w : r # q => r.train # q.train
    BY DEF IsQueue
  <1>3. CASE scenario.dispatcher = "any"
    BY <1>3 DEF Selectable
  <1> DEFINE key == [r \in w |-> Key(s, r)]
  <1>4. ASSUME scenario.dispatcher # "any", NEW r \in w, \A q \in w \ {r} : Before(key[r], key[q])
        PROVE  r \in Selectable(s, w)
    <2>1. \A q \in w \ {r} : Before(Key(s, r), Key(s, q))
      BY <1>4
    <2> QED
      BY <1>4, <2>1 DEF Selectable
  <1>5. CASE scenario.dispatcher = "priority"
    <2> DEFINE prio == [t \in Trains |-> -scenario.trains[t].priority]
               flip == [t \in Trains |-> scenario.trains[t].priority]
    <2>1. PICK top \in Int : \A t \in Trains : scenario.trains[t].priority <= top
      <3>1. \A i \in 1..Len(scenario.trains) : flip[i] \in Int
        BY ScenarioTyping
      <3>2. PICK m \in Int : \A i \in 1..Len(scenario.trains) : flip[i] <= m
        <4> HIDE DEF flip
        <4> QED
          BY <3>1, FamilyBounded, ScenarioTyping
      <3> QED
        BY <3>2, ScenarioTyping
    <2>2. \A r \in w : key[r] = <<-scenario.trains[r.train].priority, r.at, r.train>>
      BY <1>5 DEF Key
    <2>3. \A r \in w : /\ key[r][1] \in Int /\ key[r][1] >= -top
                       /\ key[r][2] \in Nat /\ key[r][3] \in Nat
      <3> SUFFICES ASSUME NEW r \in w
                   PROVE  /\ key[r][1] \in Int /\ key[r][1] >= -top
                          /\ key[r][2] \in Nat /\ key[r][3] \in Nat
        OBVIOUS
      <3>1. /\ scenario.trains[r.train].priority \in Int
            /\ scenario.trains[r.train].priority <= top
        BY <1>1, <2>1, ScenarioTyping
      <3>2. /\ key[r][1] = -scenario.trains[r.train].priority
            /\ key[r][2] = r.at /\ key[r][3] = r.train
        BY <2>2
      <3> HIDE DEF key
      <3> QED
        BY <1>1, <2>1, <3>1, <3>2
    <2>4. \A r, q \in w : r # q => key[r][2] # key[q][2] \/ key[r][3] # key[q][3]
      BY <1>2, <2>2
    <2>5. -top \in Int
      BY <2>1
    <2>6. \E r \in w : \A q \in w \ {r} : Before(key[r], key[q])
      <3> HIDE DEF key
      <3> QED
        BY <2>3, <2>4, <2>5, LeastKey
    <2> QED
      BY <1>4, <1>5, <2>6
  <1>6. CASE scenario.dispatcher = "fifo"
    <2>1. \A r \in w : key[r] = <<r.at, r.train, 0>>
      BY <1>6 DEF Key
    <2>2. \A r \in w : /\ key[r][1] \in Int /\ key[r][1] >= 0
                       /\ key[r][2] \in Nat /\ key[r][3] \in Nat
      BY <1>1, <2>1
    <2>3. \A r, q \in w : r # q => key[r][2] # key[q][2] \/ key[r][3] # key[q][3]
      BY <1>2, <2>1
    <2>4. \E r \in w : \A q \in w \ {r} : Before(key[r], key[q])
      <3>1. 0 \in Int
        OBVIOUS
      <3> HIDE DEF key
      <3> QED
        BY <2>2, <2>3, <3>1, LeastKey
    <2> QED
      BY <1>4, <1>6, <2>4
  <1>7. CASE scenario.dispatcher = "ranked"
    <2>1. \A r \in w : key[r] = <<Rank(s, r.train), r.train, 0>>
      BY <1>7 DEF Key
    <2>2. \A r \in w : Rank(s, r.train) \in Nat
      <3>1. CASE s \in DOMAIN scenario.rank
        <4>1. Cardinality(DOMAIN scenario.rank[s]) \in Nat
          BY <3>1, ScenarioTyping, FS_CardinalityType
        <4> QED
          BY <3>1, <4>1, ScenarioTyping DEF Rank
      <3>2. CASE s \notin DOMAIN scenario.rank
        <4>1. DOMAIN <<>> = {}
          OBVIOUS
        <4> QED
          BY <3>2, <4>1, FS_EmptySet DEF Rank
      <3> QED
        BY <3>1, <3>2
    <2>3. \A r \in w : /\ key[r][1] \in Int /\ key[r][1] >= 0
                       /\ key[r][2] \in Nat /\ key[r][3] \in Nat
      BY <1>1, <2>1, <2>2
    <2>4. \A r, q \in w : r # q => key[r][2] # key[q][2] \/ key[r][3] # key[q][3]
      BY <1>2, <2>1
    <2>5. \E r \in w : \A q \in w \ {r} : Before(key[r], key[q])
      <3>1. 0 \in Int
        OBVIOUS
      <3> HIDE DEF key
      <3> QED
        BY <2>3, <2>4, <3>1, LeastKey
    <2> QED
      BY <1>4, <1>7, <2>5
  <1> QED
    BY <1>3, <1>5, <1>6, <1>7, ScenarioTyping

\* What a call of _process_queue grants: distinct requests, no more than there
\* are slots, and fewer only if nobody is left.
LEMMA Granting ==
    ASSUME scenario \in Scenarios, NEW s \in Segments, NEW w, IsQueue(w),
           NEW n \in Nat, NEW t \in Nat, NEW a \in Admissions(s, w, n, t)
    PROVE  /\ a \in Seq(w) /\ Len(a) <= Slots(s, n, t)
           /\ \A i, j \in 1..Len(a) : i # j => a[i] # a[j]
           /\ w \ Range(a) # {} => Len(a) = Slots(s, n, t)
  <1> DEFINE left(k) == w \ {a[j] : j \in 1..(k - 1)}
  <1>1. Slots(s, n, t) \in Nat
    BY ScenarioTyping DEF Slots
  <1>2. PICK k \in 0..Slots(s, n, t) : a \in [1..k -> w]
    BY DEF Admissions
  <1>3. a \in Seq(w) /\ Len(a) = k /\ DOMAIN a = 1..k /\ k \in Nat
    <2>1. k \in Nat
      BY <1>1
    <2>2. a \in Seq(w)
      BY <1>2, <2>1, SeqDef
    <2>3. DOMAIN a = 1..Len(a) /\ Len(a) \in Nat
      BY <2>2, LenProperties
    <2> QED
      BY <1>2, <2>1, <2>2, <2>3
  <1>4. /\ \A i \in DOMAIN a : a[i] \in Selectable(s, left(i))
        /\ Len(a) < Slots(s, n, t) => Selectable(s, left(Len(a) + 1)) = {}
    BY DEF Admissions
  <1>5. \A S : Selectable(s, S) \subseteq S
    BY DEF Selectable
  <1>6. \A i, j \in 1..Len(a) : i < j => a[i] # a[j]
    <2> SUFFICES ASSUME NEW i \in 1..Len(a), NEW j \in 1..Len(a), i < j PROVE a[i] # a[j]
      OBVIOUS
    <2>1. a[j] \in left(j)
      BY <1>3, <1>4, <1>5
    <2>2. i \in 1..(j - 1)
      BY <1>3
    <2> QED
      BY <2>1, <2>2
  <1>7. ASSUME w \ Range(a) # {}, Len(a) # Slots(s, n, t) PROVE FALSE
    <2>1. left(Len(a) + 1) = w \ Range(a)
      BY <1>3 DEF Range
    <2>2. IsQueue(w \ Range(a))
      BY DEF IsQueue
    <2>3. Len(a) < Slots(s, n, t)
      BY <1>1, <1>2, <1>3, <1>7
    <2> QED
      BY <1>4, <1>7, <2>1, <2>2, <2>3, SomeoneSelected
  <1> QED
    <2>1. \A i, j \in 1..Len(a) : i # j => a[i] # a[j]
      <3> SUFFICES ASSUME NEW i \in 1..Len(a), NEW j \in 1..Len(a), i # j PROVE a[i] # a[j]
        OBVIOUS
      <3>1. i < j \/ j < i
        BY <1>3
      <3> QED
        BY <1>6, <3>1
    <2> QED
      BY <1>1, <1>2, <1>3, <1>7, <2>1

\* b is made of three parts.
Joins(b, x, y, z) ==
    /\ DOMAIN b = 1..Len(b) /\ Len(x) \in Nat /\ Len(y) \in Nat
    /\ \A k \in DOMAIN x : k \in DOMAIN b /\ b[k] = x[k]
    /\ \A k \in DOMAIN y : \E i \in DOMAIN b : i = Len(x) + k /\ b[i] = y[k]
    /\ \A k \in DOMAIN z : \E i \in DOMAIN b : i = Len(x) + Len(y) + k /\ b[i] = z[k]
    /\ \A i \in DOMAIN b : \/ i \in DOMAIN x
                           \/ \E k \in DOMAIN y : i = Len(x) + k /\ b[i] = y[k]
                           \/ \E k \in DOMAIN z : i = Len(x) + Len(y) + k /\ b[i] = z[k]

\* A batch put together of three keeps the entries of each at their places.
LEMMA ThreeParts ==
    ASSUME NEW S, NEW x \in Seq(S), NEW y \in Seq(S), NEW z \in Seq(S)
    PROVE  x \o y \o z \in Seq(S) /\ Joins(x \o y \o z, x, y, z)
  <1> DEFINE h == x \o y
             b == h \o z
  <1>1. /\ h \in Seq(S) /\ Len(h) = Len(x) + Len(y)
        /\ \A k \in 1..(Len(x) + Len(y)) : h[k] = IF k <= Len(x) THEN x[k] ELSE y[k - Len(x)]
    BY ConcatProperties
  <1>2. b = h \o z
    OBVIOUS
  <1> HIDE DEF b
  <1>3. /\ b \in Seq(S) /\ Len(b) = Len(h) + Len(z)
        /\ \A k \in 1..(Len(h) + Len(z)) : b[k] = IF k <= Len(h) THEN h[k] ELSE z[k - Len(h)]
    <2>1. h \in Seq(S) /\ z \in Seq(S)
      BY <1>1
    <2> HIDE DEF h
    <2>2. /\ h \o z \in Seq(S) /\ Len(h \o z) = Len(h) + Len(z)
          /\ \A k \in 1..(Len(h) + Len(z)) :
                (h \o z)[k] = IF k <= Len(h) THEN h[k] ELSE z[k - Len(h)]
      BY ONLY <2>1, ConcatProperties
    <2> QED
      BY ONLY <1>2, <2>2
  <1>4. /\ Len(x) \in Nat /\ DOMAIN x = 1..Len(x) /\ Len(y) \in Nat /\ DOMAIN y = 1..Len(y)
        /\ Len(z) \in Nat /\ DOMAIN z = 1..Len(z) /\ Len(b) \in Nat /\ DOMAIN b = 1..Len(b)
    BY <1>3, LenProperties
  <1> HIDE DEF h
  <1>5. \A k \in DOMAIN x : k \in DOMAIN b /\ b[k] = x[k]
    BY <1>1, <1>3, <1>4
  <1>6. ASSUME NEW k \in 1..Len(y), NEW i, i = Len(x) + k PROVE i \in DOMAIN b /\ b[i] = y[k]
    <2>1. i \in 1..(Len(x) + Len(y)) /\ ~(i <= Len(x)) /\ i - Len(x) = k
      BY <1>4, <1>6
    <2>2. i \in 1..(Len(h) + Len(z)) /\ i <= Len(h)
      BY <1>1, <1>4, <1>6
    <2> QED
      BY <1>1, <1>3, <1>4, <2>1, <2>2
  <1>7. ASSUME NEW k \in 1..Len(z), NEW i, i = Len(x) + Len(y) + k
        PROVE  i \in DOMAIN b /\ b[i] = z[k]
    <2>1. i \in 1..(Len(h) + Len(z)) /\ ~(i <= Len(h)) /\ i - Len(h) = k
      BY <1>1, <1>4, <1>7
    <2> QED
      BY <1>3, <1>4, <2>1
  <1>8. ASSUME NEW i \in 1..Len(b)
        PROVE  \/ i \in DOMAIN x
               \/ \E k \in DOMAIN y : i = Len(x) + k /\ b[i] = y[k]
               \/ \E k \in DOMAIN z : i = Len(x) + Len(y) + k /\ b[i] = z[k]
    <2>1. CASE i <= Len(x)
      <3>1. i \in 1..Len(x)
        BY <1>4, <2>1
      <3> QED
        BY <1>4, <3>1
    <2>2. CASE Len(x) < i /\ i <= Len(x) + Len(y)
      <3>1. PICK k \in 1..Len(y) : i = Len(x) + k
        <4>1. i - Len(x) \in 1..Len(y) /\ i = Len(x) + (i - Len(x))
          BY <1>4, <2>2
        <4> QED
          BY <4>1
      <3> QED
        BY <1>4, <1>6, <3>1
    <2>3. CASE Len(x) + Len(y) < i
      <3>1. PICK k \in 1..Len(z) : i = Len(x) + Len(y) + k
        <4>1. /\ i - Len(x) - Len(y) \in 1..Len(z)
              /\ i = Len(x) + Len(y) + (i - Len(x) - Len(y))
          BY <1>1, <1>3, <1>4, <2>3
        <4> QED
          BY <4>1
      <3> QED
        BY <1>4, <1>7, <3>1
    <2> QED
      BY <1>4, <2>1, <2>2, <2>3
  <1>9. b = x \o y \o z
    BY DEF b, h
  <1>10. \A k \in DOMAIN y : \E i \in DOMAIN b : i = Len(x) + k /\ b[i] = y[k]
    BY <1>4, <1>6
  <1>11. \A k \in DOMAIN z : \E i \in DOMAIN b : i = Len(x) + Len(y) + k /\ b[i] = z[k]
    BY <1>4, <1>7
  <1>12. Joins(b, x, y, z)
    BY <1>4, <1>5, <1>8, <1>10, <1>11 DEF Joins
  <1> QED
    BY <1>3, <1>9, <1>12

-----------------------------------------------------------------------------
TrainsOf(w) == {r.train : r \in w}

\* What a handler has arranged when it calls _process_queue: the requests w at
\* s are of trains about to enter it, n trains are on it, and the batch after
\* is at most the next call of a train that is not asking.
Called(e, s, w, n, opened, moved, after) ==
    /\ e \in heap /\ s \in Segments /\ IsQueue(w) /\ waiting[s] \subseteq w
    /\ e.event.kind = "try" => e.event = TryEvent(s)
    /\ n = Cardinality({o \in opened : o.seg = s}) /\ n <= Segment(s).capacity
    /\ \A x \in Segments \ {s} : {o \in opened : o.seg = x} = On(x)
    /\ opened \subseteq open /\ moved \in Seq(Movements)
    /\ \A r \in w : /\ r.step \in DOMAIN Path(r.train)
                    /\ ~IsLast(r.train, r.step) /\ Ahead(r.train, r.step) = s
                    /\ \A o \in opened : o.train # r.train
    /\ \/ after = <<>>
       \/ \E t \in Trains \ TrainsOf(w), i \in Nat, x \in Nat :
            x >= e.time /\ after = <<At(x, TrainEvent("ready", t, i))>>

\* What the call has done when it granted a: the layer's variables, and the
\* pending events of every train.
Effect(e, s, w, n, opened, moved, after, a) ==
    /\ waiting' = [waiting EXCEPT ![s] = w \ Range(a)]
    /\ occupancy' = [occupancy EXCEPT ![s] = n + Len(a)]
    /\ lastEntry' = IF a = <<>> THEN lastEntry ELSE [lastEntry EXCEPT ![s] = e.time]
    /\ open' = opened \cup {[train |-> r.train, seg |-> s, enter |-> e.time] : r \in Range(a)}
    /\ movements' = moved \o [i \in 1..Len(a) |->
            [time |-> e.time, train |-> a[i].train,
             station |-> Path(a[i].train)[a[i].step], event |-> "depart"]]
    /\ QueueOf(Events)' /\ now' = e.time /\ now <= now' /\ heap \ {e} \subseteq heap'
    /\ \A u \in Trains \ TrainsOf(Range(a)) :
        (\A k \in DOMAIN after : after[k].event.train # u) => Moves(u)' = Moves(u) \ {e}
    /\ \A r \in Range(a) : \E f \in heap' :
        /\ Moves(r.train)' = (Moves(r.train) \ {e}) \cup {f}
        /\ f.time = e.time + Segment(s).running
        /\ f.event = TrainEvent("arrive", r.train, r.step + 1)
    /\ \A k \in DOMAIN after : \E f \in heap' :
        /\ Moves(after[k].event.train)' = (Moves(after[k].event.train) \ {e}) \cup {f}
        /\ f.time = after[k].time /\ f.event = after[k].event
    /\ w \ Range(a) # {} /\ n + Len(a) < Segment(s).capacity /\ ~Closed(s, e.time) =>
        \E f \in heap' : f.event = TryEvent(s) /\ f.time = RetryAt(s, a, e.time)

\* What _process_queue does: some sequence of waiting trains is admitted.
LEMMA QueueStep ==
    ASSUME MesoInv, NEW e, NEW s, NEW w, NEW n, NEW opened, NEW moved, NEW after,
           Called(e, s, w, n, opened, moved, after),
           ProcessQueue(e, s, w, n, opened, moved, after), scenario' = scenario
    PROVE  \E a \in Admissions(s, w, n, e.time) :
                Effect(e, s, w, n, opened, moved, after, a)
  <1> DEFINE arrival(r) == At(e.time + Segment(s).running,
                              TrainEvent("arrive", r.train, r.step + 1))
             arrivals(a) == [i \in 1..Len(a) |-> arrival(a[i])]
             wanted(a) == w \ Range(a) # {} /\ ~(n + Len(a) >= Segment(s).capacity)
                            /\ ~Closed(s, e.time)
             retry(a) == IF wanted(a) THEN <<At(RetryAt(s, a, e.time), TryEvent(s))>> ELSE <<>>
             Calls == [time : {x \in Nat : x >= e.time}, event : Events]
  <1>1. PICK a \in Admissions(s, w, n, e.time) :
            /\ waiting' = [waiting EXCEPT ![s] = w \ Range(a)]
            /\ occupancy' = [occupancy EXCEPT ![s] = n + Len(a)]
            /\ lastEntry' = IF a = <<>> THEN lastEntry ELSE [lastEntry EXCEPT ![s] = e.time]
            /\ open' = opened \cup
                {[train |-> r.train, seg |-> s, enter |-> e.time] : r \in Range(a)}
            /\ movements' = moved \o [i \in 1..Len(a) |->
                    [time |-> e.time, train |-> a[i].train,
                     station |-> Path(a[i].train)[a[i].step], event |-> "depart"]]
            /\ Process(e, arrivals(a) \o retry(a) \o after, Len(arrivals(a) \o retry(a) \o after))
    BY DEF ProcessQueue
  <1>2. /\ e \in heap /\ e.time \in Nat /\ s \in Segments /\ IsQueue(w) /\ scenario \in Scenarios
        /\ n \in Nat /\ n <= Segment(s).capacity
        /\ Segment(s).running \in Nat /\ Segment(s).headway \in Nat /\ Segment(s).capacity \in Nat
        /\ QueueOf(Events) /\ lastEntry[s] \in Nat \cup {Never} /\ Never \notin Int
    <2>1. /\ e \in heap /\ s \in Segments /\ IsQueue(w) /\ n <= Segment(s).capacity
          /\ n = Cardinality({o \in opened : o.seg = s}) /\ opened \subseteq open
      BY DEF Called
    <2>2. scenario \in Scenarios /\ IsFiniteSet(open) /\ lastEntry[s] \in Nat \cup {Never}
      BY <2>1 DEF MesoInv, LayerTyped
    <2>3. IsFiniteSet({o \in opened : o.seg = s})
      BY <2>1, <2>2, FS_Subset
    <2>4. QueueOf(Events) /\ e.time \in Nat
      BY <2>1 DEF MesoInv, QueueOf
    <2> QED
      BY <2>1, <2>2, <2>3, <2>4, FS_CardinalityType, ScenarioTyping
  <1>3. /\ a \in Seq(w) /\ Len(a) <= Slots(s, n, e.time) /\ Len(a) \in Nat /\ DOMAIN a = 1..Len(a)
        /\ \A i, j \in 1..Len(a) : i # j => a[i] # a[j]
        /\ w \ Range(a) # {} => Len(a) = Slots(s, n, e.time)
    BY <1>1, <1>2, Granting, LenProperties
  <1>4. wanted(a) => RetryAt(s, a, e.time) \in Nat /\ RetryAt(s, a, e.time) >= e.time
    <2> SUFFICES ASSUME wanted(a)
                 PROVE  RetryAt(s, a, e.time) \in Nat /\ RetryAt(s, a, e.time) >= e.time
      OBVIOUS
    <2>1. CASE a # <<>>
      BY <1>2, <2>1 DEF RetryAt
    <2>2. CASE a = <<>>
      <3>1. Len(a) = 0 /\ Len(a) = Slots(s, n, e.time)
        BY <1>3, <2>2
      <3>2. ~HeadwayOver(s, e.time)
        BY <1>2, <3>1 DEF Slots
      <3>3. lastEntry[s] \in Nat /\ e.time < lastEntry[s] + Segment(s).headway
        BY <1>2, <3>2 DEF HeadwayOver
      <3>4. lastEntry[s] # Never
        BY <1>2, <3>3
      <3> QED
        BY <1>2, <2>2, <3>3, <3>4 DEF RetryAt
    <2> QED
      BY <2>1, <2>2
  <1>5. \A i \in 1..Len(a) : /\ a[i] \in w /\ a[i].train \in Trains /\ a[i].step \in Nat
                             /\ arrival(a[i]) \in Calls
    <2> SUFFICES ASSUME NEW i \in 1..Len(a)
                 PROVE  /\ a[i] \in w /\ a[i].train \in Trains /\ a[i].step \in Nat
                        /\ arrival(a[i]) \in Calls
      OBVIOUS
    <2>1. a[i] \in w
      BY <1>3, ElementOfSeq
    <2>2. a[i].train \in Trains /\ a[i].step \in Nat
      BY <1>2, <2>1 DEF IsQueue, Requests
    <2>3. TrainEvent("arrive", a[i].train, a[i].step + 1) \in Events
      BY <2>2 DEF TrainEvent, Events
    <2>4. e.time + Segment(s).running \in {x \in Nat : x >= e.time}
      BY <1>2
    <2> QED
      BY <2>1, <2>2, <2>3, <2>4 DEF At
  <1>6. /\ arrivals(a) \in Seq(Calls) /\ Len(arrivals(a)) = Len(a)
        /\ \A i \in 1..Len(a) : arrivals(a)[i] = arrival(a[i])
    <2>1. \A i \in 1..Len(a) : arrival(a[i]) \in Calls
      BY <1>5
    <2>2. Len(a) \in Nat
      BY <1>3
    <2> HIDE DEF arrival, Calls
    <2>3. arrivals(a) \in [1..Len(a) -> Calls]
      BY <2>1
    <2>4. arrivals(a) \in Seq(Calls)
      BY <2>2, <2>3, SeqDef
    <2>5. DOMAIN arrivals(a) = 1..Len(a)
      OBVIOUS
    <2> QED
      BY <2>2, <2>4, <2>5, LenProperties
  <1>7. /\ retry(a) \in Seq(Calls) /\ Len(retry(a)) = IF wanted(a) THEN 1 ELSE 0
        /\ wanted(a) => retry(a)[1] = At(RetryAt(s, a, e.time), TryEvent(s))
    <2>1. CASE wanted(a)
      <3> DEFINE c == At(RetryAt(s, a, e.time), TryEvent(s))
      <3>1. c \in Calls
        BY <1>2, <1>4, <2>1 DEF At, TryEvent, Events
      <3>2. retry(a) = <<c>> /\ c = At(RetryAt(s, a, e.time), TryEvent(s))
        BY <2>1
      <3> HIDE DEF c, Calls, retry, wanted
      <3>3. retry(a) \in Seq(Calls) /\ Len(retry(a)) = 1 /\ retry(a)[1] = c
        BY <3>1, <3>2
      <3> QED
        BY <2>1, <3>2, <3>3
    <2>2. CASE ~wanted(a)
      <3>1. retry(a) = <<>>
        BY <2>2
      <3> HIDE DEF Calls, retry, wanted
      <3> QED
        BY <2>2, <3>1
    <2> QED
      BY <2>1, <2>2
  <1>8. /\ after \in Seq(Calls) /\ Len(after) \in {0, 1} /\ DOMAIN after = 1..Len(after)
        /\ \A k \in DOMAIN after : /\ after[k].event.kind = "ready"
                                   /\ after[k].event.train \in Trains \ TrainsOf(w)
    <2>1. CASE after = <<>>
      BY <2>1
    <2>2. CASE after # <<>>
      <3>1. PICK t \in Trains \ TrainsOf(w), i \in Nat, x \in Nat :
                x >= e.time /\ after = <<At(x, TrainEvent("ready", t, i))>>
        BY <2>2 DEF Called
      <3> DEFINE c == At(x, TrainEvent("ready", t, i))
      <3>2. c \in Calls /\ c.event.kind = "ready" /\ c.event.train = t
        BY <3>1 DEF At, TrainEvent, Events
      <3>3. after = <<c>>
        BY <3>1
      <3> HIDE DEF c, Calls
      <3> QED
        BY <3>2, <3>3
    <2> QED
      BY <2>1, <2>2
  <1>9. PICK b : b = arrivals(a) \o retry(a) \o after
    OBVIOUS
  <1> DEFINE l == Len(a)
             m == Len(retry(a))
  <1>10. /\ b \in Seq(Calls) /\ DOMAIN b = 1..Len(b) /\ l \in Nat /\ m \in Nat
         /\ \A k \in 1..l : k \in DOMAIN b /\ b[k] = arrival(a[k])
         /\ wanted(a) => \E i \in DOMAIN b : b[i] = At(RetryAt(s, a, e.time), TryEvent(s))
         /\ \A k \in DOMAIN after : \E i \in DOMAIN b : i = l + m + k /\ b[i] = after[k]
         /\ \A i \in DOMAIN b : \/ i \in 1..l
                                \/ b[i].event.kind = "try"
                                \/ \E k \in DOMAIN after : i = l + m + k /\ b[i] = after[k]
    <2> DEFINE x == arrivals(a)
               y == retry(a)
    <2>1. x \in Seq(Calls) /\ y \in Seq(Calls) /\ after \in Seq(Calls) /\ b = x \o y \o after
      BY <1>6, <1>7, <1>8, <1>9
    <2>2. Len(x) = l /\ Len(y) = m /\ DOMAIN x = 1..l /\ DOMAIN y = 1..m
      BY <1>6, <2>1, LenProperties
    <2>3. \A k \in DOMAIN x : x[k] = arrival(a[k])
      BY <1>6
    <2>4. \A k \in DOMAIN y : y[k].event.kind = "try"
      BY DEF At, TryEvent
    <2>5. wanted(a) => 1 \in DOMAIN y /\ y[1] = At(RetryAt(s, a, e.time), TryEvent(s))
      OBVIOUS
    <2> HIDE DEF x, l, y, m, Calls, arrivals, retry, arrival, wanted
    <2>6. b \in Seq(Calls) /\ Joins(b, x, y, after)
      BY ONLY <2>1, ThreeParts
    <2>7. /\ DOMAIN b = 1..Len(b) /\ l \in Nat /\ m \in Nat
          /\ \A k \in DOMAIN x : k \in DOMAIN b /\ b[k] = x[k]
          /\ \A k \in DOMAIN y : \E i \in DOMAIN b : i = l + k /\ b[i] = y[k]
          /\ \A k \in DOMAIN after : \E i \in DOMAIN b : i = l + m + k /\ b[i] = after[k]
          /\ \A i \in DOMAIN b : \/ i \in DOMAIN x
                                 \/ \E k \in DOMAIN y : i = l + k /\ b[i] = y[k]
                                 \/ \E k \in DOMAIN after : i = l + m + k /\ b[i] = after[k]
      BY ONLY <2>2, <2>6 DEF Joins
    <2>8. \A k \in 1..l : k \in DOMAIN b /\ b[k] = arrival(a[k])
      BY <2>2, <2>3, <2>7
    <2>9. wanted(a) => \E i \in DOMAIN b : b[i] = At(RetryAt(s, a, e.time), TryEvent(s))
      BY <2>5, <2>7
    <2>10. \A i \in DOMAIN b : \/ i \in 1..l
                               \/ b[i].event.kind = "try"
                               \/ \E k \in DOMAIN after : i = l + m + k /\ b[i] = after[k]
      BY <2>2, <2>4, <2>7
    <2> QED
      BY ONLY <2>6, <2>7, <2>8, <2>9, <2>10
  <1>11. /\ \A i \in DOMAIN b : b[i].time \in Nat /\ b[i].event \in Events /\ b[i].time >= e.time
         /\ Len(b) \in Nat
    <2>1. \A i \in DOMAIN b : b[i] \in Calls
      <3> HIDE DEF Calls
      <3> QED
        BY <1>10, ElementOfSeq
    <2>2. Len(b) \in Nat
      <3> HIDE DEF Calls
      <3> QED
        BY <1>10, LenProperties
    <2> QED
      BY <2>1, <2>2
  <1>12. /\ now' = e.time /\ raised' = FALSE
         /\ heap' = (heap \ {e}) \cup {NewEntry(b[i], i) : i \in DOMAIN b}
         /\ heap' \subseteq [time : Nat, seq : Nat, event : Events]
         /\ \A f \in heap' : f.seq < sequence' /\ now' <= f.time
         /\ sequence' \in Nat /\ now' \in Nat /\ now <= now'
    <2> DEFINE width == Len(b)
    <2>1. Process(e, b, width) /\ DOMAIN b \subseteq 1..width /\ width \in Nat
      BY <1>1, <1>9, <1>10, <1>11
    <2>2. QueueOf(Events) /\ \A i \in DOMAIN b : b[i].time \in Nat /\ b[i].event \in Events
      BY <1>2, <1>11
    <2>3. \A i \in DOMAIN b : b[i].time >= e.time
      BY <1>11
    <2> HIDE DEF width
    <2>4. heap' = (heap \ {e}) \cup NewEntries(b)
      BY ONLY <2>1, <2>2, <2>3, CausalProcess
    <2>5. /\ now' = e.time /\ raised' = FALSE
          /\ heap' \subseteq [time : Nat, seq : Nat, event : Events]
          /\ \A f \in heap' : f.seq < sequence' /\ now' <= f.time
          /\ sequence' \in Nat /\ now' \in Nat /\ now <= now'
      BY ONLY <2>1, <2>2, <2>3, CausalProcess
    <2> QED
      BY ONLY <2>4, <2>5 DEF NewEntries
  <1>13. QueueOf(Events)'
    <2>1. Events' = Events
      BY DEF Events, Trains, Segments
    <2> QED
      BY ONLY <1>12, <2>1 DEF QueueOf
  <1> DEFINE Mine(u) == {k \in DOMAIN b : b[k].event.kind # "try" /\ b[k].event.train = u}
  <1>14. \A u : Moves(u)' = (Moves(u) \ {e}) \cup {NewEntry(b[k], k) : k \in Mine(u)}
    <2>1. \A k \in DOMAIN b : NewEntry(b[k], k).event = b[k].event
      BY DEF NewEntry
    <2> QED
      BY <1>12, <2>1 DEF Moves
  <1>A. \A k \in 1..l : /\ k \in DOMAIN b /\ b[k].event = TrainEvent("arrive", a[k].train, a[k].step + 1)
                       /\ b[k].time = e.time + Segment(s).running
                       /\ b[k].event.kind = "arrive" /\ b[k].event.train = a[k].train
    <2> SUFFICES ASSUME NEW k \in 1..l
                 PROVE  /\ k \in DOMAIN b
                        /\ b[k].event = TrainEvent("arrive", a[k].train, a[k].step + 1)
                        /\ b[k].time = e.time + Segment(s).running
                        /\ b[k].event.kind = "arrive" /\ b[k].event.train = a[k].train
      OBVIOUS
    <2>1. k \in DOMAIN b /\ b[k] = arrival(a[k])
      BY <1>10
    <2>2. /\ arrival(a[k]).event = TrainEvent("arrive", a[k].train, a[k].step + 1)
          /\ arrival(a[k]).time = e.time + Segment(s).running
      BY DEF At
    <2> HIDE DEF arrival
    <2> QED
      BY <2>1, <2>2 DEF TrainEvent
  <1>15. ASSUME NEW u \in Trains \ TrainsOf(Range(a)), \A k \in DOMAIN after : after[k].event.train # u
         PROVE  Moves(u)' = Moves(u) \ {e}
    <2>1. \A k \in 1..l : b[k].event.train # u
      BY <1>3, <1>A DEF TrainsOf, Range
    <2>2. Mine(u) = {}
      BY <1>10, <1>15, <2>1
    <2> QED
      BY <1>14, <2>2
  <1>16. ASSUME NEW r \in Range(a)
         PROVE  \E f \in heap' : /\ Moves(r.train)' = (Moves(r.train) \ {e}) \cup {f}
                                 /\ f.time = e.time + Segment(s).running
                                 /\ f.event = TrainEvent("arrive", r.train, r.step + 1)
    <2>1. PICK i \in 1..l : r = a[i]
      BY <1>3 DEF Range
    <2>2. /\ i \in DOMAIN b /\ b[i].event = TrainEvent("arrive", r.train, r.step + 1)
          /\ b[i].time = e.time + Segment(s).running
          /\ b[i].event.kind = "arrive" /\ b[i].event.train = r.train
      BY <1>A, <2>1
    <2>3. ASSUME NEW k \in Mine(r.train) PROVE k = i
      <3>1. CASE k \in 1..l
        <4>1. b[k].event.train = a[k].train
          BY <1>A, <3>1
        <4>2. a[k].train = a[i].train
          BY <2>1, <2>3, <4>1
        <4>3. a[k] = a[i]
          BY <1>2, <1>5, <2>1, <3>1, <4>2 DEF IsQueue
        <4> QED
          BY <1>3, <2>1, <3>1, <4>3
      <3>2. CASE \E j \in DOMAIN after : k = l + m + j /\ b[k] = after[j]
        <4>1. b[k].event.train \notin TrainsOf(w)
          BY <1>8, <3>2
        <4>2. r \in w
          BY <1>5, <2>1
        <4> QED
          BY <2>3, <4>1, <4>2 DEF TrainsOf
      <3> QED
        BY <1>10, <2>3, <3>1, <3>2
    <2>4. i \in Mine(r.train)
      BY <2>2
    <2>5. Mine(r.train) = {i}
      <3> HIDE DEF Mine
      <3> QED
        BY <2>3, <2>4
    <2> DEFINE f == NewEntry(b[i], i)
    <2>6. /\ Moves(r.train)' = (Moves(r.train) \ {e}) \cup {f} /\ f \in heap'
      BY <1>12, <1>14, <2>2, <2>5
    <2>7. f.time = e.time + Segment(s).running /\ f.event = TrainEvent("arrive", r.train, r.step + 1)
      BY <2>2 DEF NewEntry
    <2> HIDE DEF f
    <2> QED
      BY <2>6, <2>7
  <1>17. ASSUME NEW k \in DOMAIN after
         PROVE  \E f \in heap' :
                    /\ Moves(after[k].event.train)' = (Moves(after[k].event.train) \ {e}) \cup {f}
                    /\ f.time = after[k].time /\ f.event = after[k].event
    <2>1. PICK i \in DOMAIN b : i = l + m + k /\ b[i] = after[k]
      BY <1>10
    <2>2. \A j \in DOMAIN after : j = k
      BY <1>8
    <2> DEFINE u == after[k].event.train
    <2>3. u \in Trains \ TrainsOf(w) /\ after[k].event.kind = "ready"
      BY <1>8
    <2>4. ASSUME NEW j \in Mine(u) PROVE j = i
      <3>1. j \notin 1..l
        <4> SUFFICES ASSUME j \in 1..l PROVE FALSE
          OBVIOUS
        <4>1. b[j].event.train = a[j].train /\ a[j] \in w
          BY <1>5, <1>A
        <4> QED
          BY <2>3, <2>4, <4>1 DEF TrainsOf
      <3> QED
        BY <1>10, <2>1, <2>2, <2>4, <3>1
    <2>5. i \in Mine(u)
      BY <2>1, <2>3
    <2>6. Mine(u) = {i}
      <3> HIDE DEF Mine, u
      <3> QED
        BY <2>4, <2>5
    <2> DEFINE f == NewEntry(b[i], i)
    <2>7. Moves(u)' = (Moves(u) \ {e}) \cup {f} /\ f \in heap'
      BY <1>12, <1>14, <2>1, <2>6
    <2>8. f.time = after[k].time /\ f.event = after[k].event
      BY <2>1 DEF NewEntry
    <2> HIDE DEF f
    <2> QED
      BY <2>7, <2>8
  <1>18. ASSUME w \ Range(a) # {}, n + Len(a) < Segment(s).capacity, ~Closed(s, e.time)
         PROVE  \E f \in heap' : f.event = TryEvent(s) /\ f.time = RetryAt(s, a, e.time)
    <2>1. wanted(a)
      BY <1>2, <1>3, <1>18
    <2>2. PICK i \in DOMAIN b : b[i] = At(RetryAt(s, a, e.time), TryEvent(s))
      BY <1>10, <2>1
    <2> DEFINE f == NewEntry(b[i], i)
    <2>3. f \in heap' /\ f.event = TryEvent(s) /\ f.time = RetryAt(s, a, e.time)
      BY <1>12, <2>2 DEF NewEntry, At
    <2> HIDE DEF f
    <2> QED
      BY <2>3
  <1>19. now' = e.time /\ now <= now' /\ heap \ {e} \subseteq heap'
    BY <1>12
  <1>20. Effect(e, s, w, n, opened, moved, after, a)
    BY <1>1, <1>13, <1>15, <1>16, <1>17, <1>18, <1>19 DEF Effect
  <1> QED
    BY <1>20

-----------------------------------------------------------------------------
\* Distinct items are counted by their indices.
LEMMA CountDistinct ==
    ASSUME NEW n \in Nat, NEW f, \A i, j \in 1..n : i # j => f[i] # f[j]
    PROVE  LET T == {f[i] : i \in 1..n} IN IsFiniteSet(T) /\ Cardinality(T) = n
  <1> DEFINE T == {f[i] : i \in 1..n}
             g == [i \in 1..n |-> f[i]]
  <1>1. g \in Bijection(1..n, T)
    <2>1. g \in [1..n -> T] /\ \A t \in T : \E i \in 1..n : g[i] = t
      OBVIOUS
    <2>2. \A i, j \in 1..n : g[i] = g[j] => i = j
      OBVIOUS
    <2> HIDE DEF g, T
    <2> QED
      BY <2>1, <2>2 DEF Bijection, Injection, Surjection, IsInjective
  <1>2. ExistsBijection(1..n, T)
    BY <1>1 DEF ExistsBijection
  <1>3. IsFiniteSet(1..n) /\ Cardinality(1..n) = n
    BY FS_Interval
  <1> HIDE DEF T, g
  <1>4. IsFiniteSet(T) /\ Cardinality(T) = n
    BY <1>2, <1>3, FS_Bijection
  <1> QED
    BY <1>4 DEF T

\* The scenario is read, never written.
LEMMA ScenarioFixed ==
    ASSUME scenario' = scenario
    PROVE  /\ Segments' = Segments /\ Trains' = Trains
           /\ \A s : Segment(s)' = Segment(s)
           /\ \A t : Path(t)' = Path(t)
           /\ \A t, i : IsLast(t, i)' <=> IsLast(t, i)
           /\ \A t, i : Ahead(t, i)' = Ahead(t, i)
           /\ \A s, x : Closed(s, x)' <=> Closed(s, x)
  BY DEF Segments, Trains, Segment, Path, IsLast, Ahead, Closed

\* What a call grants, with the numbers the invariant speaks of.
LEMMA Granted ==
    ASSUME MesoInv, NEW e, NEW s, NEW w, NEW n, NEW opened, NEW moved, NEW after,
           Called(e, s, w, n, opened, moved, after), NEW a \in Admissions(s, w, n, e.time)
    PROVE  /\ n \in Nat /\ e.time \in Nat /\ IsFiniteSet(opened)
           /\ a \in Seq(w) /\ Len(a) \in Nat /\ DOMAIN a = 1..Len(a) /\ Range(a) \subseteq w
           /\ \A i, j \in 1..Len(a) : i # j => a[i] # a[j]
           /\ n + Len(a) <= Segment(s).capacity
           /\ a # <<>> => /\ ~Closed(s, e.time) /\ HeadwayOver(s, e.time)
                          /\ Segment(s).headway = 0 \/ Len(a) = 1
           /\ w \ Range(a) # {} => \/ n + Len(a) = Segment(s).capacity
                                   \/ Closed(s, e.time)
                                   \/ a = <<>> /\ ~HeadwayOver(s, e.time)
                                   \/ a # <<>> /\ Segment(s).headway > 0
  <1>1. /\ e \in heap /\ s \in Segments /\ IsQueue(w) /\ n <= Segment(s).capacity
        /\ n = Cardinality({o \in opened : o.seg = s}) /\ opened \subseteq open
    BY DEF Called
  <1>2. scenario \in Scenarios /\ IsFiniteSet(open) /\ e.time \in Nat
    BY <1>1 DEF MesoInv, LayerTyped, QueueOf
  <1>3. IsFiniteSet(opened) /\ IsFiniteSet({o \in opened : o.seg = s})
    <2>1. IsFiniteSet(opened)
      BY <1>1, <1>2, FS_Subset
    <2> QED
      BY <2>1, FS_Subset
  <1>4. n \in Nat
    BY <1>1, <1>3, FS_CardinalityType
  <1>5. /\ a \in Seq(w) /\ Len(a) <= Slots(s, n, e.time)
        /\ \A i, j \in 1..Len(a) : i # j => a[i] # a[j]
        /\ w \ Range(a) # {} => Len(a) = Slots(s, n, e.time)
    BY <1>1, <1>2, <1>4, Granting
  <1>6. /\ Len(a) \in Nat /\ DOMAIN a = 1..Len(a) /\ Range(a) \subseteq w
        /\ a = <<>> <=> Len(a) = 0
    <2>1. Len(a) \in Nat /\ DOMAIN a = 1..Len(a)
      BY <1>5, LenProperties
    <2>2. Range(a) \subseteq w
      BY <1>5, <2>1, ElementOfSeq DEF Range
    <2>3. a = <<>> <=> Len(a) = 0
      BY <1>5, EmptySeq
    <2> QED
      BY <2>1, <2>2, <2>3
  <1>7. Segment(s).headway \in Nat /\ Segment(s).capacity \in Nat
    BY <1>1, <1>2, ScenarioTyping
  <1>8. n + Len(a) <= Segment(s).capacity
    BY <1>1, <1>4, <1>5, <1>6, <1>7 DEF Slots
  <1>9. a # <<>> => /\ ~Closed(s, e.time) /\ HeadwayOver(s, e.time)
                    /\ Segment(s).headway = 0 \/ Len(a) = 1
    BY <1>5, <1>6, <1>7 DEF Slots
  <1>10. w \ Range(a) # {} => \/ n + Len(a) = Segment(s).capacity
                              \/ Closed(s, e.time)
                              \/ a = <<>> /\ ~HeadwayOver(s, e.time)
                              \/ a # <<>> /\ Segment(s).headway > 0
    BY <1>1, <1>4, <1>5, <1>6, <1>7 DEF Slots
  <1> QED
    BY <1>2, <1>3, <1>4, <1>5, <1>6, <1>8, <1>9, <1>10

\* _process_queue keeps the types,
LEMMA LayerAfter ==
    ASSUME MesoInv, NEW e, NEW s, NEW w, NEW n, NEW opened, NEW moved, NEW after,
           Called(e, s, w, n, opened, moved, after), NEW a \in Admissions(s, w, n, e.time),
           Effect(e, s, w, n, opened, moved, after, a), scenario' = scenario,
           occupations' \in Seq(Occupations)
    PROVE  LayerTyped'
  <1>1. /\ Segments' = Segments /\ Trains' = Trains /\ Requests' = Requests
        /\ Openings' = Openings /\ Occupations' = Occupations /\ Movements' = Movements
    BY DEF Segments, Trains, Requests, Openings, Occupations, Movements
  <1>2. /\ n \in Nat /\ e.time \in Nat /\ a \in Seq(w) /\ Len(a) \in Nat
        /\ DOMAIN a = 1..Len(a) /\ Range(a) \subseteq w /\ IsFiniteSet(opened)
        /\ \A i, j \in 1..Len(a) : i # j => a[i] # a[j]
    BY Granted
  <1>3. /\ s \in Segments /\ IsQueue(w) /\ opened \subseteq open /\ moved \in Seq(Movements)
        /\ \A r \in w : r.step \in DOMAIN Path(r.train)
    BY DEF Called
  <1>4. /\ scenario \in Scenarios /\ occupancy \in [Segments -> Nat]
        /\ lastEntry \in [Segments -> Nat \cup {Never}]
        /\ waiting \in [Segments -> SUBSET Requests]
        /\ \A x \in Segments : \A r, q \in waiting[x] : r.train = q.train => r = q
        /\ open \subseteq Openings /\ IsFiniteSet(open)
    BY DEF MesoInv, LayerTyped
  <1>5. scenario' \in Scenarios
    BY <1>4
  <1>6. occupancy' \in [Segments -> Nat]
    BY <1>2, <1>3, <1>4 DEF Effect
  <1>7. lastEntry' \in [Segments -> Nat \cup {Never}]
    BY <1>2, <1>3, <1>4 DEF Effect
  <1>8. /\ waiting' \in [Segments -> SUBSET Requests]
        /\ \A x \in Segments : \A r, q \in waiting'[x] : r.train = q.train => r = q
    <2>1. waiting' = [waiting EXCEPT ![s] = w \ Range(a)]
      BY DEF Effect
    <2> QED
      BY <1>3, <1>4, <2>1 DEF IsQueue
  <1> DEFINE entered == {[train |-> r.train, seg |-> s, enter |-> e.time] : r \in Range(a)}
  <1>9. open' = opened \cup entered
    BY DEF Effect
  <1>10. entered \subseteq Openings
    BY <1>2, <1>3 DEF IsQueue, Requests, Openings
  <1>11. IsFiniteSet(entered)
    <2> DEFINE f == [i \in 1..Len(a) |-> [train |-> a[i].train, seg |-> s, enter |-> e.time]]
    <2>1. \A i, j \in 1..Len(a) : i # j => f[i] # f[j]
      BY <1>2, <1>3 DEF IsQueue, Range
    <2>2. entered = {f[i] : i \in 1..Len(a)}
      BY <1>2 DEF Range
    <2> HIDE DEF f, entered
    <2> QED
      BY <1>2, <2>1, <2>2, CountDistinct
  <1>12. open' \subseteq Openings /\ IsFiniteSet(open')
    <2> HIDE DEF entered
    <2> QED
      BY <1>2, <1>3, <1>4, <1>9, <1>10, <1>11, FS_Union
  <1> DEFINE departs == [i \in 1..Len(a) |->
                [time |-> e.time, train |-> a[i].train,
                 station |-> Path(a[i].train)[a[i].step], event |-> "depart"]]
  <1>13. departs \in Seq(Movements)
    <2>1. ASSUME NEW i \in 1..Len(a) PROVE departs[i] \in Movements
      <3>1. a[i] \in w /\ a[i].train \in Trains
        BY <1>2, <1>3, ElementOfSeq DEF IsQueue, Requests
      <3>2. Path(a[i].train)[a[i].step] \in Nat
        BY <1>3, <1>4, <3>1, ScenarioTyping
      <3> QED
        BY <1>2, <3>1, <3>2 DEF Movements
    <2>2. departs \in [1..Len(a) -> Movements]
      BY <2>1
    <2> HIDE DEF departs
    <2> QED
      BY <1>2, <2>2, SeqDef
  <1>14. movements' \in Seq(Movements)
    <2>1. movements' = moved \o departs
      BY DEF Effect
    <2> HIDE DEF departs
    <2> QED
      BY <1>3, <1>13, <2>1, ConcatProperties
  <1> QED
    BY <1>1, <1>5, <1>6, <1>7, <1>8, <1>12, <1>14 DEF LayerTyped

\* the occupancy of every segment,
LEMMA CountedAfter ==
    ASSUME MesoInv, NEW e, NEW s, NEW w, NEW n, NEW opened, NEW moved, NEW after,
           Called(e, s, w, n, opened, moved, after), NEW a \in Admissions(s, w, n, e.time),
           Effect(e, s, w, n, opened, moved, after, a), scenario' = scenario
    PROVE  Counted'
  <1>1. /\ n \in Nat /\ Len(a) \in Nat /\ DOMAIN a = 1..Len(a) /\ Range(a) \subseteq w
        /\ IsFiniteSet(opened) /\ n + Len(a) <= Segment(s).capacity
        /\ \A i, j \in 1..Len(a) : i # j => a[i] # a[j]
    BY Granted
  <1>2. /\ s \in Segments /\ IsQueue(w) /\ n = Cardinality({o \in opened : o.seg = s})
        /\ \A r \in w : \A o \in opened : o.train # r.train
        /\ \A x \in Segments \ {s} : {o \in opened : o.seg = x} = On(x)
    BY DEF Called
  <1> DEFINE entered == {[train |-> r.train, seg |-> s, enter |-> e.time] : r \in Range(a)}
             here == {o \in opened : o.seg = s}
  <1>3. open' = opened \cup entered /\ occupancy' = [occupancy EXCEPT ![s] = n + Len(a)]
    BY DEF Effect
  <1>4. IsFiniteSet(entered) /\ Cardinality(entered) = Len(a)
    <2> DEFINE f == [i \in 1..Len(a) |-> [train |-> a[i].train, seg |-> s, enter |-> e.time]]
    <2>1. \A i, j \in 1..Len(a) : i # j => f[i] # f[j]
      BY <1>1, <1>2 DEF IsQueue, Range
    <2>2. entered = {f[i] : i \in 1..Len(a)}
      BY <1>1 DEF Range
    <2> HIDE DEF f, entered
    <2> QED
      BY <1>1, <2>1, <2>2, CountDistinct
  <1>5. here \cap entered = {}
    BY <1>1, <1>2
  <1>6. On(s)' = here \cup entered
    BY <1>3 DEF On
  <1>7. Cardinality(On(s)') = n + Len(a)
    <2>1. IsFiniteSet(here)
      BY <1>1, FS_Subset
    <2>2. Cardinality(here) = n
      BY <1>2
    <2> HIDE DEF here, entered
    <2>3. Cardinality(here \cup entered) = Cardinality(here) + Cardinality(entered) - Cardinality(here \cap entered)
      BY <1>4, <2>1, FS_Union
    <2>4. Cardinality(here \cap entered) = 0
      BY <1>5, FS_EmptySet
    <2> QED
      BY <1>1, <1>4, <1>6, <2>2, <2>3, <2>4
  <1>8. ASSUME NEW x \in Segments, x # s PROVE On(x)' = On(x) /\ occupancy'[x] = occupancy[x]
    <2>1. On(x)' = {o \in opened : o.seg = x}
      BY <1>3, <1>8 DEF On
    <2>2. occupancy'[x] = occupancy[x]
      BY <1>3, <1>8 DEF MesoInv, LayerTyped
    <2> QED
      BY <1>2, <1>8, <2>1, <2>2
  <1>9. occupancy'[s] = n + Len(a)
    BY <1>2, <1>3 DEF MesoInv, LayerTyped
  <1>10. Segments' = Segments /\ \A x : Segment(x)' = Segment(x)
    BY ScenarioFixed
  <1>11. \A x \in Segments : occupancy[x] = Cardinality(On(x)) /\ occupancy[x] <= Segment(x).capacity
    BY DEF MesoInv, Counted
  <1>12. ASSUME NEW x \in Segments
         PROVE  occupancy'[x] = Cardinality(On(x)') /\ occupancy'[x] <= Segment(x).capacity
    <2>1. CASE x = s
      BY <1>1, <1>7, <1>9, <2>1
    <2>2. CASE x # s
      BY <1>8, <1>11, <2>2
    <2> QED
      BY <2>1, <2>2
  <1> QED
    BY <1>10, <1>12 DEF Counted

\* With the intervals opened left, the records hold the other entries.
EntriesKept(opened) ==
    \A x \in Segments :
        {<<o.train, o.enter>> : o \in {p \in opened : p.seg = x}}
            \cup {<<r.train, r.enter>> : r \in {q \in Range(occupations') : q.seg = x}}
        = EntriesTo(x)

\* The entries to a segment are unchanged by closing an open interval.
LEMMA SpacedAfter ==
    ASSUME MesoInv, NEW e, NEW s, NEW w, NEW n, NEW opened, NEW moved, NEW after,
           Called(e, s, w, n, opened, moved, after), NEW a \in Admissions(s, w, n, e.time),
           Effect(e, s, w, n, opened, moved, after, a), scenario' = scenario,
           EntriesKept(opened)
    PROVE  Spaced'
  <1>1. /\ e.time \in Nat /\ Len(a) \in Nat /\ DOMAIN a = 1..Len(a)
        /\ a # <<>> => /\ ~Closed(s, e.time) /\ HeadwayOver(s, e.time)
                       /\ Segment(s).headway = 0 \/ Len(a) = 1
    BY Granted
  <1>2. s \in Segments
    BY DEF Called
  <1>3. /\ \A x \in Segments : lastEntry[x] \in Nat \cup {Never} /\ Segment(x).headway \in Nat
        /\ lastEntry \in [Segments -> Nat \cup {Never}] /\ Never \notin Int
    BY ScenarioTyping DEF MesoInv, LayerTyped
  <1> DEFINE entered == {[train |-> r.train, seg |-> s, enter |-> e.time] : r \in Range(a)}
             new == {<<r.train, e.time>> : r \in Range(a)}
  <1>4. /\ open' = opened \cup entered
        /\ lastEntry' = IF a = <<>> THEN lastEntry ELSE [lastEntry EXCEPT ![s] = e.time]
    BY DEF Effect
  <1>5. EntriesTo(s)' = EntriesTo(s) \cup new
    <2> DEFINE old == {<<o.train, o.enter>> : o \in {p \in opened : p.seg = s}}
               done == {<<r.train, r.enter>> : r \in {q \in Range(occupations') : q.seg = s}}
    <2>1. {o \in open' : o.seg = s} = {p \in opened : p.seg = s} \cup entered
      BY <1>4
    <2>2. {<<o.train, o.enter>> : o \in {p \in opened : p.seg = s} \cup entered} = old \cup new
      <3>1. ASSUME NEW o \in entered PROVE <<o.train, o.enter>> \in new
        OBVIOUS
      <3>2. ASSUME NEW p \in new PROVE \E o \in entered : p = <<o.train, o.enter>>
        <4>1. PICK r \in Range(a) : p = <<r.train, e.time>>
          OBVIOUS
        <4> WITNESS [train |-> r.train, seg |-> s, enter |-> e.time] \in entered
        <4> QED
          BY <4>1
      <3> HIDE DEF entered, new
      <3> QED
        BY <3>1, <3>2
    <2>3. EntriesTo(s)' = (old \cup new) \cup done
      <3> HIDE DEF entered, new
      <3> QED
        BY <2>1, <2>2 DEF EntriesTo, On
    <2>4. old \cup done = EntriesTo(s)
      BY <1>2 DEF EntriesKept
    <2> HIDE DEF old, new, done
    <2> QED
      BY <2>3, <2>4
  <1>6. ASSUME NEW x \in Segments, x # s PROVE EntriesTo(x)' = EntriesTo(x)
    <2>1. {o \in open' : o.seg = x} = {p \in opened : p.seg = x}
      BY <1>4, <1>6
    <2> QED
      BY <2>1 DEF EntriesKept, EntriesTo, On
  <1>7. \A x \in Segments : \A p \in EntriesTo(x) : /\ p[2] \in Nat
                                                  /\ lastEntry[x] \in Nat /\ p[2] <= lastEntry[x]
                                                  /\ ~Closed(x, p[2])
    <2>1. ASSUME NEW x \in Segments, NEW p \in EntriesTo(x) PROVE p[2] \in Nat
      <3>1. CASE p \in {<<o.train, o.enter>> : o \in On(x)}
        BY <3>1 DEF On, MesoInv, LayerTyped, Openings
      <3>2. CASE p \in {<<r.train, r.enter>> : r \in {q \in Range(occupations) : q.seg = x}}
        <4>1. Range(occupations) \subseteq Occupations
          BY LenProperties, ElementOfSeq DEF Range, MesoInv, LayerTyped
        <4> QED
          BY <3>2, <4>1 DEF Occupations
      <3> QED
        BY <2>1, <3>1, <3>2 DEF EntriesTo
    <2> QED
      BY <2>1 DEF MesoInv, Spaced, HeadwayKept
  <1>8. \A x \in Segments : \A p, q \in EntriesTo(x) : p # q =>
            p[2] >= q[2] + Segment(x).headway \/ q[2] >= p[2] + Segment(x).headway
    BY DEF MesoInv, Spaced, HeadwayKept
  <1>9. \A p \in new : p[2] = e.time
    OBVIOUS
  <1>10. /\ \A x \in Segments \ {s} : lastEntry'[x] = lastEntry[x]
         /\ lastEntry'[s] = IF a = <<>> THEN lastEntry[s] ELSE e.time
    BY <1>2, <1>3, <1>4
  <1>11. CASE a = <<>>
    <2>1. new = {}
      BY <1>1, <1>11 DEF Range
    <2>2. \A x \in Segments : EntriesTo(x)' = EntriesTo(x) /\ lastEntry'[x] = lastEntry[x]
      BY <1>5, <1>6, <1>10, <1>11, <2>1
    <2> QED
      BY <1>7, <1>8, <2>2, ScenarioFixed DEF Spaced, HeadwayKept
  <1>12. CASE a # <<>>
    <2>1. /\ ~Closed(s, e.time) /\ HeadwayOver(s, e.time)
          /\ Segment(s).headway = 0 \/ Len(a) = 1
      BY <1>1, <1>12
    <2>2. ASSUME NEW p \in EntriesTo(s) PROVE e.time >= p[2] + Segment(s).headway /\ p[2] <= e.time
      <3>1. lastEntry[s] \in Nat /\ p[2] \in Nat /\ p[2] <= lastEntry[s] /\ lastEntry[s] # Never
        BY <1>2, <1>3, <1>7
      <3>2. e.time >= lastEntry[s] + Segment(s).headway
        BY <2>1, <3>1 DEF HeadwayOver
      <3> QED
        BY <1>1, <1>2, <1>3, <3>1, <3>2
    <2>3. ASSUME NEW p \in new, NEW q \in new, p # q PROVE p[2] >= q[2] + Segment(s).headway
      <3>1. Segment(s).headway = 0
        <4> SUFFICES ASSUME Len(a) = 1 PROVE FALSE
          BY <2>1
        <4>1. Range(a) = {a[1]}
          BY <1>1 DEF Range
        <4> QED
          BY <2>3, <4>1
      <3> QED
        BY <1>1, <1>9, <3>1
    <2>4. ASSUME NEW p \in EntriesTo(s)'
          PROVE  p[2] \in Nat /\ p[2] <= e.time /\ ~Closed(s, p[2])
      <3> HIDE DEF new
      <3> QED
        BY <1>1, <1>2, <1>5, <1>7, <1>9, <2>1, <2>2
    <2>5. ASSUME NEW p \in EntriesTo(s)', NEW q \in EntriesTo(s)', p # q
          PROVE  p[2] >= q[2] + Segment(s).headway \/ q[2] >= p[2] + Segment(s).headway
      <3>1. CASE p \in new /\ q \in new
        BY <2>3, <2>5, <3>1
      <3>2. CASE p \in EntriesTo(s) /\ q \in EntriesTo(s)
        BY <1>2, <1>8, <2>5, <3>2
      <3>3. CASE p \in new /\ q \in EntriesTo(s)
        BY <1>9, <2>2, <3>3
      <3>4. CASE p \in EntriesTo(s) /\ q \in new
        BY <1>9, <2>2, <3>4
      <3> HIDE DEF new
      <3> QED
        BY <1>5, <2>5, <3>1, <3>2, <3>3, <3>4
    <2>6. lastEntry'[s] = e.time
      BY <1>10, <1>12
    <2>7. ASSUME NEW x \in Segments
          PROVE  /\ \A p, q \in EntriesTo(x)' :
                        /\ ~Closed(x, p[2])
                        /\ p # q => \/ p[2] >= q[2] + Segment(x).headway
                                    \/ q[2] >= p[2] + Segment(x).headway
                 /\ \A p \in EntriesTo(x)' : lastEntry'[x] \in Nat /\ p[2] <= lastEntry'[x]
      <3>1. CASE x = s
        BY <1>1, <2>4, <2>5, <2>6, <3>1
      <3>2. CASE x # s
        BY <1>6, <1>7, <1>8, <1>10, <3>2
      <3> QED
        BY <3>1, <3>2
    <2> QED
      BY <2>7, ScenarioFixed DEF Spaced, HeadwayKept
  <1> QED
    BY <1>11, <1>12

\* the pending offer to every queue that could move,
LEMMA AwakeAfter ==
    ASSUME MesoInv, NEW e, NEW s, NEW w, NEW n, NEW opened, NEW moved, NEW after,
           Called(e, s, w, n, opened, moved, after), NEW a \in Admissions(s, w, n, e.time),
           Effect(e, s, w, n, opened, moved, after, a), scenario' = scenario
    PROVE  Awake'
  <1>1. /\ e.time \in Nat /\ Len(a) \in Nat /\ n \in Nat /\ n + Len(a) <= Segment(s).capacity
        /\ w \ Range(a) # {} => \/ n + Len(a) = Segment(s).capacity
                                \/ Closed(s, e.time)
                                \/ a = <<>> /\ ~HeadwayOver(s, e.time)
                                \/ a # <<>> /\ Segment(s).headway > 0
    BY Granted
  <1>2. s \in Segments /\ (e.event.kind = "try" => e.event = TryEvent(s))
    BY DEF Called
  <1>3. /\ \A x \in Segments : Segment(x).headway \in Nat /\ Segment(x).capacity \in Nat
                               /\ Segment(x).capacity > 0
        /\ lastEntry \in [Segments -> Nat \cup {Never}] /\ Never \notin Int
        /\ occupancy \in [Segments -> Nat] /\ waiting \in [Segments -> SUBSET Requests]
    BY ScenarioTyping DEF MesoInv, LayerTyped
  <1>4. /\ waiting' = [waiting EXCEPT ![s] = w \ Range(a)]
        /\ occupancy' = [occupancy EXCEPT ![s] = n + Len(a)]
        /\ lastEntry' = IF a = <<>> THEN lastEntry ELSE [lastEntry EXCEPT ![s] = e.time]
        /\ now' = e.time /\ now <= now' /\ heap \ {e} \subseteq heap'
        /\ w \ Range(a) # {} /\ n + Len(a) < Segment(s).capacity /\ ~Closed(s, e.time) =>
                \E f \in heap' : f.event = TryEvent(s) /\ f.time = RetryAt(s, a, e.time)
    BY DEF Effect
  <1>5. Counted'
    BY CountedAfter
  <1>6. \A f \in heap : f.time \in Nat /\ now \in Nat
    BY DEF MesoInv, QueueOf
  <1>7. /\ Segments' = Segments /\ \A x : Segment(x)' = Segment(x)
        /\ \A x, t : Closed(x, t)' <=> Closed(x, t)
    BY ScenarioFixed
  <1>8. /\ \A x \in Segments : On(x)' # {} \/ occupancy'[x] = 0
    BY <1>5, <1>7, FS_EmptySet DEF Counted
  \* A TRY that has not come yet is still pending.
  <1>13. ASSUME NEW i \in DOMAIN scenario.closures, scenario.closures[i].end > e.time
         PROVE  \E f \in heap' : /\ f.event = TryEvent(scenario.closures[i].seg)
                                 /\ f.time = scenario.closures[i].end
    <2>1. scenario.closures[i].end \in Nat /\ scenario.closures[i].end > now
      <3>1. scenario.closures[i].end \in Nat
        BY ScenarioTyping DEF MesoInv, LayerTyped
      <3>2. now \in Nat
        BY DEF MesoInv, QueueOf
      <3>3. e.time \in Nat /\ now <= e.time
        BY <1>1, <1>4
      <3> QED
        BY <1>13, <3>1, <3>2, <3>3
    <2>2. PICK f \in Pending(TryEvent(scenario.closures[i].seg)) : f.time = scenario.closures[i].end
      BY <2>1 DEF MesoInv, Awake
    <2>3. f \in heap /\ f.event = TryEvent(scenario.closures[i].seg) /\ f # e
      BY <1>1, <1>13, <2>1, <2>2 DEF Pending
    <2> QED
      BY <1>4, <2>2, <2>3
  \* The queue in question.
  <1>9. ASSUME waiting'[s] # {}
        PROVE  \/ occupancy'[s] >= Segment(s).capacity /\ On(s)' # {}
               \/ \E f \in heap' :
                    /\ f.event = TryEvent(s) /\ f.time >= now'
                    /\ \A x \in now'..(f.time - 1) : Closed(s, x) \/ ~HeadwayOver(s, x)'
    <2>1. w \ Range(a) # {} /\ occupancy'[s] = n + Len(a)
      BY <1>2, <1>3, <1>4, <1>9
    <2>2. CASE n + Len(a) = Segment(s).capacity
      <3>1. occupancy'[s] # 0 /\ occupancy'[s] >= Segment(s).capacity
        BY <1>2, <1>3, <2>1, <2>2
      <3> QED
        BY <1>2, <1>8, <3>1
    <2>3. CASE Closed(s, e.time)
      <3>1. PICK i \in DOMAIN scenario.closures :
                /\ scenario.closures[i].seg = s
                /\ scenario.closures[i].start <= e.time /\ e.time < scenario.closures[i].end
        BY <2>3 DEF Closed
      <3>2. PICK f \in heap' : f.event = TryEvent(s) /\ f.time = scenario.closures[i].end
        <4>1. scenario.closures[i].end > e.time
          BY <1>1, <3>1, ScenarioTyping DEF MesoInv, LayerTyped
        <4> QED
          BY <1>13, <3>1, <4>1
      <3>3. scenario.closures[i].start \in Int /\ scenario.closures[i].end \in Nat
        BY ScenarioTyping DEF MesoInv, LayerTyped
      <3>4. ASSUME NEW x \in now'..(f.time - 1) PROVE Closed(s, x)
        <4>1. scenario.closures[i].start <= x /\ x < scenario.closures[i].end
          BY <1>1, <1>4, <3>1, <3>2, <3>3
        <4> QED
          BY <3>1, <4>1 DEF Closed
      <3>5. f.time >= now'
        BY <1>1, <1>4, <3>1, <3>2, <3>3
      <3> QED
        BY <3>2, <3>4, <3>5
    <2>4. CASE ~Closed(s, e.time) /\ n + Len(a) # Segment(s).capacity
      <3>1. PICK f \in heap' : f.event = TryEvent(s) /\ f.time = RetryAt(s, a, e.time)
        <4> DEFINE c == Segment(s).capacity
                   k == n + Len(a)
        <4>1. k \in Nat /\ c \in Nat /\ k <= c /\ k # c
          BY <1>1, <1>2, <1>3, <2>4
        <4>2. k < c
          <5> HIDE DEF k, c
          <5> QED
            BY <4>1
        <4> QED
          BY <1>4, <2>1, <2>4, <4>2
      <3>2. CASE a = <<>>
        <4>1. lastEntry' = lastEntry /\ ~HeadwayOver(s, e.time)
          BY <1>1, <1>4, <2>1, <2>4, <3>2
        <4>2. lastEntry[s] \in Nat /\ e.time < lastEntry[s] + Segment(s).headway /\ lastEntry[s] # Never
          BY <1>1, <1>2, <1>3, <4>1 DEF HeadwayOver
        <4>3. f.time = lastEntry[s] + Segment(s).headway
          BY <3>1, <3>2, <4>2 DEF RetryAt
        <4>4. ASSUME NEW x \in now'..(f.time - 1) PROVE ~HeadwayOver(s, x)'
          <5>1. lastEntry'[s] = lastEntry[s] /\ Segment(s)' = Segment(s) /\ Segment(s).headway \in Nat
            BY <1>2, <1>3, <1>7, <4>1
          <5>2. ~(x >= lastEntry[s] + Segment(s).headway)
            BY <1>1, <1>4, <4>2, <4>3, <5>1
          <5> QED
            BY <4>2, <5>1, <5>2 DEF HeadwayOver
        <4>5. f.time >= now'
          BY <1>1, <1>2, <1>3, <1>4, <4>2, <4>3
        <4> QED
          BY <3>1, <4>4, <4>5
      <3>3. CASE a # <<>>
        <4>1. lastEntry'[s] = e.time /\ Segment(s).headway > 0
          BY <1>1, <1>2, <1>3, <1>4, <2>1, <2>4, <3>3
        <4>2. f.time = e.time + Segment(s).headway
          BY <3>1, <3>3 DEF RetryAt
        <4>3. ASSUME NEW x \in now'..(f.time - 1) PROVE ~HeadwayOver(s, x)'
          <5>1. lastEntry'[s] # Never /\ Segment(s)' = Segment(s) /\ Segment(s).headway \in Nat
            BY <1>1, <1>2, <1>3, <1>7, <4>1
          <5>2. ~(x >= e.time + Segment(s).headway)
            BY <1>1, <1>4, <4>2, <5>1
          <5> QED
            BY <4>1, <5>1, <5>2 DEF HeadwayOver
        <4>4. f.time >= now'
          BY <1>1, <1>2, <1>3, <1>4, <4>2
        <4> QED
          BY <3>1, <4>3, <4>4
      <3> QED
        BY <3>2, <3>3
    <2> QED
      BY <2>2, <2>3, <2>4
  \* The others.
  <1>10. ASSUME NEW x \in Segments, x # s, waiting'[x] # {}
         PROVE  \/ occupancy'[x] >= Segment(x).capacity /\ On(x)' # {}
                \/ \E f \in heap' :
                    /\ f.event = TryEvent(x) /\ f.time >= now'
                    /\ \A t \in now'..(f.time - 1) : Closed(x, t) \/ ~HeadwayOver(x, t)'
    <2>1. waiting'[x] = waiting[x] /\ occupancy'[x] = occupancy[x] /\ lastEntry'[x] = lastEntry[x]
      BY <1>2, <1>3, <1>4, <1>10
    <2>2. \A t : HeadwayOver(x, t)' <=> HeadwayOver(x, t)
      BY <1>7, <2>1 DEF HeadwayOver
    <2>3. CASE occupancy[x] >= Segment(x).capacity
      BY <1>3, <1>8, <2>1, <2>3
    <2>4. CASE ~(occupancy[x] >= Segment(x).capacity)
      <3>1. PICK f \in Pending(TryEvent(x)) :
                f.time >= now /\ \A t \in now..(f.time - 1) : Closed(x, t) \/ ~HeadwayOver(x, t)
        BY <1>10, <2>1, <2>4 DEF MesoInv, Awake, NoLostWakeup
      <3>2. f \in heap /\ f.event = TryEvent(x) /\ f.time \in Nat
        BY <1>6, <3>1 DEF Pending
      <3>3. f # e
        BY <1>2, <1>10, <3>2 DEF TryEvent
      <3>4. f \in heap' /\ f.time >= now'
        <4>1. \A g \in heap' : now' <= g.time
          BY DEF Effect, QueueOf
        <4> QED
          BY <1>1, <1>4, <3>2, <3>3, <4>1
      <3>5. \A t \in now'..(f.time - 1) : t \in now..(f.time - 1)
        BY <1>1, <1>4, <1>6, <3>2
      <3> QED
        BY <2>2, <3>1, <3>2, <3>4, <3>5
    <2> QED
      BY <2>3, <2>4
  <1>11. ASSUME NEW x \in Segments, waiting'[x] # {}
         PROVE  \/ occupancy'[x] >= Segment(x).capacity /\ On(x)' # {}
                \/ \E f \in heap' :
                    /\ f.event = TryEvent(x) /\ f.time >= now'
                    /\ \A t \in now'..(f.time - 1) : Closed(x, t) \/ ~HeadwayOver(x, t)'
    BY <1>9, <1>10, <1>11
  <1>12. NoLostWakeup'
    BY <1>7, <1>11 DEF NoLostWakeup, Pending, TryEvent
  <1> QED
    BY <1>4, <1>12, <1>13 DEF Awake, Pending, TryEvent

ArrivalsIn(records, u) ==
    {k \in DOMAIN records : records[k].train = u /\ records[k].event = "arrive"}

\* Departures are not arrivals.
LEMMA ArrivalsAfter ==
    ASSUME MesoInv, NEW e, NEW s, NEW w, NEW n, NEW opened, NEW moved, NEW after,
           Called(e, s, w, n, opened, moved, after), NEW a \in Admissions(s, w, n, e.time),
           Effect(e, s, w, n, opened, moved, after, a), NEW u
    PROVE  /\ Arrivals(u)' = ArrivalsIn(moved, u)
           /\ \A k \in DOMAIN moved : movements'[k] = moved[k]
  <1> DEFINE departs == [i \in 1..Len(a) |->
                [time |-> e.time, train |-> a[i].train,
                 station |-> Path(a[i].train)[a[i].step], event |-> "depart"]]
             Records == {moved[k] : k \in DOMAIN moved} \cup {departs[k] : k \in 1..Len(a)}
  <1>1. Len(a) \in Nat /\ moved \in Seq(Movements)
    BY Granted DEF Called
  <1>2. DOMAIN moved = 1..Len(moved) /\ Len(moved) \in Nat
    BY <1>1, LenProperties
  <1>3. moved \in Seq(Records)
    <2>1. moved \in [1..Len(moved) -> Records]
      <3>1. \A k \in 1..Len(moved) : moved[k] \in Records
        BY <1>2
      <3>2. moved = [k \in 1..Len(moved) |-> moved[k]]
        BY <1>1
      <3> HIDE DEF Records
      <3> QED
        BY <3>1, <3>2
    <2> HIDE DEF Records
    <2> QED
      BY <1>2, <2>1, SeqDef
  <1>4. departs \in Seq(Records) /\ Len(departs) = Len(a) /\ DOMAIN departs = 1..Len(a)
    <2>1. departs \in [1..Len(a) -> Records] /\ DOMAIN departs = 1..Len(a)
      OBVIOUS
    <2> HIDE DEF Records, departs
    <2>2. departs \in Seq(Records)
      BY <1>1, <2>1, SeqDef
    <2> QED
      BY <1>1, <2>1, <2>2, LenProperties
  <1>5. \A k \in 1..Len(a) : departs[k].event = "depart"
    OBVIOUS
  <1>6. movements' = moved \o departs
    BY DEF Effect
  <1> HIDE DEF Records, departs
  <1>7. /\ Len(movements') = Len(moved) + Len(a)
        /\ movements' \in Seq(Records)
        /\ \A k \in 1..(Len(moved) + Len(a)) :
                movements'[k] = IF k <= Len(moved) THEN moved[k] ELSE departs[k - Len(moved)]
    <2>1. /\ Len(moved \o departs) = Len(moved) + Len(departs)
          /\ moved \o departs \in Seq(Records)
          /\ \A k \in 1..(Len(moved) + Len(departs)) :
                (moved \o departs)[k] = IF k <= Len(moved) THEN moved[k] ELSE departs[k - Len(moved)]
      BY ONLY <1>3, <1>4, ConcatProperties
    <2> QED
      BY <1>4, <1>6, <2>1
  <1>8. DOMAIN movements' = 1..(Len(moved) + Len(a))
    BY <1>7, LenProperties
  <1>9. ASSUME NEW k \in DOMAIN movements', movements'[k].event = "arrive"
        PROVE  k \in DOMAIN moved
    <2> SUFFICES ASSUME ~(k <= Len(moved)) PROVE FALSE
      BY <1>1, <1>2, <1>8
    <2>1. k - Len(moved) \in 1..Len(a) /\ movements'[k] = departs[k - Len(moved)]
      BY <1>1, <1>2, <1>7, <1>8
    <2> QED
      BY <1>5, <1>9, <2>1
  <1>10. \A k \in DOMAIN moved : k \in DOMAIN movements' /\ movements'[k] = moved[k]
    BY <1>1, <1>2, <1>7, <1>8
  <1>11. Arrivals(u)' = ArrivalsIn(moved, u)
    BY <1>9, <1>10 DEF Arrivals, ArrivalsIn
  <1> QED
    BY <1>10, <1>11

\* and takes exactly the admitted trains out of the queue.
LEMMA WaitingAfter ==
    ASSUME MesoInv, NEW e, NEW s, NEW w, NEW n, NEW opened, NEW moved, NEW after,
           Called(e, s, w, n, opened, moved, after), NEW a \in Admissions(s, w, n, e.time),
           Effect(e, s, w, n, opened, moved, after, a), scenario' = scenario
    PROVE  /\ waiting'[s] = w \ Range(a) /\ \A x \in Segments \ {s} : waiting'[x] = waiting[x]
           /\ \A u \in Trains \ TrainsOf(w) : WaitingFor(u)' = WaitingFor(u)
           /\ \A r \in w, u \in Trains : r.train = u /\ WaitingFor(u) \subseteq {s} =>
                WaitingFor(u)' = IF r \in Range(a) THEN {} ELSE {s}
  <1>1. s \in Segments /\ IsQueue(w) /\ waiting[s] \subseteq w
    BY DEF Called
  <1>2. /\ waiting'[s] = w \ Range(a)
        /\ \A x \in Segments \ {s} : waiting'[x] = waiting[x]
    BY <1>1 DEF Effect, MesoInv, LayerTyped
  <1>3. Segments' = Segments
    BY ScenarioFixed
  <1>4. ASSUME NEW u \in Trains \ TrainsOf(w) PROVE WaitingFor(u)' = WaitingFor(u)
    <2>1. \A x \in Segments : (\E r \in waiting'[x] : r.train = u) <=> (\E r \in waiting[x] : r.train = u)
      BY <1>1, <1>2, <1>4 DEF TrainsOf
    <2> QED
      BY <1>3, <2>1 DEF WaitingFor
  <1>5. ASSUME NEW r \in w, NEW u \in Trains, r.train = u, WaitingFor(u) \subseteq {s}
        PROVE  WaitingFor(u)' = IF r \in Range(a) THEN {} ELSE {s}
    <2>1. \A x \in Segments \ {s} : ~\E q \in waiting'[x] : q.train = u
      BY <1>2, <1>5 DEF WaitingFor
    <2>2. (\E q \in waiting'[s] : q.train = u) <=> r \notin Range(a)
      BY <1>1, <1>2, <1>5 DEF IsQueue
    <2> QED
      BY <1>1, <1>3, <2>1, <2>2 DEF WaitingFor
  <1> QED
    BY <1>2, <1>4, <1>5

\* A train that asked is let in or waits.
LEMMA AskerPlaced ==
    ASSUME MesoInv, NEW e, NEW s, NEW w, NEW n, NEW opened, NEW moved, NEW after,
           Called(e, s, w, n, opened, moved, after), NEW a \in Admissions(s, w, n, e.time),
           Effect(e, s, w, n, opened, moved, after, a), scenario' = scenario,
           NEW r \in w, NEW t, NEW i, r.train = t, r.step = i,
           Moves(t) \subseteq {e}, WaitingFor(t) \subseteq {s}
    PROVE  InQueue(t, i)' \/ UnderWay(t, i)'
  <1>1. /\ ~IsLast(t, i) /\ Ahead(t, i) = s /\ s \in Segments /\ IsQueue(w)
        /\ \A o \in opened : o.train # t
        /\ t \in Trains
        /\ \A k \in DOMAIN after : after[k].event.train \notin TrainsOf(w)
    <2>1. \A k \in DOMAIN after : after[k].event.train \notin TrainsOf(w)
      <3>1. CASE after = <<>>
        BY <3>1
      <3>2. CASE \E u \in Trains \ TrainsOf(w), j \in Nat, x \in Nat :
                    after = <<At(x, TrainEvent("ready", u, j))>>
        BY <3>2 DEF At, TrainEvent
      <3> QED
        BY <3>1, <3>2 DEF Called
    <2> QED
      BY <2>1 DEF Called, IsQueue, Requests
  <1>2. /\ \A x : Segment(x)' = Segment(x)
        /\ IsLast(t, i)' <=> IsLast(t, i)
        /\ Ahead(t, i)' = Ahead(t, i)
    BY ScenarioFixed
  <1>3. /\ WaitingFor(t)' = IF r \in Range(a) THEN {} ELSE {s}
        /\ waiting'[s] = w \ Range(a)
    BY <1>1, WaitingAfter
  <1>4. Range(a) \subseteq w /\ e.time \in Nat
    BY Granted
  <1>5. open' = opened \cup {[train |-> q.train, seg |-> s, enter |-> e.time] : q \in Range(a)}
    BY DEF Effect
  <1>6. CASE r \in Range(a)
    <2>1. PICK f \in heap' : /\ Moves(t)' = (Moves(t) \ {e}) \cup {f}
                             /\ f.time = e.time + Segment(s).running
                             /\ f.event = TrainEvent("arrive", t, i + 1)
      BY <1>6 DEF Effect
    <2>2. Moves(t)' = {f}
      BY <2>1
    <2> DEFINE o == [train |-> t, seg |-> s, enter |-> e.time]
    <2>3. o \in open'
      BY <1>5, <1>6
    <2>4. ASSUME NEW p \in open', p.train = t PROVE p = o
      <3>1. PICK q \in Range(a) : p = [train |-> q.train, seg |-> s, enter |-> e.time]
        BY <1>1, <1>5, <2>4
      <3> QED
        BY <2>4, <3>1
    <2>5. Opens(t)' = {o}
      <3>1. o.train = t
        OBVIOUS
      <3> HIDE DEF o
      <3> QED
        BY <2>3, <2>4, <3>1 DEF Opens
    <2>6. o.seg = s /\ f.time = o.enter + Segment(s).running
      BY <2>1
    <2> HIDE DEF o
    <2>7. UnderWay(t, i)'
      BY <1>1, <1>2, <1>3, <1>6, <2>1, <2>2, <2>3, <2>5, <2>6 DEF UnderWay, TrainEvent
    <2> QED
      BY <2>7
  <1>7. CASE r \notin Range(a)
    <2>1. t \notin TrainsOf(Range(a))
      BY <1>1, <1>4, <1>7 DEF IsQueue, TrainsOf
    <2>2. t \in TrainsOf(w)
      BY DEF TrainsOf
    <2>3. Moves(t)' = {}
      BY <1>1, <2>1, <2>2 DEF Effect
    <2>4. Opens(t)' = {}
      BY <1>1, <1>5, <2>1 DEF Opens, TrainsOf
    <2>5. \A q \in waiting'[s] : q.train = t => q.step = i
      BY <1>1, <1>3 DEF IsQueue
    <2>6. InQueue(t, i)'
      BY <1>1, <1>2, <1>3, <1>7, <2>3, <2>4, <2>5 DEF InQueue
    <2> QED
      BY <2>6
  <1> QED
    BY <1>6, <1>7

\* A train that has nothing to do with the call stays where it was.
LEMMA OtherPlaced ==
    ASSUME MesoInv, NEW e, NEW s, NEW w, NEW n, NEW opened, NEW moved, NEW after,
           Called(e, s, w, n, opened, moved, after), NEW a \in Admissions(s, w, n, e.time),
           Effect(e, s, w, n, opened, moved, after, a), scenario' = scenario,
           NEW u \in Trains \ TrainsOf(w), \A k \in DOMAIN after : after[k].event.train # u,
           e \notin Moves(u), {o \in opened : o.train = u} = Opens(u), NEW i,
           AtStation(u, i) \/ InQueue(u, i) \/ UnderWay(u, i) \/ AtEnd(u, i)
    PROVE  (AtStation(u, i) \/ InQueue(u, i) \/ UnderWay(u, i) \/ AtEnd(u, i))'
  <1>1. s \in Segments /\ waiting[s] \subseteq w
    BY DEF Called
  <1>2. Range(a) \subseteq w
    BY Granted
  <1>3. u \notin TrainsOf(Range(a))
    BY <1>2 DEF TrainsOf
  <1>4. Moves(u)' = Moves(u) /\ heap \ {e} \subseteq heap'
    <2>1. Moves(u)' = Moves(u) \ {e} /\ heap \ {e} \subseteq heap'
      BY <1>3 DEF Effect
    <2> QED
      BY <2>1
  <1>5. Opens(u)' = Opens(u) /\ Opens(u) \subseteq open'
    <2>1. open' = opened \cup {[train |-> q.train, seg |-> s, enter |-> e.time] : q \in Range(a)}
      BY DEF Effect
    <2>2. Opens(u)' = {o \in opened : o.train = u}
      BY <1>3, <2>1 DEF Opens, TrainsOf
    <2> QED
      BY <2>1, <2>2
  <1>6. WaitingFor(u)' = WaitingFor(u)
    BY WaitingAfter
  <1>7. \A x : Segment(x)' = Segment(x) /\ (IsLast(u, i)' <=> IsLast(u, i)) /\ Ahead(u, i)' = Ahead(u, i)
    BY ScenarioFixed
  <1>8. CASE AtStation(u, i)
    <2>1. PICK f \in heap : Moves(u) = {f} /\ f.event = TrainEvent("ready", u, i)
      BY <1>8 DEF AtStation
    <2>2. f \in heap'
      BY <1>4, <2>1
    <2>3. AtStation(u, i)'
      BY <1>4, <1>5, <1>6, <1>7, <1>8, <2>1, <2>2 DEF AtStation, TrainEvent
    <2> QED
      BY <2>3
  <1>9. CASE InQueue(u, i)
    <2> DEFINE x == Ahead(u, i)
    <2>1. x \in WaitingFor(u)
      BY <1>9 DEF InQueue
    <2>2. x \in Segments \ {s}
      BY <1>1, <2>1 DEF WaitingFor, TrainsOf
    <2>3. waiting'[x] = waiting[x]
      BY <2>2, WaitingAfter
    <2>4. InQueue(u, i)'
      BY <1>4, <1>5, <1>6, <1>7, <1>9, <2>3 DEF InQueue
    <2> QED
      BY <2>4
  <1>10. CASE UnderWay(u, i)
    <2>1. PICK f \in heap, o \in open :
            /\ Moves(u) = {f} /\ Opens(u) = {o}
            /\ f.event = TrainEvent("arrive", u, i + 1)
            /\ o.seg = Ahead(u, i) /\ f.time = o.enter + Segment(o.seg).running
      BY <1>10 DEF UnderWay
    <2>2. f \in heap' /\ o \in open'
      BY <1>4, <1>5, <2>1
    <2>3. Segment(o.seg)' = Segment(o.seg)
      BY <1>7
    <2>4. UnderWay(u, i)'
      BY <1>4, <1>5, <1>6, <1>7, <1>10, <2>1, <2>2, <2>3 DEF UnderWay, TrainEvent
    <2> QED
      BY <2>4
  <1>11. CASE AtEnd(u, i)
    BY <1>4, <1>5, <1>6, <1>7, <1>11 DEF AtEnd
  <1> QED
    BY <1>8, <1>9, <1>10, <1>11

\* A train that arrived will be ready again, or is at its end.
LEMMA ArrivingPlaced ==
    ASSUME MesoInv, NEW e, NEW s, NEW w, NEW n, NEW opened, NEW moved, NEW after,
           Called(e, s, w, n, opened, moved, after), NEW a \in Admissions(s, w, n, e.time),
           Effect(e, s, w, n, opened, moved, after, a), scenario' = scenario,
           NEW u \in Trains \ TrainsOf(w), Moves(u) \subseteq {e},
           {o \in opened : o.train = u} = {}, WaitingFor(u) = {}, NEW i,
           \/ IsLast(u, i) /\ after = <<>>
           \/ ~IsLast(u, i) /\ \E x : after = <<At(x, TrainEvent("ready", u, i))>>
    PROVE  (AtStation(u, i) \/ AtEnd(u, i))'
  <1>1. Range(a) \subseteq w
    BY Granted
  <1>2. u \notin TrainsOf(Range(a))
    BY <1>1 DEF TrainsOf
  <1>3. Opens(u)' = {}
    <2>1. open' = opened \cup {[train |-> q.train, seg |-> s, enter |-> e.time] : q \in Range(a)}
      BY DEF Effect
    <2> QED
      BY <1>2, <2>1 DEF Opens, TrainsOf
  <1>4. WaitingFor(u)' = {}
    BY WaitingAfter
  <1>5. IsLast(u, i)' <=> IsLast(u, i)
    BY ScenarioFixed
  <1>6. CASE IsLast(u, i) /\ after = <<>>
    <2>1. Moves(u)' = {}
      BY <1>2, <1>6 DEF Effect
    <2> QED
      BY <1>3, <1>4, <1>5, <1>6, <2>1 DEF AtEnd
  <1>7. ASSUME ~IsLast(u, i), NEW x, after = <<At(x, TrainEvent("ready", u, i))>>
        PROVE  AtStation(u, i)'
    <2>1. 1 \in DOMAIN after /\ after[1].event = TrainEvent("ready", u, i) /\ after[1].event.train = u
      BY <1>7 DEF At, TrainEvent
    <2>2. \A k \in DOMAIN after : \E f \in heap' :
            /\ Moves(after[k].event.train)' = (Moves(after[k].event.train) \ {e}) \cup {f}
            /\ f.time = after[k].time /\ f.event = after[k].event
      BY DEF Effect
    <2>3. PICK f \in heap' : /\ Moves(u)' = (Moves(u) \ {e}) \cup {f}
                             /\ f.event = TrainEvent("ready", u, i)
      BY <2>1, <2>2 DEF Moves
    <2>4. Moves(u)' = {f}
      BY <2>3
    <2> QED
      BY <1>3, <1>4, <1>5, <1>7, <2>3, <2>4 DEF AtStation, TrainEvent
  <1> QED
    BY <1>6, <1>7

-----------------------------------------------------------------------------
\* Whose event and whose request it is.
LEMMA ReadyPlace ==
    ASSUME MesoInv, NEW e \in heap, e.event.kind = "ready", NEW t, t = e.event.train,
           NEW i, i = e.event.step
    PROVE  /\ t \in Trains /\ i \in DOMAIN Path(t) /\ Reached(t, i) /\ AtStation(t, i)
           /\ Moves(t) = {e} /\ e.event = TrainEvent("ready", t, i)
  <1>1. e.event \in Events
    BY DEF MesoInv, QueueOf
  <1>2. t \in Trains /\ e \in Moves(t)
    BY <1>1 DEF Events, Moves
  <1>3. PICK j \in DOMAIN Path(t) :
            /\ Reached(t, j)
            /\ AtStation(t, j) \/ InQueue(t, j) \/ UnderWay(t, j) \/ AtEnd(t, j)
    BY <1>2 DEF MesoInv, Placed
  <1>4. AtStation(t, j)
    BY <1>2, <1>3 DEF InQueue, UnderWay, AtEnd, TrainEvent
  <1>5. Moves(t) = {e} /\ e.event = TrainEvent("ready", t, j)
    BY <1>2, <1>4 DEF AtStation
  <1>6. j = i
    BY <1>5 DEF TrainEvent
  <1> QED
    BY <1>2, <1>3, <1>4, <1>5, <1>6

\* An arrival is handled for a train that is under way to that station.
LEMMA ArrivePlace ==
    ASSUME MesoInv, NEW e \in heap, e.event.kind = "arrive", NEW t, t = e.event.train,
           NEW i, i = e.event.step
    PROVE  /\ t \in Trains /\ i - 1 \in DOMAIN Path(t) /\ i \in Nat /\ i - 1 \in Nat
           /\ Reached(t, i - 1) /\ WaitingFor(t) = {} /\ ~IsLast(t, i - 1)
           /\ Moves(t) = {e} /\ e.event = TrainEvent("arrive", t, i) /\ UnderWay(t, i - 1)
  <1>1. e.event \in Events
    BY DEF MesoInv, QueueOf
  <1>2. t \in Trains /\ e \in Moves(t)
    BY <1>1 DEF Events, Moves
  <1>3. PICK j \in DOMAIN Path(t) :
            /\ Reached(t, j)
            /\ AtStation(t, j) \/ InQueue(t, j) \/ UnderWay(t, j) \/ AtEnd(t, j)
    BY <1>2 DEF MesoInv, Placed
  <1>4. UnderWay(t, j)
    BY <1>2, <1>3 DEF InQueue, AtStation, AtEnd, TrainEvent
  <1>5. /\ WaitingFor(t) = {} /\ ~IsLast(t, j) /\ Moves(t) = {e}
        /\ e.event = TrainEvent("arrive", t, j + 1)
    BY <1>2, <1>4 DEF UnderWay
  <1>6. j \in Nat
    BY <1>2, ScenarioTyping DEF MesoInv, LayerTyped
  <1>7. i = j + 1
    BY <1>5 DEF TrainEvent
  <1>8. j = i - 1 /\ i \in Nat
    BY <1>6, <1>7
  <1>9. Reached(t, i - 1)
    BY <1>3, <1>8
  <1>10. ~IsLast(t, i - 1) /\ i - 1 \in DOMAIN Path(t) /\ i - 1 \in Nat
    BY <1>5, <1>6, <1>8
  <1>11. e.event = TrainEvent("arrive", t, i)
    BY <1>5, <1>7
  <1>12. UnderWay(t, i - 1)
    BY <1>4, <1>8
  <1> QED
    BY <1>2, <1>5, <1>8, <1>9, <1>10, <1>11, <1>12

\* A train in a queue stands before the segment it asks for, without an event.
LEMMA AskerPlace ==
    ASSUME MesoInv, NEW s \in Segments, NEW r \in waiting[s], NEW t, t = r.train, NEW i, i = r.step
    PROVE  /\ t \in Trains /\ i \in DOMAIN Path(t) /\ Reached(t, i) /\ Moves(t) = {}
           /\ Opens(t) = {} /\ ~IsLast(t, i) /\ WaitingFor(t) = {s} /\ Ahead(t, i) = s
  <1>1. t \in Trains /\ s \in WaitingFor(t)
    BY DEF MesoInv, LayerTyped, Requests, WaitingFor
  <1>2. PICK j \in DOMAIN Path(t) :
            /\ Reached(t, j)
            /\ AtStation(t, j) \/ InQueue(t, j) \/ UnderWay(t, j) \/ AtEnd(t, j)
    BY <1>1 DEF MesoInv, Placed
  <1>3. InQueue(t, j)
    BY <1>1, <1>2 DEF AtStation, UnderWay, AtEnd
  <1>4. s = Ahead(t, j)
    BY <1>1, <1>3 DEF InQueue
  <1>5. j = i
    BY <1>3, <1>4 DEF InQueue
  <1> QED
    BY <1>1, <1>2, <1>3, <1>4, <1>5 DEF InQueue

\* A queue that is looked at again holds the requests of trains ready to enter.
LEMMA QueueCalled ==
    ASSUME MesoInv, NEW s \in Segments
    PROVE  /\ IsQueue(waiting[s]) /\ occupancy[s] = Cardinality(On(s))
           /\ occupancy[s] \in Nat /\ occupancy[s] <= Segment(s).capacity
           /\ open \subseteq Openings /\ movements \in Seq(Movements)
           /\ \A r \in waiting[s] : /\ r.step \in DOMAIN Path(r.train)
                                    /\ ~IsLast(r.train, r.step) /\ Ahead(r.train, r.step) = s
                                    /\ \A o \in open : o.train # r.train
  <1>1. /\ IsQueue(waiting[s]) /\ open \subseteq Openings /\ movements \in Seq(Movements)
        /\ occupancy[s] \in Nat
    BY DEF MesoInv, LayerTyped, IsQueue
  <1>2. occupancy[s] = Cardinality(On(s)) /\ occupancy[s] <= Segment(s).capacity
    BY DEF MesoInv, Counted
  <1>3. ASSUME NEW r \in waiting[s]
        PROVE  /\ r.step \in DOMAIN Path(r.train)
               /\ ~IsLast(r.train, r.step) /\ Ahead(r.train, r.step) = s
               /\ \A o \in open : o.train # r.train
    <2>1. Opens(r.train) = {}
      BY AskerPlace
    <2> QED
      BY <2>1, AskerPlace DEF Opens
  <1> QED
    BY <1>1, <1>2, <1>3

\* _on_try looks at the queue of the segment its event names.
LEMMA TryCalled ==
    ASSUME MesoInv, NEW e \in heap, e.event.kind = "try", NEW s, s = e.event.seg
    PROVE  s \in Segments /\ Called(e, s, waiting[s], occupancy[s], open, movements, NoEvents)
  <1>1. s \in Segments /\ e.event = TryEvent(s)
    <2>1. e.event \in Events
      BY DEF MesoInv, QueueOf
    <2> QED
      BY <2>1 DEF Events, TryEvent
  <1>2. Called(e, s, waiting[s], occupancy[s], open, movements, NoEvents)
    BY <1>1, QueueCalled DEF Called, On, NoEvents
  <1> QED
    BY <1>1, <1>2

\* A train joins the queue of the segment ahead of it.
LEMMA AskCalled ==
    ASSUME MesoInv, NEW e \in heap, e.event.kind = "ready", NEW t, t = e.event.train,
           NEW i, i = e.event.step, ~IsLast(t, i), NEW s, s = Ahead(t, i),
           NEW w, w = waiting[s] \cup {[train |-> t, step |-> i, at |-> e.time]}
    PROVE  Called(e, s, w, occupancy[s], open, movements, NoEvents)
  <1>1. /\ t \in Trains /\ i \in DOMAIN Path(t) /\ Moves(t) = {e} /\ WaitingFor(t) = {} /\ Opens(t) = {}
    BY ReadyPlace DEF AtStation
  <1>2. s \in Segments /\ i \in Nat /\ e.time \in Nat
    BY <1>1, ScenarioTyping DEF MesoInv, LayerTyped, QueueOf
  <1> DEFINE request == [train |-> t, step |-> i, at |-> e.time]
  <1>3. \A r \in waiting[s] : r.train # t
    BY <1>1, <1>2 DEF WaitingFor
  <1>4. IsQueue(w)
    <2>1. request \in Requests /\ IsQueue(waiting[s]) /\ w = waiting[s] \cup {request}
      BY <1>1, <1>2, QueueCalled DEF Requests
    <2>2. request.train = t
      OBVIOUS
    <2> HIDE DEF request
    <2> QED
      BY <1>3, <2>1, <2>2 DEF IsQueue
  <1>5. ASSUME NEW r \in w
        PROVE  /\ r.step \in DOMAIN Path(r.train)
               /\ ~IsLast(r.train, r.step) /\ Ahead(r.train, r.step) = s
               /\ \A o \in open : o.train # r.train
    <2>1. CASE r = request
      BY <1>1, <2>1 DEF Opens
    <2>2. CASE r \in waiting[s]
      BY <1>2, <2>2, QueueCalled
    <2> QED
      BY <2>1, <2>2
  <1>6. /\ occupancy[s] = Cardinality({o \in open : o.seg = s}) /\ occupancy[s] <= Segment(s).capacity
        /\ movements \in Seq(Movements)
    BY <1>2, QueueCalled DEF On
  <1> QED
    BY <1>2, <1>4, <1>5, <1>6 DEF Called, On, NoEvents

\* _on_try keeps the invariant.
LEMMA TryInv == ASSUME MesoInv, NEW e \in heap, Try(e) PROVE MesoInv'
  <1>1. PICK s, w, n, opened, moved, after :
            /\ s = e.event.seg /\ w = waiting[s] /\ n = occupancy[s]
            /\ opened = open /\ moved = movements /\ after = NoEvents
    OBVIOUS
  <1>2. /\ e.event.kind = "try" /\ ProcessQueue(e, s, w, n, opened, moved, after)
        /\ scenario' = scenario /\ occupations' = occupations
    BY <1>1 DEF Try
  <1>3. s \in Segments
    BY <1>1, <1>2, TryCalled
  <1>4. Called(e, s, w, n, opened, moved, after)
    BY <1>1, <1>2, TryCalled
  <1>5. PICK a \in Admissions(s, w, n, e.time) : Effect(e, s, w, n, opened, moved, after, a)
    BY <1>2, <1>4, QueueStep
  <1>6. LayerTyped'
    BY <1>2, <1>4, <1>5, LayerAfter DEF MesoInv, LayerTyped
  <1>7. Counted'
    BY <1>2, <1>4, <1>5, CountedAfter
  <1>8. Awake'
    BY <1>2, <1>4, <1>5, AwakeAfter
  <1>9. Spaced'
    <2>1. EntriesKept(opened)
      BY <1>1, <1>2 DEF EntriesKept, EntriesTo, On
    <2> QED
      BY <1>2, <1>4, <1>5, <2>1, SpacedAfter
  <1>10. Trains' = Trains /\ \A t : Path(t)' = Path(t)
    BY <1>2, ScenarioFixed
  <1>11. ASSUME NEW u \in Trains
         PROVE  \E i \in DOMAIN Path(u) :
                    /\ Reached(u, i)'
                    /\ (AtStation(u, i) \/ InQueue(u, i) \/ UnderWay(u, i) \/ AtEnd(u, i))'
    <2>1. Arrivals(u)' = Arrivals(u)
      BY <1>1, <1>4, <1>5, ArrivalsAfter DEF Arrivals, ArrivalsIn
    <2>2. \A i : Reached(u, i)' <=> Reached(u, i)
      BY <2>1 DEF Reached
    <2>3. CASE u \in TrainsOf(w)
      <3>1. PICK r \in w : r.train = u
        BY <2>3 DEF TrainsOf
      <3>2. PICK i : i = r.step
        OBVIOUS
      <3>3. /\ i \in DOMAIN Path(u) /\ Reached(u, i) /\ Moves(u) = {} /\ WaitingFor(u) = {s}
        BY <1>1, <1>3, <3>1, <3>2, AskerPlace
      <3>4. InQueue(u, i)' \/ UnderWay(u, i)'
        BY <1>2, <1>4, <1>5, <3>1, <3>2, <3>3, AskerPlaced
      <3> QED
        BY <2>2, <3>3, <3>4
    <2>4. CASE u \notin TrainsOf(w)
      <3>1. PICK i \in DOMAIN Path(u) :
                /\ Reached(u, i)
                /\ AtStation(u, i) \/ InQueue(u, i) \/ UnderWay(u, i) \/ AtEnd(u, i)
        BY DEF MesoInv, Placed
      <3>2. /\ e \notin Moves(u) /\ {o \in opened : o.train = u} = Opens(u)
            /\ \A k \in DOMAIN after : after[k].event.train # u
        BY <1>1, <1>2 DEF Moves, Opens, NoEvents
      <3>3. (AtStation(u, i) \/ InQueue(u, i) \/ UnderWay(u, i) \/ AtEnd(u, i))'
        BY <1>2, <1>4, <1>5, <2>4, <3>1, <3>2, OtherPlaced
      <3> QED
        BY <2>2, <3>1, <3>3
    <2> QED
      BY <2>3, <2>4
  <1>12. Placed'
    BY <1>10, <1>11 DEF Placed
  <1> QED
    BY <1>5, <1>6, <1>7, <1>8, <1>9, <1>12 DEF MesoInv, Effect

\* A train that is ready joins the queue of the segment ahead.
LEMMA AskInv ==
    ASSUME MesoInv, NEW e \in heap, Ready(e), ~IsLast(e.event.train, e.event.step)
    PROVE  MesoInv'
  <1>1. PICK t, i, s, w, n, opened, moved, after :
            /\ t = e.event.train /\ i = e.event.step /\ s = Ahead(t, i)
            /\ w = waiting[s] \cup {[train |-> t, step |-> i, at |-> e.time]}
            /\ n = occupancy[s] /\ opened = open /\ moved = movements /\ after = NoEvents
    OBVIOUS
  <1>2. /\ e.event.kind = "ready" /\ ProcessQueue(e, s, w, n, opened, moved, after)
        /\ scenario' = scenario /\ occupations' = occupations
    BY <1>1 DEF Ready
  <1>3. /\ t \in Trains /\ i \in DOMAIN Path(t) /\ Reached(t, i) /\ AtStation(t, i)
        /\ Moves(t) = {e} /\ ~IsLast(t, i) /\ e.event = TrainEvent("ready", t, i)
    BY <1>1, <1>2, ReadyPlace
  <1>4. /\ WaitingFor(t) = {} /\ Opens(t) = {}
    BY <1>3 DEF AtStation
  <1>5. s \in Segments /\ i \in Nat /\ e.time \in Nat
    BY <1>1, <1>3, ScenarioTyping DEF MesoInv, LayerTyped, QueueOf
  <1> DEFINE request == [train |-> t, step |-> i, at |-> e.time]
  <1>6. \A r \in waiting[s] : r.train # t
    BY <1>4, <1>5 DEF WaitingFor
  <1>7. Called(e, s, w, n, opened, moved, after)
    BY <1>1, <1>2, <1>3, AskCalled
  <1>8. PICK a \in Admissions(s, w, n, e.time) : Effect(e, s, w, n, opened, moved, after, a)
    BY <1>2, <1>7, QueueStep
  <1>9. LayerTyped'
    BY <1>2, <1>7, <1>8, LayerAfter DEF MesoInv, LayerTyped
  <1>10. Counted'
    BY <1>2, <1>7, <1>8, CountedAfter
  <1>11. Awake'
    BY <1>2, <1>7, <1>8, AwakeAfter
  <1>12. Spaced'
    <2>1. EntriesKept(opened)
      BY <1>1, <1>2 DEF EntriesKept, EntriesTo, On
    <2> QED
      BY <1>2, <1>7, <1>8, <2>1, SpacedAfter
  <1>13. Trains' = Trains /\ \A u : Path(u)' = Path(u)
    BY <1>2, ScenarioFixed
  <1>14. ASSUME NEW u \in Trains
         PROVE  \E j \in DOMAIN Path(u) :
                    /\ Reached(u, j)'
                    /\ (AtStation(u, j) \/ InQueue(u, j) \/ UnderWay(u, j) \/ AtEnd(u, j))'
    <2>1. Arrivals(u)' = Arrivals(u)
      BY <1>1, <1>7, <1>8, ArrivalsAfter DEF Arrivals, ArrivalsIn
    <2>2. \A j : Reached(u, j)' <=> Reached(u, j)
      BY <2>1 DEF Reached
    <2>3. CASE u = t
      <3>1. request \in w /\ request.train = u /\ request.step = i
        BY <1>1, <2>3
      <3>2. Moves(u) \subseteq {e} /\ WaitingFor(u) \subseteq {s}
        BY <1>3, <1>4, <2>3
      <3> HIDE DEF request
      <3>3. InQueue(u, i)' \/ UnderWay(u, i)'
        BY <1>2, <1>7, <1>8, <3>1, <3>2, AskerPlaced
      <3> QED
        BY <1>3, <2>2, <2>3, <3>3
    <2>4. CASE u \in TrainsOf(waiting[s])
      <3>1. PICK r \in waiting[s] : r.train = u
        BY <2>4 DEF TrainsOf
      <3>2. PICK j : j = r.step
        OBVIOUS
      <3>3. /\ j \in DOMAIN Path(u) /\ Reached(u, j) /\ Moves(u) = {} /\ WaitingFor(u) = {s}
        BY <1>5, <3>1, <3>2, AskerPlace
      <3>4. r \in w
        BY <1>1, <3>1
      <3>5. InQueue(u, j)' \/ UnderWay(u, j)'
        BY <1>2, <1>7, <1>8, <3>1, <3>2, <3>3, <3>4, AskerPlaced
      <3> QED
        BY <2>2, <3>3, <3>5
    <2>5. CASE u # t /\ u \notin TrainsOf(waiting[s])
      <3>1. PICK j \in DOMAIN Path(u) :
                /\ Reached(u, j)
                /\ AtStation(u, j) \/ InQueue(u, j) \/ UnderWay(u, j) \/ AtEnd(u, j)
        BY DEF MesoInv, Placed
      <3>2. /\ e \notin Moves(u) /\ {o \in opened : o.train = u} = Opens(u)
            /\ \A k \in DOMAIN after : after[k].event.train # u
        BY <1>1, <2>5 DEF Moves, Opens, NoEvents
      <3>3. u \notin TrainsOf(w)
        BY <1>1, <2>5 DEF TrainsOf
      <3>4. (AtStation(u, j) \/ InQueue(u, j) \/ UnderWay(u, j) \/ AtEnd(u, j))'
        BY <1>2, <1>7, <1>8, <3>1, <3>2, <3>3, OtherPlaced
      <3> QED
        BY <2>2, <3>1, <3>4
    <2> QED
      BY <2>3, <2>4, <2>5
  <1>15. Placed'
    BY <1>13, <1>14 DEF Placed
  <1> QED
    BY <1>8, <1>9, <1>10, <1>11, <1>12, <1>15 DEF MesoInv, Effect

\* A train whose path is one station is done when it is ready.
LEMMA StandInv ==
    ASSUME MesoInv, NEW e \in heap, Ready(e), IsLast(e.event.train, e.event.step)
    PROVE  MesoInv'
  <1>1. PICK t, i : t = e.event.train /\ i = e.event.step
    OBVIOUS
  <1>2. /\ e.event.kind = "ready" /\ Process(e, NoEvents, 0)
        /\ UNCHANGED <<scenario, occupations, waiting, occupancy, lastEntry, open, movements>>
    BY <1>1 DEF Ready
  <1>3. /\ t \in Trains /\ i \in DOMAIN Path(t) /\ Reached(t, i) /\ AtStation(t, i)
        /\ Moves(t) = {e} /\ e.event = TrainEvent("ready", t, i)
    <2>1. e.event.kind = "ready"
      BY <1>2
    <2> QED
      <3>1. t \in Trains /\ i \in DOMAIN Path(t)
        BY <1>1, <2>1, ReadyPlace
      <3>2. Reached(t, i) /\ AtStation(t, i)
        BY <1>1, <2>1, ReadyPlace
      <3>3. Moves(t) = {e}
        BY <1>1, <2>1, ReadyPlace
      <3>4. e.event = TrainEvent("ready", t, i)
        BY <1>1, <2>1, ReadyPlace
      <3> QED
        BY <3>1, <3>2, <3>3, <3>4
  <1>4. /\ now' = e.time /\ now <= now' /\ now' \in Nat /\ raised' = FALSE /\ sequence' \in Nat
        /\ heap' = heap \ {e} /\ heap' \subseteq [time : Nat, seq : Nat, event : Events]
        /\ \A f \in heap' : f.seq < sequence' /\ now' <= f.time
    <2>1. DOMAIN NoEvents = {} /\ NewEntries(NoEvents) = {}
      BY DEF NoEvents, NewEntries
    <2>2. \A k \in DOMAIN NoEvents : /\ NoEvents[k].time \in Nat /\ NoEvents[k].event \in Events
                                     /\ NoEvents[k].time >= e.time
      BY <2>1
    <2>3. QueueOf(Events) /\ 0 \in Nat /\ DOMAIN NoEvents \subseteq 1..0
      BY <2>1 DEF MesoInv
    <2>4. /\ now' = e.time /\ now <= now' /\ now' \in Nat /\ raised' = FALSE /\ sequence' \in Nat
          /\ heap' = (heap \ {e}) \cup NewEntries(NoEvents)
          /\ heap' \subseteq [time : Nat, seq : Nat, event : Events]
          /\ \A f \in heap' : f.seq < sequence' /\ now' <= f.time
      BY ONLY <1>2, <2>2, <2>3, CausalProcess
    <2> QED
      BY <2>1, <2>4
  <1>5. /\ Segments' = Segments /\ Trains' = Trains /\ \A s : Segment(s)' = Segment(s)
        /\ \A u : Path(u)' = Path(u)
        /\ \A u, j : (IsLast(u, j)' <=> IsLast(u, j)) /\ Ahead(u, j)' = Ahead(u, j)
        /\ \A s, x : Closed(s, x)' <=> Closed(s, x)
    BY <1>2, ScenarioFixed
  <1>6. QueueOf(Events)'
    <2>1. Events' = Events
      BY <1>5 DEF Events
    <2> QED
      BY <1>4, <2>1 DEF QueueOf
  <1>7. LayerTyped' /\ Counted' /\ Spaced'
    <2>1. LayerTyped'
      <3>1. /\ Requests' = Requests /\ Openings' = Openings /\ Occupations' = Occupations
            /\ Movements' = Movements
        BY <1>5 DEF Requests, Openings, Occupations, Movements
      <3> QED
        BY <1>2, <1>5, <3>1 DEF MesoInv, LayerTyped
    <2>2. \A s : On(s)' = On(s) /\ EntriesTo(s)' = EntriesTo(s)
      BY <1>2 DEF On, EntriesTo
    <2>3. Counted'
      BY <1>2, <1>5, <2>2 DEF MesoInv, Counted
    <2>4. HeadwayKept'
      BY <1>2, <1>5, <2>2 DEF MesoInv, Spaced, HeadwayKept
    <2>5. Spaced'
      BY <1>2, <1>5, <2>2, <2>4 DEF MesoInv, Spaced
    <2> QED
      BY <2>1, <2>3, <2>5
  <1>8. \A f \in heap : f # e => f \in heap' /\ f.time >= now'
    BY <1>4 DEF MesoInv, QueueOf
  <1>9. Awake'
    <2>1. ASSUME NEW s \in Segments, waiting[s] # {}
          PROVE  \/ occupancy[s] >= Segment(s).capacity /\ On(s)' # {}
                 \/ \E f \in heap' :
                        /\ f.event = TryEvent(s) /\ f.time >= now'
                        /\ \A x \in now'..(f.time - 1) : Closed(s, x) \/ ~HeadwayOver(s, x)'
      <3>1. \A x : HeadwayOver(s, x)' <=> HeadwayOver(s, x)
        BY <1>2 DEF HeadwayOver, Segment
      <3>2. CASE occupancy[s] >= Segment(s).capacity /\ On(s) # {}
        BY <1>2, <3>2 DEF On
      <3>3. CASE \E f \in Pending(TryEvent(s)) :
                    f.time >= now /\ \A x \in now..(f.time - 1) : Closed(s, x) \/ ~HeadwayOver(s, x)
        <4>1. PICK f \in heap : /\ f.event = TryEvent(s)
                                /\ \A x \in now..(f.time - 1) : Closed(s, x) \/ ~HeadwayOver(s, x)
          BY <3>3 DEF Pending
        <4>2. f # e
          BY <1>2, <4>1 DEF TryEvent
        <4>3. f.time \in Nat /\ now \in Nat
          BY DEF MesoInv, QueueOf
        <4>4. \A x \in now'..(f.time - 1) : x \in now..(f.time - 1)
          BY <1>4, <4>3
        <4> QED
          BY <1>8, <3>1, <4>1, <4>2, <4>4
      <3> QED
        BY <2>1, <3>2, <3>3 DEF MesoInv, Awake, NoLostWakeup
    <2>2. NoLostWakeup'
      BY <1>2, <1>5, <2>1 DEF NoLostWakeup, Pending, TryEvent
    <2>3. ASSUME NEW k \in DOMAIN scenario.closures, scenario.closures[k].end > now'
          PROVE  \E f \in heap' : /\ f.event = TryEvent(scenario.closures[k].seg)
                                  /\ f.time = scenario.closures[k].end
      <3>1. scenario.closures[k].end > now
        BY <1>4, <2>3, ScenarioTyping DEF MesoInv, LayerTyped, QueueOf
      <3>2. PICK f \in heap : /\ f.event = TryEvent(scenario.closures[k].seg)
                              /\ f.time = scenario.closures[k].end
        BY <3>1 DEF MesoInv, Awake, Pending
      <3>3. f # e
        BY <1>2, <3>2 DEF TryEvent
      <3> QED
        BY <1>8, <3>2, <3>3
    <2> QED
      BY <1>2, <2>2, <2>3 DEF Awake, Pending, TryEvent
  <1>10. ASSUME NEW u \in Trains
         PROVE  \E j \in DOMAIN Path(u) :
                    /\ Reached(u, j)'
                    /\ (AtStation(u, j) \/ InQueue(u, j) \/ UnderWay(u, j) \/ AtEnd(u, j))'
    <2>1. \A j : Reached(u, j)' <=> Reached(u, j)
      BY <1>2 DEF Reached, Arrivals
    <2>2. WaitingFor(u)' = WaitingFor(u) /\ Opens(u)' = Opens(u) /\ Moves(u)' = Moves(u) \ {e}
      BY <1>2, <1>4, <1>5 DEF WaitingFor, Opens, Moves
    <2>3. CASE u = t
      <3>1. Moves(u)' = {}
        BY <1>3, <2>2, <2>3
      <3>2. AtEnd(u, i)'
        BY <1>1, <1>3, <1>5, <2>2, <2>3, <3>1 DEF AtEnd, AtStation
      <3> QED
        BY <1>3, <2>1, <2>3, <3>2
    <2>4. CASE u # t
      <3>1. PICK j \in DOMAIN Path(u) :
                /\ Reached(u, j)
                /\ AtStation(u, j) \/ InQueue(u, j) \/ UnderWay(u, j) \/ AtEnd(u, j)
        BY DEF MesoInv, Placed
      <3>2. Moves(u)' = Moves(u) /\ Moves(u) \subseteq heap'
        BY <1>1, <1>4, <2>2, <2>4 DEF Moves
      <3>3. CASE AtStation(u, j)
        BY <1>5, <2>1, <2>2, <3>1, <3>2, <3>3 DEF AtStation, TrainEvent
      <3>4. CASE InQueue(u, j)
        BY <1>2, <1>5, <2>1, <2>2, <3>1, <3>2, <3>4 DEF InQueue
      <3>5. CASE UnderWay(u, j)
        <4>1. PICK f \in heap, o \in open :
                /\ Moves(u) = {f} /\ Opens(u) = {o}
                /\ f.event = TrainEvent("arrive", u, j + 1)
                /\ o.seg = Ahead(u, j) /\ f.time = o.enter + Segment(o.seg).running
          BY <3>5 DEF UnderWay
        <4>2. f \in heap' /\ o \in open' /\ Segment(o.seg)' = Segment(o.seg)
          BY <1>2, <1>5, <3>2, <4>1
        <4>3. UnderWay(u, j)'
          BY <1>5, <2>2, <3>2, <3>5, <4>1, <4>2 DEF UnderWay, TrainEvent
        <4> QED
          BY <2>1, <3>1, <4>3
      <3>6. CASE AtEnd(u, j)
        BY <1>5, <2>1, <2>2, <3>1, <3>2, <3>6 DEF AtEnd
      <3> QED
        BY <3>1, <3>3, <3>4, <3>5, <3>6
    <2> QED
      BY <2>3, <2>4
  <1>11. Placed'
    BY <1>5, <1>10 DEF Placed
  <1> QED
    BY <1>6, <1>7, <1>9, <1>11 DEF MesoInv

\* One more arrival of t is counted, and nobody else's.
LEMMA ArrivalCounted ==
    ASSUME MesoInv, NEW here \in Movements, here.event = "arrive",
           NEW moved, moved = Append(movements, here), NEW u
    PROVE  /\ moved \in Seq(Movements)
           /\ here.train # u => ArrivalsIn(moved, u) = Arrivals(u)
           /\ here.train = u /\ IsFiniteSet(Arrivals(u)) =>
                /\ IsFiniteSet(ArrivalsIn(moved, u))
                /\ Cardinality(ArrivalsIn(moved, u)) = Cardinality(Arrivals(u)) + 1
  <1> DEFINE seen == {k \in DOMAIN moved : moved[k].train = u /\ moved[k].event = "arrive"}
             l == Len(movements)
  <1>1. movements \in Seq(Movements) /\ l \in Nat /\ DOMAIN movements = 1..l
    BY LenProperties DEF MesoInv, LayerTyped
  <1>2. /\ moved \in Seq(Movements) /\ Len(moved) = l + 1
        /\ \A k \in 1..l : moved[k] = movements[k]
        /\ moved[l + 1] = here
    BY <1>1, AppendProperties
  <1>3. DOMAIN moved = 1..(l + 1)
    BY <1>2, LenProperties
  <1>4. PICK last : last = l + 1
    OBVIOUS
  <1>5. last \notin DOMAIN movements /\ DOMAIN moved = DOMAIN movements \cup {last}
    BY <1>1, <1>3, <1>4
  <1>6. moved[last] = here /\ \A k \in DOMAIN movements : moved[k] = movements[k]
    BY <1>1, <1>2, <1>4
  <1>7. here.train # u => seen = Arrivals(u)
    BY <1>5, <1>6 DEF Arrivals
  <1>8. here.train = u => seen = Arrivals(u) \cup {last} /\ last \notin Arrivals(u)
    BY <1>5, <1>6 DEF Arrivals
  <1>9. ASSUME here.train = u, IsFiniteSet(Arrivals(u))
        PROVE  IsFiniteSet(seen) /\ Cardinality(seen) = Cardinality(Arrivals(u)) + 1
    <2> HIDE DEF seen
    <2> QED
      BY <1>8, <1>9, FS_AddElement
  <1> QED
    BY <1>2, <1>7, <1>9 DEF ArrivalsIn

\* and is the last record, the others stay.
LEMMA ArrivalRecorded ==
    ASSUME MesoInv, NEW here \in Movements, here.event = "arrive",
           NEW moved, moved = Append(movements, here)
    PROVE  /\ \A k \in DOMAIN movements : k \in DOMAIN moved /\ moved[k] = movements[k]
           /\ \E k \in ArrivalsIn(moved, here.train) : moved[k] = here
  <1> DEFINE l == Len(movements)
  <1>1. movements \in Seq(Movements) /\ l \in Nat /\ DOMAIN movements = 1..l
    BY LenProperties DEF MesoInv, LayerTyped
  <1>2. /\ moved \in Seq(Movements) /\ Len(moved) = l + 1
        /\ \A k \in 1..l : moved[k] = movements[k]
        /\ moved[l + 1] = here
    BY <1>1, AppendProperties
  <1>3. DOMAIN moved = 1..(l + 1)
    BY <1>2, LenProperties
  <1>4. \A k \in DOMAIN movements : k \in DOMAIN moved /\ moved[k] = movements[k]
    BY <1>1, <1>2, <1>3
  <1>5. l + 1 \in DOMAIN moved
    BY <1>1, <1>3
  <1>6. l + 1 \in ArrivalsIn(moved, here.train)
    BY <1>2, <1>5 DEF ArrivalsIn
  <1> QED
    BY <1>2, <1>4, <1>6

\* A train arrives: what _on_arrive has done when it looks at the queue.
ArriveCall(e, t, i, s, o, here, moved, after) ==
    /\ e.event.kind = "arrive" /\ t = e.event.train /\ i = e.event.step /\ s = Ahead(t, i - 1)
    /\ o \in open /\ o.train = t /\ o.seg = s
    /\ occupations' = Append(occupations, [train |-> t, seg |-> s, enter |-> o.enter, exit |-> e.time])
    /\ here = [time |-> e.time, train |-> t, station |-> Path(t)[i], event |-> "arrive"]
    /\ moved = Append(movements, here)
    /\ after = IF IsLast(t, i) THEN NoEvents
               ELSE <<At(e.time + scenario.trains[t].dwell, TrainEvent("ready", t, i))>>

\* Every arrival is one.
LEMMA ArriveCalls ==
    ASSUME NEW e, Arrive(e)
    PROVE  \E t, i, s, o, here, moved, after :
                /\ ArriveCall(e, t, i, s, o, here, moved, after) /\ scenario' = scenario
                /\ ProcessQueue(e, s, waiting[s], occupancy[s] - 1, open \ {o}, moved, after)
  <1>1. PICK t, i, s, here, moved, after :
            /\ t = e.event.train /\ i = e.event.step /\ s = Ahead(t, i - 1)
            /\ here = [time |-> e.time, train |-> t, station |-> Path(t)[i], event |-> "arrive"]
            /\ moved = Append(movements, here)
            /\ after = IF IsLast(t, i) THEN NoEvents
                       ELSE <<At(e.time + scenario.trains[t].dwell, TrainEvent("ready", t, i))>>
    OBVIOUS
  <1>2. e.event.kind = "arrive" /\ scenario' = scenario
    BY DEF Arrive
  <1>3. PICK o \in open :
            /\ o.train = t /\ o.seg = s
            /\ occupations' = Append(occupations, [train |-> t, seg |-> s,
                                                   enter |-> o.enter, exit |-> e.time])
            /\ ProcessQueue(e, s, waiting[s], occupancy[s] - 1, open \ {o}, moved, after)
    BY <1>1 DEF Arrive
  <1>4. ArriveCall(e, t, i, s, o, here, moved, after)
    BY <1>1, <1>2, <1>3 DEF ArriveCall
  <1> QED
    BY <1>2, <1>3, <1>4

\* The train ran over the segment behind it, and will be ready or is at its end.
LEMMA Arriving ==
    ASSUME MesoInv, NEW e \in heap, NEW t, NEW i, NEW s, NEW o, NEW here, NEW moved, NEW after,
           ArriveCall(e, t, i, s, o, here, moved, after)
    PROVE  /\ t \in Trains /\ i - 1 \in DOMAIN Path(t) /\ i \in Nat /\ i - 1 \in Nat
           /\ Reached(t, i - 1) /\ WaitingFor(t) = {} /\ ~IsLast(t, i - 1)
           /\ Moves(t) = {e} /\ Opens(t) = {o}
           /\ s \in Segments /\ i \in DOMAIN Path(t) /\ Path(t)[i] \in Nat /\ e.time \in Nat
           /\ scenario.trains[t].dwell \in Nat
           /\ here \in Movements /\ here.train = t /\ here.event = "arrive"
           /\ t \notin TrainsOf(waiting[s])
           /\ \/ IsLast(t, i) /\ after = <<>>
              \/ ~IsLast(t, i) /\ \E x \in Nat : x >= e.time /\ after = <<At(x, TrainEvent("ready", t, i))>>
           /\ \A u \in Trains : u # t => \A k \in DOMAIN after : after[k].event.train # u
  <1>1. /\ t = e.event.train /\ i = e.event.step /\ s = Ahead(t, i - 1) /\ e.event.kind = "arrive"
        /\ here = [time |-> e.time, train |-> t, station |-> Path(t)[i], event |-> "arrive"]
        /\ after = IF IsLast(t, i) THEN NoEvents
                   ELSE <<At(e.time + scenario.trains[t].dwell, TrainEvent("ready", t, i))>>
    BY DEF ArriveCall
  <1>2. o \in open /\ o.train = t /\ o.seg = s
    BY DEF ArriveCall
  <1>3. /\ t \in Trains /\ i - 1 \in DOMAIN Path(t) /\ i \in Nat /\ i - 1 \in Nat
        /\ Reached(t, i - 1) /\ WaitingFor(t) = {} /\ ~IsLast(t, i - 1)
    BY <1>1, ArrivePlace
  <1>4. Moves(t) = {e} /\ Opens(t) = {o}
    <2>1. Moves(t) = {e} /\ \E p \in open : Opens(t) = {p}
      <3>1. Moves(t) = {e}
        BY <1>1, ArrivePlace
      <3>2. UnderWay(t, i - 1)
        BY <1>1, ArrivePlace
      <3> QED
        BY <3>1, <3>2 DEF UnderWay
    <2>2. o \in Opens(t)
      BY <1>2 DEF Opens
    <2> QED
      BY <2>1, <2>2
  <1>5. /\ s \in Segments /\ i \in DOMAIN Path(t) /\ Path(t)[i] \in Nat /\ e.time \in Nat
        /\ scenario.trains[t].dwell \in Nat
    <2>1. s \in Segments
      BY <1>1, <1>3, ScenarioTyping DEF MesoInv, LayerTyped
    <2>2. i \in DOMAIN Path(t)
      <3>1. i - 1 + 1 = i
        BY <1>3
      <3> QED
        BY <1>3, <3>1 DEF IsLast
    <2> QED
      BY <1>3, <2>1, <2>2, ScenarioTyping DEF MesoInv, LayerTyped, QueueOf
  <1>6. here \in Movements /\ here.train = t /\ here.event = "arrive"
    BY <1>1, <1>3, <1>5 DEF Movements
  <1>7. t \notin TrainsOf(waiting[s])
    BY <1>1, <1>3, <1>5 DEF WaitingFor, TrainsOf
  <1>8. /\ \/ IsLast(t, i) /\ after = <<>>
           \/ ~IsLast(t, i) /\ \E x \in Nat : x >= e.time /\ after = <<At(x, TrainEvent("ready", t, i))>>
        /\ \A u \in Trains : u # t => \A k \in DOMAIN after : after[k].event.train # u
    <2>1. CASE IsLast(t, i)
      <3>1. after = <<>>
        BY <1>1, <2>1 DEF NoEvents
      <3> QED
        BY <2>1, <3>1
    <2>2. CASE ~IsLast(t, i)
      <3> DEFINE x == e.time + scenario.trains[t].dwell
      <3>1. x \in Nat /\ x >= e.time
        BY <1>5
      <3>2. after = <<At(x, TrainEvent("ready", t, i))>>
        BY <1>1, <2>2
      <3> HIDE DEF x
      <3>3. \A k \in DOMAIN after : after[k].event.train = t
        BY <3>2 DEF At, TrainEvent
      <3> QED
        BY <2>2, <3>1, <3>2, <3>3
    <2> QED
      BY <2>1, <2>2
  <1> QED
    BY <1>3, <1>4, <1>5, <1>6, <1>7, <1>8

\* It makes room before the queue is looked at.
LEMMA ArriveCalled ==
    ASSUME MesoInv, NEW e \in heap, NEW t, NEW i, NEW s, NEW o, NEW here, NEW moved, NEW after,
           ArriveCall(e, t, i, s, o, here, moved, after), NEW w, w = waiting[s],
           NEW n, n = occupancy[s] - 1, NEW opened, opened = open \ {o}
    PROVE  Called(e, s, w, n, opened, moved, after)
  <1>1. e.event.kind = "arrive" /\ o \in open /\ o.train = t /\ o.seg = s /\ moved = Append(movements, here)
    BY DEF ArriveCall
  <1>2. /\ t \in Trains /\ i \in Nat /\ s \in Segments /\ here \in Movements /\ here.event = "arrive"
        /\ t \notin TrainsOf(w)
        /\ \/ after = <<>>
           \/ \E x \in Nat : x >= e.time /\ after = <<At(x, TrainEvent("ready", t, i))>>
    BY Arriving
  <1>3. /\ IsQueue(w) /\ \A r \in w : /\ r.step \in DOMAIN Path(r.train)
                                      /\ ~IsLast(r.train, r.step) /\ Ahead(r.train, r.step) = s
                                      /\ \A p \in opened : p.train # r.train
    BY <1>2, QueueCalled
  <1>4. n = Cardinality({p \in opened : p.seg = s}) /\ n <= Segment(s).capacity
    <2>1. IsFiniteSet(On(s))
      <3>1. IsFiniteSet(open) /\ On(s) \subseteq open
        BY DEF MesoInv, LayerTyped, On
      <3> QED
        BY <3>1, FS_Subset
    <2>2. o \in On(s) /\ {p \in opened : p.seg = s} = On(s) \ {o}
      BY <1>1 DEF On
    <2>3. Cardinality(On(s) \ {o}) = Cardinality(On(s)) - 1
      BY <2>1, <2>2, FS_RemoveElement
    <2>4. /\ occupancy[s] = Cardinality(On(s)) /\ occupancy[s] \in Nat
          /\ occupancy[s] <= Segment(s).capacity
      BY <1>2, QueueCalled
    <2>5. Segment(s).capacity \in Nat
      BY <1>2, ScenarioTyping DEF MesoInv, LayerTyped
    <2>6. n = Cardinality({p \in opened : p.seg = s})
      BY <2>2, <2>3, <2>4
    <2> DEFINE c == Segment(s).capacity
               k == occupancy[s]
    <2>7. k \in Nat /\ c \in Nat /\ k <= c /\ n = k - 1
      BY <2>4, <2>5
    <2>8. n <= c
      <3> HIDE DEF c, k
      <3> QED
        BY <2>7
    <2> QED
      BY <2>6, <2>8
  <1>5. /\ \A x \in Segments \ {s} : {p \in opened : p.seg = x} = On(x)
        /\ opened \subseteq open
    BY <1>1 DEF On
  <1>6. moved \in Seq(Movements)
    BY <1>1, <1>2, ArrivalCounted
  <1>7. \/ after = <<>>
        \/ \E u \in Trains \ TrainsOf(w), j \in Nat, x \in Nat :
              x >= e.time /\ after = <<At(x, TrainEvent("ready", u, j))>>
    BY <1>2
  <1> QED
    BY <1>1, <1>2, <1>3, <1>4, <1>5, <1>6, <1>7 DEF Called

\* Its open interval becomes a record; the entries to the segment do not change.
LEMMA ArriveRecorded ==
    ASSUME MesoInv, NEW e \in heap, NEW t, NEW i, NEW s, NEW o, NEW here, NEW moved, NEW after,
           ArriveCall(e, t, i, s, o, here, moved, after), NEW opened, opened = open \ {o},
           NEW record, record = [train |-> t, seg |-> s, enter |-> o.enter, exit |-> e.time]
    PROVE  /\ occupations' \in Seq(Occupations)
           /\ Range(occupations') = Range(occupations) \cup {record}
           /\ EntriesKept(opened)
  <1>1. /\ o \in open /\ o.train = t /\ o.seg = s
        /\ occupations' = Append(occupations, record)
    BY DEF ArriveCall
  <1>2. t \in Trains /\ s \in Segments /\ e.time \in Nat
    BY Arriving
  <1>3. /\ occupations' \in Seq(Occupations)
        /\ Range(occupations') = Range(occupations) \cup {record}
    <2>1. record \in Occupations
      BY <1>1, <1>2 DEF Occupations, MesoInv, LayerTyped, Openings
    <2>2. occupations \in Seq(Occupations)
      BY DEF MesoInv, LayerTyped
    <2> QED
      BY <1>1, <2>1, <2>2, RecordAppended
  <1>4. ASSUME NEW x \in Segments
        PROVE  {<<p.train, p.enter>> : p \in {q \in opened : q.seg = x}}
                  \cup {<<r.train, r.enter>> : r \in {q \in Range(occupations') : q.seg = x}}
               = EntriesTo(x)
    <2> DEFINE before == {<<p.train, p.enter>> : p \in On(x)}
               now1 == {<<p.train, p.enter>> : p \in {q \in opened : q.seg = x}}
               done == {<<r.train, r.enter>> : r \in {q \in Range(occupations) : q.seg = x}}
               done1 == {<<r.train, r.enter>> : r \in {q \in Range(occupations') : q.seg = x}}
               entry == <<t, o.enter>>
    <2>1. record.seg = s /\ <<record.train, record.enter>> = entry /\ <<o.train, o.enter>> = entry
      BY <1>1
    <2>2. o.seg = s /\ o \in open
      BY <1>1
    <2> HIDE DEF entry
    <2>3. EntriesTo(x) = before \cup done
      BY DEF EntriesTo
    <2>4. CASE x # s
      <3>1. {q \in opened : q.seg = x} = On(x)
        BY <2>2, <2>4 DEF On
      <3>2. {q \in Range(occupations') : q.seg = x} = {q \in Range(occupations) : q.seg = x}
        BY <1>3, <2>1, <2>4
      <3> QED
        BY <2>3, <3>1, <3>2
    <2>5. CASE x = s
      <3>1. On(x) = {q \in opened : q.seg = x} \cup {o}
        BY <2>2, <2>5 DEF On
      <3>2. before = now1 \cup {entry}
        BY <2>1, <3>1
      <3>3. {q \in Range(occupations') : q.seg = x} = {q \in Range(occupations) : q.seg = x} \cup {record}
        BY <1>3, <2>1, <2>5
      <3>4. done1 = done \cup {entry}
        BY <2>1, <3>3
      <3> HIDE DEF before, now1, done, done1
      <3>5. now1 \cup done1 = EntriesTo(x)
        BY <2>3, <3>2, <3>4
      <3> QED
        BY <3>5 DEF now1, done1
    <2> QED
      BY <2>4, <2>5
  <1> QED
    BY <1>3, <1>4 DEF EntriesKept

\* An arriving train keeps the invariant.
LEMMA ArriveInv == ASSUME MesoInv, NEW e \in heap, Arrive(e) PROVE MesoInv'
  <1>1. PICK t, i, s, o, here, moved, after :
            /\ ArriveCall(e, t, i, s, o, here, moved, after) /\ scenario' = scenario
            /\ ProcessQueue(e, s, waiting[s], occupancy[s] - 1, open \ {o}, moved, after)
    BY ArriveCalls
  <1>2. scenario' = scenario
    BY <1>1
  <1>3. PICK w, n, opened, record :
            /\ w = waiting[s] /\ n = occupancy[s] - 1 /\ opened = open \ {o}
            /\ record = [train |-> t, seg |-> s, enter |-> o.enter, exit |-> e.time]
    OBVIOUS
  <1>4. o \in open /\ o.train = t /\ o.seg = s /\ moved = Append(movements, here)
    BY <1>1 DEF ArriveCall
  <1>5. /\ t \in Trains /\ i \in Nat /\ i - 1 \in Nat /\ Reached(t, i - 1) /\ WaitingFor(t) = {}
    BY <1>1, Arriving
  <1>6. Moves(t) = {e} /\ Opens(t) = {o}
    BY <1>1, Arriving
  <1>7. s \in Segments /\ i \in DOMAIN Path(t)
    BY <1>1, Arriving
  <1>8. here \in Movements /\ here.train = t /\ here.event = "arrive"
    BY <1>1, Arriving
  <1>9. t \notin TrainsOf(w)
    BY <1>1, <1>3, Arriving
  <1>10. /\ \/ IsLast(t, i) /\ after = <<>>
            \/ ~IsLast(t, i) /\ \E x \in Nat : x >= e.time /\ after = <<At(x, TrainEvent("ready", t, i))>>
         /\ \A u \in Trains : u # t => \A k \in DOMAIN after : after[k].event.train # u
    BY <1>1, Arriving
  <1>11. Called(e, s, w, n, opened, moved, after)
    BY <1>1, <1>3, ArriveCalled
  <1>12. PICK a \in Admissions(s, w, n, e.time) : Effect(e, s, w, n, opened, moved, after, a)
    BY <1>1, <1>2, <1>3, <1>11, QueueStep
  <1>13. occupations' \in Seq(Occupations) /\ EntriesKept(opened)
    <2>1. ArriveCall(e, t, i, s, o, here, moved, after)
      BY <1>1
    <2>2. opened = open \ {o} /\ record = [train |-> t, seg |-> s, enter |-> o.enter, exit |-> e.time]
      BY <1>3
    <2> QED
      BY ONLY MesoInv, e \in heap, <2>1, <2>2, ArriveRecorded
  <1>14. LayerTyped'
    BY <1>2, <1>11, <1>12, <1>13, LayerAfter
  <1>15. Counted'
    BY <1>2, <1>11, <1>12, CountedAfter
  <1>16. Awake'
    BY <1>2, <1>11, <1>12, AwakeAfter
  <1>17. Spaced'
    BY <1>2, <1>11, <1>12, <1>13, SpacedAfter
  <1>18. Trains' = Trains /\ \A u : Path(u)' = Path(u)
    BY <1>2, ScenarioFixed
  <1>19. ASSUME NEW u \in Trains
         PROVE  \E j \in DOMAIN Path(u) :
                    /\ Reached(u, j)'
                    /\ (AtStation(u, j) \/ InQueue(u, j) \/ UnderWay(u, j) \/ AtEnd(u, j))'
    <2> DEFINE seen == ArrivalsIn(moved, u)
    <2>1. Arrivals(u)' = seen
      BY <1>11, <1>12, ArrivalsAfter
    <2>2. /\ u # t => seen = Arrivals(u)
          /\ u = t /\ IsFiniteSet(Arrivals(u)) =>
                IsFiniteSet(seen) /\ Cardinality(seen) = Cardinality(Arrivals(u)) + 1
      <3>1. moved = Append(movements, here) /\ here \in Movements /\ here.event = "arrive" /\ here.train = t
        BY <1>4, <1>8
      <3> QED
        BY <3>1, ArrivalCounted
    <2> HIDE DEF seen
    <2>3. CASE u = t
      <3>1. Reached(u, i)'
        BY <1>5, <2>1, <2>2, <2>3 DEF Reached
      <3>2. Moves(u) \subseteq {e} /\ {p \in opened : p.train = u} = {} /\ WaitingFor(u) = {}
        BY <1>3, <1>5, <1>6, <2>3 DEF Opens
      <3>3. \/ IsLast(u, i) /\ after = <<>>
            \/ ~IsLast(u, i) /\ \E x : after = <<At(x, TrainEvent("ready", u, i))>>
        BY <1>10, <2>3
      <3>4. (AtStation(u, i) \/ AtEnd(u, i))'
        BY <1>2, <1>9, <1>11, <1>12, <2>3, <3>2, <3>3, ArrivingPlaced
      <3> QED
        BY <1>7, <2>3, <3>1, <3>4
    <2>4. CASE u # t
      <3>1. \A j : Reached(u, j)' <=> Reached(u, j)
        BY <2>1, <2>2, <2>4 DEF Reached
      <3>2. CASE u \in TrainsOf(w)
        <4>1. PICK r \in w : r.train = u
          BY <3>2 DEF TrainsOf
        <4>2. PICK j : j = r.step
          OBVIOUS
        <4>3. /\ j \in DOMAIN Path(u) /\ Reached(u, j) /\ Moves(u) = {} /\ WaitingFor(u) = {s}
          BY <1>3, <1>7, <4>1, <4>2, AskerPlace
        <4>4. InQueue(u, j)' \/ UnderWay(u, j)'
          BY <1>2, <1>11, <1>12, <4>1, <4>2, <4>3, AskerPlaced
        <4> QED
          BY <3>1, <4>3, <4>4
      <3>3. CASE u \notin TrainsOf(w)
        <4>1. PICK j \in DOMAIN Path(u) :
                /\ Reached(u, j)
                /\ AtStation(u, j) \/ InQueue(u, j) \/ UnderWay(u, j) \/ AtEnd(u, j)
          BY DEF MesoInv, Placed
        <4>2. e \notin Moves(u) /\ {p \in opened : p.train = u} = Opens(u)
          BY <1>3, <1>4, <1>6, <2>4 DEF Moves, Opens
        <4>3. \A k \in DOMAIN after : after[k].event.train # u
          BY <1>10, <2>4
        <4>4. (AtStation(u, j) \/ InQueue(u, j) \/ UnderWay(u, j) \/ AtEnd(u, j))'
          BY <1>2, <1>11, <1>12, <3>3, <4>1, <4>2, <4>3, OtherPlaced
        <4> QED
          BY <3>1, <4>1, <4>4
      <3> QED
        BY <3>2, <3>3
    <2> QED
      BY <2>3, <2>4
  <1>20. Placed'
    BY <1>18, <1>19 DEF Placed
  <1> QED
    BY <1>12, <1>14, <1>15, <1>16, <1>17, <1>20 DEF MesoInv, Effect

-----------------------------------------------------------------------------
\* The constructor readies every train and looks at every queue when a closure
\* of its segment ends.
LEMMA FirstHeap ==
    ASSUME Init
    PROVE  /\ QueueOf(Events) /\ now = 0 /\ scenario \in Scenarios
           /\ \A f \in heap :
                \/ \E t \in Trains : f = FirstEntry(At(scenario.trains[t].entry, TrainEvent("ready", t, 0)), t)
                \/ f.event.kind = "try"
           /\ \A t \in Trains :
                FirstEntry(At(scenario.trains[t].entry, TrainEvent("ready", t, 0)), t) \in heap
           /\ \A i \in DOMAIN scenario.closures :
                \E f \in heap : /\ f.event = TryEvent(scenario.closures[i].seg)
                                /\ f.time = scenario.closures[i].end
  <1> DEFINE Calls == [time : Nat, event : Events]
             x == [i \in 1..Len(scenario.trains) |->
                        At(scenario.trains[i].entry, TrainEvent("ready", i, 0))]
             y == [i \in 1..Len(scenario.closures) |->
                        At(scenario.closures[i].end, TryEvent(scenario.closures[i].seg))]
             m == Len(scenario.trains)
             l == Len(scenario.closures)
  <1>1. scenario \in Scenarios /\ QueueInit(Initial, m + l) /\ Initial = x \o y
    BY DEF Init, Initial
  <1>2. /\ m \in Nat /\ l \in Nat /\ Trains = 1..m /\ DOMAIN scenario.closures = 1..l
    BY <1>1, ScenarioTyping
  <1>3. \A i \in 1..m : x[i] = At(scenario.trains[i].entry, TrainEvent("ready", i, 0)) /\ x[i] \in Calls
    <2> SUFFICES ASSUME NEW i \in 1..m
                 PROVE  At(scenario.trains[i].entry, TrainEvent("ready", i, 0)) \in Calls
      OBVIOUS
    <2>1. i \in Trains /\ scenario.trains[i].entry \in Nat
      BY <1>1, <1>2, ScenarioTyping
    <2>2. TrainEvent("ready", i, 0) \in Events
      BY <2>1 DEF TrainEvent, Events
    <2> QED
      BY <2>1, <2>2 DEF At
  <1>4. \A i \in 1..l : /\ y[i] = At(scenario.closures[i].end, TryEvent(scenario.closures[i].seg))
                        /\ y[i] \in Calls
    <2> SUFFICES ASSUME NEW i \in 1..l
                 PROVE  At(scenario.closures[i].end, TryEvent(scenario.closures[i].seg)) \in Calls
      OBVIOUS
    <2>1. scenario.closures[i].end \in Nat /\ scenario.closures[i].seg \in Segments
      BY <1>1, <1>2, ScenarioTyping
    <2>2. TryEvent(scenario.closures[i].seg) \in Events
      BY <2>1 DEF TryEvent, Events
    <2> QED
      BY <2>1, <2>2 DEF At
  <1>5. x \in Seq(Calls) /\ y \in Seq(Calls) /\ DOMAIN x = 1..m /\ DOMAIN y = 1..l
    <2>1. x \in [1..m -> Calls] /\ y \in [1..l -> Calls]
      BY <1>3, <1>4
    <2> HIDE DEF x, y, Calls, m, l
    <2> QED
      BY <1>2, <2>1, SeqDef
  <1> HIDE DEF x, y, Calls, m, l
  <1>6. Len(x) = m /\ Len(y) = l
    BY <1>2, <1>5, LenProperties
  <1>7. PICK b : b = x \o y
    OBVIOUS
  <1>8. /\ DOMAIN b = 1..(m + l)
        /\ \A k \in 1..(m + l) : b[k] = IF k <= m THEN x[k] ELSE y[k - m]
    <2>1. /\ b \in Seq(Calls) /\ Len(b) = m + l
          /\ \A k \in 1..(m + l) : b[k] = IF k <= m THEN x[k] ELSE y[k - m]
      BY <1>5, <1>6, <1>7, ConcatProperties
    <2> QED
      BY <2>1, LenProperties
  <1>9. \A i \in DOMAIN b : \/ i \in 1..m /\ b[i] = x[i]
                            \/ i - m \in 1..l /\ b[i] = y[i - m]
    BY <1>2, <1>8
  <1>10. \A i \in 1..m : i \in DOMAIN b /\ b[i] = x[i]
    BY <1>2, <1>8
  <1>11. \A i \in 1..l : m + i \in DOMAIN b /\ b[m + i] = y[i]
    <2> SUFFICES ASSUME NEW i \in 1..l PROVE m + i \in DOMAIN b /\ b[m + i] = y[i]
      OBVIOUS
    <2>1. PICK k \in 1..(m + l) : k = m + i /\ ~(k <= m) /\ k - m = i
      BY <1>2
    <2>2. b[k] = y[k - m]
      BY <1>8, <2>1
    <2> QED
      BY <1>8, <2>1, <2>2
  <1>12. \A i \in DOMAIN b : b[i].time \in Nat /\ b[i].event \in Events
    BY <1>3, <1>4, <1>9 DEF Calls
  <1>13. QueueOf(Events) /\ now = 0 /\ heap = FirstEntries(b)
    <2>1. m + l \in Nat /\ QueueInit(b, m + l) /\ DOMAIN b \subseteq 1..(m + l)
      BY <1>1, <1>2, <1>7, <1>8
    <2> QED
      BY <1>12, <2>1, CausalInit
  <1>14. \A f \in heap :
            \/ \E t \in Trains : f = FirstEntry(At(scenario.trains[t].entry, TrainEvent("ready", t, 0)), t)
            \/ f.event.kind = "try"
    <2> SUFFICES ASSUME NEW i \in DOMAIN b, NEW f, f = FirstEntry(b[i], i)
                 PROVE  \/ \E t \in Trains :
                            f = FirstEntry(At(scenario.trains[t].entry, TrainEvent("ready", t, 0)), t)
                        \/ f.event.kind = "try"
      BY <1>13 DEF FirstEntries
    <2>1. CASE i \in 1..m /\ b[i] = x[i]
      BY <1>2, <1>3, <2>1
    <2>2. CASE i - m \in 1..l /\ b[i] = y[i - m]
      <3>1. PICK k \in 1..l : b[i] = y[k]
        BY <2>2
      <3>2. b[i] = At(scenario.closures[k].end, TryEvent(scenario.closures[k].seg))
        BY <1>4, <3>1
      <3> QED
        BY <3>2 DEF FirstEntry, At, TryEvent
    <2> QED
      BY <1>9, <2>1, <2>2
  <1>15. \A t \in Trains :
            FirstEntry(At(scenario.trains[t].entry, TrainEvent("ready", t, 0)), t) \in heap
    BY <1>2, <1>3, <1>10, <1>13 DEF FirstEntries
  <1>16. ASSUME NEW i \in DOMAIN scenario.closures
         PROVE  \E f \in heap : /\ f.event = TryEvent(scenario.closures[i].seg)
                                /\ f.time = scenario.closures[i].end
    <2> DEFINE f == FirstEntry(b[m + i], m + i)
    <2>1. f \in heap
      BY <1>2, <1>11, <1>13 DEF FirstEntries
    <2>2. b[m + i] = At(scenario.closures[i].end, TryEvent(scenario.closures[i].seg))
      BY <1>2, <1>4, <1>11
    <2>3. f.event = TryEvent(scenario.closures[i].seg) /\ f.time = scenario.closures[i].end
      BY <2>2 DEF FirstEntry, At
    <2> QED
      BY <2>1, <2>3
  <1> QED
    BY <1>1, <1>13, <1>14, <1>15, <1>16

\* At first every train waits for its departure and all segments are free.
LEMMA InitInv == Init => MesoInv
  <1> SUFFICES ASSUME Init PROVE MesoInv
    OBVIOUS
  <1>1. /\ scenario \in Scenarios
        /\ occupancy = [s \in Segments |-> 0] /\ lastEntry = [s \in Segments |-> Never]
        /\ waiting = [s \in Segments |-> {}]
        /\ open = {} /\ occupations = <<>> /\ movements = <<>>
    BY DEF Init
  <1>2. QueueOf(Events) /\ now = 0
    BY FirstHeap
  <1>3. LayerTyped
    <2>1. IsFiniteSet(open)
      BY <1>1, FS_EmptySet
    <2> QED
      BY <1>1, <2>1 DEF LayerTyped
  <1>4. \A s : On(s) = {} /\ EntriesTo(s) = {}
    BY <1>1 DEF On, EntriesTo, Range
  <1>5. Counted
    <2> SUFFICES ASSUME NEW s \in Segments
                 PROVE  occupancy[s] = Cardinality(On(s)) /\ occupancy[s] <= Segment(s).capacity
      BY DEF Counted
    <2> DEFINE c == Segment(s).capacity
    <2>1. c \in Nat /\ occupancy[s] = 0
      BY <1>1, ScenarioTyping
    <2>2. Cardinality(On(s)) = 0
      BY <1>4, FS_EmptySet, Zenon
    <2> HIDE DEF c
    <2>3. occupancy[s] <= c
      BY <2>1
    <2> QED
      BY <2>1, <2>2, <2>3 DEF c
  <1>6. Spaced
    BY <1>4 DEF Spaced, HeadwayKept
  <1>7. Awake
    <2>1. NoLostWakeup
      BY <1>1 DEF NoLostWakeup
    <2>2. \A i \in DOMAIN scenario.closures :
            \E e \in Pending(TryEvent(scenario.closures[i].seg)) : e.time = scenario.closures[i].end
      BY FirstHeap DEF Pending
    <2> QED
      BY <2>1, <2>2 DEF Awake
  <1>8. ASSUME NEW t \in Trains
        PROVE  0 \in DOMAIN Path(t) /\ Reached(t, 0) /\ AtStation(t, 0)
    <2>1. 0 \in DOMAIN Path(t)
      BY <1>1, ScenarioTyping
    <2>2. Arrivals(t) = {} /\ Reached(t, 0)
      <3>1. Arrivals(t) = {}
        BY <1>1 DEF Arrivals
      <3> QED
        BY <3>1, FS_EmptySet DEF Reached
    <2>3. WaitingFor(t) = {} /\ Opens(t) = {}
      BY <1>1 DEF WaitingFor, Opens
    <2> DEFINE e(u) == FirstEntry(At(scenario.trains[u].entry, TrainEvent("ready", u, 0)), u)
    <2>4. \A u : e(u).event = TrainEvent("ready", u, 0) /\ e(u).event.kind = "ready" /\ e(u).event.train = u
      BY DEF FirstEntry, At, TrainEvent
    <2>5. e(t) \in heap /\ \A f \in heap : (\E u \in Trains : f = e(u)) \/ f.event.kind = "try"
      BY FirstHeap
    <2> HIDE DEF e
    <2>6. Moves(t) = {e(t)}
      BY <2>4, <2>5 DEF Moves
    <2> QED
      BY <2>1, <2>2, <2>3, <2>4, <2>5, <2>6 DEF AtStation
  <1>9. Placed
    BY <1>8 DEF Placed
  <1> QED
    BY <1>2, <1>3, <1>5, <1>6, <1>7, <1>9 DEF MesoInv

\* No handler, and no end of the run, breaks the invariant.
LEMMA NextInv == MesoInv /\ [Next]_vars => MesoInv'
  <1> SUFFICES ASSUME MesoInv, [Next]_vars PROVE MesoInv'
    OBVIOUS
  <1>1. ASSUME NEW e \in heap, Ready(e) PROVE MesoInv'
    BY <1>1, AskInv, StandInv
  <1>2. ASSUME NEW e \in heap, Arrive(e) PROVE MesoInv'
    BY <1>2, ArriveInv
  <1>3. ASSUME NEW e \in heap, Try(e) PROVE MesoInv'
    BY <1>3, TryInv
  <1>4. CASE UNCHANGED vars
    <2>1. QueueOf(Events)'
      BY <1>4 DEF vars, MesoInv, QueueOf, Events, Trains, Segments
    <2>2. LayerTyped'
      BY <1>4 DEF vars, MesoInv, LayerTyped, Requests, Openings, Occupations, Movements, Trains, Segments
    <2>3. Counted'
      BY <1>4 DEF vars, MesoInv, Counted, On, Segment, Segments
    <2>4. Placed'
      <3>0. /\ scenario' = scenario /\ heap' = heap /\ open' = open
            /\ waiting' = waiting /\ movements' = movements
        BY <1>4 DEF vars
      <3>1. /\ Trains' = Trains /\ \A t : Path(t)' = Path(t)
            /\ \A t, i : IsLast(t, i)' = IsLast(t, i) /\ Ahead(t, i)' = Ahead(t, i)
            /\ \A s : Segment(s)' = Segment(s)
        BY <3>0 DEF IsLast, Path, Trains, Ahead, Segment
      <3>2. /\ \A t : WaitingFor(t)' = WaitingFor(t) /\ Moves(t)' = Moves(t)
            /\ \A t : Opens(t)' = Opens(t) /\ Arrivals(t)' = Arrivals(t)
        BY <3>0 DEF WaitingFor, Moves, Opens, Arrivals, Segments
      <3>3. /\ \A t, i : Reached(t, i)' = Reached(t, i)
            /\ \A t, i : AtStation(t, i)' = AtStation(t, i)
            /\ \A t, i : InQueue(t, i)' = InQueue(t, i)
            /\ \A t, i : UnderWay(t, i)' = UnderWay(t, i)
            /\ \A t, i : AtEnd(t, i)' = AtEnd(t, i)
        BY <3>0, <3>1, <3>2 DEF Reached, AtStation, InQueue, UnderWay, AtEnd
      <3>4. Placed
        BY DEF MesoInv
      <3> QED
        BY <3>1, <3>2, <3>3, <3>4 DEF Placed
    <2>5. Spaced'
      BY <1>4 DEF vars, MesoInv, Spaced, HeadwayKept, EntriesTo, On, Closed, Segment, Segments
    <2>6. Awake'
      BY <1>4 DEF vars, MesoInv, Awake, NoLostWakeup, On, Pending, Closed, HeadwayOver, Segment, Segments
    <2> QED
      BY <2>1, <2>2, <2>3, <2>4, <2>5, <2>6 DEF MesoInv
  <1> QED
    BY <1>1, <1>2, <1>3, <1>4 DEF Next, Turn, Finished

\* The invariant the four theorems below rest on: the queue is typed, the
\* counters agree with the open intervals, every train is in exactly one place
\* of its journey, entries are spaced and queues are woken.
THEOREM MesoInvariant == Spec => []MesoInv
  BY InitInv, NextInv, PTL DEF Spec

\* A train in one of the four places is in no other.
LEMMA PlacedOnce == ASSUME MesoInv PROVE OnePlace
  <1> SUFFICES ASSUME NEW t \in Trains, ~IsLast(t, 0)
               PROVE  Cardinality(Moves(t)) + Cardinality(WaitingFor(t))
                        = IF AtFinalStop(t) THEN 0 ELSE 1
    BY DEF OnePlace
  <1>1. PICK i \in DOMAIN Path(t) :
            /\ Reached(t, i)
            /\ AtStation(t, i) \/ InQueue(t, i) \/ UnderWay(t, i) \/ AtEnd(t, i)
    BY DEF MesoInv, Placed
  <1>2. AtFinalStop(t) <=> IsLast(t, i)
    BY <1>1 DEF AtFinalStop, Reached
  <1> DEFINE moves == Moves(t)
             queues == WaitingFor(t)
  <1>3. /\ moves = {} => Cardinality(moves) = 0
        /\ queues = {} => Cardinality(queues) = 0
        /\ \A x : moves = {x} => Cardinality(moves) = 1
        /\ \A x : queues = {x} => Cardinality(queues) = 1
    <2> HIDE DEF moves, queues
    <2> QED
      BY FS_EmptySet, FS_Singleton
  <1>4. CASE AtStation(t, i)
    <2>1. ~IsLast(t, i)
      BY <1>4 DEF AtStation
    <2>2. PICK e : moves = {e} /\ queues = {}
      BY <1>4 DEF AtStation
    <2> HIDE DEF moves, queues
    <2>3. Cardinality(moves) = 1 /\ Cardinality(queues) = 0
      BY <1>3, <2>2
    <2> QED
      BY <1>2, <2>1, <2>3 DEF moves, queues
  <1>5. CASE InQueue(t, i)
    <2>1. moves = {} /\ queues = {Ahead(t, i)} /\ ~IsLast(t, i)
      BY <1>5 DEF InQueue
    <2> HIDE DEF moves, queues
    <2>2. Cardinality(moves) = 0 /\ Cardinality(queues) = 1
      BY <1>3, <2>1
    <2> QED
      BY <1>2, <2>1, <2>2 DEF moves, queues
  <1>6. CASE UnderWay(t, i)
    <2>1. PICK e : moves = {e} /\ queues = {} /\ ~IsLast(t, i)
      BY <1>6 DEF UnderWay
    <2> HIDE DEF moves, queues
    <2>2. Cardinality(moves) = 1 /\ Cardinality(queues) = 0
      BY <1>3, <2>1
    <2> QED
      BY <1>2, <2>1, <2>2 DEF moves, queues
  <1>7. CASE AtEnd(t, i)
    BY <1>2, <1>3, <1>7 DEF AtEnd, moves, queues
  <1> QED
    BY <1>1, <1>4, <1>5, <1>6, <1>7

\* The invariant gives the types.
LEMMA MesoTyped == ASSUME MesoInv PROVE TypeOK
  <1>1. scenario \in Scenarios
    BY DEF MesoInv, LayerTyped
  <1>2. ASSUME NEW e \in heap
        PROVE  /\ e.time \in Nat /\ e.seq \in 0..(sequence - 1)
               /\ \/ e.event.kind = "try" /\ e.event.seg \in Segments
                  \/ e.event.kind \in {"ready", "arrive"} /\ e.event.step \in DOMAIN Path(e.event.train)
    <2>1. /\ e.time \in Nat /\ e.seq \in Nat /\ e.seq < sequence /\ sequence \in Nat
          /\ e.event \in Events
      BY DEF MesoInv, QueueOf
    <2>2. CASE e.event \in [kind : {"try"}, seg : Segments]
      BY <2>1, <2>2
    <2>3. CASE e.event \in [kind : {"ready", "arrive"}, train : Trains, step : Nat]
      <3>1. PICK t \in Trains : t = e.event.train
        BY <2>3
      <3>2. e \in Moves(t) /\ e.event.kind \in {"ready", "arrive"}
        BY <2>3, <3>1 DEF Moves
      <3>3. PICK i \in DOMAIN Path(t) :
                AtStation(t, i) \/ InQueue(t, i) \/ UnderWay(t, i) \/ AtEnd(t, i)
        BY DEF MesoInv, Placed
      <3>4. CASE AtStation(t, i)
        <4>1. e.event = TrainEvent("ready", t, i)
          BY <3>2, <3>4 DEF AtStation
        <4> QED
          BY <2>1, <3>1, <3>2, <3>3, <4>1 DEF TrainEvent
      <3>5. CASE UnderWay(t, i)
        <4>1. e.event = TrainEvent("arrive", t, i + 1) /\ ~IsLast(t, i)
          BY <3>2, <3>5 DEF UnderWay
        <4> QED
          BY <2>1, <3>1, <3>2, <4>1 DEF TrainEvent, IsLast
      <3>6. CASE InQueue(t, i) \/ AtEnd(t, i)
        BY <3>2, <3>6 DEF InQueue, AtEnd
      <3> QED
        BY <3>3, <3>4, <3>5, <3>6
    <2> QED
      BY <2>1, <2>2, <2>3 DEF Events
  <1>3. sequence \in Nat /\ now \in Nat /\ raised \in BOOLEAN
    BY DEF MesoInv, QueueOf
  <1>4. /\ occupancy \in [Segments -> Nat]
        /\ \A s \in Segments : lastEntry[s] \in Nat \cup {Never}
        /\ \A s \in Segments : \A r \in waiting[s] : r.train \in Trains /\ r.at \in Nat
        /\ \A o \in open : o.train \in Trains /\ o.seg \in Segments /\ o.enter \in Nat
    BY DEF MesoInv, LayerTyped, Requests, Openings
  <1>5. Len(occupations) \in Nat /\ Len(movements) \in Nat
    BY LenProperties DEF MesoInv, LayerTyped
  <1> QED
    BY <1>2, <1>3, <1>4, <1>5 DEF TypeOK

\* An open interval is that of a train under way.
LEMMA IntervalsReal == ASSUME MesoInv PROVE OccupancyAgrees
  <1> SUFFICES ASSUME NEW s \in Segments, NEW o \in On(s)
               PROVE  \E e \in Moves(o.train) :
                        /\ e.event.kind = "arrive" /\ Ahead(o.train, e.event.step - 1) = s
                        /\ e.time = o.enter + Segment(s).running
    BY DEF OccupancyAgrees, MesoInv, Counted
  <1>1. PICK t \in Trains : t = o.train /\ o \in Opens(t)
    BY DEF MesoInv, LayerTyped, Openings, On, Opens
  <1>2. PICK i \in DOMAIN Path(t) :
            AtStation(t, i) \/ InQueue(t, i) \/ UnderWay(t, i) \/ AtEnd(t, i)
    BY DEF MesoInv, Placed
  <1>3. UnderWay(t, i) /\ i \in Nat
    BY <1>1, <1>2, ScenarioTyping DEF AtStation, InQueue, AtEnd, MesoInv, LayerTyped
  <1>4. PICK e \in heap : /\ e \in Moves(t) /\ e.event = TrainEvent("arrive", t, i + 1)
                          /\ o.seg = Ahead(t, i) /\ e.time = o.enter + Segment(o.seg).running
    BY <1>1, <1>3 DEF UnderWay
  <1>5. e.event.kind = "arrive" /\ e.event.step = i + 1 /\ e.event.step - 1 = i
    BY <1>3, <1>4 DEF TrainEvent
  <1>6. o.seg = s
    BY DEF On
  <1> QED
    BY <1>1, <1>4, <1>5, <1>6

\* _occupancy, _open and the pending arrivals agree, no segment is overfull,
\* every train is in one place and no handler schedules for the past.
THEOREM OccupancyIsRecorded == Spec => []OccupancyIsReal
  <1>1. MesoInv => OccupancyIsReal
    BY MesoTyped, IntervalsReal, PlacedOnce DEF OccupancyIsReal, MesoInv, QueueOf
  <1> QED
    BY <1>1, MesoInvariant, PTL

\* No two trains ever enter a segment less than its headway apart, in either
\* direction, and none enters it while it is closed.
THEOREM HeadwaysAreKept == Spec => []HeadwayKept
  <1>1. MesoInv => HeadwayKept
    BY DEF MesoInv, Spaced
  <1> QED
    BY <1>1, MesoInvariant, PTL

\* Whatever the dispatcher selects, a waiting train has its segment full of
\* trains that will leave it, or an event pending that looks at its queue
\* before it could have entered.
THEOREM QueuesAreWoken == Spec => []NoLostWakeup
  <1>1. MesoInv => NoLostWakeup
    BY DEF MesoInv, Awake
  <1> QED
    BY <1>1, MesoInvariant, PTL

-----------------------------------------------------------------------------
\* With no event left no train waits, runs or is about to.
LEMMA EndsComplete == ASSUME MesoInv, heap = {}, NEW t \in Trains PROVE AtFinalStop(t)
  <1>1. scenario \in Scenarios
    BY DEF MesoInv, LayerTyped
  <1>2. PICK i \in DOMAIN Path(t) :
          /\ Reached(t, i)
          /\ AtStation(t, i) \/ InQueue(t, i) \/ UnderWay(t, i) \/ AtEnd(t, i)
    BY DEF MesoInv, Placed
  <1>3. ~AtStation(t, i) /\ ~UnderWay(t, i)
    BY DEF AtStation, UnderWay
  <1>4. ~InQueue(t, i)
    <2> SUFFICES ASSUME InQueue(t, i) PROVE FALSE
      OBVIOUS
    <2>1. PICK s \in Segments : waiting[s] # {}
      BY DEF InQueue, WaitingFor
    <2>2. PICK o \in On(s) : TRUE
      BY <2>1 DEF MesoInv, Awake, NoLostWakeup, Pending
    <2> QED
      BY <2>1, <2>2, IntervalsReal DEF OccupancyAgrees, Moves
  <1> QED
    BY <1>2, <1>3, <1>4 DEF AtEnd, Reached, AtFinalStop

\* A path is a function on the numbers up to its last.
LEMMA PathsAreSequences ==
    ASSUME scenario \in Scenarios, NEW t \in Trains
    PROVE  \E n \in Nat : DOMAIN Path(t) = 0..n /\ \A i \in 0..n : IsLast(t, i) <=> i = n
  <1>1. PICK n \in Nat : DOMAIN Path(t) = 0..n
    BY ScenariosAssumption DEF ScenariosAssumption, Trains, Path
  <1>2. \A i \in 0..n : IsLast(t, i) <=> i = n
    BY <1>1 DEF IsLast
  <1> QED
    BY <1>1, <1>2

\* Where a train has arrived.
CalledAt(t) == {movements[n].station : n \in Arrivals(t)}

\* Every train has arrived at the station it has reached.
Arrived ==
    \A t \in Trains : \A i \in DOMAIN Path(t) : i > 0 /\ Reached(t, i) => Path(t)[i] \in CalledAt(t)

\* That holds on as long as the train stays.
LEMMA ArrivedStays ==
    ASSUME Arrived, scenario' = scenario, NEW u \in Trains, Arrivals(u)' = Arrivals(u),
           \A k \in Arrivals(u) : movements'[k] = movements[k],
           NEW i \in DOMAIN Path(u), i > 0, Reached(u, i)'
    PROVE  Path(u)[i] \in CalledAt(u)'
  <1>1. Reached(u, i)
    BY DEF Reached
  <1>2. PICK k \in Arrivals(u) : movements[k].station = Path(u)[i]
    BY <1>1 DEF Arrived, CalledAt
  <1> QED
    BY <1>2 DEF CalledAt

\* The queues of _on_ready and _on_try record no arrival.
LEMMA ArrivedCalled ==
    ASSUME MesoInv, Arrived, scenario' = scenario, NEW e, NEW s, NEW w, NEW n, NEW after,
           Called(e, s, w, n, open, movements, after),
           ProcessQueue(e, s, w, n, open, movements, after)
    PROVE  Arrived'
  <1>1. PICK moved, opened : moved = movements /\ opened = open
    OBVIOUS
  <1>2. PICK a \in Admissions(s, w, n, e.time) : Effect(e, s, w, n, opened, moved, after, a)
    BY <1>1, QueueStep
  <1>3. ASSUME NEW u \in Trains
        PROVE  Arrivals(u)' = Arrivals(u) /\ \A k \in Arrivals(u) : movements'[k] = movements[k]
    <2>1. Arrivals(u)' = ArrivalsIn(moved, u) /\ \A k \in DOMAIN moved : movements'[k] = moved[k]
      BY <1>1, <1>2, ArrivalsAfter
    <2> QED
      BY <1>1, <2>1 DEF Arrivals, ArrivalsIn
  <1>4. Trains' = Trains /\ \A u : Path(u)' = Path(u)
    BY ScenarioFixed
  <1> QED
    BY <1>3, <1>4, ArrivedStays DEF Arrived

\* _on_arrive records the arrival of its train where that is now.
LEMMA ArrivedNow == ASSUME MesoInv, Arrived, NEW e \in heap, Arrive(e) PROVE Arrived'
  <1>1. PICK t, i, s, o, here, moved, after :
            /\ ArriveCall(e, t, i, s, o, here, moved, after) /\ scenario' = scenario
            /\ ProcessQueue(e, s, waiting[s], occupancy[s] - 1, open \ {o}, moved, after)
    BY ArriveCalls
  <1>2. PICK w, n, opened : w = waiting[s] /\ n = occupancy[s] - 1 /\ opened = open \ {o}
    OBVIOUS
  <1>3. moved = Append(movements, here) /\ here.station = Path(t)[i]
    BY <1>1 DEF ArriveCall
  <1>4. /\ t \in Trains /\ i \in Nat /\ i - 1 \in Nat /\ Reached(t, i - 1)
        /\ here \in Movements /\ here.train = t /\ here.event = "arrive"
    BY <1>1, Arriving
  <1>5. Called(e, s, w, n, opened, moved, after)
    BY <1>1, <1>2, ArriveCalled
  <1>6. PICK a \in Admissions(s, w, n, e.time) : Effect(e, s, w, n, opened, moved, after, a)
    BY <1>1, <1>2, <1>5, QueueStep
  <1>7. ASSUME NEW u \in Trains
        PROVE  Arrivals(u)' = ArrivalsIn(moved, u) /\ \A k \in DOMAIN moved : movements'[k] = moved[k]
    BY <1>5, <1>6, ArrivalsAfter
  <1>8. ASSUME NEW u \in Trains, NEW j \in DOMAIN Path(u), j > 0, Reached(u, j)'
        PROVE  Path(u)[j] \in CalledAt(u)'
    <2>1. CASE u = t
      <3>1. Cardinality(ArrivalsIn(moved, t)) = Cardinality(Arrivals(t)) + 1
        <4>1. moved = Append(movements, here) /\ here \in Movements /\ here.event = "arrive" /\ here.train = t
          BY <1>3, <1>4
        <4>2. IsFiniteSet(Arrivals(t))
          BY <1>4 DEF Reached
        <4> QED
          BY <4>1, <4>2, ArrivalCounted
      <3>2. i = j
        BY <1>4, <1>7, <1>8, <2>1, <3>1 DEF Reached
      <3>3. PICK k \in ArrivalsIn(moved, t) : moved[k] = here
        BY <1>3, <1>4, ArrivalRecorded
      <3>4. k \in Arrivals(t)' /\ movements'[k] = here
        BY <1>4, <1>7, <3>3 DEF ArrivalsIn
      <3> QED
        BY <1>3, <2>1, <3>2, <3>4 DEF CalledAt
    <2>2. CASE u # t
      <3>1. /\ ArrivalsIn(moved, u) = Arrivals(u)
            /\ \A k \in DOMAIN movements : k \in DOMAIN moved /\ moved[k] = movements[k]
        <4>1. moved = Append(movements, here) /\ here \in Movements /\ here.event = "arrive" /\ here.train # u
          BY <1>3, <1>4, <2>2
        <4>2. ArrivalsIn(moved, u) = Arrivals(u)
          BY <4>1, ArrivalCounted
        <4> QED
          BY <4>1, <4>2, ArrivalRecorded
      <3>2. Arrivals(u)' = Arrivals(u) /\ \A k \in Arrivals(u) : movements'[k] = movements[k]
        BY <1>7, <3>1 DEF Arrivals
      <3> QED
        BY <1>1, <1>8, <3>2, ArrivedStays
    <2> QED
      BY <2>1, <2>2
  <1>9. Trains' = Trains /\ \A u : Path(u)' = Path(u)
    BY <1>1, ScenarioFixed
  <1> QED
    BY <1>8, <1>9 DEF Arrived

LEMMA ArrivedStep == MesoInv /\ Arrived /\ [Next]_vars => Arrived'
  <1> SUFFICES ASSUME MesoInv, Arrived, [Next]_vars PROVE Arrived'
    OBVIOUS
  <1>1. ASSUME NEW e \in heap, Try(e) PROVE Arrived'
    <2>1. PICK s : s = e.event.seg
      OBVIOUS
    <2>2. /\ e.event.kind = "try" /\ scenario' = scenario
          /\ ProcessQueue(e, s, waiting[s], occupancy[s], open, movements, NoEvents)
      BY <1>1, <2>1 DEF Try
    <2>3. Called(e, s, waiting[s], occupancy[s], open, movements, NoEvents)
      BY <2>1, <2>2, TryCalled
    <2> QED
      BY <2>2, <2>3, ArrivedCalled
  <1>2. ASSUME NEW e \in heap, Ready(e) PROVE Arrived'
    <2>1. CASE IsLast(e.event.train, e.event.step)
      <3>1. scenario' = scenario /\ movements' = movements
        BY <1>2, <2>1 DEF Ready
      <3> QED
        BY <3>1 DEF Arrived, CalledAt, Arrivals, Reached, Trains, Path
    <2>2. CASE ~IsLast(e.event.train, e.event.step)
      <3>1. PICK t, i, s, w :
                /\ t = e.event.train /\ i = e.event.step /\ s = Ahead(t, i)
                /\ w = waiting[s] \cup {[train |-> t, step |-> i, at |-> e.time]}
        OBVIOUS
      <3>2. /\ e.event.kind = "ready" /\ scenario' = scenario
            /\ ProcessQueue(e, s, w, occupancy[s], open, movements, NoEvents)
        BY <1>2, <2>2, <3>1 DEF Ready
      <3>3. Called(e, s, w, occupancy[s], open, movements, NoEvents)
        BY <2>2, <3>1, <3>2, AskCalled
      <3> QED
        BY <3>2, <3>3, ArrivedCalled
    <2> QED
      BY <2>1, <2>2
  <1>3. CASE UNCHANGED vars
    BY <1>3 DEF vars, Arrived, CalledAt, Arrivals, Reached, Trains, Path
  <1> QED
    BY <1>1, <1>2, <1>3, ArrivedNow DEF Next, Turn, Finished

\* Nobody has reached anything yet.
LEMMA ArrivedInit == Init => Arrived
  <1> SUFFICES ASSUME Init, NEW t \in Trains, NEW i, i > 0, Reached(t, i) PROVE FALSE
    BY DEF Arrived
  <1>1. Arrivals(t) = {}
    BY DEF Init, Arrivals
  <1> QED
    BY <1>1, FS_EmptySet DEF Reached

\* So a train that ran is named as completed where it ends, and one that has
\* nowhere to go is not.
LEMMA CompletedAtEnd ==
    ASSUME MesoInv, Arrived, NEW t \in Trains, AtFinalStop(t)
    PROVE  t \in CompletedTrains <=> ~IsLast(t, 0)
  <1>1. PICK n \in Nat : DOMAIN Path(t) = 0..n /\ \A i \in 0..n : IsLast(t, i) <=> i = n
    BY PathsAreSequences DEF MesoInv, LayerTyped
  <1>2. PICK i \in DOMAIN Path(t) : Reached(t, i)
    BY DEF MesoInv, Placed
  <1>3. i = n /\ IsFiniteSet(Arrivals(t)) /\ Cardinality(Arrivals(t)) = n
    BY <1>1, <1>2 DEF AtFinalStop, Reached
  <1>4. ASSUME ~IsLast(t, 0) PROVE t \in CompletedTrains
    <2>1. n > 0 /\ Path(t)[n] \in CalledAt(t)
      BY <1>1, <1>2, <1>3, <1>4 DEF Arrived
    <2> QED
      BY <1>1, <2>1 DEF CompletedTrains, CalledAt
  <1>5. ASSUME IsLast(t, 0) PROVE t \notin CompletedTrains
    <2>1. Arrivals(t) = {}
      BY <1>1, <1>3, <1>5, FS_EmptySet
    <2> QED
      BY <2>1 DEF CompletedTrains
  <1> QED
    BY <1>4, <1>5

\* A run ends with every train at the end of its path, and completed_trains
\* names exactly those that had somewhere to go: with no event left no train
\* waits, runs or is about to.  Whoever the dispatcher prefers, opposing trains
\* never lock each other out of the segments they need.
THEOREM NobodyIsStuck == Spec => [](heap = {} => AllComplete)
  <1>1. MesoInv /\ Arrived /\ heap = {} => AllComplete
    <2> SUFFICES ASSUME MesoInv, Arrived, heap = {} PROVE AllComplete
      OBVIOUS
    <2>1. \A t \in Trains : AtFinalStop(t)
      BY EndsComplete
    <2>2. CompletedTrains \subseteq Trains
      BY DEF CompletedTrains
    <2> QED
      BY <2>1, <2>2, CompletedAtEnd DEF AllComplete
  <1> QED
    BY <1>1, ArrivedInit, ArrivedStep, MesoInvariant, PTL DEF Spec

-----------------------------------------------------------------------------
\* The records of trains that were on a segment at x, and the trains on it now
\* that were already there.
Present(s, x) ==
    {n \in DOMAIN occupations :
        occupations[n].seg = s /\ occupations[n].enter <= x /\ x < occupations[n].exit}
Inside(s, x) == {o \in On(s) : o.enter <= x}

\* At no time there has been more on a segment than it has tracks for.
History ==
    /\ \A n \in DOMAIN occupations : occupations[n].exit <= now
    /\ \A s \in Segments : \A x \in Nat :
        Cardinality(Present(s, x)) + Cardinality(Inside(s, x)) <= Segment(s).capacity

\* The sets it counts are finite.
LEMMA HistoryFinite ==
    ASSUME MesoInv
    PROVE  /\ \A s, x : IsFiniteSet(Present(s, x)) /\ IsFiniteSet(Inside(s, x))
           /\ \A s : IsFiniteSet(On(s))
           /\ DOMAIN occupations = 1..Len(occupations) /\ Len(occupations) \in Nat
           /\ \A n \in DOMAIN occupations : occupations[n] \in Occupations
  <1>1. occupations \in Seq(Occupations) /\ IsFiniteSet(open)
    BY DEF MesoInv, LayerTyped
  <1>2. /\ DOMAIN occupations = 1..Len(occupations) /\ Len(occupations) \in Nat
        /\ \A n \in DOMAIN occupations : occupations[n] \in Occupations
    BY <1>1, LenProperties, ElementOfSeq
  <1>3. IsFiniteSet(DOMAIN occupations)
    BY <1>2, FS_Interval
  <1>4. \A s, x : Present(s, x) \subseteq DOMAIN occupations /\ Inside(s, x) \subseteq open /\ On(s) \subseteq open
    BY DEF Present, Inside, On
  <1> QED
    BY <1>1, <1>2, <1>3, <1>4, FS_Subset

\* Whoever comes in at a time was not inside before, and whoever leaves then
\* was until then: the claim on a segment at earlier times does not change.
LEMMA HistoryAfter ==
    ASSUME MesoInv, MesoInv', History, scenario' = scenario, NEW e \in heap, now' = e.time,
           NEW O, O \subseteq open, NEW N, \A o \in N : o.enter = e.time, open' = (open \ O) \cup N,
           \/ O = {} /\ occupations' = occupations
           \/ \E o \in open : /\ O = {o}
                              /\ occupations' = Append(occupations, [train |-> o.train, seg |-> o.seg,
                                                                     enter |-> o.enter, exit |-> e.time])
    PROVE  History'
  <1>1. /\ now \in Nat /\ e.time \in Nat /\ now <= e.time
        /\ Segments' = Segments /\ \A s : Segment(s)' = Segment(s)
        /\ scenario \in Scenarios
    BY DEF MesoInv, QueueOf, LayerTyped, Segments, Segment
  <1>2. \A o \in open : o.enter \in Nat /\ o.seg \in Segments /\ o.train \in Trains
    BY DEF MesoInv, LayerTyped, Openings
  <1>3. PICK k : k = Len(occupations) + 1
    OBVIOUS
  <1>4. /\ k \in Nat /\ k \notin DOMAIN occupations
        /\ \A n \in DOMAIN occupations : occupations[n].exit \in Nat /\ occupations[n].exit <= now
    BY <1>3, HistoryFinite DEF History, Occupations
  <1>5. \/ O = {} /\ occupations' = occupations
        \/ \E o \in open :
            /\ O = {o} /\ DOMAIN occupations' = DOMAIN occupations \cup {k}
            /\ \A n \in DOMAIN occupations : occupations'[n] = occupations[n]
            /\ occupations'[k] = [train |-> o.train, seg |-> o.seg, enter |-> o.enter, exit |-> e.time]
    <2> SUFFICES ASSUME NEW o \in open, O = {o}, NEW r,
                        r = [train |-> o.train, seg |-> o.seg, enter |-> o.enter, exit |-> e.time],
                        occupations' = Append(occupations, r)
                 PROVE  /\ DOMAIN occupations' = DOMAIN occupations \cup {k}
                        /\ \A n \in DOMAIN occupations : occupations'[n] = occupations[n]
                        /\ occupations'[k] = r
      OBVIOUS
    <2>1. r \in Occupations
      BY <1>1, <1>2 DEF Occupations
    <2>2. occupations \in Seq(Occupations)
      BY DEF MesoInv, LayerTyped
    <2>3. /\ Append(occupations, r) \in Seq(Occupations) /\ Len(Append(occupations, r)) = k
          /\ Append(occupations, r)[k] = r
          /\ \A n \in 1..Len(occupations) : Append(occupations, r)[n] = occupations[n]
      BY <1>3, <2>1, <2>2, AppendProperties
    <2>4. DOMAIN Append(occupations, r) = 1..k /\ DOMAIN occupations = 1..(k - 1)
      BY <1>3, <2>2, <2>3, LenProperties
    <2> QED
      BY <1>4, <2>3, <2>4
  <1>6. ASSUME NEW n \in DOMAIN occupations'
        PROVE  occupations'[n].exit \in Nat /\ occupations'[n].exit <= e.time
    <2>1. CASE n \in DOMAIN occupations
      <3>1. occupations'[n] = occupations[n]
        BY <1>5, <2>1
      <3>2. occupations[n].exit \in Nat /\ occupations[n].exit <= now
        BY <1>4, <2>1
      <3>3. \A x \in Nat : x <= now => x <= e.time
        BY <1>1
      <3> QED
        BY <3>1, <3>2, <3>3, Zenon
    <2>2. CASE n \notin DOMAIN occupations
      <3>1. PICK o : occupations'[n] = [train |-> o.train, seg |-> o.seg, enter |-> o.enter, exit |-> e.time]
        BY <1>5, <2>2
      <3>2. occupations'[n].exit = e.time
        BY <3>1
      <3> QED
        BY <1>1, <3>2
    <2> QED
      BY <2>1, <2>2
  <1>7. ASSUME NEW s \in Segments, NEW x \in Nat
        PROVE  Cardinality(Present(s, x)') + Cardinality(Inside(s, x)') <= Segment(s).capacity
    <2>1. /\ IsFiniteSet(Present(s, x)) /\ IsFiniteSet(Inside(s, x)) /\ IsFiniteSet(On(s)')
          /\ Segment(s).capacity \in Nat
      <3>1. IsFiniteSet(Present(s, x)) /\ IsFiniteSet(Inside(s, x))
        BY HistoryFinite
      <3>2. IsFiniteSet(open')
        BY DEF MesoInv, LayerTyped
      <3>3. On(s)' \subseteq open'
        BY DEF On
      <3> QED
        BY <1>1, <3>1, <3>2, <3>3, FS_Subset, ScenarioTyping
    <2>2. CASE x >= e.time
      <3>1. Present(s, x)' = {}
        <4>1. \A n \in DOMAIN occupations' : ~(x < occupations'[n].exit)
          BY <1>1, <1>6, <2>2
        <4> QED
          BY <4>1 DEF Present
      <3>2. Cardinality(Present(s, x)') = 0
        BY <3>1, FS_EmptySet
      <3>3. Inside(s, x)' \subseteq On(s)'
        BY DEF Inside
      <3>4. /\ Cardinality(Inside(s, x)') <= Cardinality(On(s)')
            /\ Cardinality(Inside(s, x)') \in Nat /\ Cardinality(On(s)') \in Nat
        BY <2>1, <3>3, FS_Subset, FS_CardinalityType
      <3>5. Cardinality(On(s)') <= Segment(s).capacity
        BY <1>1 DEF MesoInv, Counted
      <3> HIDE DEF Inside, Present
      <3> QED
        BY <2>1, <3>2, <3>4, <3>5
    <2>3. CASE x < e.time
      <3>1. Inside(s, x)' = Inside(s, x) \ O
        <4>1. \A o \in N : ~(o.enter <= x)
          BY <1>1, <2>3
        <4> QED
          BY <4>1 DEF Inside, On
      <3>2. Cardinality(Present(s, x)) + Cardinality(Inside(s, x)) <= Segment(s).capacity
        BY DEF History
      <3>3. CASE O = {} /\ occupations' = occupations
        <4>1. Present(s, x)' = Present(s, x) /\ Inside(s, x)' = Inside(s, x)
          BY <3>1, <3>3 DEF Present
        <4> QED
          BY <3>2, <4>1
      <3>4. ASSUME NEW o \in open, O = {o},
                   /\ DOMAIN occupations' = DOMAIN occupations \cup {k}
                   /\ \A n \in DOMAIN occupations : occupations'[n] = occupations[n]
                   /\ occupations'[k] = [train |-> o.train, seg |-> o.seg, enter |-> o.enter, exit |-> e.time]
            PROVE  Cardinality(Present(s, x)') + Cardinality(Inside(s, x)') <= Segment(s).capacity
        <4>1. Present(s, x)' = Present(s, x) \cup {n \in {k} : o.seg = s /\ o.enter <= x}
          BY <1>4, <2>3, <3>4 DEF Present
        <4>2. o \in Inside(s, x) <=> o.seg = s /\ o.enter <= x
          BY DEF Inside, On
        <4>3. k \notin Present(s, x)
          BY <1>4 DEF Present
        <4>4. CASE o \in Inside(s, x)
          <5>1. Present(s, x)' = Present(s, x) \cup {k} /\ Inside(s, x)' = Inside(s, x) \ {o}
            BY <3>1, <3>4, <4>1, <4>2, <4>4
          <5>2. Cardinality(Present(s, x)') = Cardinality(Present(s, x)) + 1
            BY <2>1, <4>3, <5>1, FS_AddElement
          <5>3. Cardinality(Inside(s, x)') = Cardinality(Inside(s, x)) - 1
            <6> DEFINE I == Inside(s, x)
            <6>1. IsFiniteSet(I) /\ o \in I
              BY <2>1, <4>4
            <6> HIDE DEF I
            <6>2. Cardinality(I \ {o}) = Cardinality(I) - 1
              BY <6>1, FS_RemoveElement
            <6> QED
              BY <5>1, <6>2 DEF I
          <5>4. Cardinality(Inside(s, x)) \in Nat /\ Cardinality(Present(s, x)) \in Nat
            BY <2>1, FS_CardinalityType
          <5> QED
            BY <2>1, <3>2, <5>2, <5>3, <5>4
        <4>5. CASE o \notin Inside(s, x)
          <5>1. Present(s, x)' = Present(s, x) /\ Inside(s, x)' = Inside(s, x)
            BY <3>1, <3>4, <4>1, <4>2, <4>5
          <5> QED
            BY <3>2, <5>1
        <4> QED
          BY <4>4, <4>5
      <3> QED
        BY <1>5, <3>3, <3>4
    <2> QED
      BY <1>1, <2>2, <2>3
  <1> HIDE DEF Present, Inside
  <1> QED
    BY <1>1, <1>6, <1>7 DEF History

\* What a handler does to the open intervals and the records.
LEMMA HistoryStep == MesoInv /\ History /\ [Next]_vars => History'
  <1> SUFFICES ASSUME MesoInv, History, [Next]_vars PROVE History'
    OBVIOUS
  <1>1. MesoInv'
    BY NextInv
  <1>2. ASSUME NEW e \in heap, NEW s, NEW w, NEW n, NEW opened, NEW moved, NEW after,
               ProcessQueue(e, s, w, n, opened, moved, after)
        PROVE  now' = e.time /\ \E N : open' = opened \cup N /\ \A o \in N : o.enter = e.time
    <2>1. PICK a \in Admissions(s, w, n, e.time) :
            /\ open' = opened \cup {[train |-> r.train, seg |-> s, enter |-> e.time] : r \in Range(a)}
            /\ now' = e.time
      BY <1>2 DEF ProcessQueue, Process
    <2>2. PICK N : N = {[train |-> r.train, seg |-> s, enter |-> e.time] : r \in Range(a)}
      OBVIOUS
    <2>3. \A o \in N : o.enter = e.time
      BY <2>2
    <2> QED
      BY <2>1, <2>2, <2>3
  <1>3. ASSUME NEW e \in heap, Ready(e) PROVE History'
    <2>1. scenario' = scenario /\ occupations' = occupations
      BY <1>3 DEF Ready
    <2>2. now' = e.time /\ \E N : open' = open \cup N /\ \A o \in N : o.enter = e.time
      <3>1. CASE IsLast(e.event.train, e.event.step)
        <4>1. open' = open /\ now' = e.time
          BY <1>3, <3>1 DEF Ready, Process
        <4>2. PICK N : N = {}
          OBVIOUS
        <4>3. open' = open \cup N /\ \A o \in N : o.enter = e.time
          BY <4>1, <4>2
        <4> QED
          BY <4>1, <4>3
      <3>2. CASE ~IsLast(e.event.train, e.event.step)
        <4>1. \E s, w, n, after : ProcessQueue(e, s, w, n, open, movements, after)
          BY <1>3, <3>2 DEF Ready
        <4> QED
          BY <1>2, <4>1
      <3> QED
        BY <3>1, <3>2
    <2>3. PICK N : open' = (open \ {}) \cup N /\ \A o \in N : o.enter = e.time
      BY <2>2
    <2> QED
      BY <1>1, <2>1, <2>2, <2>3, HistoryAfter
  <1>4. ASSUME NEW e \in heap, Try(e) PROVE History'
    <2>1. /\ scenario' = scenario /\ occupations' = occupations
          /\ \E s, w, n, after : ProcessQueue(e, s, w, n, open, movements, after)
      BY <1>4 DEF Try
    <2>2. now' = e.time /\ \E N : open' = open \cup N /\ \A o \in N : o.enter = e.time
      BY <1>2, <2>1
    <2>3. PICK N : open' = (open \ {}) \cup N /\ \A o \in N : o.enter = e.time
      BY <2>2
    <2> QED
      BY <1>1, <2>1, <2>2, <2>3, HistoryAfter
  <1>5. ASSUME NEW e \in heap, Arrive(e) PROVE History'
    <2>1. PICK o \in open : \E s, w, n, moved, after :
            /\ occupations' = Append(occupations, [train |-> o.train, seg |-> o.seg,
                                                   enter |-> o.enter, exit |-> e.time])
            /\ ProcessQueue(e, s, w, n, open \ {o}, moved, after)
      BY <1>5 DEF Arrive
    <2>2. scenario' = scenario
      BY <1>5 DEF Arrive
    <2>3. now' = e.time /\ \E N : open' = (open \ {o}) \cup N /\ \A p \in N : p.enter = e.time
      BY <1>2, <2>1
    <2>4. PICK N : open' = (open \ {o}) \cup N /\ \A p \in N : p.enter = e.time
      BY <2>3
    <2> QED
      BY <1>1, <2>1, <2>2, <2>3, <2>4, HistoryAfter
  <1>6. CASE UNCHANGED vars
    BY <1>6 DEF vars, History, Present, Inside, On, Segments, Segment
  <1> QED
    BY <1>3, <1>4, <1>5, <1>6 DEF Next, Turn, Finished

\* The peak of the records is the number of trains at the start of one.
LEMMA PeakBounded == ASSUME MesoInv, History PROVE OvercapacitySegments = {}
  <1> SUFFICES ASSUME NEW s \in Segments PROVE ~(MaxOccupancy(s) > Segment(s).capacity)
    BY DEF OvercapacitySegments
  <1> DEFINE recs == {n \in DOMAIN occupations : occupations[n].seg = s}
             present(x) == Cardinality({n \in recs : occupations[n].enter <= x /\ x < occupations[n].exit})
             peaks == {present(occupations[n].enter) : n \in recs}
  <1>1. Segment(s).capacity \in Nat
    BY ScenarioTyping DEF MesoInv, LayerTyped
  <1>2. \A x : present(x) = Cardinality(Present(s, x))
    <2>1. \A x : {n \in recs : occupations[n].enter <= x /\ x < occupations[n].exit} = Present(s, x)
      BY DEF Present
    <2> QED
      BY <2>1
  <1>3. ASSUME NEW x \in Nat PROVE present(x) \in Nat /\ present(x) <= Segment(s).capacity
    <2>1. IsFiniteSet(Present(s, x)) /\ IsFiniteSet(Inside(s, x))
      BY HistoryFinite
    <2>2. Cardinality(Present(s, x)) \in Nat /\ Cardinality(Inside(s, x)) \in Nat
      BY <2>1, FS_CardinalityType
    <2>3. Cardinality(Present(s, x)) + Cardinality(Inside(s, x)) <= Segment(s).capacity
      BY DEF History
    <2> HIDE DEF present
    <2> QED
      BY <1>1, <1>2, <2>2, <2>3
  <1>4. \A p \in peaks : p \in Nat /\ p <= Segment(s).capacity
    <2>1. \A n \in recs : occupations[n].enter \in Nat
      BY HistoryFinite DEF Occupations
    <2> HIDE DEF present
    <2> QED
      BY <1>3, <2>1
  <1>5. CASE recs = {}
    BY <1>1, <1>5 DEF MaxOccupancy
  <1>6. CASE recs # {}
    <2>1. IsFiniteSet(peaks)
      <3>1. IsFiniteSet(recs)
        <4>1. recs \subseteq DOMAIN occupations /\ DOMAIN occupations = 1..Len(occupations) /\ Len(occupations) \in Nat
          BY HistoryFinite
        <4>2. IsFiniteSet(DOMAIN occupations)
          BY <4>1, FS_Interval
        <4> QED
          BY <4>1, <4>2, FS_Subset
      <3> DEFINE f == [n \in recs |-> present(occupations[n].enter)]
      <3> HIDE DEF present, recs
      <3>2. f \in [recs -> peaks] /\ \A p \in peaks : \E n \in recs : f[n] = p
        OBVIOUS
      <3> HIDE DEF f, peaks
      <3>3. f \in Surjection(recs, peaks)
        BY <3>2 DEF Surjection
      <3> QED
        BY <3>1, <3>3, FS_Surjection
    <2>2. peaks # {} /\ peaks \subseteq Int
      <3>1. peaks # {}
        BY <1>6
      <3>2. peaks \subseteq Int
        <4> HIDE DEF peaks
        <4> QED
          BY <1>4
      <3> QED
        BY <3>1, <3>2
    <2>3. MaxOccupancy(s) = CHOOSE p \in peaks : \A q \in peaks : q <= p
      BY <1>6 DEF MaxOccupancy
    <2> HIDE DEF peaks
    <2>4. \E p \in peaks : \A q \in peaks : q <= p
      <3>1. PICK p \in peaks : \A q \in peaks : p >= q
        BY <2>1, <2>2, GreatestNumber
      <3> QED
        BY <2>2, <3>1
    <2>5. MaxOccupancy(s) \in peaks
      BY <2>3, <2>4
    <2> QED
      BY <1>1, <1>4, <2>5
  <1> QED
    BY <1>5, <1>6

\* Nobody has been anywhere before the run.
LEMMA HistoryInit == ASSUME Init PROVE History
  <1>1. occupations = <<>> /\ open = {} /\ scenario \in Scenarios
    BY DEF Init
  <1>2. \A s, x : Present(s, x) = {} /\ Inside(s, x) = {}
    BY <1>1 DEF Present, Inside, On
  <1>3. \A s \in Segments : Segment(s).capacity \in Nat
    BY <1>1, ScenarioTyping
  <1>4. Cardinality({}) = 0
    BY FS_EmptySet
  <1>5. DOMAIN occupations = {}
    BY <1>1
  <1>6. ASSUME NEW s \in Segments, NEW x
        PROVE  Cardinality(Present(s, x)) + Cardinality(Inside(s, x)) <= Segment(s).capacity
    <2>1. Cardinality(Present(s, x)) = 0 /\ Cardinality(Inside(s, x)) = 0
      BY <1>2, <1>4
    <2> QED
      BY <1>3, <2>1
  <1> QED
    BY <1>5, <1>6 DEF History

\* By the records of a run too, no segment ever held more trains than it has
\* tracks: what overcapacity_segments looks for after a run is never there.
THEOREM RecordsFitTheTracks == Spec => [](OvercapacitySegments = {})
  <1>1. Init => History
    BY HistoryInit
  <1> QED
    BY <1>1, HistoryStep, PeakBounded, MesoInvariant, PTL DEF Spec

-----------------------------------------------------------------------------
(***************************************************************************)
(* The plan: when trains would enter segments if none ever waited.         *)
(***************************************************************************)
\* No segment is passed in no time.
TakesTime == \A s \in Segments : Segment(s).running > 0

PlannedExit(t, i) == PlannedEntry(t)[i] + Segment(Ahead(t, i)).running

\* The occupation of the segment after the i-th station.
PlannedAt(t, i) ==
    [train |-> t, seg |-> Ahead(t, i), dir |-> IF Path(t)[i + 1] > Path(t)[i] THEN 1 ELSE -1,
     enter |-> PlannedEntry(t)[i], exit |-> PlannedExit(t, i)]

\* What the recursive definition of PlannedEntry says.
IsPlan(t, at) ==
    at = [i \in DOMAIN Path(t) |->
            IF i = 0 THEN scenario.trains[t].entry
            ELSE at[i - 1] + Segment(Ahead(t, i - 1)).running + scenario.trains[t].dwell]

\* Each entry is planned after the one before.
LEMMA PlanTimes ==
    ASSUME scenario \in Scenarios, NEW t \in Trains
    PROVE  /\ PlannedEntry(t) \in [DOMAIN Path(t) -> Nat]
           /\ PlannedEntry(t)[0] = scenario.trains[t].entry
           /\ \A i \in DOMAIN Path(t) : ~IsLast(t, i) =>
                /\ i + 1 \in DOMAIN Path(t)
                /\ PlannedEntry(t)[i + 1] = PlannedExit(t, i) + scenario.trains[t].dwell
  <1>1. PICK n \in Nat : DOMAIN Path(t) = 0..n /\ \A i \in 0..n : IsLast(t, i) <=> i = n
    BY PathsAreSequences
  <1> DEFINE x == scenario.trains[t].entry
             d(i) == Segment(Ahead(t, i)).running
             w == scenario.trains[t].dwell
  <1>2. x \in Nat /\ w \in Nat /\ \A i \in 0..(n - 1) : d(i) \in Nat
    <2>1. \A i \in 0..(n - 1) : i \in DOMAIN Path(t) /\ ~IsLast(t, i)
      BY <1>1
    <2> QED
      BY <1>1, <2>1, ScenarioTyping
  <1> DEFINE Planned(k) == \E at \in [0..k -> Nat] :
                at[0] = x /\ \A i \in 1..k : at[i] = at[i - 1] + d(i - 1) + w
             K == {k \in Nat : k <= n => Planned(k)}
  <1> HIDE DEF x, d, w
  <1>3. 0 \in K
    <2>1. PICK at : at = [i \in 0..0 |-> x]
      OBVIOUS
    <2>2. at \in [0..0 -> Nat] /\ at[0] = x /\ \A i \in 1..0 : at[i] = at[i - 1] + d(i - 1) + w
      BY <1>2, <2>1
    <2> QED
      BY <2>2
  <1>4. ASSUME NEW k \in Nat, k \in K PROVE k + 1 \in K
    <2> SUFFICES ASSUME k + 1 <= n PROVE Planned(k + 1)
      OBVIOUS
    <2>1. PICK at \in [0..k -> Nat] : at[0] = x /\ \A i \in 1..k : at[i] = at[i - 1] + d(i - 1) + w
      BY <1>4
    <2>2. PICK b : b = [i \in 0..(k + 1) |-> IF i = k + 1 THEN at[k] + d(k) + w ELSE at[i]]
      OBVIOUS
    <2>3. d(k) \in Nat /\ at[k] \in Nat
      BY <1>2, <2>1
    <2>4. b \in [0..(k + 1) -> Nat] /\ b[0] = x
      BY <1>2, <2>1, <2>2, <2>3
    <2>5. \A i \in 1..(k + 1) : b[i] = b[i - 1] + d(i - 1) + w
      <3> SUFFICES ASSUME NEW i \in 1..(k + 1) PROVE b[i] = b[i - 1] + d(i - 1) + w
        OBVIOUS
      <3>1. CASE i = k + 1
        <4>1. i - 1 = k /\ b[k] = at[k] /\ b[i] = at[k] + d(k) + w
          BY <2>2, <3>1
        <4> QED
          BY <4>1
      <3>2. CASE i \in 1..k
        BY <2>1, <2>2, <3>2
      <3> QED
        BY <3>1, <3>2
    <2> QED
      BY <2>4, <2>5
  <1> HIDE DEF K
  <1>5. Nat \subseteq K
    BY <1>3, <1>4, NumbersReached
  <1>6. n \in K
    BY <1>5
  <1> HIDE DEF Planned
  <1>6a. Planned(n)
    BY <1>1, <1>6 DEF K
  <1>7. PICK f \in [0..n -> Nat] : f[0] = x /\ \A i \in 1..n : f[i] = f[i - 1] + d(i - 1) + w
    BY <1>6a DEF Planned
  <1>8. f = [i \in 0..n |-> IF i = 0 THEN x ELSE f[i - 1] + d(i - 1) + w]
    BY <1>7
  <1>9. IsPlan(t, f)
    BY <1>1, <1>8 DEF IsPlan, x, d, w
  <1>10. PlannedEntry(t) = CHOOSE at : IsPlan(t, at)
    BY DEF PlannedEntry, IsPlan
  <1>11. PICK at : at = PlannedEntry(t) /\ IsPlan(t, at)
    BY <1>9, <1>10
  <1>12. PICK b : b = [i \in 0..n |-> IF i = 0 THEN x ELSE at[i - 1] + d(i - 1) + w] /\ at = b
    BY <1>1, <1>11 DEF IsPlan, x, d, w
  <1>13. at[0] = x /\ DOMAIN at = 0..n /\ \A i \in 1..n : at[i] = at[i - 1] + d(i - 1) + w
    BY <1>12
  <1> DEFINE M == {k \in Nat : k <= n => at[k] \in Nat}
  <1>14. 0 \in M
    BY <1>2, <1>13
  <1>15. ASSUME NEW k \in Nat, k \in M PROVE k + 1 \in M
    <2> SUFFICES ASSUME k + 1 <= n PROVE at[k + 1] \in Nat
      OBVIOUS
    <2>1. at[k + 1] = at[(k + 1) - 1] + d((k + 1) - 1) + w
      BY <1>13
    <2>2. (k + 1) - 1 = k /\ at[k] \in Nat /\ d(k) \in Nat
      BY <1>2, <1>15
    <2> QED
      BY <1>2, <2>1, <2>2
  <1> HIDE DEF M
  <1>16. Nat \subseteq M
    BY <1>14, <1>15, NumbersReached
  <1>17. \A i \in 0..n : at[i] \in Nat
    BY <1>16 DEF M
  <1>18. at \in [0..n -> Nat]
    <2>1. at = [i \in 0..n |-> at[i]]
      BY <1>12
    <2> QED
      BY <1>17, <2>1
  <1>19. ASSUME NEW i \in DOMAIN Path(t), ~IsLast(t, i)
         PROVE  /\ i + 1 \in DOMAIN Path(t)
                /\ PlannedEntry(t)[i + 1] = PlannedExit(t, i) + scenario.trains[t].dwell
    <2>1. i \in 0..n /\ i + 1 \in 1..n
      BY <1>1, <1>19
    <2>2. at[i + 1] = at[(i + 1) - 1] + d((i + 1) - 1) + w
      BY <1>13, <2>1
    <2>3. (i + 1) - 1 = i
      BY <2>1
    <2>4. at[i + 1] = at[i] + d(i) + w
      BY <2>2, <2>3
    <2> QED
      BY <1>1, <1>11, <2>1, <2>4 DEF PlannedExit, d, w
  <1> QED
    BY <1>1, <1>11, <1>13, <1>18, <1>19 DEF x

\* Later entries are planned later.
LEMMA PlanAscends ==
    ASSUME scenario \in Scenarios, TakesTime, NEW t \in Trains,
           NEW i \in DOMAIN Path(t), NEW j \in DOMAIN Path(t), i < j
    PROVE  PlannedEntry(t)[i] < PlannedEntry(t)[j]
  <1>1. PICK n \in Nat : DOMAIN Path(t) = 0..n /\ \A k \in 0..n : IsLast(t, k) <=> k = n
    BY PathsAreSequences
  <1>2. ASSUME NEW k \in Nat, k < n PROVE PlannedEntry(t)[k] < PlannedEntry(t)[k + 1]
    <2>1. k \in DOMAIN Path(t) /\ ~IsLast(t, k)
      BY <1>1, <1>2
    <2>2. Segment(Ahead(t, k)).running \in Nat /\ Segment(Ahead(t, k)).running > 0
      BY <2>1, ScenarioTyping DEF TakesTime
    <2>3. scenario.trains[t].dwell \in Nat /\ PlannedEntry(t)[k] \in Nat
      BY <2>1, ScenarioTyping, PlanTimes
    <2> QED
      BY <2>1, <2>2, <2>3, PlanTimes DEF PlannedExit
  <1> DEFINE K == {k \in Nat : i + 1 + k <= n => PlannedEntry(t)[i] < PlannedEntry(t)[i + 1 + k]}
  <1>3. i \in Nat /\ j \in Nat /\ j <= n
    BY <1>1
  <1>4. 0 \in K
    BY <1>2, <1>3
  <1>5. ASSUME NEW k \in Nat, k \in K PROVE k + 1 \in K
    <2> SUFFICES ASSUME i + 1 + (k + 1) <= n PROVE PlannedEntry(t)[i] < PlannedEntry(t)[i + 1 + (k + 1)]
      OBVIOUS
    <2>1. PICK l \in Nat : l = i + 1 + k /\ l < n
      BY <1>3
    <2>2. PlannedEntry(t)[i] < PlannedEntry(t)[l] /\ PlannedEntry(t)[l] < PlannedEntry(t)[l + 1]
      BY <1>2, <1>5, <2>1
    <2>3. /\ PlannedEntry(t)[i] \in Nat /\ PlannedEntry(t)[l] \in Nat /\ PlannedEntry(t)[l + 1] \in Nat
          /\ l + 1 = i + 1 + (k + 1)
      BY <1>1, <1>3, <2>1, PlanTimes
    <2> QED
      BY <2>2, <2>3
  <1> HIDE DEF K
  <1>6. Nat \subseteq K
    BY <1>4, <1>5, NumbersReached
  <1>7. PICK k \in Nat : j = i + 1 + k
    <2>1. j - i - 1 \in Nat /\ j = i + 1 + (j - i - 1)
      BY <1>3
    <2> QED
      BY <2>1
  <1>8. k \in K
    BY <1>6
  <1> QED
    BY <1>3, <1>7, <1>8 DEF K

\* A planned occupation is of one leg of a path.
LEMMA OccupationsPlanned ==
    ASSUME scenario \in Scenarios
    PROVE  /\ \A o \in PlannedOccupations : \E t \in Trains, i \in Nat :
                i \in DOMAIN Path(t) /\ ~IsLast(t, i) /\ o = PlannedAt(t, i)
           /\ \A t \in Trains : \A i \in DOMAIN Path(t) : ~IsLast(t, i) => PlannedAt(t, i) \in PlannedOccupations
  <1>1. PlannedOccupations = UNION {{PlannedAt(t, i) : i \in {j \in DOMAIN Path(t) : ~IsLast(t, j)}} : t \in Trains}
    BY DEF PlannedOccupations, PlannedAt, PlannedExit
  <1>2. \A t \in Trains : DOMAIN Path(t) \subseteq Nat
    BY ScenarioTyping
  <1> QED
    BY <1>1, <1>2

Occ(s) == {o \in PlannedOccupations : o.seg = s}

\* There are finitely many, each of some duration; a train does not enter or
\* leave twice at the same time.
LEMMA OccupationsDiffer ==
    ASSUME scenario \in Scenarios, TakesTime
    PROVE  /\ IsFiniteSet(PlannedOccupations)
           /\ \A o \in PlannedOccupations :
                /\ o.train \in Trains /\ o.seg \in Segments /\ o.enter \in Nat /\ o.exit \in Nat
                /\ o.exit = o.enter + Segment(o.seg).running /\ o.enter < o.exit
           /\ \A o, p \in PlannedOccupations : o.train = p.train /\ o.enter = p.enter => o = p
  <1>1. ASSUME NEW o \in PlannedOccupations
        PROVE  /\ o.train \in Trains /\ o.seg \in Segments /\ o.enter \in Nat /\ o.exit \in Nat
               /\ o.exit = o.enter + Segment(o.seg).running /\ o.enter < o.exit
    <2>1. PICK t \in Trains, i \in Nat : i \in DOMAIN Path(t) /\ ~IsLast(t, i) /\ o = PlannedAt(t, i)
      BY OccupationsPlanned
    <2>2. PlannedEntry(t)[i] \in Nat /\ Ahead(t, i) \in Segments
      BY <2>1, PlanTimes, ScenarioTyping
    <2>3. Segment(Ahead(t, i)).running \in Nat /\ Segment(Ahead(t, i)).running > 0
      BY <2>2, ScenarioTyping DEF TakesTime
    <2> QED
      BY <2>1, <2>2, <2>3 DEF PlannedAt, PlannedExit
  <1>2. ASSUME NEW o \in PlannedOccupations, NEW p \in PlannedOccupations, o.train = p.train, o.enter = p.enter
        PROVE  o = p
    <2>1. PICK t \in Trains, i \in Nat : i \in DOMAIN Path(t) /\ ~IsLast(t, i) /\ o = PlannedAt(t, i)
      BY OccupationsPlanned
    <2>2. PICK u \in Trains, j \in Nat : j \in DOMAIN Path(u) /\ ~IsLast(u, j) /\ p = PlannedAt(u, j)
      BY OccupationsPlanned
    <2>3. t = u /\ PlannedEntry(t)[i] = PlannedEntry(t)[j]
      BY <1>2, <2>1, <2>2 DEF PlannedAt
    <2>4. i \in Nat /\ j \in Nat /\ PlannedEntry(t)[i] \in Nat /\ PlannedEntry(t)[j] \in Nat
      BY <2>1, <2>2, <2>3, PlanTimes
    <2>5. ~(i < j) /\ ~(j < i)
      BY <2>1, <2>2, <2>3, <2>4, PlanAscends
    <2> QED
      BY <2>1, <2>2, <2>3, <2>4, <2>5
  <1>3. IsFiniteSet(PlannedOccupations)
    <2> DEFINE of(t) == {PlannedAt(t, i) : i \in {j \in DOMAIN Path(t) : ~IsLast(t, j)}}
               family == {of(t) : t \in Trains}
    <2>1. PlannedOccupations = UNION family
      BY DEF PlannedOccupations, PlannedAt, PlannedExit
    <2>2. ASSUME NEW t \in Trains PROVE IsFiniteSet(of(t))
      <3> DEFINE legs == {j \in DOMAIN Path(t) : ~IsLast(t, j)}
                 f == [i \in legs |-> PlannedAt(t, i)]
      <3>1. IsFiniteSet(legs)
        <4>1. PICK n \in Nat : DOMAIN Path(t) = 0..n
          BY PathsAreSequences
        <4>2. IsFiniteSet(0..n) /\ legs \in SUBSET (0..n)
          BY <4>1, FS_Interval
        <4> QED
          BY <4>2, FS_Subset
      <3>2. f \in Surjection(legs, of(t))
        BY DEF Surjection
      <3> QED
        BY <3>1, <3>2, FS_Surjection
    <2>3. IsFiniteSet(family)
      <3> DEFINE g == [t \in Trains |-> of(t)]
      <3>1. IsFiniteSet(Trains)
        BY ScenarioTyping, FS_Interval
      <3>2. g \in Surjection(Trains, family)
        BY DEF Surjection
      <3> QED
        BY <3>1, <3>2, FS_Surjection
    <2>4. \A F \in family : IsFiniteSet(F)
      BY <2>2
    <2> HIDE DEF family
    <2> QED
      BY <2>1, <2>3, <2>4, FS_UNION
  <1> QED
    BY <1>1, <1>2, <1>3

-----------------------------------------------------------------------------
\* The changes of the claims to a segment, and the order they are swept in.
Begin(o) == [time |-> o.enter, start |-> TRUE, occ |-> o]
Finish(s, o) == [time |-> o.exit + Segment(s).headway, start |-> FALSE, occ |-> o]
Changes(s) == {Begin(o) : o \in Occ(s)} \cup {Finish(s, o) : o \in Occ(s)}
Course(s) == Sorted(Changes(s), SweptBefore)

TurnOf(x) == IF x.start THEN 1 ELSE 0

\* By time, then ends, then trains.
LEMMA SweptByKeys ==
    ASSUME scenario \in Scenarios, TakesTime, NEW s \in Segments
    PROVE  /\ \A x \in Changes(s) : /\ x.time \in Nat /\ TurnOf(x) \in 0..1 /\ x.occ.train \in Nat
                                    /\ x.occ \in Occ(s) /\ (TurnOf(x) = 1 => x = Begin(x.occ))
                                    /\ (TurnOf(x) = 0 => x = Finish(s, x.occ))
           /\ \A x, y \in Changes(s) : SweptBefore(x, y) <=>
                \/ x.time < y.time
                \/ x.time = y.time /\ TurnOf(x) < TurnOf(y)
                \/ x.time = y.time /\ TurnOf(x) = TurnOf(y) /\ x.occ.train < y.occ.train
  <1>1. ASSUME NEW o \in Occ(s)
        PROVE  /\ o.enter \in Nat /\ o.exit + Segment(s).headway \in Nat /\ o.train \in Nat
               /\ TurnOf(Begin(o)) = 1 /\ TurnOf(Finish(s, o)) = 0
    <2>1. o.enter \in Nat /\ o.exit \in Nat /\ o.seg \in Segments /\ o.train \in Trains
      BY OccupationsDiffer DEF Occ
    <2>2. Segment(s).headway \in Nat /\ o.train \in Nat
      BY <2>1, ScenarioTyping
    <2> QED
      BY <2>1, <2>2 DEF TurnOf, Begin, Finish
  <1>2. ASSUME NEW x \in Changes(s)
        PROVE  /\ x.time \in Nat /\ TurnOf(x) \in 0..1 /\ x.occ.train \in Nat
               /\ x.occ \in Occ(s) /\ (TurnOf(x) = 1 => x = Begin(x.occ))
               /\ (TurnOf(x) = 0 => x = Finish(s, x.occ))
    <2>1. CASE \E o \in Occ(s) : x = Begin(o)
      <3>1. PICK o \in Occ(s) : x = Begin(o)
        BY <2>1
      <3>2. Begin(o).time = o.enter /\ Begin(o).occ = o
        BY DEF Begin
      <3>3. TurnOf(x) = 1 /\ x.time = o.enter /\ x.occ = o
        BY <1>1, <3>1, <3>2
      <3> QED
        BY <1>1, <3>1, <3>3
    <2>2. CASE \E o \in Occ(s) : x = Finish(s, o)
      <3>1. PICK o \in Occ(s) : x = Finish(s, o)
        BY <2>2
      <3>2. Finish(s, o).time = o.exit + Segment(s).headway /\ Finish(s, o).occ = o
        BY DEF Finish
      <3>3. TurnOf(x) = 0 /\ x.time = o.exit + Segment(s).headway /\ x.occ = o
        BY <1>1, <3>1, <3>2
      <3> QED
        BY <1>1, <3>1, <3>3
    <2> QED
      BY <2>1, <2>2 DEF Changes
  <1>4. ASSUME NEW x \in Changes(s) PROVE x.start = TRUE \/ x.start = FALSE
    BY DEF Changes, Begin, Finish
  <1>3. ASSUME NEW x \in Changes(s), NEW y \in Changes(s)
        PROVE  SweptBefore(x, y) <=>
                \/ x.time < y.time
                \/ x.time = y.time /\ TurnOf(x) < TurnOf(y)
                \/ x.time = y.time /\ TurnOf(x) = TurnOf(y) /\ x.occ.train < y.occ.train
    <2>1. (x.start = TRUE \/ x.start = FALSE) /\ (y.start = TRUE \/ y.start = FALSE)
      BY <1>4
    <2>2. CASE x.start = TRUE /\ y.start = TRUE
      <3>1. TurnOf(x) = 1 /\ TurnOf(y) = 1
        BY <2>2 DEF TurnOf
      <3>2. x.start = y.start /\ x.start /\ y.start
        BY <2>2, Zenon
      <3> QED
        BY <3>1, <3>2 DEF SweptBefore
    <2>3. CASE x.start = TRUE /\ y.start = FALSE
      BY <2>3 DEF SweptBefore, TurnOf
    <2>4. CASE x.start = FALSE /\ y.start = TRUE
      BY <2>4 DEF SweptBefore, TurnOf
    <2>5. CASE x.start = FALSE /\ y.start = FALSE
      <3>1. TurnOf(x) = 0 /\ TurnOf(y) = 0
        BY <2>5 DEF TurnOf
      <3>2. x.start = y.start /\ ~x.start /\ ~y.start
        BY <2>5, Zenon
      <3> QED
        BY <3>1, <3>2 DEF SweptBefore
    <2> QED
      BY <2>1, <2>2, <2>3, <2>4, <2>5
  <1> QED
    BY <1>2, <1>3

\* Where each occupation begins and ends in the course of a sweep.
Sequenced(s, ev, b, f) ==
    /\ ev \in Seq(Changes(s)) /\ DOMAIN ev = 1..Len(ev) /\ Len(ev) \in Nat
    /\ \A o \in Occ(s) : /\ b[o] \in DOMAIN ev /\ f[o] \in DOMAIN ev /\ b[o] < f[o]
                         /\ ev[b[o]] = Begin(o) /\ ev[f[o]] = Finish(s, o)
    /\ \A i \in DOMAIN ev : \E o \in Occ(s) : i = b[o] \/ i = f[o]
    /\ \A i, j \in DOMAIN ev : i < j => SweptBefore(ev[i], ev[j])

\* The sorted changes are such a course.
LEMMA CourseSequenced ==
    ASSUME scenario \in Scenarios, TakesTime, NEW s \in Segments
    PROVE  \E b, f : Sequenced(s, Course(s), b, f)
  <1> DEFINE C == Changes(s)
             R == {p \in C \X C : SweptBefore(p[1], p[2])}
             ev == Course(s)
  <1>1. \A x, y \in C : <<x, y>> \in R <=> SweptBefore(x, y)
    BY DEF SweptBefore
  <1>2. IsFiniteSet(C)
    <2>1. IsFiniteSet(Occ(s))
      BY OccupationsDiffer, FS_Subset DEF Occ
    <2> DEFINE B == {Begin(o) : o \in Occ(s)}
               F == {Finish(s, o) : o \in Occ(s)}
               g == [o \in Occ(s) |-> Begin(o)]
               h == [o \in Occ(s) |-> Finish(s, o)]
    <2>2. g \in Surjection(Occ(s), B) /\ h \in Surjection(Occ(s), F)
      BY DEF Surjection
    <2>3. IsFiniteSet(B) /\ IsFiniteSet(F)
      BY <2>1, <2>2, FS_Surjection
    <2> QED
      BY <2>3, FS_Union DEF Changes
  <1>3. StrictOrder(C, R)
    <2>1. \A x \in C : ~SweptBefore(x, x)
      BY SweptByKeys
    <2>2. ASSUME NEW x \in C, NEW y \in C, NEW z \in C, SweptBefore(x, y), SweptBefore(y, z)
          PROVE  SweptBefore(x, z)
      <3>1. /\ x.time \in Nat /\ y.time \in Nat /\ z.time \in Nat
            /\ TurnOf(x) \in Nat /\ TurnOf(y) \in Nat /\ TurnOf(z) \in Nat
            /\ x.occ.train \in Nat /\ y.occ.train \in Nat /\ z.occ.train \in Nat
        BY SweptByKeys
      <3>2. \/ x.time < y.time
            \/ x.time = y.time /\ TurnOf(x) < TurnOf(y)
            \/ x.time = y.time /\ TurnOf(x) = TurnOf(y) /\ x.occ.train < y.occ.train
        BY <2>2, SweptByKeys
      <3>3. \/ y.time < z.time
            \/ y.time = z.time /\ TurnOf(y) < TurnOf(z)
            \/ y.time = z.time /\ TurnOf(y) = TurnOf(z) /\ y.occ.train < z.occ.train
        BY <2>2, SweptByKeys
      <3>4. \/ x.time < z.time
            \/ x.time = z.time /\ TurnOf(x) < TurnOf(z)
            \/ x.time = z.time /\ TurnOf(x) = TurnOf(z) /\ x.occ.train < z.occ.train
        BY <3>1, <3>2, <3>3
      <3> QED
        BY <3>4, SweptByKeys
    <2>3. ASSUME NEW x \in C, NEW y \in C, x # y PROVE SweptBefore(x, y) \/ SweptBefore(y, x)
      <3>1. /\ x.time \in Nat /\ y.time \in Nat /\ TurnOf(x) \in 0..1 /\ TurnOf(y) \in 0..1
            /\ x.occ.train \in Nat /\ y.occ.train \in Nat /\ x.occ \in Occ(s) /\ y.occ \in Occ(s)
            /\ TurnOf(x) = 1 => x = Begin(x.occ)
            /\ TurnOf(y) = 1 => y = Begin(y.occ)
            /\ TurnOf(x) = 0 => x = Finish(s, x.occ)
            /\ TurnOf(y) = 0 => y = Finish(s, y.occ)
        BY SweptByKeys
      <3>2. ~(x.time = y.time /\ TurnOf(x) = TurnOf(y) /\ x.occ.train = y.occ.train)
        <4> SUFFICES ASSUME x.time = y.time, TurnOf(x) = TurnOf(y), x.occ.train = y.occ.train PROVE FALSE
          OBVIOUS
        <4>0. x.time = y.time /\ TurnOf(x) = TurnOf(y)
          OBVIOUS
        <4>1. x.occ.enter = y.occ.enter
          <5>1. CASE TurnOf(x) = 1
            BY <3>1, <5>1 DEF Begin
          <5>2. CASE TurnOf(x) = 0
            <6>1. x.occ.seg = s /\ y.occ.seg = s
              BY <3>1 DEF Occ
            <6>4. x.occ.exit + Segment(s).headway = y.occ.exit + Segment(s).headway
              <7>1. x.time = x.occ.exit + Segment(s).headway
                BY <3>1, <5>2 DEF Finish
              <7>2. y.time = y.occ.exit + Segment(s).headway
                BY <3>1, <4>0, <5>2 DEF Finish
              <7> QED
                BY <4>0, <6>1, <7>1, <7>2
            <6>2. /\ x.occ.exit \in Nat /\ y.occ.exit \in Nat
                  /\ x.occ.exit = x.occ.enter + Segment(s).running /\ y.occ.exit = y.occ.enter + Segment(s).running
                  /\ x.occ.enter \in Nat /\ y.occ.enter \in Nat
              BY <3>1, <6>1, OccupationsDiffer DEF Occ
            <6>3. Segment(s).running \in Nat /\ Segment(s).headway \in Nat
              BY ScenarioTyping
            <6> QED
              BY <6>2, <6>3, <6>4
          <5> QED
            BY <3>1, <5>1, <5>2
        <4>2. x.occ = y.occ
          BY <3>1, <4>1, OccupationsDiffer DEF Occ
        <4> QED
          BY <2>3, <3>1, <4>2
      <3> QED
        BY <3>1, <3>2, SweptByKeys
    <2> HIDE DEF R, C
    <2> QED
      BY <1>1, <2>1, <2>2, <2>3 DEF StrictOrder
  <1>4. InOrder(C, R, ev)
    <2>1. \A x \in C : {y \in C : SweptBefore(y, x)} = Below(C, R, x)
      BY <1>1 DEF Below
    <2>2. ev = [i \in 1..Cardinality(C) |-> CHOOSE x \in C : Cardinality({y \in C : SweptBefore(y, x)}) = i - 1]
      BY DEF Course, Sorted
    <2> HIDE DEF R, C
    <2>3. \A i : (CHOOSE x \in C : Cardinality({y \in C : SweptBefore(y, x)}) = i - 1)
                    = CHOOSE x \in C : Cardinality(Below(C, R, x)) = i - 1
      BY <2>1
    <2>4. ev = [i \in 1..Cardinality(C) |-> CHOOSE x \in C : Cardinality(Below(C, R, x)) = i - 1]
      BY <2>2, <2>3
    <2> HIDE DEF ev
    <2> QED
      BY <1>2, <1>3, <2>4, Ranking
  <1>5. PICK n \in Nat : n = Cardinality(C)
    BY <1>2, FS_CardinalityType
  <1>6. /\ DOMAIN ev = 1..n /\ \A i \in 1..n : ev[i] \in C
        /\ \A x \in C : \E i \in 1..n : ev[i] = x
        /\ \A i, j \in 1..n : i < j => SweptBefore(ev[i], ev[j])
    <2> HIDE DEF R, C, ev
    <2> QED
      BY <1>1, <1>4, <1>5 DEF InOrder
  <1>7. ev \in Seq(C) /\ Len(ev) = n
    <2> DEFINE e(i) == CHOOSE x \in C : Cardinality({y \in C : SweptBefore(y, x)}) = i - 1
    <2>4. ev = [i \in 1..n |-> e(i)]
      BY <1>5 DEF Course, Sorted
    <2> HIDE DEF C, ev, e
    <2>1. ev = [i \in 1..n |-> ev[i]]
      BY <2>4
    <2>2. ev \in [1..n -> C]
      BY <1>6, <2>1
    <2>3. ev \in Seq(C)
      BY <2>2
    <2> QED
      BY <1>6, <2>3, LenProperties
  <1> HIDE DEF R, ev
  <1> DEFINE b == [o \in Occ(s) |-> CHOOSE i \in 1..n : ev[i] = Begin(o)]
             f == [o \in Occ(s) |-> CHOOSE i \in 1..n : ev[i] = Finish(s, o)]
  <1>8. ASSUME NEW o \in Occ(s)
        PROVE  b[o] \in 1..n /\ f[o] \in 1..n /\ ev[b[o]] = Begin(o) /\ ev[f[o]] = Finish(s, o)
    <2>1. Begin(o) \in C /\ Finish(s, o) \in C
      BY DEF Changes
    <2> QED
      BY <1>6, <2>1
  <1> HIDE DEF b, f
  <1>9. ASSUME NEW o \in Occ(s) PROVE b[o] < f[o]
    <2>1. /\ o.enter \in Nat /\ o.exit \in Nat /\ o.enter < o.exit /\ Segment(s).headway \in Nat
      BY OccupationsDiffer, ScenarioTyping DEF Occ
    <2>5. Begin(o).time = o.enter /\ Finish(s, o).time = o.exit + Segment(s).headway
      BY DEF Begin, Finish
    <2>6. Begin(o) \in C /\ Finish(s, o) \in C
      BY DEF Changes
    <2>2. Begin(o).time < Finish(s, o).time /\ Begin(o) \in C /\ Finish(s, o) \in C
      BY <2>1, <2>5, <2>6
    <2>3. b[o] # f[o] /\ ~SweptBefore(Finish(s, o), Begin(o))
      <3>1. Begin(o).time \in Nat /\ Finish(s, o).time \in Nat
        BY <2>2, SweptByKeys
      <3> QED
        BY <1>8, <2>2, <3>1, SweptByKeys
    <2>4. ~(f[o] < b[o])
      BY <1>6, <1>8, <2>3
    <2> QED
      BY <1>8, <2>3, <2>4
  <1>10. ASSUME NEW i \in 1..n PROVE \E o \in Occ(s) : i = b[o] \/ i = f[o]
    <2>1. PICK o \in Occ(s) : ev[i] = Begin(o) \/ ev[i] = Finish(s, o)
      BY <1>6 DEF Changes
    <2>2. \A j \in 1..n : ev[i] = ev[j] => i = j
      <3>1. \A x \in C : ~SweptBefore(x, x)
        BY SweptByKeys
      <3> QED
        BY <1>6, <3>1
    <2> QED
      BY <1>8, <2>1, <2>2
  <1> HIDE DEF C
  <1>11. Sequenced(s, ev, b, f)
    <2>1. ev \in Seq(Changes(s))
      BY <1>7 DEF C
    <2> QED
      BY <1>6, <1>7, <1>8, <1>9, <1>10, <2>1 DEF Sequenced
  <1> QED
    BY <1>11 DEF ev

\* Who claims s after n changes, and whether they are too many.
Active(s, b, f, n) == {o \in Occ(s) : b[o] <= n /\ n < f[o]}
Over(s, b, f, n) == Cardinality(Active(s, b, f, n)) > Segment(s).capacity

\* A change adds a claim or removes one, and they never go back in time.
LEMMA ActiveStep ==
    ASSUME scenario \in Scenarios, TakesTime, NEW s \in Segments, NEW ev, NEW b, NEW f, Sequenced(s, ev, b, f)
    PROVE  /\ IsFiniteSet(Occ(s))
           /\ Active(s, b, f, 0) = {} /\ Active(s, b, f, Len(ev)) = {}
           /\ \A n \in 1..Len(ev) : ev[n].time \in Nat /\ ev[n].occ \in Occ(s) /\ TurnOf(ev[n]) \in 0..1
           /\ \A n \in 1..Len(ev) : TurnOf(ev[n]) = 1 =>
                ev[n] = Begin(ev[n].occ) /\ Active(s, b, f, n) = Active(s, b, f, n - 1) \cup {ev[n].occ}
           /\ \A n \in 1..Len(ev) : TurnOf(ev[n]) = 0 =>
                ev[n] = Finish(s, ev[n].occ) /\ Active(s, b, f, n) = Active(s, b, f, n - 1) \ {ev[n].occ}
           /\ \A n \in Nat : IsFiniteSet(Active(s, b, f, n)) /\ Cardinality(Active(s, b, f, n)) \in Nat
           /\ \A i, j \in 1..Len(ev) : i < j =>
                ev[i].time < ev[j].time \/ (ev[i].time = ev[j].time /\ TurnOf(ev[i]) <= TurnOf(ev[j]))
  <1>1. PICK l \in Nat : l = Len(ev)
    BY DEF Sequenced
  <1>2. IsFiniteSet(Occ(s))
    BY OccupationsDiffer, FS_Subset DEF Occ
  <1>3. ASSUME NEW n \in Nat
        PROVE  IsFiniteSet(Active(s, b, f, n)) /\ Cardinality(Active(s, b, f, n)) \in Nat
    BY <1>2, FS_Subset, FS_CardinalityType DEF Active
  <1>4. /\ \A o \in Occ(s) : /\ b[o] \in 1..l /\ f[o] \in 1..l /\ b[o] < f[o]
                             /\ ev[b[o]] = Begin(o) /\ ev[f[o]] = Finish(s, o)
        /\ \A i \in 1..l : \E o \in Occ(s) : i = b[o] \/ i = f[o]
        /\ \A i, j \in 1..l : i < j => SweptBefore(ev[i], ev[j])
        /\ \A i \in 1..l : ev[i] \in Changes(s)
    <2>1. DOMAIN ev = 1..l /\ ev \in Seq(Changes(s))
      BY <1>1 DEF Sequenced
    <2>2. \A i \in 1..l : ev[i] \in Changes(s)
      BY <1>1, <2>1, ElementOfSeq
    <2> QED
      BY <2>1, <2>2 DEF Sequenced
  <1>5. \A o : /\ Begin(o).occ = o /\ TurnOf(Begin(o)) = 1 /\ Begin(o).time = o.enter
               /\ Finish(s, o).occ = o /\ TurnOf(Finish(s, o)) = 0 /\ Finish(s, o).time = o.exit + Segment(s).headway
    BY DEF Begin, Finish, TurnOf
  <1>6. Active(s, b, f, 0) = {} /\ Active(s, b, f, l) = {}
    BY <1>4 DEF Active
  <1>7. ASSUME NEW n \in 1..l
        PROVE  /\ ev[n].time \in Nat /\ ev[n].occ \in Occ(s) /\ TurnOf(ev[n]) \in 0..1
               /\ TurnOf(ev[n]) = 1 => /\ ev[n] = Begin(ev[n].occ)
                                        /\ Active(s, b, f, n) = Active(s, b, f, n - 1) \cup {ev[n].occ}
               /\ TurnOf(ev[n]) = 0 => /\ ev[n] = Finish(s, ev[n].occ)
                                         /\ Active(s, b, f, n) = Active(s, b, f, n - 1) \ {ev[n].occ}
    <2>1. ev[n].time \in Nat
      BY <1>4, SweptByKeys
    <2>2. ASSUME NEW o \in Occ(s), NEW p \in Occ(s), b[o] = b[p] PROVE o = p
      <3>1. Begin(o) = Begin(p)
        BY <1>4, <2>2
      <3>2. Begin(o).occ = o /\ Begin(p).occ = p
        BY <1>5
      <3> QED
        BY <3>1, <3>2
    <2>3. ASSUME NEW o \in Occ(s), NEW p \in Occ(s), f[o] = f[p] PROVE o = p
      <3>1. Finish(s, o) = Finish(s, p)
        BY <1>4, <2>3
      <3>2. Finish(s, o).occ = o /\ Finish(s, p).occ = p
        BY <1>5
      <3> QED
        BY <3>1, <3>2
    <2>4. ASSUME NEW o \in Occ(s), NEW p \in Occ(s) PROVE b[o] # f[p]
      <3>1. TurnOf(Begin(o)) # TurnOf(Finish(s, p))
        BY <1>5
      <3> QED
        BY <1>4, <3>1
    <2>5. PICK o \in Occ(s) : n = b[o] \/ n = f[o]
      BY <1>4
    <2>6. CASE n = b[o]
      <3>0. ev[n] = Begin(o)
        BY <1>4, <2>6
      <3>1. ev[n].occ = o /\ TurnOf(ev[n]) = 1
        BY <1>5, <3>0
      <3>2. \A p \in Occ(s) : p # o => b[p] # n
        BY <2>2, <2>6
      <3>3. \A p \in Occ(s) : f[p] # n
        BY <2>4, <2>6
      <3>4. Active(s, b, f, n) = Active(s, b, f, n - 1) \cup {o}
        <4>1. o \in Active(s, b, f, n)
          BY <1>4, <2>6 DEF Active
        <4>2. \A p \in Occ(s) : p # o => (p \in Active(s, b, f, n) <=> p \in Active(s, b, f, n - 1))
          BY <1>4, <3>2, <3>3 DEF Active
        <4>3. Active(s, b, f, n) \subseteq Occ(s) /\ Active(s, b, f, n - 1) \subseteq Occ(s)
          BY DEF Active
        <4> QED
          BY <4>1, <4>2, <4>3
      <3> QED
        BY <2>1, <3>0, <3>1, <3>4
    <2>7. CASE n = f[o]
      <3>0. ev[n] = Finish(s, o)
        BY <1>4, <2>7
      <3>1. ev[n].occ = o /\ TurnOf(ev[n]) = 0
        BY <1>5, <3>0
      <3>2. \A p \in Occ(s) : p # o => f[p] # n
        BY <2>3, <2>7
      <3>3. \A p \in Occ(s) : b[p] # n
        BY <2>4, <2>7
      <3>4. Active(s, b, f, n) = Active(s, b, f, n - 1) \ {o}
        <4>1. o \notin Active(s, b, f, n)
          BY <1>4, <2>7 DEF Active
        <4>2. \A p \in Occ(s) : p # o => (p \in Active(s, b, f, n) <=> p \in Active(s, b, f, n - 1))
          BY <1>4, <3>2, <3>3 DEF Active
        <4>3. Active(s, b, f, n) \subseteq Occ(s) /\ Active(s, b, f, n - 1) \subseteq Occ(s)
          BY DEF Active
        <4> QED
          BY <4>1, <4>2, <4>3
      <3> QED
        BY <2>1, <3>0, <3>1, <3>4
    <2> QED
      BY <2>5, <2>6, <2>7
  <1>8. ASSUME NEW i \in 1..l, NEW j \in 1..l, i < j
        PROVE  ev[i].time < ev[j].time \/ (ev[i].time = ev[j].time /\ TurnOf(ev[i]) <= TurnOf(ev[j]))
    <2>1. SweptBefore(ev[i], ev[j]) /\ ev[i] \in Changes(s) /\ ev[j] \in Changes(s)
      BY <1>4, <1>8
    <2>2. \/ ev[i].time < ev[j].time
          \/ ev[i].time = ev[j].time /\ TurnOf(ev[i]) < TurnOf(ev[j])
          \/ ev[i].time = ev[j].time /\ TurnOf(ev[i]) = TurnOf(ev[j])
      BY <2>1, SweptByKeys
    <2>3. TurnOf(ev[i]) \in 0..1 /\ TurnOf(ev[j]) \in 0..1
      BY <1>7
    <2> QED
      BY <2>2, <2>3
  <1> QED
    BY <1>1, <1>2, <1>3, <1>6, <1>7, <1>8

\* The two sides of that.
LEMMA BeginAdds ==
    ASSUME scenario \in Scenarios, TakesTime, NEW s \in Segments, NEW ev, NEW b, NEW f, Sequenced(s, ev, b, f),
           NEW n \in 1..Len(ev), TurnOf(ev[n]) = 1
    PROVE  Active(s, b, f, n) = Active(s, b, f, n - 1) \cup {ev[n].occ}
  BY ActiveStep

\* An end takes a claim away.
LEMMA FinishRemoves ==
    ASSUME scenario \in Scenarios, TakesTime, NEW s \in Segments, NEW ev, NEW b, NEW f, Sequenced(s, ev, b, f),
           NEW n \in 1..Len(ev), TurnOf(ev[n]) = 0
    PROVE  Active(s, b, f, n) = Active(s, b, f, n - 1) \ {ev[n].occ}
  BY ActiveStep

\* The changes up to an instant.
UpTo(ev, x, n) == n \in 0..Len(ev) /\ \A i \in 1..Len(ev) : i <= n <=> ev[i].time <= x

Claim(s, x) == {o \in PlannedOccupations : o.seg = s /\ o.enter <= x /\ x < o.exit + Segment(s).headway}

\* At every instant some of the changes have happened, and what is active
\* after them is the claim.
LEMMA ClaimsActive ==
    ASSUME scenario \in Scenarios, TakesTime, NEW s \in Segments, NEW ev, NEW b, NEW f, Sequenced(s, ev, b, f),
           NEW x \in Int
    PROVE  \E n \in Nat : UpTo(ev, x, n) /\ Claim(s, x) = Active(s, b, f, n)
  <1>1. PICK l \in Nat : l = Len(ev)
    BY DEF Sequenced
  <1>2. /\ \A i \in 1..l : ev[i].time \in Nat
        /\ \A i, j \in 1..l : i < j => ev[i].time <= ev[j].time
    <2>1. \A i \in 1..Len(ev) : ev[i].time \in Nat /\ ev[i].occ \in Occ(s) /\ TurnOf(ev[i]) \in 0..1
      BY ActiveStep
    <2>2. \A i, j \in 1..Len(ev) : i < j =>
                ev[i].time < ev[j].time \/ (ev[i].time = ev[j].time /\ TurnOf(ev[i]) <= TurnOf(ev[j]))
      BY ActiveStep
    <2> QED
      BY <1>1, <2>1, <2>2
  <1>3. PICK n \in 0..l : \A i \in 1..l : i <= n <=> ev[i].time <= x
    <2> DEFINE later == {i \in 1..l : ev[i].time > x}
    <2>1. CASE later = {}
      <3>1. \A i \in 1..l : i <= l /\ ev[i].time <= x
        BY <1>2, <2>1
      <3> QED
        BY <3>1
    <2>2. CASE later # {}
      <3>1. PICK k \in later : \A i \in later : k <= i
        <4>1. later \subseteq Nat
          OBVIOUS
        <4> HIDE DEF later
        <4> QED
          BY <2>2, <4>1, LeastNumber
      <3>2. k \in 1..l /\ ev[k].time > x /\ k - 1 \in 0..l
        BY <3>1
      <3>3. ASSUME NEW i \in 1..l PROVE i <= k - 1 <=> ev[i].time <= x
        <4>1. i < k => ev[i].time <= x
          BY <1>2, <3>1, <3>2
        <4>2. k < i => ev[i].time > x
          BY <1>2, <3>2
        <4> QED
          BY <1>2, <3>2, <4>1, <4>2
      <3> QED
        BY <3>2, <3>3
    <2> QED
      BY <2>1, <2>2
  <1>4. ASSUME NEW o \in Occ(s)
        PROVE  o.enter <= x /\ x < o.exit + Segment(s).headway <=> b[o] <= n /\ n < f[o]
    <2>1. /\ b[o] \in 1..l /\ f[o] \in 1..l /\ ev[b[o]] = Begin(o) /\ ev[f[o]] = Finish(s, o)
      BY <1>1 DEF Sequenced
    <2>2. ev[b[o]].time = o.enter /\ ev[f[o]].time = o.exit + Segment(s).headway
      BY <2>1 DEF Begin, Finish, Occ
    <2>3. (b[o] <= n <=> o.enter <= x) /\ (f[o] <= n <=> o.exit + Segment(s).headway <= x)
      BY <1>3, <2>1, <2>2
    <2>4. o.exit + Segment(s).headway \in Nat
      BY <1>2, <2>1, <2>2
    <2> QED
      BY <2>1, <2>3, <2>4
  <1>5. Claim(s, x) = Active(s, b, f, n)
    BY <1>4 DEF Claim, Active, Occ
  <1> QED
    BY <1>1, <1>3, <1>5 DEF UpTo

\* A maximal stretch of changes after each of which there are too many claims.
Stretch(s, ev, b, f, a, d) ==
    /\ a \in 1..Len(ev) /\ d \in 1..Len(ev) /\ a < d
    /\ \A k \in a..(d - 1) : Over(s, b, f, k)
    /\ ~Over(s, b, f, a - 1) /\ ~Over(s, b, f, d)

\* It begins with a train that would enter, and ends later with one that has
\* cleared the segment.
LEMMA StretchEnds ==
    ASSUME scenario \in Scenarios, TakesTime, NEW s \in Segments, NEW ev, NEW b, NEW f, Sequenced(s, ev, b, f),
           NEW a, NEW d, Stretch(s, ev, b, f, a, d)
    PROVE  /\ TurnOf(ev[a]) = 1 /\ TurnOf(ev[d]) = 0 /\ ev[a].time < ev[d].time
           /\ ev[a].time \in Nat /\ ev[d].time \in Nat
           /\ \A k \in a..(d - 1) : k \in 1..Len(ev)
  <1>1. PICK l \in Nat : l = Len(ev)
    BY DEF Sequenced
  <1>2. a \in 1..l /\ d \in 1..l /\ a < d /\ Over(s, b, f, a) /\ ~Over(s, b, f, a - 1)
        /\ Over(s, b, f, d - 1) /\ ~Over(s, b, f, d)
    BY <1>1 DEF Stretch
  <1>3. \A k \in Nat : IsFiniteSet(Active(s, b, f, k)) /\ Cardinality(Active(s, b, f, k)) \in Nat
    BY ActiveStep
  <1>4. Segment(s).capacity \in Nat
    BY ScenarioTyping
  <1>5. TurnOf(ev[a]) # 0
    <2> SUFFICES ASSUME TurnOf(ev[a]) = 0 PROVE FALSE
      OBVIOUS
    <2>0. TurnOf(ev[a]) = 0
      OBVIOUS
    <2>1. Active(s, b, f, a) = Active(s, b, f, a - 1) \ {ev[a].occ}
      BY <1>1, <1>2, <2>0, FinishRemoves
    <2>2. Active(s, b, f, a) \in SUBSET Active(s, b, f, a - 1)
      BY <2>1
    <2>3. a - 1 \in Nat /\ a \in Nat
      BY <1>2
    <2>4. Cardinality(Active(s, b, f, a)) <= Cardinality(Active(s, b, f, a - 1))
      BY <1>3, <2>2, <2>3, FS_Subset
    <2> QED
      BY <1>2, <1>3, <1>4, <2>3, <2>4 DEF Over
  <1>6. TurnOf(ev[d]) # 1
    <2> SUFFICES ASSUME TurnOf(ev[d]) = 1 PROVE FALSE
      OBVIOUS
    <2>0. TurnOf(ev[d]) = 1
      OBVIOUS
    <2>1. Active(s, b, f, d) = Active(s, b, f, d - 1) \cup {ev[d].occ}
      BY <1>1, <1>2, <2>0, BeginAdds
    <2>2. Active(s, b, f, d - 1) \in SUBSET Active(s, b, f, d)
      BY <2>1
    <2>3. d - 1 \in Nat /\ d \in Nat
      BY <1>2
    <2>4. Cardinality(Active(s, b, f, d - 1)) <= Cardinality(Active(s, b, f, d))
      BY <1>3, <2>2, <2>3, FS_Subset
    <2> QED
      BY <1>2, <1>3, <1>4, <2>3, <2>4 DEF Over
  <1>7. TurnOf(ev[a]) \in 0..1 /\ TurnOf(ev[d]) \in 0..1
    BY <1>1, <1>2, ActiveStep
  <1>8. TurnOf(ev[a]) = 1 /\ TurnOf(ev[d]) = 0
    BY <1>5, <1>6, <1>7
  <1>9. ev[a].time < ev[d].time \/ (ev[a].time = ev[d].time /\ TurnOf(ev[a]) <= TurnOf(ev[d]))
    BY <1>1, <1>2, ActiveStep
  <1>10. ev[a].time < ev[d].time
    BY <1>6, <1>8, <1>9
  <1>11. ev[a].time \in Nat /\ ev[d].time \in Nat
    BY <1>1, <1>2, ActiveStep
  <1>12. \A k \in a..(d - 1) : k \in 1..Len(ev)
    BY <1>1, <1>2
  <1> QED
    BY <1>8, <1>10, <1>11, <1>12

\* The instants of a stretch are those at which its changes have happened.
LEMMA StretchInstants ==
    ASSUME scenario \in Scenarios, TakesTime, NEW s \in Segments, NEW ev, NEW b, NEW f, Sequenced(s, ev, b, f),
           NEW a, NEW d, Stretch(s, ev, b, f, a, d), NEW x \in Int, NEW n, UpTo(ev, x, n)
    PROVE  ev[a].time <= x /\ x < ev[d].time <=> n \in a..(d - 1)
  <1>1. PICK l \in Nat : l = Len(ev)
    BY DEF Sequenced
  <1>2. a \in 1..l /\ d \in 1..l /\ n \in 0..l
    BY <1>1 DEF Stretch, UpTo
  <1>3. (a <= n <=> ev[a].time <= x) /\ (d <= n <=> ev[d].time <= x)
    BY <1>1, <1>2 DEF UpTo
  <1>4. ev[d].time \in Nat
    BY StretchEnds
  <1> QED
    BY <1>2, <1>3, <1>4

\* Whatever is claimed somewhere in a stretch, is claimed at one of its instants.
LEMMA StretchCovered ==
    ASSUME scenario \in Scenarios, TakesTime, NEW s \in Segments, NEW ev, NEW b, NEW f, Sequenced(s, ev, b, f),
           NEW a, NEW d, Stretch(s, ev, b, f, a, d), NEW k \in a..(d - 1)
    PROVE  \E i \in 1..Len(ev), n \in a..(d - 1) :
                UpTo(ev, ev[i].time, n) /\ Active(s, b, f, k) \subseteq Active(s, b, f, n)
  <1>1. PICK l \in Nat : l = Len(ev)
    BY DEF Sequenced
  <1>2. /\ a \in 1..l /\ d \in 1..l /\ k \in 1..l /\ a <= k /\ k < d
        /\ TurnOf(ev[a]) = 1 /\ TurnOf(ev[d]) = 0
    <2>1. a \in 1..l /\ d \in 1..l /\ a < d
      BY <1>1 DEF Stretch
    <2>2. TurnOf(ev[a]) = 1 /\ TurnOf(ev[d]) = 0
      BY StretchEnds
    <2> QED
      BY <2>1, <2>2
  <1>3. \A i, j \in 1..l : i < j =>
            ev[i].time < ev[j].time \/ (ev[i].time = ev[j].time /\ TurnOf(ev[i]) <= TurnOf(ev[j]))
    BY <1>1, ActiveStep
  <1>4. \A i \in 1..l : ev[i].time \in Nat /\ TurnOf(ev[i]) \in 0..1
    BY <1>1, ActiveStep
  <1>5. ASSUME NEW o \in Occ(s)
        PROVE  /\ b[o] \in 1..l /\ f[o] \in 1..l /\ TurnOf(ev[b[o]]) = 1 /\ TurnOf(ev[f[o]]) = 0
               /\ ev[f[o]].time > 0
    <2>1. /\ b[o] \in 1..l /\ f[o] \in 1..l /\ ev[b[o]] = Begin(o) /\ ev[f[o]] = Finish(s, o)
      BY <1>1 DEF Sequenced
    <2>2. TurnOf(Begin(o)) = 1 /\ TurnOf(Finish(s, o)) = 0 /\ Finish(s, o).time = o.exit + Segment(s).headway
      BY DEF Begin, Finish, TurnOf
    <2>3. o.exit \in Nat /\ o.enter \in Nat /\ o.enter < o.exit /\ Segment(s).headway \in Nat
      BY OccupationsDiffer, ScenarioTyping DEF Occ
    <2> QED
      BY <2>1, <2>2, <2>3
  <1>6. CASE TurnOf(ev[k]) = 1
    <2>1. ev[k].time \in Int
      BY <1>2, <1>4
    <2>2. PICK n \in Nat : UpTo(ev, ev[k].time, n)
      BY <2>1, ClaimsActive
    <2>3. n \in 0..l /\ \A i \in 1..l : i <= n <=> ev[i].time <= ev[k].time
      BY <1>1, <2>2 DEF UpTo
    <2>4. k <= n
      BY <1>2, <1>4, <2>3
    <2>5. ASSUME NEW i \in 1..l, k < i, i <= n PROVE TurnOf(ev[i]) = 1
      <3>1. ev[i].time <= ev[k].time
        BY <2>3, <2>5
      <3>2. ~(ev[k].time < ev[i].time)
        BY <1>2, <1>4, <3>1
      <3>3. TurnOf(ev[k]) <= TurnOf(ev[i])
        BY <1>2, <1>3, <2>5, <3>2
      <3> QED
        BY <1>4, <1>6, <3>3
    <2>6. n < d
      <3> SUFFICES ASSUME d <= n PROVE FALSE
        BY <1>2, <2>3
      <3>1. TurnOf(ev[d]) = 1
        BY <1>2, <2>5
      <3> QED
        BY <1>2, <3>1
    <2>7. ASSUME NEW o \in Active(s, b, f, k) PROVE o \in Active(s, b, f, n)
      <3>1. o \in Occ(s) /\ b[o] <= k /\ k < f[o]
        BY DEF Active
      <3>2. ~(f[o] <= n)
        BY <1>5, <2>5, <3>1
      <3> QED
        BY <1>2, <1>5, <2>3, <2>4, <3>1, <3>2 DEF Active
    <2>8. n \in a..(d - 1)
      BY <1>2, <2>3, <2>4, <2>6
    <2> QED
      BY <1>1, <1>2, <2>2, <2>7, <2>8
  <1>7. CASE TurnOf(ev[k]) = 0
    <2>1. PICK y \in Nat : y = ev[k].time
      BY <1>2, <1>4
    <2>2. PICK m \in Nat : UpTo(ev, y - 1, m)
      BY ClaimsActive
    <2>3. m \in 0..l /\ \A i \in 1..l : i <= m <=> ev[i].time <= y - 1
      BY <1>1, <2>2 DEF UpTo
    <2>4. m < k
      BY <1>2, <2>1, <2>3
    <2>5. ASSUME NEW i \in 1..l, m < i, i <= k PROVE TurnOf(ev[i]) = 0
      <3>1. CASE i = k
        BY <1>7, <3>1
      <3>2. CASE i < k
        <4>1. ~(ev[i].time < ev[k].time)
          BY <1>4, <2>1, <2>3, <2>5
        <4>2. TurnOf(ev[i]) <= TurnOf(ev[k])
          BY <1>2, <1>3, <3>2, <4>1
        <4> QED
          BY <1>4, <1>7, <4>2
      <3> QED
        BY <1>2, <2>5, <3>1, <3>2
    <2>6. a <= m
      <3> SUFFICES ASSUME m < a PROVE FALSE
        BY <1>2, <2>3
      <3>1. TurnOf(ev[a]) = 0
        BY <1>2, <2>5
      <3> QED
        BY <1>2, <3>1
    <2>7. ASSUME NEW o \in Active(s, b, f, k) PROVE o \in Active(s, b, f, m)
      <3>1. o \in Occ(s) /\ b[o] <= k /\ k < f[o]
        BY DEF Active
      <3>2. ~(m < b[o])
        BY <1>5, <2>5, <3>1
      <3> QED
        BY <1>2, <1>5, <2>3, <2>4, <3>1, <3>2 DEF Active
    <2>8. m \in 1..l /\ m \in a..(d - 1)
      BY <1>2, <2>3, <2>4, <2>6
    <2>9. UpTo(ev, ev[m].time, m)
      <3> SUFFICES ASSUME NEW i \in 1..l PROVE i <= m <=> ev[i].time <= ev[m].time
        BY <1>1, <2>3 DEF UpTo
      <3>1. i < m => ev[i].time <= ev[m].time
        BY <1>3, <1>4, <2>8
      <3>2. m < i => ev[m].time < ev[i].time
        BY <1>4, <2>3, <2>8
      <3> QED
        BY <1>4, <2>8, <3>1, <3>2
    <2> QED
      BY <1>1, <2>7, <2>8, <2>9
  <1> QED
    BY <1>2, <1>4, <1>6, <1>7

-----------------------------------------------------------------------------
\* The sweep, and what it has found out after n changes.
Fresh == [active |-> {}, from |-> Never, peak |-> 0, involved |-> {}, found |-> {}]
IsSweep(s, ev, w) ==
    w = [n \in 0..Len(ev) |-> IF n = 0 THEN Fresh ELSE Swept(s, w[n - 1], ev[n])]
TheSweep(s, ev) == CHOOSE w : IsSweep(s, ev, w)

\* What the recursive definition of the sweep says.
LEMMA SweepRuns ==
    ASSUME NEW s, NEW ev, NEW l \in Nat, l = Len(ev), NEW w, w = TheSweep(s, ev)
    PROVE  w[0] = Fresh /\ \A n \in 1..l : w[n] = Swept(s, w[n - 1], ev[n])
  <1> DEFINE Swept1(v, n) == Swept(s, v, ev[n])
             IsRun(v, k) == /\ v = [n \in 0..k |-> v[n]] /\ v[0] = Fresh
                            /\ \A n \in 1..k : v[n] = Swept1(v[n - 1], n)
             Run(k) == \E v : IsRun(v, k)
             K == {k \in Nat : Run(k)}
  <1> HIDE DEF Swept1
  <1>1. 0 \in K
    <2>1. PICK v : v = [n \in 0..0 |-> Fresh]
      OBVIOUS
    <2>2. v = [n \in 0..0 |-> v[n]] /\ v[0] = Fresh /\ \A n \in 1..0 : v[n] = Swept1(v[n - 1], n)
      BY <2>1
    <2> QED
      BY <2>2
  <1>2. ASSUME NEW k \in Nat, k \in K PROVE k + 1 \in K
    <2>1. PICK v : /\ v = [n \in 0..k |-> v[n]] /\ v[0] = Fresh
                   /\ \A n \in 1..k : v[n] = Swept1(v[n - 1], n)
      BY <1>2
    <2>2. PICK u : u = [n \in 0..(k + 1) |-> IF n = k + 1 THEN Swept1(v[k], n) ELSE v[n]]
      OBVIOUS
    <2>3. u = [n \in 0..(k + 1) |-> u[n]] /\ u[0] = Fresh
      BY <2>1, <2>2
    <2>4. ASSUME NEW n \in 1..(k + 1) PROVE u[n] = Swept1(u[n - 1], n)
      <3>1. CASE n = k + 1
        <4>1. n - 1 = k /\ u[k] = v[k] /\ u[n] = Swept1(v[k], n)
          BY <2>2, <3>1
        <4> QED
          BY <4>1
      <3>2. CASE n \in 1..k
        <4>1. u[n] = v[n] /\ u[n - 1] = v[n - 1]
          BY <2>2, <3>2
        <4> QED
          BY <2>1, <3>2, <4>1
      <3> QED
        BY <3>1, <3>2
    <2>5. IsRun(u, k + 1)
      BY <2>3, <2>4
    <2> HIDE DEF IsRun
    <2> QED
      BY <2>5
  <1> HIDE DEF K
  <1>3. Nat \subseteq K
    BY <1>1, <1>2, NumbersReached
  <1>4. l \in K
    BY <1>3
  <1>5. PICK v : /\ v = [n \in 0..l |-> v[n]] /\ v[0] = Fresh
                 /\ \A n \in 1..l : v[n] = Swept1(v[n - 1], n)
    BY <1>4 DEF K
  <1>6. v = [n \in 0..l |-> IF n = 0 THEN Fresh ELSE Swept1(v[n - 1], n)]
    <2>1. PICK u : u = [n \in 0..l |-> IF n = 0 THEN Fresh ELSE Swept1(v[n - 1], n)]
      OBVIOUS
    <2>2. \A n \in 0..l : u[n] = v[n]
      <3> SUFFICES ASSUME NEW n \in 0..l PROVE u[n] = v[n]
        OBVIOUS
      <3>1. n = 0 \/ n \in 1..l
        OBVIOUS
      <3> QED
        BY <1>5, <2>1, <3>1
    <2>3. u = [n \in 0..l |-> u[n]]
      BY <2>1
    <2>4. u = v
      BY <1>5, <2>2, <2>3
    <2> QED
      BY <2>1, <2>4
  <1>7. IsSweep(s, ev, v)
    BY <1>6 DEF IsSweep, Swept1
  <1>8. IsSweep(s, ev, w)
    BY <1>7 DEF TheSweep
  <1>9. PICK u : u = [n \in 0..l |-> IF n = 0 THEN Fresh ELSE Swept1(w[n - 1], n)] /\ w = u
    BY <1>8 DEF IsSweep, Swept1
  <1>10. \A n \in 0..l : w[n] = IF n = 0 THEN Fresh ELSE Swept1(w[n - 1], n)
    BY <1>9
  <1>11. ASSUME NEW n \in 1..l PROVE w[n] = Swept1(w[n - 1], n)
    BY <1>10
  <1> QED
    BY <1>10, <1>11 DEF Swept1

Involved(s, b, f, a, n) == UNION {Active(s, b, f, k) : k \in a..n}
IsPeak(s, b, f, p, a, n) ==
    /\ \E k \in a..n : Cardinality(Active(s, b, f, k)) = p
    /\ \A k \in a..n : Cardinality(Active(s, b, f, k)) <= p

\* A conflict tells what happens in a stretch.
Tells(s, ev, b, f, c, a, d) ==
    /\ Stretch(s, ev, b, f, a, d)
    /\ c.seg = s /\ c.start = ev[a].time /\ c.end = ev[d].time
    /\ c.trains = {o.train : o \in Involved(s, b, f, a, d - 1)}
    /\ IsPeak(s, b, f, c.peak, a, d - 1)

Since(s, ev, b, f, w, a, n) ==
    /\ a \in 1..n /\ ~Over(s, b, f, a - 1) /\ \A k \in a..n : Over(s, b, f, k)
    /\ w.from = ev[a].time /\ w.involved = Involved(s, b, f, a, n) /\ IsPeak(s, b, f, w.peak, a, n)

SweepInv(s, ev, b, f, w, n) ==
    /\ w = [active |-> w.active, from |-> w.from, peak |-> w.peak, involved |-> w.involved, found |-> w.found]
    /\ w.active = Active(s, b, f, n)
    /\ \/ ~Over(s, b, f, n) /\ w.from = Never /\ w.peak = 0 /\ w.involved = {}
       \/ \E a \in 1..n : Since(s, ev, b, f, w, a, n)
    /\ \A c \in w.found : \E a, d \in 1..Len(ev) : Tells(s, ev, b, f, c, a, d)
    /\ \A k \in 1..n : Over(s, b, f, k) =>
        \/ \A j \in k..n : Over(s, b, f, j)
        \/ \E c \in w.found : \E a, d \in 1..Len(ev) : Tells(s, ev, b, f, c, a, d) /\ k \in a..(d - 1)

\* One turn of the sweep finds out about one more change.
LEMMA SweepStep ==
    ASSUME scenario \in Scenarios, TakesTime, NEW s \in Segments, NEW ev, NEW b, NEW f, Sequenced(s, ev, b, f),
           NEW l \in Nat, l = Len(ev), NEW n \in Nat, n < l, NEW w, SweepInv(s, ev, b, f, w, n),
           NEW v, v = Swept(s, w, ev[n + 1])
    PROVE  SweepInv(s, ev, b, f, v, n + 1)
  <1> DEFINE A(k) == Active(s, b, f, k)
             O(k) == Over(s, b, f, k)
             active == IF ev[n + 1].start THEN w.active \cup {ev[n + 1].occ} ELSE w.active \ {ev[n + 1].occ}
             covered(found, k) == \E c \in found : \E a, d \in 1..l : Tells(s, ev, b, f, c, a, d) /\ k \in a..(d - 1)
  <1>1. PICK m \in 1..l : m = n + 1 /\ m - 1 = n
    OBVIOUS
  <1>2. active = A(m)
    <2>1. \A k \in 1..Len(ev) : ev[k].time \in Nat /\ ev[k].occ \in Occ(s) /\ TurnOf(ev[k]) \in 0..1
      BY ActiveStep
    <2>4. w.active = A(n)
      BY DEF SweepInv
    <2>5. CASE ev[m].start
      <3>1. TurnOf(ev[m]) = 1
        BY <2>5 DEF TurnOf
      <3> QED
        BY <1>1, <2>4, <2>5, <3>1, BeginAdds
    <2>6. CASE ~ev[m].start
      <3>1. TurnOf(ev[m]) = 0
        BY <2>6 DEF TurnOf
      <3> QED
        BY <1>1, <2>4, <2>6, <3>1, FinishRemoves
    <2> QED
      BY <2>5, <2>6
  <1>3. /\ \A k \in Nat : Cardinality(A(k)) \in Nat
        /\ Segment(s).capacity \in Nat /\ Segment(s).capacity > 0 /\ Never \notin Int
    <2>1. \A k \in Nat : IsFiniteSet(Active(s, b, f, k)) /\ Cardinality(Active(s, b, f, k)) \in Nat
      BY ActiveStep
    <2> QED
      BY <2>1, ScenarioTyping
  <1>4. \A k \in 1..l : ev[k].time # Never
    <2>1. \A k \in 1..Len(ev) : ev[k].time \in Nat /\ ev[k].occ \in Occ(s) /\ TurnOf(ev[k]) \in 0..1
      BY ActiveStep
    <2>2. \A x \in Nat : x # Never
      BY <1>3
    <2> QED
      BY <2>1, <2>2
  <1>5. /\ \/ ~O(n) /\ w.from = Never /\ w.peak = 0 /\ w.involved = {}
           \/ \E a \in 1..n : Since(s, ev, b, f, w, a, n)
        /\ \A c \in w.found : \E a, d \in 1..l : Tells(s, ev, b, f, c, a, d)
        /\ \A k \in 1..n : O(k) => (\A j \in k..n : O(j)) \/ covered(w.found, k)
    BY DEF SweepInv
  <1>6. CASE O(m)
    <2>1. Cardinality(active) > Segment(s).capacity
      BY <1>2, <1>6 DEF Over
    <2>2. v = [w EXCEPT !.active = A(m), !.involved = @ \cup A(m),
                        !.from = IF @ = Never THEN ev[m].time ELSE @,
                        !.peak = IF @ < Cardinality(A(m)) THEN Cardinality(A(m)) ELSE @]
      BY <1>1, <1>2, <2>1 DEF Swept
    <2>3. /\ v = [active |-> v.active, from |-> v.from, peak |-> v.peak, involved |-> v.involved, found |-> v.found]
          /\ v.active = A(m) /\ v.involved = w.involved \cup A(m) /\ v.found = w.found
          /\ v.from = IF w.from = Never THEN ev[m].time ELSE w.from
          /\ v.peak = IF w.peak < Cardinality(A(m)) THEN Cardinality(A(m)) ELSE w.peak
      <3>1. PICK ac, fr, pk, inv, fd :
                /\ w = [active |-> ac, from |-> fr, peak |-> pk, involved |-> inv, found |-> fd]
                /\ ac = w.active /\ fr = w.from /\ pk = w.peak /\ inv = w.involved /\ fd = w.found
        BY DEF SweepInv
      <3>2. v = [active |-> A(m), from |-> IF fr = Never THEN ev[m].time ELSE fr,
                 peak |-> IF pk < Cardinality(A(m)) THEN Cardinality(A(m)) ELSE pk,
                 involved |-> inv \cup A(m), found |-> fd]
        BY <2>2, <3>1
      <3> QED
        BY <3>1, <3>2
    <2>4. \E a \in 1..m : Since(s, ev, b, f, v, a, m)
      <3>1. CASE ~O(n) /\ w.from = Never /\ w.peak = 0 /\ w.involved = {}
        <4>1. Cardinality(A(m)) > 0 /\ Cardinality(A(m)) \in Nat
          <5>1. m \in Nat
            OBVIOUS
          <5> HIDE DEF A, active
          <5>3. Cardinality(A(m)) > Segment(s).capacity
            BY <1>2, <2>1
          <5>4. Segment(s).capacity \in Nat /\ Segment(s).capacity > 0
            BY ScenarioTyping
          <5>2. Cardinality(A(m)) \in Nat
            BY <1>3, <5>1
          <5> QED
            BY <5>2, <5>3, <5>4
        <4>2. v.from = ev[m].time /\ v.peak = Cardinality(A(m)) /\ v.involved = A(m)
          BY <2>3, <3>1, <4>1
        <4>3. \A k : k \in m..m <=> k = m
          OBVIOUS
        <4>4. Involved(s, b, f, m, m) = A(m)
          BY <4>3 DEF Involved
        <4>5. IsPeak(s, b, f, v.peak, m, m)
          BY <1>3, <4>2, <4>3 DEF IsPeak
        <4>6. Since(s, ev, b, f, v, m, m)
          BY <1>1, <1>6, <3>1, <4>2, <4>3, <4>4, <4>5 DEF Since
        <4> QED
          BY <4>6
      <3>2. ASSUME NEW a \in 1..n, Since(s, ev, b, f, w, a, n) PROVE Since(s, ev, b, f, v, a, m)
        <4>1. /\ ~O(a - 1) /\ (\A k \in a..n : O(k)) /\ w.from = ev[a].time
              /\ w.involved = Involved(s, b, f, a, n) /\ IsPeak(s, b, f, w.peak, a, n)
          BY <3>2 DEF Since
        <4>2. \A k : k \in a..m <=> k \in a..n \/ k = m
          BY <1>1
        <4>3. v.from = ev[a].time
          BY <1>1, <1>4, <2>3, <4>1
        <4>4. Involved(s, b, f, a, m) = v.involved
          BY <2>3, <4>1, <4>2 DEF Involved
        <4>5. IsPeak(s, b, f, v.peak, a, m)
          <5>1. PICK h \in a..n : Cardinality(A(h)) = w.peak
            BY <4>1 DEF IsPeak
          <5>2. \A k \in a..n : Cardinality(A(k)) <= w.peak
            BY <4>1 DEF IsPeak
          <5>3. w.peak \in Nat /\ Cardinality(A(m)) \in Nat
            <6> HIDE DEF A
            <6>1. h \in Nat /\ m \in Nat
              OBVIOUS
            <6> QED
              BY <1>3, <5>1, <6>1
          <5>4. \A k \in a..m : Cardinality(A(k)) \in Nat
            <6> HIDE DEF A
            <6>1. \A k \in a..m : k \in Nat
              OBVIOUS
            <6> QED
              BY <1>3, <6>1
          <5>5. \A k \in a..m : Cardinality(A(k)) <= v.peak
            BY <2>3, <4>2, <5>2, <5>3, <5>4
          <5>6. \E k \in a..m : Cardinality(A(k)) = v.peak
            BY <2>3, <4>2, <5>1
          <5> QED
            BY <5>5, <5>6 DEF IsPeak
        <4>6. \A k \in a..m : O(k)
          BY <1>6, <4>1, <4>2
        <4> QED
          BY <1>1, <4>1, <4>3, <4>4, <4>5, <4>6 DEF Since
      <3> QED
        BY <1>1, <1>5, <3>1, <3>2
    <2>5. ASSUME NEW k \in 1..m, O(k) PROVE (\A j \in k..m : O(j)) \/ covered(v.found, k)
      <3>1. CASE k = m
        BY <1>6, <3>1
      <3>2. CASE k \in 1..n
        <4>1. (\A j \in k..n : O(j)) \/ covered(w.found, k)
          BY <1>5, <2>5, <3>2
        <4>2. \A j \in k..m : j \in k..n \/ j = m
          BY <1>1
        <4> HIDE DEF O
        <4> QED
          BY <1>6, <2>3, <4>1, <4>2
      <3> QED
        BY <1>1, <3>1, <3>2
    <2> QED
      BY <1>1, <1>5, <2>3, <2>4, <2>5 DEF SweepInv
  <1>7. CASE ~O(m)
    <2> DEFINE closed == IF w.from = Never THEN {}
                         ELSE {MakeConflict(s, w.from, ev[m].time, w.involved, w.peak)}
    <2>1. ~(Cardinality(active) > Segment(s).capacity)
      BY <1>2, <1>7 DEF Over
    <2>2. v = [active |-> A(m), from |-> Never, peak |-> 0, involved |-> {}, found |-> w.found \cup closed]
      BY <1>1, <1>2, <2>1 DEF Swept
    <2>3. /\ v = [active |-> v.active, from |-> v.from, peak |-> v.peak, involved |-> v.involved, found |-> v.found]
          /\ v.active = A(m) /\ v.from = Never /\ v.peak = 0 /\ v.involved = {}
          /\ v.found = w.found \cup closed
      BY <2>2
    <2>4. CASE ~O(n) /\ w.from = Never
      <3>1. v.found = w.found
        BY <2>3, <2>4
      <3>2. ASSUME NEW k \in 1..m, O(k) PROVE covered(v.found, k)
        <4>1. k # m
          BY <1>7, <3>2
        <4>2. k \in 1..n /\ n \in k..n
          BY <1>1, <4>1
        <4> HIDE DEF O
        <4> QED
          BY <1>5, <2>4, <3>1, <3>2, <4>2
      <3>3. \A c \in v.found : \E a, d \in 1..l : Tells(s, ev, b, f, c, a, d)
        BY <3>1 DEF SweepInv
      <3>4. ~Over(s, b, f, m) /\ v.active = Active(s, b, f, m)
        BY <1>7, <2>3
      <3>5. \A k \in 1..m : O(k) => covered(v.found, k)
        BY <3>2
      <3> QED
        BY <1>1, <2>3, <3>3, <3>4, <3>5 DEF SweepInv
    <2>5. ASSUME NEW a \in 1..n, Since(s, ev, b, f, w, a, n) PROVE SweepInv(s, ev, b, f, v, m)
      <3>1. /\ ~O(a - 1) /\ (\A k \in a..n : O(k)) /\ w.from = ev[a].time
            /\ w.involved = Involved(s, b, f, a, n) /\ IsPeak(s, b, f, w.peak, a, n)
        BY <2>5 DEF Since
      <3>2. PICK c : c = MakeConflict(s, w.from, ev[m].time, w.involved, w.peak)
        OBVIOUS
      <3>3. v.found = w.found \cup {c}
        BY <1>1, <1>4, <2>3, <3>1, <3>2
      <3>4. Tells(s, ev, b, f, c, a, m)
        <4>1. Stretch(s, ev, b, f, a, m)
          BY <1>1, <1>7, <3>1 DEF Stretch
        <4> QED
          BY <1>1, <3>1, <3>2, <4>1 DEF Tells, MakeConflict
      <3>5. ASSUME NEW k \in 1..m, O(k) PROVE covered(v.found, k)
        <4>1. k # m
          BY <1>7, <3>5
        <4>2. k \in 1..n
          BY <1>1, <4>1
        <4>3. (\A j \in k..n : O(j)) \/ covered(w.found, k)
          BY <1>5, <3>5, <4>2
        <4>4. CASE covered(w.found, k)
          BY <3>3, <4>4
        <4>5. CASE \A j \in k..n : O(j)
          <5>1. a <= k
            <6> SUFFICES ASSUME k < a PROVE FALSE
              BY <4>2
            <6>1. a - 1 \in k..n
              BY <4>2
            <6> QED
              BY <3>1, <4>5, <6>1
          <5>2. k \in a..(m - 1) /\ a \in 1..l
            BY <1>1, <4>2, <5>1
          <5> QED
            BY <3>3, <3>4, <5>2
        <4> QED
          BY <4>3, <4>4, <4>5
      <3>6. \A x \in v.found : \E y, z \in 1..l : Tells(s, ev, b, f, x, y, z)
        <4>1. a \in 1..l
          BY <1>1
        <4> QED
          BY <1>5, <3>3, <3>4, <4>1
      <3> QED
        BY <1>7, <2>3, <3>5, <3>6 DEF SweepInv
    <2>6. SweepInv(s, ev, b, f, v, m)
      BY <1>1, <1>5, <2>4, <2>5
    <2> QED
      BY <1>1, <2>6
  <1> QED
    BY <1>6, <1>7

\* So all stretches are found, and nothing else.
LEMMA SweepFinds ==
    ASSUME scenario \in Scenarios, TakesTime, NEW s \in Segments, NEW ev, ev = Course(s),
           NEW b, NEW f, Sequenced(s, ev, b, f), NEW found, found = DetectOnSegment(s, Occ(s))
    PROVE  /\ \A c \in found : \E a, d \in 1..Len(ev) : Tells(s, ev, b, f, c, a, d)
           /\ \A k \in 1..Len(ev) : Over(s, b, f, k) =>
                \E c \in found : \E a, d \in 1..Len(ev) : Tells(s, ev, b, f, c, a, d) /\ k \in a..(d - 1)
  <1>1. PICK l \in Nat : l = Len(ev)
    BY DEF Sequenced
  <1>2. PICK w : w = TheSweep(s, ev)
    OBVIOUS
  <1>3. found = w[l].found
    <2>1. DetectOnSegment(s, Occ(s)) = TheSweep(s, Course(s))[Len(Course(s))].found
      BY DEF DetectOnSegment, TheSweep, IsSweep, Fresh, Course, Changes, Begin, Finish, Sorted
    <2> QED
      BY <1>1, <1>2, <2>1
  <1>4. w[0] = Fresh /\ \A n \in 1..l : w[n] = Swept(s, w[n - 1], ev[n])
    BY <1>1, <1>2, SweepRuns
  <1> DEFINE K == {n \in Nat : n <= l => SweepInv(s, ev, b, f, w[n], n)}
  <1>5. 0 \in K
    <2>1. /\ w[0].active = {} /\ w[0].from = Never /\ w[0].peak = 0 /\ w[0].involved = {} /\ w[0].found = {}
          /\ w[0] = [active |-> w[0].active, from |-> w[0].from, peak |-> w[0].peak,
                     involved |-> w[0].involved, found |-> w[0].found]
      BY <1>4 DEF Fresh
    <2>2. Active(s, b, f, 0) = {} /\ ~Over(s, b, f, 0)
      <3>1. Active(s, b, f, 0) = {}
        BY ActiveStep
      <3>2. Segment(s).capacity \in Nat
        BY ScenarioTyping
      <3> QED
        BY <3>1, <3>2, FS_EmptySet DEF Over
    <2>3. SweepInv(s, ev, b, f, w[0], 0)
      BY <2>1, <2>2 DEF SweepInv
    <2> QED
      BY <2>3
  <1>6. ASSUME NEW n \in Nat, n \in K PROVE n + 1 \in K
    <2> SUFFICES ASSUME n + 1 <= l PROVE SweepInv(s, ev, b, f, w[n + 1], n + 1)
      OBVIOUS
    <2>1. n < l /\ SweepInv(s, ev, b, f, w[n], n)
      BY <1>6
    <2>2. n + 1 \in 1..l /\ (n + 1) - 1 = n
      OBVIOUS
    <2>3. w[n + 1] = Swept(s, w[n], ev[n + 1])
      BY <1>4, <2>2
    <2> QED
      BY <1>1, <2>1, <2>3, SweepStep
  <1> HIDE DEF K
  <1>7. Nat \subseteq K
    BY <1>5, <1>6, NumbersReached
  <1>8. SweepInv(s, ev, b, f, w[l], l)
    BY <1>7 DEF K
  <1>9. ~Over(s, b, f, l)
    <2>1. Active(s, b, f, l) = {}
      BY <1>1, ActiveStep
    <2>2. Segment(s).capacity \in Nat
      BY ScenarioTyping
    <2> QED
      BY <2>1, <2>2, FS_EmptySet DEF Over
  <1>10. \A k \in 1..l : l \in k..l
    OBVIOUS
  <1>11. \A c \in found : \E a, d \in 1..Len(ev) : Tells(s, ev, b, f, c, a, d)
    BY <1>3, <1>8 DEF SweepInv
  <1>12. ASSUME NEW k \in 1..l, Over(s, b, f, k)
         PROVE  \E c \in found : \E a, d \in 1..Len(ev) : Tells(s, ev, b, f, c, a, d) /\ k \in a..(d - 1)
    <2>1. \/ \A j \in k..l : Over(s, b, f, j)
          \/ \E c \in w[l].found : \E a, d \in 1..Len(ev) : Tells(s, ev, b, f, c, a, d) /\ k \in a..(d - 1)
      BY <1>8, <1>12 DEF SweepInv
    <2> QED
      BY <1>3, <1>9, <1>10, <2>1
  <1> QED
    BY <1>1, <1>11, <1>12

\* The instants at which claims change, those with too many claims to s, and
\* those of them that a conflict spans.
Instants == {o.enter : o \in PlannedOccupations} \cup {o.exit + Segment(o.seg).headway : o \in PlannedOccupations}
Crowded(s) == {x \in Instants : Cardinality(Claim(s, x)) > Segment(s).capacity}
During(s, c) == {x \in Crowded(s) : c.start <= x /\ x < c.end}

\* A conflict has begun when there are too many claims, and tells by whom.
Truthful(s, c) ==
    /\ c.start \in During(s, c) /\ c.end \in Instants
    /\ c.trains = {o.train : o \in UNION {Claim(s, x) : x \in During(s, c)}}
    /\ \A x \in During(s, c) : Cardinality(Claim(s, x)) <= c.peak
    /\ \E x \in During(s, c) : Cardinality(Claim(s, x)) = c.peak

\* Changes are at instants.
LEMMA ChangesAtInstants ==
    ASSUME scenario \in Scenarios, TakesTime, NEW s \in Segments, NEW ev, NEW b, NEW f, Sequenced(s, ev, b, f)
    PROVE  Instants \subseteq Nat /\ \A i \in 1..Len(ev) : ev[i].time \in Instants
  <1>1. Instants \subseteq Nat
    <2>1. ASSUME NEW o \in PlannedOccupations PROVE o.enter \in Nat /\ o.exit + Segment(o.seg).headway \in Nat
      <3>1. o.enter \in Nat /\ o.exit \in Nat /\ o.seg \in Segments
        BY OccupationsDiffer
      <3>2. Segment(o.seg).headway \in Nat
        BY <3>1, ScenarioTyping
      <3> QED
        BY <3>1, <3>2
    <2> QED
      BY <2>1 DEF Instants
  <1>2. ASSUME NEW i \in 1..Len(ev) PROVE ev[i].time \in Instants
    <2>1. PICK o \in Occ(s) : i = b[o] \/ i = f[o]
      BY DEF Sequenced
    <2>2. ev[b[o]] = Begin(o) /\ ev[f[o]] = Finish(s, o)
      BY DEF Sequenced
    <2>3. Begin(o).time = o.enter /\ Finish(s, o).time = o.exit + Segment(o.seg).headway
      BY DEF Begin, Finish, Occ
    <2>4. o \in PlannedOccupations
      BY DEF Occ
    <2> QED
      BY <2>1, <2>2, <2>3, <2>4 DEF Instants
  <1> QED
    BY <1>1, <1>2

\* What a conflict tells is true.
LEMMA ConflictTruthful ==
    ASSUME scenario \in Scenarios, TakesTime, NEW s \in Segments, NEW ev, NEW b, NEW f, Sequenced(s, ev, b, f),
           NEW c, NEW a, NEW d, Tells(s, ev, b, f, c, a, d)
    PROVE  Truthful(s, c)
  <1>1. /\ Stretch(s, ev, b, f, a, d) /\ c.start = ev[a].time /\ c.end = ev[d].time
        /\ c.trains = {o.train : o \in Involved(s, b, f, a, d - 1)}
        /\ IsPeak(s, b, f, c.peak, a, d - 1)
    BY DEF Tells
  <1>2. PICK l \in Nat : l = Len(ev)
    BY DEF Sequenced
  <1>3. a \in 1..l /\ d \in 1..l /\ a < d /\ \A k \in a..(d - 1) : Over(s, b, f, k)
    BY <1>1, <1>2 DEF Stretch
  <1>4. ev[a].time < ev[d].time /\ ev[a].time \in Nat /\ ev[d].time \in Nat
    BY <1>1, StretchEnds
  <1>5. Instants \subseteq Nat /\ \A i \in 1..l : ev[i].time \in Instants
    BY <1>2, ChangesAtInstants
  <1>6. ASSUME NEW x \in During(s, c) PROVE \E n \in a..(d - 1) : Claim(s, x) = Active(s, b, f, n)
    <2>1. x \in Int /\ ev[a].time <= x /\ x < ev[d].time
      BY <1>1, <1>5 DEF During, Crowded
    <2>2. PICK n \in Nat : UpTo(ev, x, n) /\ Claim(s, x) = Active(s, b, f, n)
      BY <2>1, ClaimsActive
    <2>3. n \in a..(d - 1)
      BY <1>1, <2>1, <2>2, StretchInstants
    <2> QED
      BY <2>2, <2>3
  <1>7. ASSUME NEW x \in Instants, NEW n \in a..(d - 1), UpTo(ev, x, n)
        PROVE  x \in During(s, c) /\ Claim(s, x) = Active(s, b, f, n)
    <2>1. x \in Int
      BY <1>5
    <2>2. ev[a].time <= x /\ x < ev[d].time
      BY <1>1, <1>7, <2>1, StretchInstants
    <2>3. PICK m \in Nat : UpTo(ev, x, m) /\ Claim(s, x) = Active(s, b, f, m)
      BY <2>1, ClaimsActive
    <2>4. m = n
      <3>1. /\ m \in 0..l /\ n \in 0..l
            /\ \A i \in 1..l : (i <= n <=> ev[i].time <= x) /\ (i <= m <=> ev[i].time <= x)
        BY <1>2, <1>7, <2>3 DEF UpTo
      <3>2. ~(n < m)
        <4> SUFFICES ASSUME n < m PROVE FALSE
          OBVIOUS
        <4>1. m \in 1..l /\ m <= m
          BY <3>1
        <4> QED
          BY <3>1, <4>1
      <3>3. ~(m < n)
        <4> SUFFICES ASSUME m < n PROVE FALSE
          OBVIOUS
        <4>1. n \in 1..l /\ n <= n
          BY <3>1
        <4> QED
          BY <3>1, <4>1
      <3> QED
        BY <3>1, <3>2, <3>3
    <2>5. Cardinality(Claim(s, x)) > Segment(s).capacity
      BY <1>3, <2>3, <2>4 DEF Over
    <2> QED
      BY <1>1, <2>2, <2>3, <2>4, <2>5 DEF During, Crowded
  <1>8. c.start \in During(s, c)
    <2>1. ev[a].time \in Int
      BY <1>4
    <2>2. PICK n \in Nat : UpTo(ev, ev[a].time, n)
      BY <2>1, ClaimsActive
    <2>3. n \in a..(d - 1)
      <3>1. ev[a].time <= ev[a].time /\ ev[a].time < ev[d].time
        BY <1>4
      <3> QED
        BY <1>1, <2>1, <2>2, <3>1, StretchInstants
    <2> QED
      BY <1>1, <1>3, <1>5, <1>7, <2>2, <2>3
  <1>9. ASSUME NEW k \in a..(d - 1)
        PROVE  \E x \in During(s, c) : Active(s, b, f, k) \subseteq Claim(s, x)
    <2>1. PICK i \in 1..l, n \in a..(d - 1) :
                UpTo(ev, ev[i].time, n) /\ Active(s, b, f, k) \subseteq Active(s, b, f, n)
      BY <1>1, <1>2, StretchCovered
    <2> QED
      BY <1>5, <1>7, <2>1
  <1>10. UNION {Claim(s, x) : x \in During(s, c)} = Involved(s, b, f, a, d - 1)
    <2>1. Involved(s, b, f, a, d - 1) \subseteq UNION {Claim(s, x) : x \in During(s, c)}
      BY <1>9 DEF Involved
    <2>2. UNION {Claim(s, x) : x \in During(s, c)} \subseteq Involved(s, b, f, a, d - 1)
      BY <1>6 DEF Involved
    <2> QED
      BY <2>1, <2>2
  <1>11. \A x \in During(s, c) : Cardinality(Claim(s, x)) <= c.peak
    BY <1>1, <1>6 DEF IsPeak
  <1>12. \E x \in During(s, c) : Cardinality(Claim(s, x)) = c.peak
    <2>1. PICK k \in a..(d - 1) : Cardinality(Active(s, b, f, k)) = c.peak
      BY <1>1 DEF IsPeak
    <2>2. PICK x \in During(s, c) : Active(s, b, f, k) \subseteq Claim(s, x)
      BY <1>9
    <2>3. PICK n \in a..(d - 1) : Claim(s, x) = Active(s, b, f, n)
      BY <1>6
    <2>4. IsFiniteSet(Claim(s, x))
      BY <2>3, <1>3, OccupationsDiffer, FS_Subset DEF Active, Occ
    <2>5. Cardinality(Active(s, b, f, k)) <= Cardinality(Claim(s, x))
      BY <2>2, <2>4, FS_Subset
    <2>6. Cardinality(Claim(s, x)) \in Nat /\ c.peak \in Nat
      <3>1. IsFiniteSet(Active(s, b, f, k))
        BY <2>2, <2>4, FS_Subset
      <3> QED
        BY <2>1, <2>4, <3>1, FS_CardinalityType
    <2>7. Cardinality(Claim(s, x)) <= c.peak
      BY <1>11
    <2> QED
      BY <2>1, <2>5, <2>6, <2>7
  <1>13. c.end \in Instants
    BY <1>1, <1>3, <1>5
  <1> QED
    BY <1>1, <1>8, <1>10, <1>11, <1>12, <1>13 DEF Truthful

\* Every instant with too many claims is in a conflict, and no other.
LEMMA ConflictsForetell ==
    ASSUME scenario \in Scenarios, TakesTime, NEW s \in Segments
    PROVE  LET found == {c \in DetectConflicts : c.seg = s}
           IN /\ Crowded(s) = {x \in Instants : \E c \in found : c.start <= x /\ x < c.end}
              /\ \A c \in found : Truthful(s, c)
  <1> DEFINE found == {c \in DetectConflicts : c.seg = s}
  <1>1. \A r \in Segments : \A c \in DetectOnSegment(r, Occ(r)) : c.seg = r /\ Truthful(r, c)
    <2> SUFFICES ASSUME NEW r \in Segments, NEW c \in DetectOnSegment(r, Occ(r))
                 PROVE  c.seg = r /\ Truthful(r, c)
      OBVIOUS
    <2>1. PICK ev, b, f : ev = Course(r) /\ Sequenced(r, ev, b, f)
      BY CourseSequenced
    <2>2. PICK a, d \in 1..Len(ev) : Tells(r, ev, b, f, c, a, d)
      BY <2>1, SweepFinds
    <2> QED
      BY <2>1, <2>2, ConflictTruthful DEF Tells
  <1>2. DetectConflicts = UNION {DetectOnSegment(r, Occ(r)) : r \in Segments}
    BY DEF DetectConflicts, Occ
  <1>3. found = DetectOnSegment(s, Occ(s))
    BY <1>1, <1>2
  <1>4. PICK ev, b, f : ev = Course(s) /\ Sequenced(s, ev, b, f)
    BY CourseSequenced
  <1>5. PICK l \in Nat : l = Len(ev)
    BY <1>4 DEF Sequenced
  <1>6. Instants \subseteq Nat
    BY <1>4, ChangesAtInstants
  <1>7. ASSUME NEW x \in Crowded(s) PROVE \E c \in found : c.start <= x /\ x < c.end
    <2>1. x \in Int /\ Cardinality(Claim(s, x)) > Segment(s).capacity
      BY <1>6 DEF Crowded
    <2>2. PICK n \in Nat : UpTo(ev, x, n) /\ Claim(s, x) = Active(s, b, f, n)
      BY <1>4, <2>1, ClaimsActive
    <2>3. Over(s, b, f, n)
      BY <2>1, <2>2 DEF Over
    <2>4. n \in 1..l
      <3>1. n \in 0..l
        BY <1>5, <2>2 DEF UpTo
      <3>2. n # 0
        <4> SUFFICES ASSUME n = 0 PROVE FALSE
          OBVIOUS
        <4>1. Active(s, b, f, 0) = {}
          BY <1>4, ActiveStep
        <4>2. Segment(s).capacity \in Nat
          BY ScenarioTyping
        <4> QED
          BY <2>3, <4>1, <4>2, FS_EmptySet DEF Over
      <3> QED
        BY <3>1, <3>2
    <2>5. PICK c \in found, a \in 1..l, d \in 1..l : Tells(s, ev, b, f, c, a, d) /\ n \in a..(d - 1)
      <3>1. \A k \in 1..Len(ev) : Over(s, b, f, k) =>
                \E c \in found : \E a, d \in 1..Len(ev) : Tells(s, ev, b, f, c, a, d) /\ k \in a..(d - 1)
        <4> HIDE DEF found
        <4> QED
          BY <1>3, <1>4, SweepFinds
      <3> QED
        BY <1>5, <2>3, <2>4, <3>1
    <2>6. ev[a].time <= x /\ x < ev[d].time
      BY <1>4, <2>1, <2>2, <2>5, StretchInstants DEF Tells
    <2> QED
      BY <2>5, <2>6 DEF Tells
  <1>8. ASSUME NEW x \in Instants, NEW c \in found, c.start <= x, x < c.end PROVE x \in Crowded(s)
    <2>1. PICK a, d \in 1..Len(ev) : Tells(s, ev, b, f, c, a, d)
      BY <1>3, <1>4, SweepFinds
    <2>2. PICK n \in Nat : UpTo(ev, x, n) /\ Claim(s, x) = Active(s, b, f, n)
      BY <1>4, <1>6, ClaimsActive
    <2>3. n \in a..(d - 1)
      BY <1>4, <1>6, <1>8, <2>1, <2>2, StretchInstants DEF Tells
    <2>4. Over(s, b, f, n)
      BY <2>1, <2>3 DEF Tells, Stretch
    <2> QED
      BY <2>2, <2>4 DEF Crowded, Over
  <1>9. Crowded(s) = {x \in Instants : \E c \in found : c.start <= x /\ x < c.end}
    <2>1. Crowded(s) \subseteq Instants
      BY DEF Crowded
    <2> HIDE DEF found
    <2> QED
      BY <1>7, <1>8, <2>1
  <1>10. \A c \in found : Truthful(s, c)
    BY <1>1, <1>3
  <1> QED
    BY <1>9, <1>10

-----------------------------------------------------------------------------
(***************************************************************************)
(* The run of a plan without conflicts.                                    *)
(***************************************************************************)
Smooth ==
    /\ TakesTime /\ scenario.closures = <<>> /\ DetectConflicts = {}
    /\ \A s \in Segments : Segment(s).capacity = 1 \/ Segment(s).headway = 0

Recorded(r, t, i) ==
    r.train = t /\ r.seg = Ahead(t, i) /\ r.enter = PlannedEntry(t)[i] /\ r.exit = PlannedExit(t, i)

OnPlan(f) ==
    /\ f.event.kind = "ready" => f.time = PlannedEntry(f.event.train)[f.event.step]
    /\ f.event.kind = "arrive" => f.time = PlannedExit(f.event.train, f.event.step - 1)

\* Whoever waits is due now.
QueuesPlanned == \A s \in Segments : \A r \in waiting[s] : PlannedEntry(r.train)[r.step] = now

\* Every leg behind a train is recorded as planned, and nothing else is.
RecordsPlanned ==
    /\ \A r \in Range(occupations) :
        /\ r.exit <= now
        /\ \E t \in Trains, i \in Nat : i \in DOMAIN Path(t) /\ ~IsLast(t, i) /\ Recorded(r, t, i)
    /\ \A t \in Trains : \A i \in Nat : i < Cardinality(Arrivals(t)) =>
        \E r \in Range(occupations) : Recorded(r, t, i)

\* The last entry to a segment is an entry.
LastsEntered ==
    \A s \in Segments : lastEntry[s] # Never =>
        lastEntry[s] <= now /\ \E t \in Trains : <<t, lastEntry[s]>> \in EntriesTo(s)

PlanInv == (\A f \in heap : OnPlan(f)) /\ QueuesPlanned /\ RecordsPlanned /\ LastsEntered

\* A train on a segment has entered it, and will leave it, as planned.
LEMMA OpenPlanned ==
    ASSUME MesoInv, PlanInv, NEW o \in open
    PROVE  \E i \in Nat, f \in heap :
                /\ i \in DOMAIN Path(o.train) /\ ~IsLast(o.train, i)
                /\ o.train \in Trains /\ o.seg = Ahead(o.train, i) /\ o.enter = PlannedEntry(o.train)[i]
                /\ Opens(o.train) = {o} /\ f.time = PlannedExit(o.train, i)
  <1>1. PICK t \in Trains : t = o.train /\ o \in Opens(t)
    BY DEF MesoInv, LayerTyped, Openings, Opens
  <1>2. PICK i \in DOMAIN Path(t) :
            /\ Reached(t, i)
            /\ AtStation(t, i) \/ InQueue(t, i) \/ UnderWay(t, i) \/ AtEnd(t, i)
    BY DEF MesoInv, Placed
  <1>3. ~IsLast(t, i) /\ \E f \in heap, p \in open :
            /\ Moves(t) = {f} /\ Opens(t) = {p} /\ f.event = TrainEvent("arrive", t, i + 1)
            /\ p.seg = Ahead(t, i) /\ f.time = p.enter + Segment(p.seg).running
    BY <1>1, <1>2 DEF AtStation, InQueue, AtEnd, UnderWay
  <1>4. PICK f \in heap :
            /\ Opens(t) = {o} /\ f.event = TrainEvent("arrive", t, i + 1)
            /\ o.seg = Ahead(t, i) /\ f.time = o.enter + Segment(o.seg).running
    BY <1>1, <1>3
  <1>5. i \in Nat /\ o.enter \in Nat /\ PlannedEntry(t)[i] \in Nat /\ Segment(Ahead(t, i)).running \in Nat
    BY <1>1, <1>2, <1>3, ScenarioTyping, PlanTimes DEF MesoInv, LayerTyped, Openings
  <1>6. f.time = PlannedExit(t, i)
    <2>1. f.event.kind = "arrive" /\ f.event.train = t /\ f.event.step = i + 1
      BY <1>4 DEF TrainEvent
    <2>2. f.time = PlannedExit(t, f.event.step - 1)
      BY <2>1 DEF PlanInv, OnPlan
    <2>3. (i + 1) - 1 = i
      BY <1>5
    <2> QED
      BY <2>1, <2>2, <2>3
  <1>7. o.enter = PlannedEntry(t)[i]
    <2>1. o.enter + Segment(Ahead(t, i)).running = PlannedEntry(t)[i] + Segment(Ahead(t, i)).running
      BY <1>4, <1>6 DEF PlannedExit
    <2> QED
      BY <1>5, <2>1
  <1> QED
    BY <1>1, <1>2, <1>3, <1>4, <1>5, <1>6, <1>7

\* The occupation of a train that waits, at the time it waits.
LEMMA WaiterPlanned ==
    ASSUME MesoInv, PlanInv, Smooth, NEW s \in Segments, NEW r \in waiting[s]
    PROVE  \E p \in Claim(s, now) : p.train = r.train /\ p.enter = now /\ now \in Instants
  <1>1. scenario \in Scenarios /\ TakesTime
    BY DEF MesoInv, LayerTyped, Smooth
  <1>2. PICK t \in Trains, i \in Nat :
            /\ t = r.train /\ i = r.step /\ i \in DOMAIN Path(t) /\ ~IsLast(t, i) /\ Ahead(t, i) = s
    <2>1. /\ r.train \in Trains /\ r.step \in DOMAIN Path(r.train) /\ ~IsLast(r.train, r.step)
          /\ Ahead(r.train, r.step) = s
      BY AskerPlace
    <2>2. r.step \in Nat
      BY <1>1, <2>1, ScenarioTyping
    <2> QED
      BY <2>1, <2>2
  <1>3. PICK p \in PlannedOccupations : p = PlannedAt(t, i)
    BY <1>1, <1>2, OccupationsPlanned
  <1>4. p.train = t /\ p.seg = s /\ p.enter = PlannedEntry(t)[i]
    BY <1>2, <1>3 DEF PlannedAt
  <1>5. p.enter = now
    BY <1>2, <1>4 DEF PlanInv, QueuesPlanned
  <1>6. p.enter \in Nat /\ p.exit \in Nat /\ p.enter < p.exit /\ Segment(s).headway \in Nat
    BY <1>1, OccupationsDiffer, ScenarioTyping
  <1>7. p \in Claim(s, now)
    BY <1>4, <1>5, <1>6 DEF Claim
  <1> QED
    BY <1>2, <1>4, <1>5, <1>7 DEF Instants

\* Nobody waits while time passes: whoever did would be one claim too many.
LEMMA NobodyWaits ==
    ASSUME MesoInv, PlanInv, Smooth, NEW s \in Segments, \A f \in heap : now < f.time
    PROVE  waiting[s] = {}
  <1> SUFFICES ASSUME NEW r \in waiting[s] PROVE FALSE
    OBVIOUS
  <1>1. scenario \in Scenarios /\ TakesTime /\ now \in Nat
    BY DEF MesoInv, LayerTyped, Smooth, QueueOf
  <1>2. /\ Segment(s).capacity \in Nat /\ Segment(s).headway \in Nat /\ Never \notin Int
        /\ Segment(s).capacity = 1 \/ Segment(s).headway = 0
    BY <1>1, ScenarioTyping DEF Smooth
  <1>3. PICK p \in Claim(s, now) : p.train = r.train /\ p.enter = now /\ now \in Instants
    BY WaiterPlanned
  <1>4. IsFiniteSet(Claim(s, now)) /\ Cardinality(Claim(s, now)) \in Nat
    <2>1. IsFiniteSet(PlannedOccupations) /\ Claim(s, now) \in SUBSET PlannedOccupations
      BY <1>1, OccupationsDiffer DEF Claim
    <2>2. IsFiniteSet(Claim(s, now))
      BY <2>1, FS_Subset
    <2> QED
      BY <2>2, FS_CardinalityType
  <1>5. Cardinality(Claim(s, now)) <= Segment(s).capacity
    <2>1. {c \in DetectConflicts : c.seg = s} = {}
      BY DEF Smooth
    <2>2. Crowded(s) = {}
      <3>1. Crowded(s) = {x \in Instants : \E c \in {d \in DetectConflicts : d.seg = s} : c.start <= x /\ x < c.end}
        BY <1>1, ConflictsForetell
      <3> QED
        BY <2>1, <3>1
    <2>3. now \in Instants
      BY <1>3
    <2> QED
      BY <1>2, <1>4, <2>2, <2>3 DEF Crowded
  <1>6. ASSUME NEW o \in open, o.seg = s
        PROVE  \E q \in Claim(s, now) : q.train = o.train /\ q.enter = o.enter /\ q # p
    <2>1. PICK i \in Nat, f \in heap :
                /\ i \in DOMAIN Path(o.train) /\ ~IsLast(o.train, i)
                /\ o.train \in Trains /\ o.seg = Ahead(o.train, i) /\ o.enter = PlannedEntry(o.train)[i]
                /\ Opens(o.train) = {o} /\ f.time = PlannedExit(o.train, i)
      BY OpenPlanned
    <2>2. PICK q \in PlannedOccupations : q = PlannedAt(o.train, i)
      BY <1>1, <2>1, OccupationsPlanned
    <2>3. q.train = o.train /\ q.seg = s /\ q.enter = o.enter /\ q.exit = f.time
      BY <1>6, <2>1, <2>2 DEF PlannedAt
    <2>4. q.enter \in Nat /\ q.exit \in Nat /\ now < q.exit
      BY <1>1, <2>3, OccupationsDiffer
    <2>5. o.enter <= now
      <3>1. \E x \in Segments : lastEntry[x] # Never /\ o.enter <= lastEntry[x] /\ lastEntry[x] <= now
                                 /\ lastEntry[x] \in Nat
        <4>1. <<o.train, o.enter>> \in EntriesTo(s)
          BY <1>6 DEF EntriesTo, On
        <4>2. lastEntry[s] \in Nat /\ o.enter <= lastEntry[s]
          <5>1. \A y \in EntriesTo(s) : lastEntry[s] \in Nat /\ y[2] <= lastEntry[s]
            BY DEF MesoInv, Spaced
          <5> QED
            BY <4>1, <5>1
        <4>3. lastEntry[s] # Never
          BY <1>2, <4>2
        <4> QED
          BY <4>2, <4>3 DEF PlanInv, LastsEntered
      <3> QED
        BY <1>1, <2>3, <2>4, <3>1
    <2>6. q \in Claim(s, now)
      BY <1>1, <1>2, <2>3, <2>4, <2>5 DEF Claim
    <2>7. q # p
      <3>1. Opens(r.train) = {}
        BY AskerPlace
      <3> QED
        BY <1>3, <2>1, <2>3, <3>1
    <2> QED
      BY <2>3, <2>6, <2>7
  <1>7. \/ occupancy[s] >= Segment(s).capacity /\ On(s) # {}
        \/ \E e \in Pending(TryEvent(s)) :
            e.time >= now /\ \A x \in now..(e.time - 1) : Closed(s, x) \/ ~HeadwayOver(s, x)
    BY DEF MesoInv, Awake, NoLostWakeup
  <1>8. CASE occupancy[s] >= Segment(s).capacity
    <2> DEFINE planned(o) == CHOOSE q \in Claim(s, now) : q.train = o.train /\ q.enter = o.enter /\ q # p
               G == {planned(o) : o \in On(s)}
               g == [o \in On(s) |-> planned(o)]
    <2>1. ASSUME NEW o \in On(s)
          PROVE  planned(o) \in Claim(s, now) /\ planned(o).train = o.train /\ planned(o) # p
      <3>1. \E q \in Claim(s, now) : q.train = o.train /\ q.enter = o.enter /\ q # p
        BY <1>6 DEF On
      <3> QED
        BY <3>1
    <2> HIDE DEF planned
    <2>2. ASSUME NEW o \in On(s), NEW x \in On(s), planned(o) = planned(x) PROVE o = x
      <3>1. o.train = x.train /\ o \in open /\ x \in open
        BY <2>1, <2>2 DEF On
      <3>2. Opens(o.train) = {o}
        BY <3>1, OpenPlanned
      <3> QED
        BY <3>1, <3>2 DEF Opens
    <2>3. g \in Surjection(On(s), G) /\ IsFiniteSet(On(s))
      <3>1. IsFiniteSet(On(s))
        BY HistoryFinite
      <3> QED
        BY <3>1 DEF Surjection
    <2>4. g \in Injection(On(s), G)
      BY <2>2 DEF Injection, IsInjective
    <2>5. g \in Bijection(On(s), G)
      BY <2>3, <2>4 DEF Bijection
    <2>6. IsFiniteSet(G) /\ Cardinality(G) = Cardinality(On(s))
      <3> HIDE DEF g, G
      <3> QED
        BY <2>3, <2>5, FS_Bijection DEF ExistsBijection
    <2>7. p \notin G /\ G \cup {p} \in SUBSET Claim(s, now)
      BY <1>3, <2>1
    <2>8. Cardinality(G \cup {p}) = Cardinality(On(s)) + 1 /\ Cardinality(G \cup {p}) <= Cardinality(Claim(s, now))
      <3> HIDE DEF G
      <3> QED
        BY <1>4, <2>6, <2>7, FS_AddElement, FS_Subset
    <2>9. Cardinality(On(s)) = occupancy[s] /\ occupancy[s] \in Nat
      BY QueueCalled
    <2> QED
      BY <1>2, <1>4, <1>5, <1>8, <2>8, <2>9
  <1>9. CASE \E e \in Pending(TryEvent(s)) :
                e.time >= now /\ \A x \in now..(e.time - 1) : Closed(s, x) \/ ~HeadwayOver(s, x)
    <2>1. PICK e \in heap : \A x \in now..(e.time - 1) : Closed(s, x) \/ ~HeadwayOver(s, x)
      BY <1>9 DEF Pending
    <2>2. now \in now..(e.time - 1)
      <3>1. e.time \in Nat /\ now < e.time
        BY DEF MesoInv, QueueOf
      <3> QED
        BY <1>1, <3>1
    <2>3. ~Closed(s, now)
      BY DEF Closed, Smooth
    <2>4. lastEntry[s] # Never /\ ~(now >= lastEntry[s] + Segment(s).headway)
      BY <2>1, <2>2, <2>3 DEF HeadwayOver
    <2>5. lastEntry[s] \in Nat
      BY <2>4 DEF MesoInv, LayerTyped
    <2>6. PICK t \in Trains : <<t, lastEntry[s]>> \in EntriesTo(s) /\ lastEntry[s] <= now
      BY <2>4 DEF PlanInv, LastsEntered
    <2>7. Segment(s).capacity = 1
      BY <1>1, <1>2, <2>4, <2>5, <2>6
    <2>8. \E q \in Claim(s, now) : q # p
      <3>1. CASE \E o \in On(s) : <<t, lastEntry[s]>> = <<o.train, o.enter>>
        BY <1>6, <3>1 DEF On
      <3>2. CASE \E x \in Range(occupations) : x.seg = s /\ <<t, lastEntry[s]>> = <<x.train, x.enter>>
        <4>1. PICK x \in Range(occupations) : x.seg = s /\ t = x.train /\ lastEntry[s] = x.enter
          BY <3>2
        <4>2. PICK u \in Trains, i \in Nat : i \in DOMAIN Path(u) /\ ~IsLast(u, i) /\ Recorded(x, u, i)
          BY <4>1 DEF PlanInv, RecordsPlanned
        <4>3. PICK q \in PlannedOccupations : q = PlannedAt(u, i)
          BY <1>1, <4>2, OccupationsPlanned
        <4>4. q.seg = s /\ q.enter = lastEntry[s] /\ q.exit = x.exit /\ x.exit <= now
          BY <4>1, <4>2, <4>3 DEF PlannedAt, Recorded, PlanInv, RecordsPlanned
        <4>5. q.enter \in Nat /\ q.exit \in Nat /\ q.enter < q.exit /\ p \in PlannedOccupations
          BY <1>1, OccupationsDiffer DEF Claim
        <4>6. p.enter < p.exit /\ p.exit \in Nat
          BY <1>1, <4>5, OccupationsDiffer
        <4>7. q # p
          BY <1>1, <1>3, <4>4, <4>5, <4>6
        <4>8. q \in Claim(s, now)
          BY <1>1, <1>2, <2>4, <2>5, <2>6, <4>4, <4>5 DEF Claim
        <4> QED
          BY <4>7, <4>8
      <3> QED
        BY <2>6, <3>1, <3>2 DEF EntriesTo
    <2>9. PICK q \in Claim(s, now) : q # p
      BY <2>8
    <2>10. Cardinality({p, q}) = 2 /\ {p, q} \in SUBSET Claim(s, now)
      <3>1. IsFiniteSet({p}) /\ Cardinality({p}) = 1
        BY FS_Singleton
      <3>2. {p, q} = {p} \cup {q} /\ q \notin {p}
        BY <2>9
      <3>3. Cardinality({p} \cup {q}) = 1 + 1
        BY <3>1, <3>2, FS_AddElement
      <3>4. {p, q} \in SUBSET Claim(s, now)
        BY <1>3, <2>9
      <3> QED
        BY <3>2, <3>3, <3>4
    <2>11. 2 <= Cardinality(Claim(s, now))
      BY <1>4, <2>10, FS_Subset
    <2> QED
      BY <1>4, <1>5, <2>7, <2>11
  <1> QED
    BY <1>7, <1>8, <1>9

\* So whoever waits when the next event comes waits since this very instant.
LEMMA WaitersOnTime ==
    ASSUME MesoInv, PlanInv, Smooth, NEW e \in heap, IsNext(e), NEW s \in Segments, NEW r \in waiting[s]
    PROVE  PlannedEntry(r.train)[r.step] = e.time
  <1>1. now \in Nat /\ (\A f \in heap : f.time \in Nat) /\ now <= e.time
    BY DEF MesoInv, QueueOf
  <1>2. ASSUME NEW f \in heap PROVE e.time <= f.time
    <2>1. CASE f = e
      BY <1>1, <2>1
    <2>2. CASE f # e
      BY <1>1, <2>2 DEF IsNext, Precedes
    <2> QED
      BY <2>1, <2>2
  <1>3. ~(now < e.time)
    <2> SUFFICES ASSUME now < e.time PROVE FALSE
      OBVIOUS
    <2>1. ASSUME NEW f \in heap PROVE now < f.time
      <3>1. f.time \in Nat /\ e.time \in Nat /\ e.time <= f.time
        BY <1>1, <1>2
      <3> QED
        BY <1>1, <3>1
    <2> QED
      BY <2>1, NobodyWaits
  <1>4. now = e.time
    BY <1>1, <1>3
  <1> QED
    BY <1>4 DEF PlanInv, QueuesPlanned

\* A plan does not change as the scenario does not.
LEMMA PlanFixed ==
    ASSUME scenario' = scenario
    PROVE  /\ \A t : PlannedEntry(t)' = PlannedEntry(t)
           /\ \A t, i : PlannedExit(t, i)' = PlannedExit(t, i)
           /\ \A r, t, i : Recorded(r, t, i)' <=> Recorded(r, t, i)
           /\ Smooth' <=> Smooth
  <1>1. ASSUME NEW t PROVE PlannedEntry(t)' = PlannedEntry(t)
    BY DEF PlannedEntry, Path, Segment, Ahead
  <1>2. ASSUME NEW t, NEW i PROVE PlannedExit(t, i)' = PlannedExit(t, i)
    BY <1>1 DEF PlannedExit, Segment, Ahead, Path
  <1>3. \A r, t, i : Recorded(r, t, i)' <=> Recorded(r, t, i)
    BY <1>1, <1>2 DEF Recorded, Ahead, Path
  <1>4. DetectConflicts' = DetectConflicts
    <2>1. PlannedOccupations' = PlannedOccupations
      BY DEF PlannedOccupations, PlannedEntry, Path, Segment, Ahead, Trains, IsLast
    <2>2. ASSUME NEW s
          PROVE  DetectOnSegment(s, {o \in PlannedOccupations : o.seg = s})'
                    = DetectOnSegment(s, {o \in PlannedOccupations : o.seg = s})
      BY <2>1 DEF DetectOnSegment, Swept, MakeConflict, Segment
    <2>3. Segments' = Segments
      BY DEF Segments
    <2>4. {DetectOnSegment(s, {o \in PlannedOccupations : o.seg = s}) : s \in Segments}'
            = {DetectOnSegment(s, {o \in PlannedOccupations : o.seg = s}) : s \in Segments}
      BY <2>2, <2>3, Zenon
    <2> QED
      BY <2>4 DEF DetectConflicts
  <1>5. Smooth' <=> Smooth
    BY <1>4 DEF Smooth, TakesTime, Segments, Segment
  <1> QED
    BY <1>1, <1>2, <1>3, <1>5

-----------------------------------------------------------------------------
\* A call at the planned time of everyone who waits leaves on the plan what is
\* pending: arrivals after the running time, and the train it readies.
LEMMA PendingAfter ==
    ASSUME MesoInv, MesoInv', NEW e, NEW s, NEW w, NEW n, NEW opened, NEW moved, NEW after,
           Called(e, s, w, n, opened, moved, after), NEW a \in Admissions(s, w, n, e.time),
           Effect(e, s, w, n, opened, moved, after, a), scenario' = scenario,
           \A f \in heap : OnPlan(f),
           \A r \in w : PlannedEntry(r.train)[r.step] = e.time,
           \A k \in DOMAIN after : \A f : f.event = after[k].event /\ f.time = after[k].time => OnPlan(f)
    PROVE  \A f \in heap' : OnPlan(f)
  <1> SUFFICES ASSUME NEW f \in heap' PROVE OnPlan(f)
    OBVIOUS
  <1>1. CASE f.event.kind = "try"
    BY <1>1 DEF OnPlan
  <1>2. CASE f.event.kind # "try"
    <2>1. PICK u \in Trains : u = f.event.train
      <3>1. f.event \in Events'
        BY DEF MesoInv, QueueOf
      <3>2. Trains' = Trains
        BY ScenarioFixed
      <3> QED
        BY <1>2, <3>1, <3>2 DEF Events
    <2>2. f \in Moves(u)'
      BY <1>2, <2>1 DEF Moves
    <2>3. Moves(u) \subseteq heap
      BY DEF Moves
    <2>4. ASSUME NEW r \in Range(a), r.train = u PROVE OnPlan(f)
      <3>1. PICK g \in heap' : /\ Moves(u)' = (Moves(u) \ {e}) \cup {g}
                               /\ g.time = e.time + Segment(s).running
                               /\ g.event = TrainEvent("arrive", u, r.step + 1)
        BY <2>4 DEF Effect
      <3>2. r \in w /\ r.step \in Nat /\ Ahead(u, r.step) = s
        <4>1. r \in w
          BY Granted
        <4> QED
          BY <2>4, <4>1 DEF Called, IsQueue, Requests
      <3>3. CASE f = g
        <4>1. f.event.kind = "arrive" /\ f.event.train = u /\ f.event.step = r.step + 1
          BY <3>1, <3>3 DEF TrainEvent
        <4>2. f.event.step - 1 = r.step
          BY <3>2, <4>1
        <4>3. PlannedExit(u, r.step) = e.time + Segment(s).running
          BY <2>4, <3>2 DEF PlannedExit
        <4>4. f.time = PlannedExit(f.event.train, f.event.step - 1)
          BY <3>1, <3>3, <4>1, <4>2, <4>3
        <4> QED
          BY <4>1, <4>4 DEF OnPlan
      <3>4. CASE f # g
        BY <2>2, <2>3, <3>1, <3>4
      <3> QED
        BY <3>3, <3>4
    <2>5. ASSUME NEW k \in DOMAIN after, after[k].event.train = u PROVE OnPlan(f)
      <3>1. PICK g \in heap' : /\ Moves(u)' = (Moves(u) \ {e}) \cup {g}
                               /\ g.time = after[k].time /\ g.event = after[k].event
        BY <2>5 DEF Effect
      <3>2. CASE f = g
        BY <3>1, <3>2
      <3>3. CASE f # g
        BY <2>2, <2>3, <3>1, <3>3
      <3> QED
        BY <3>2, <3>3
    <2>6. CASE u \notin TrainsOf(Range(a)) /\ \A k \in DOMAIN after : after[k].event.train # u
      <3>1. Moves(u)' = Moves(u) \ {e}
        BY <2>6 DEF Effect
      <3> QED
        BY <2>2, <2>3, <3>1
    <2> QED
      BY <2>4, <2>5, <2>6 DEF TrainsOf
  <1> QED
    BY <1>1, <1>2

\* Whoever still waits has been due at the time of the call.
LEMMA QueuesAfter ==
    ASSUME MesoInv, NEW e, NEW s, NEW w, NEW n, NEW opened, NEW moved, NEW after,
           Called(e, s, w, n, opened, moved, after), NEW a \in Admissions(s, w, n, e.time),
           Effect(e, s, w, n, opened, moved, after, a), scenario' = scenario,
           \A r \in w : PlannedEntry(r.train)[r.step] = e.time,
           \A x \in Segments : \A r \in waiting[x] : PlannedEntry(r.train)[r.step] = e.time
    PROVE  \A x \in Segments : \A r \in waiting'[x] : PlannedEntry(r.train)[r.step] = now'
  <1>1. now' = e.time
    BY DEF Effect
  <1>2. waiting'[s] = w \ Range(a) /\ \A x \in Segments \ {s} : waiting'[x] = waiting[x]
    BY WaitingAfter
  <1> QED
    BY <1>1, <1>2

\* The last entry to a segment, if the call does not let anyone in, is the last
\* before it.
LEMMA LastEntryAfter ==
    ASSUME MesoInv, NEW e, NEW s, NEW w, NEW n, NEW opened, NEW moved, NEW after,
           Called(e, s, w, n, opened, moved, after), NEW a \in Admissions(s, w, n, e.time),
           Effect(e, s, w, n, opened, moved, after, a), scenario' = scenario,
           EntriesKept(opened),
           LastsEntered, NEW x \in Segments, lastEntry'[x] # Never
    PROVE  lastEntry'[x] <= now' /\ \E t \in Trains : <<t, lastEntry'[x]>> \in EntriesTo(x)'
  <1>1. /\ now' = e.time /\ now <= now' /\ now \in Nat /\ e.time \in Nat
        /\ open' = opened \cup {[train |-> r.train, seg |-> s, enter |-> e.time] : r \in Range(a)}
        /\ lastEntry' = IF a = <<>> THEN lastEntry ELSE [lastEntry EXCEPT ![s] = e.time]
    BY Granted DEF Effect, MesoInv, QueueOf
  <1>2. lastEntry \in [Segments -> Nat \cup {Never}] /\ s \in Segments
    BY DEF MesoInv, LayerTyped, Called
  <1>3. EntriesTo(x) \subseteq EntriesTo(x)'
    <2> DEFINE inside == {<<o.train, o.enter>> : o \in {p \in opened : p.seg = x}}
               inside1 == {<<o.train, o.enter>> : o \in {p \in open' : p.seg = x}}
               done == {<<r.train, r.enter>> : r \in {q \in Range(occupations') : q.seg = x}}
    <2>1. EntriesTo(x) = inside \cup done
      BY DEF EntriesKept
    <2>2. EntriesTo(x)' = inside1 \cup done
      BY DEF EntriesTo, On
    <2>3. inside \subseteq inside1
      BY <1>1
    <2> HIDE DEF inside, inside1, done
    <2> QED
      BY <2>1, <2>2, <2>3
  <1>4. CASE lastEntry'[x] = lastEntry[x]
    <2>1. lastEntry[x] \in Nat
      BY <1>2, <1>4
    <2>2. lastEntry[x] <= now /\ \E t \in Trains : <<t, lastEntry[x]>> \in EntriesTo(x)
      BY <1>4 DEF LastsEntered
    <2> QED
      BY <1>1, <1>3, <1>4, <2>1, <2>2
  <1>5. CASE x = s /\ a # <<>>
    <2>1. lastEntry'[x] = e.time
      BY <1>1, <1>2, <1>5
    <2>2. /\ 1 \in DOMAIN a /\ a[1] \in w /\ a[1] \in Range(a)
      BY <1>5, Granted, EmptySeq, ElementOfSeq DEF Range
    <2>3. a[1].train \in Trains
      BY <2>2 DEF Called, IsQueue, Requests
    <2> DEFINE o == [train |-> a[1].train, seg |-> s, enter |-> e.time]
    <2>4. o \in open' /\ o.seg = x
      BY <1>1, <1>5, <2>2
    <2>5. <<o.train, o.enter>> \in EntriesTo(x)'
      <3> HIDE DEF o
      <3> QED
        BY <2>4 DEF EntriesTo, On
    <2> QED
      BY <1>1, <2>1, <2>3, <2>5
  <1>6. lastEntry'[x] = lastEntry[x] \/ (x = s /\ a # <<>>)
    BY <1>1, <1>2
  <1> QED
    BY <1>4, <1>5, <1>6

\* So the plan holds after a call, if it does of the records.
LEMMA CallKeepsPlan ==
    ASSUME MesoInv, MesoInv', PlanInv, Smooth, scenario' = scenario,
           NEW e, NEW s, NEW w, NEW n, NEW opened, NEW moved, NEW after,
           Called(e, s, w, n, opened, moved, after), NEW a \in Admissions(s, w, n, e.time),
           Effect(e, s, w, n, opened, moved, after, a), IsNext(e),
           \A r \in w \ waiting[s] : PlannedEntry(r.train)[r.step] = e.time,
           \A k \in DOMAIN after : \A f : f.event = after[k].event /\ f.time = after[k].time => OnPlan(f),
           EntriesKept(opened), RecordsPlanned'
    PROVE  PlanInv'
  <1>1. e \in heap /\ s \in Segments
    BY DEF Called
  <1>2. \A x \in Segments : \A r \in waiting[x] : PlannedEntry(r.train)[r.step] = e.time
    BY <1>1, WaitersOnTime
  <1>3. \A r \in w : PlannedEntry(r.train)[r.step] = e.time
    BY <1>1, <1>2
  <1>4. \A f \in heap' : OnPlan(f)
    BY <1>3, PendingAfter DEF PlanInv
  <1>5. \A x \in Segments : \A r \in waiting'[x] : PlannedEntry(r.train)[r.step] = now'
    BY <1>2, <1>3, QueuesAfter
  <1>6. \A x \in Segments : lastEntry'[x] # Never =>
            lastEntry'[x] <= now' /\ \E t \in Trains : <<t, lastEntry'[x]>> \in EntriesTo(x)'
    BY LastEntryAfter DEF PlanInv
  <1>7. Segments' = Segments /\ Trains' = Trains
    BY ScenarioFixed
  <1>8. /\ \A t : PlannedEntry(t)' = PlannedEntry(t)
        /\ \A t, i : PlannedExit(t, i)' = PlannedExit(t, i)
    BY PlanFixed
  <1>9. (\A f \in heap : OnPlan(f))'
    BY <1>4, <1>8 DEF OnPlan
  <1>10. QueuesPlanned'
    BY <1>5, <1>7, <1>8 DEF QueuesPlanned
  <1>11. LastsEntered'
    BY <1>6, <1>7 DEF LastsEntered
  <1> QED
    BY <1>9, <1>10, <1>11 DEF PlanInv

\* A handler that adds no record and counts no arrival leaves the records on the
\* plan.
LEMMA RecordsStay ==
    ASSUME MesoInv, RecordsPlanned, scenario' = scenario, occupations' = occupations,
           now' \in Nat, now <= now', \A u \in Trains : Arrivals(u)' = Arrivals(u)
    PROVE  RecordsPlanned'
  <1>1. \A r \in Range(occupations) : r.exit \in Nat
    <2>1. occupations \in Seq(Occupations)
      BY DEF MesoInv, LayerTyped
    <2>2. Range(occupations) \subseteq Occupations
      BY <2>1, LenProperties, ElementOfSeq DEF Range
    <2> QED
      BY <2>2 DEF Occupations
  <1>2. now \in Nat
    BY DEF MesoInv, QueueOf
  <1>3. \A r \in Range(occupations) : r.exit <= now'
    <2>1. \A r \in Range(occupations) : r.exit <= now
      BY DEF RecordsPlanned
    <2> QED
      BY <1>1, <1>2, <2>1
  <1>4. Trains' = Trains /\ (\A t : Path(t)' = Path(t)) /\ \A t, i : IsLast(t, i)' <=> IsLast(t, i)
    BY ScenarioFixed
  <1>5. \A r, t, i : Recorded(r, t, i)' <=> Recorded(r, t, i)
    BY PlanFixed
  <1>6. Range(occupations)' = Range(occupations)
    BY DEF Range
  <1> QED
    BY <1>3, <1>4, <1>5, <1>6 DEF RecordsPlanned

\* Only the head of the queue is handled.
LEMMA HandledNext ==
    ASSUME NEW e, NEW s, NEW w, NEW n, NEW opened, NEW moved, NEW after,
           ProcessQueue(e, s, w, n, opened, moved, after)
    PROVE  IsNext(e)
  BY DEF ProcessQueue, Process

\* _on_try keeps to the plan,
LEMMA TryOnPlan ==
    ASSUME MesoInv, MesoInv', PlanInv, Smooth, NEW e \in heap, Try(e)
    PROVE  PlanInv'
  <1>1. PICK s, w, n, opened, moved, after :
            /\ s = e.event.seg /\ w = waiting[s] /\ n = occupancy[s]
            /\ opened = open /\ moved = movements /\ after = NoEvents
    OBVIOUS
  <1>2. /\ e.event.kind = "try" /\ ProcessQueue(e, s, w, n, opened, moved, after)
        /\ scenario' = scenario /\ occupations' = occupations
    BY <1>1 DEF Try
  <1>3. Called(e, s, w, n, opened, moved, after)
    BY <1>1, <1>2, TryCalled
  <1>4. PICK a \in Admissions(s, w, n, e.time) : Effect(e, s, w, n, opened, moved, after, a)
    BY <1>2, <1>3, QueueStep
  <1>5. IsNext(e)
    BY <1>2, HandledNext
  <1>6. RecordsPlanned'
    <2>1. \A u \in Trains : Arrivals(u)' = Arrivals(u)
      BY <1>1, <1>3, <1>4, ArrivalsAfter DEF Arrivals, ArrivalsIn
    <2>2. now' \in Nat /\ now <= now'
      BY <1>3, <1>4, Granted DEF Effect
    <2> QED
      BY <1>2, <2>1, <2>2, RecordsStay DEF PlanInv
  <1>7. EntriesKept(opened)
    BY <1>1, <1>2 DEF EntriesKept, EntriesTo, On
  <1>8. DOMAIN after = {} /\ w \ waiting[s] = {}
    BY <1>1 DEF NoEvents
  <1> QED
    BY <1>2, <1>3, <1>4, <1>5, <1>6, <1>7, <1>8, CallKeepsPlan

\* a train that is ready is so when it would enter the segment ahead,
LEMMA AskOnPlan ==
    ASSUME MesoInv, MesoInv', PlanInv, Smooth, NEW e \in heap, Ready(e),
           ~IsLast(e.event.train, e.event.step)
    PROVE  PlanInv'
  <1>1. PICK t, i, s, w, n, opened, moved, after :
            /\ t = e.event.train /\ i = e.event.step /\ s = Ahead(t, i)
            /\ w = waiting[s] \cup {[train |-> t, step |-> i, at |-> e.time]}
            /\ n = occupancy[s] /\ opened = open /\ moved = movements /\ after = NoEvents
    OBVIOUS
  <1>2. /\ e.event.kind = "ready" /\ ProcessQueue(e, s, w, n, opened, moved, after)
        /\ scenario' = scenario /\ occupations' = occupations
    BY <1>1 DEF Ready
  <1>3. Called(e, s, w, n, opened, moved, after)
    BY <1>1, <1>2, AskCalled
  <1>4. PICK a \in Admissions(s, w, n, e.time) : Effect(e, s, w, n, opened, moved, after, a)
    BY <1>2, <1>3, QueueStep
  <1>5. IsNext(e)
    BY <1>2, HandledNext
  <1>6. RecordsPlanned'
    <2>1. \A u \in Trains : Arrivals(u)' = Arrivals(u)
      BY <1>1, <1>3, <1>4, ArrivalsAfter DEF Arrivals, ArrivalsIn
    <2>2. now' \in Nat /\ now <= now'
      BY <1>3, <1>4, Granted DEF Effect
    <2> QED
      BY <1>2, <2>1, <2>2, RecordsStay DEF PlanInv
  <1>7. EntriesKept(opened)
    BY <1>1, <1>2 DEF EntriesKept, EntriesTo, On
  <1>8. \A r \in w \ waiting[s] : PlannedEntry(r.train)[r.step] = e.time
    BY <1>1, <1>2 DEF PlanInv, OnPlan
  <1>9. DOMAIN after = {}
    BY <1>1 DEF NoEvents
  <1> QED
    BY <1>2, <1>3, <1>4, <1>5, <1>6, <1>7, <1>8, <1>9, CallKeepsPlan

\* and so arrives after the running time, leaves a record of the leg, and is
\* ready again after the dwell time.
LEMMA ArriveOnPlan ==
    ASSUME MesoInv, MesoInv', PlanInv, Smooth, NEW e \in heap, Arrive(e)
    PROVE  PlanInv'
  <1>1. PICK t, i, s, o, here, moved, after :
            /\ ArriveCall(e, t, i, s, o, here, moved, after) /\ scenario' = scenario
            /\ ProcessQueue(e, s, waiting[s], occupancy[s] - 1, open \ {o}, moved, after)
    BY ArriveCalls
  <1>2. PICK w, n, opened, record :
            /\ w = waiting[s] /\ n = occupancy[s] - 1 /\ opened = open \ {o}
            /\ record = [train |-> t, seg |-> s, enter |-> o.enter, exit |-> e.time]
    OBVIOUS
  <1>3. /\ e.event.kind = "arrive" /\ t = e.event.train /\ i = e.event.step /\ s = Ahead(t, i - 1)
        /\ moved = Append(movements, here)
        /\ after = IF IsLast(t, i) THEN NoEvents
                   ELSE <<At(e.time + scenario.trains[t].dwell, TrainEvent("ready", t, i))>>
    BY <1>1 DEF ArriveCall
  <1>4. /\ t \in Trains /\ i - 1 \in DOMAIN Path(t) /\ i \in Nat /\ i - 1 \in Nat /\ ~IsLast(t, i - 1)
        /\ Reached(t, i - 1) /\ Opens(t) = {o} /\ here \in Movements /\ here.train = t /\ here.event = "arrive"
    BY <1>1, Arriving
  <1>5. scenario \in Scenarios /\ scenario' = scenario
    BY <1>1 DEF MesoInv, LayerTyped
  <1>6. Called(e, s, w, n, opened, moved, after)
    BY <1>1, <1>2, ArriveCalled
  <1>7. PICK a \in Admissions(s, w, n, e.time) : Effect(e, s, w, n, opened, moved, after, a)
    BY <1>1, <1>2, <1>6, QueueStep
  <1>8. IsNext(e)
    BY <1>1, HandledNext
  <1>9. Range(occupations') = Range(occupations) \cup {record} /\ EntriesKept(opened)
    <2>1. ArriveCall(e, t, i, s, o, here, moved, after)
      BY <1>1
    <2>2. opened = open \ {o} /\ record = [train |-> t, seg |-> s, enter |-> o.enter, exit |-> e.time]
      BY <1>2
    <2>3. EntriesKept(opened)
      BY ONLY MesoInv, e \in heap, <2>1, <2>2, ArriveRecorded
    <2>4. Range(occupations') = Range(occupations) \cup {record}
      BY ONLY MesoInv, e \in heap, <2>1, <2>2, ArriveRecorded
    <2> QED
      BY <2>3, <2>4
  <1>10. e.time = PlannedExit(t, i - 1)
    BY <1>3 DEF PlanInv, OnPlan
  <1>11. Recorded(record, t, i - 1)
    <2>1. UnderWay(t, i - 1)
      BY <1>3, ArrivePlace
    <2>2. PICK f \in heap : f.event = TrainEvent("arrive", t, i) /\ Moves(t) = {f} /\ f.time = o.enter + Segment(s).running
      <3>1. PICK f \in heap, p \in open :
                /\ Moves(t) = {f} /\ Opens(t) = {p} /\ f.event = TrainEvent("arrive", t, (i - 1) + 1)
                /\ p.seg = Ahead(t, i - 1) /\ f.time = p.enter + Segment(p.seg).running
        BY <2>1 DEF UnderWay
      <3>2. (i - 1) + 1 = i
        BY <1>4
      <3> QED
        BY <1>3, <1>4, <3>1, <3>2
    <2>3. f = e
      BY <1>3, <2>2 DEF Moves
    <2>4. o.enter \in Nat /\ PlannedEntry(t)[i - 1] \in Nat /\ Segment(s).running \in Nat
      <3>1. o.enter \in Nat
        BY <1>4 DEF Opens, MesoInv, LayerTyped, Openings
      <3>2. s \in Segments
        BY <1>6 DEF Called
      <3> QED
        BY <1>4, <1>5, <3>1, <3>2, PlanTimes, ScenarioTyping
    <2>5. o.enter = PlannedEntry(t)[i - 1]
      BY <1>3, <1>10, <2>2, <2>3, <2>4 DEF PlannedExit
    <2> QED
      BY <1>2, <1>3, <1>10, <2>5 DEF Recorded
  <1>12. now' = e.time /\ now <= now' /\ now \in Nat /\ e.time \in Nat
    BY <1>6, <1>7, Granted DEF Effect, MesoInv, QueueOf
  <1>13. Trains' = Trains /\ (\A u : Path(u)' = Path(u)) /\ \A u, j : IsLast(u, j)' <=> IsLast(u, j)
    BY <1>5, ScenarioFixed
  <1>14. \A r, u, j : Recorded(r, u, j)' <=> Recorded(r, u, j)
    BY <1>5, PlanFixed
  <1>15. ASSUME NEW r \in Range(occupations')
         PROVE  /\ r.exit <= now'
                /\ \E u \in Trains, j \in Nat : j \in DOMAIN Path(u) /\ ~IsLast(u, j) /\ Recorded(r, u, j)
    <2>1. CASE r = record
      BY <1>2, <1>4, <1>11, <1>12, <2>1
    <2>2. CASE r \in Range(occupations)
      <3>1. r.exit \in Nat
        <4>1. occupations \in Seq(Occupations)
          BY DEF MesoInv, LayerTyped
        <4>2. r \in Occupations
          BY <2>2, <4>1, LenProperties, ElementOfSeq DEF Range
        <4> QED
          BY <4>2 DEF Occupations
      <3>2. /\ r.exit <= now
            /\ \E u \in Trains, j \in Nat : j \in DOMAIN Path(u) /\ ~IsLast(u, j) /\ Recorded(r, u, j)
        BY <2>2 DEF PlanInv, RecordsPlanned
      <3> QED
        BY <1>12, <3>1, <3>2
    <2> QED
      BY <1>9, <2>1, <2>2
  <1>16. ASSUME NEW u \in Trains, NEW j \in Nat, j < Cardinality(Arrivals(u)')
         PROVE  \E r \in Range(occupations') : Recorded(r, u, j)
    <2>1. Arrivals(u)' = ArrivalsIn(moved, u)
      BY <1>6, <1>7, ArrivalsAfter
    <2>2. CASE u # t
      <3>1. Arrivals(u)' = Arrivals(u)
        BY <1>3, <1>4, <2>1, <2>2, ArrivalCounted
      <3>2. \E r \in Range(occupations) : Recorded(r, u, j)
        BY <1>16, <3>1 DEF PlanInv, RecordsPlanned
      <3> QED
        BY <1>9, <3>2
    <2>3. CASE u = t
      <3>1. IsFiniteSet(Arrivals(u)) /\ Cardinality(Arrivals(u)) = i - 1
        BY <1>4, <2>3 DEF Reached
      <3>2. Cardinality(Arrivals(u)') = (i - 1) + 1
        <4>1. here.train = u /\ moved = Append(movements, here) /\ here \in Movements /\ here.event = "arrive"
          BY <1>3, <1>4, <2>3
        <4>2. Cardinality(ArrivalsIn(moved, u)) = Cardinality(Arrivals(u)) + 1
          BY <3>1, <4>1, ArrivalCounted
        <4> QED
          BY <2>1, <3>1, <4>2
      <3>3. CASE j = i - 1
        BY <1>9, <1>11, <2>3, <3>3
      <3>4. CASE j < i - 1
        <4>1. \E r \in Range(occupations) : Recorded(r, u, j)
          BY <3>1, <3>4 DEF PlanInv, RecordsPlanned
        <4> QED
          BY <1>9, <4>1
      <3> QED
        BY <1>4, <1>16, <3>2, <3>3, <3>4
    <2> QED
      BY <2>2, <2>3
  <1>17. RecordsPlanned'
    <2>1. Range(occupations)' = Range(occupations')
      BY DEF Range
    <2> QED
      BY <1>13, <1>14, <1>15, <1>16, <2>1 DEF RecordsPlanned
  <1>18. ASSUME NEW k \in DOMAIN after, NEW f, f.event = after[k].event, f.time = after[k].time
         PROVE  OnPlan(f)
    <2>1. ~IsLast(t, i)
      BY <1>3, <1>18 DEF NoEvents
    <2>2. f.event = TrainEvent("ready", t, i) /\ f.time = e.time + scenario.trains[t].dwell
      BY <1>3, <1>18, <2>1 DEF At
    <2>3. PlannedEntry(t)[(i - 1) + 1] = PlannedExit(t, i - 1) + scenario.trains[t].dwell
      BY <1>4, <1>5, PlanTimes
    <2>4. (i - 1) + 1 = i
      BY <1>4
    <2> QED
      BY <1>10, <2>2, <2>3, <2>4 DEF OnPlan, TrainEvent
  <1>19. w \ waiting[s] = {}
    BY <1>2
  <1> QED
    BY <1>5, <1>6, <1>7, <1>8, <1>9, <1>17, <1>18, <1>19, CallKeepsPlan

\* Where nothing is recorded, entered or scheduled, the plan stands.
LEMMA NothingNew ==
    ASSUME MesoInv, MesoInv', PlanInv, heap' \subseteq heap, now <= now', QueuesPlanned',
           UNCHANGED <<scenario, occupations, waiting, occupancy, lastEntry, open, movements>>
    PROVE  PlanInv'
  <1>1. now \in Nat /\ now' \in Nat
    BY DEF MesoInv, QueueOf
  <1>2. RecordsPlanned'
    <2>1. \A u \in Trains : Arrivals(u)' = Arrivals(u)
      BY DEF Arrivals
    <2> QED
      BY <1>1, <2>1, RecordsStay DEF PlanInv
  <1>3. Segments' = Segments /\ Trains' = Trains
    BY ScenarioFixed
  <1>4. /\ \A t : PlannedEntry(t)' = PlannedEntry(t)
        /\ \A t, i : PlannedExit(t, i)' = PlannedExit(t, i)
    BY PlanFixed
  <1>5. (\A f \in heap : OnPlan(f))'
    BY <1>4 DEF PlanInv, OnPlan
  <1>6. LastsEntered'
    <2>1. ASSUME NEW s \in Segments, lastEntry[s] # Never
          PROVE  lastEntry[s] <= now' /\ \E t \in Trains : <<t, lastEntry[s]>> \in EntriesTo(s)
      <3>1. lastEntry[s] \in Nat
        BY <2>1 DEF MesoInv, LayerTyped
      <3>2. lastEntry[s] <= now /\ \E t \in Trains : <<t, lastEntry[s]>> \in EntriesTo(s)
        BY <2>1 DEF PlanInv, LastsEntered
      <3> QED
        BY <1>1, <3>1, <3>2
    <2>2. \A s : EntriesTo(s)' = EntriesTo(s)
      BY DEF EntriesTo, On
    <2> QED
      BY <1>3, <2>1, <2>2 DEF LastsEntered
  <1> QED
    BY <1>2, <1>5, <1>6 DEF PlanInv

\* A train with nowhere to go does nothing.
LEMMA StandOnPlan ==
    ASSUME MesoInv, MesoInv', PlanInv, Smooth, NEW e \in heap, Ready(e),
           IsLast(e.event.train, e.event.step)
    PROVE  PlanInv'
  <1>1. /\ Process(e, NoEvents, 0)
        /\ UNCHANGED <<scenario, occupations, waiting, occupancy, lastEntry, open, movements>>
    BY DEF Ready
  <1>2. IsNext(e) /\ now' = e.time /\ heap' \subseteq heap
    <2>1. IsNext(e) /\ now' = e.time /\ \E n \in 0..0 : heap' = (heap \ {e}) \cup Entries(NoEvents, n, sequence)
      BY <1>1 DEF Process, Push
    <2>2. \A n, x : Entries(NoEvents, n, x) = {}
      BY DEF Entries, NoEvents
    <2> QED
      BY <2>1, <2>2
  <1>3. now <= now'
    BY <1>2 DEF MesoInv, QueueOf
  <1>4. QueuesPlanned'
    <2>1. \A s \in Segments : \A r \in waiting[s] : PlannedEntry(r.train)[r.step] = e.time
      BY <1>2, WaitersOnTime
    <2>2. Segments' = Segments /\ \A t : PlannedEntry(t)' = PlannedEntry(t)
      BY <1>1, ScenarioFixed, PlanFixed
    <2> QED
      BY <1>1, <1>2, <2>1, <2>2 DEF QueuesPlanned
  <1> QED
    BY <1>1, <1>2, <1>3, <1>4, NothingNew

\* Whatever is handled, a plan without conflicts is kept.
LEMMA PlanStep == MesoInv /\ (Smooth => PlanInv) /\ [Next]_vars => (Smooth => PlanInv)'
  <1> SUFFICES ASSUME MesoInv, Smooth => PlanInv, [Next]_vars, Smooth' PROVE PlanInv'
    OBVIOUS
  <1>1. MesoInv'
    BY NextInv
  <1>2. scenario' = scenario
    BY DEF Next, Turn, Finished, Ready, Arrive, Try, vars
  <1>3. Smooth /\ PlanInv
    BY <1>2, PlanFixed
  <1>4. ASSUME NEW e \in heap, Ready(e) PROVE PlanInv'
    BY <1>1, <1>3, <1>4, AskOnPlan, StandOnPlan
  <1>5. ASSUME NEW e \in heap, Arrive(e) PROVE PlanInv'
    BY <1>1, <1>3, <1>5, ArriveOnPlan
  <1>6. ASSUME NEW e \in heap, Try(e) PROVE PlanInv'
    BY <1>1, <1>3, <1>6, TryOnPlan
  <1>7. CASE UNCHANGED vars
    <2>1. QueuesPlanned'
      <3>1. Segments' = Segments /\ \A t : PlannedEntry(t)' = PlannedEntry(t)
        BY <1>2, ScenarioFixed, PlanFixed
      <3>2. QueuesPlanned
        BY <1>3 DEF PlanInv
      <3> QED
        BY <1>7, <3>1, <3>2 DEF vars, QueuesPlanned
    <2>2. heap' \subseteq heap /\ now <= now'
      <3>1. now \in Nat
        BY DEF MesoInv, QueueOf
      <3> QED
        BY <1>7, <3>1 DEF vars
    <2> QED
      BY <1>1, <1>3, <1>7, <2>1, <2>2, NothingNew DEF vars
  <1> QED
    BY <1>4, <1>5, <1>6, <1>7 DEF Next, Turn, Finished

\* At first every train is to be ready when it enters.
LEMMA PlanInit == Init => PlanInv
  <1> SUFFICES ASSUME Init PROVE PlanInv
    OBVIOUS
  <1>1. /\ scenario \in Scenarios
        /\ lastEntry = [s \in Segments |-> Never] /\ waiting = [s \in Segments |-> {}]
        /\ occupations = <<>> /\ movements = <<>>
    BY DEF Init
  <1>2. ASSUME NEW f \in heap PROVE OnPlan(f)
    <2>1. CASE f.event.kind = "try"
      BY <2>1 DEF OnPlan
    <2>2. ASSUME NEW t \in Trains, f = FirstEntry(At(scenario.trains[t].entry, TrainEvent("ready", t, 0)), t)
          PROVE  OnPlan(f)
      <3>1. f.event = TrainEvent("ready", t, 0) /\ f.time = scenario.trains[t].entry
        BY <2>2 DEF FirstEntry, At
      <3>2. PlannedEntry(t)[0] = scenario.trains[t].entry
        BY <1>1, PlanTimes
      <3> QED
        BY <3>1, <3>2 DEF OnPlan, TrainEvent
    <2> QED
      BY <2>1, <2>2, FirstHeap
  <1>3. QueuesPlanned /\ LastsEntered
    BY <1>1 DEF QueuesPlanned, LastsEntered
  <1>4. RecordsPlanned
    <2>1. Range(occupations) = {}
      BY <1>1 DEF Range
    <2>2. ASSUME NEW t \in Trains PROVE Cardinality(Arrivals(t)) = 0
      <3>1. Arrivals(t) = {}
        BY <1>1 DEF Arrivals
      <3> QED
        BY <3>1, FS_EmptySet
    <2> QED
      BY <2>1, <2>2 DEF RecordsPlanned
  <1> QED
    BY <1>2, <1>3, <1>4 DEF PlanInv

\* So, when no event is left, the records are the plan.
LEMMA RecordsAreThePlan ==
    ASSUME MesoInv, PlanInv, \A t \in Trains : AtFinalStop(t)
    PROVE  {<<r.train, r.seg, r.enter, r.exit>> : r \in Range(occupations)}
             = {<<o.train, o.seg, o.enter, o.exit>> : o \in PlannedOccupations}
  <1> DEFINE of(x) == <<x.train, x.seg, x.enter, x.exit>>
  <1>1. scenario \in Scenarios
    BY DEF MesoInv, LayerTyped
  <1>2. \A r, t, i : Recorded(r, t, i) => of(r) = of(PlannedAt(t, i))
    BY DEF Recorded, PlannedAt
  <1>3. ASSUME NEW r \in Range(occupations) PROVE \E o \in PlannedOccupations : of(r) = of(o)
    <2>1. PICK t \in Trains, i \in Nat : i \in DOMAIN Path(t) /\ ~IsLast(t, i) /\ Recorded(r, t, i)
      BY DEF PlanInv, RecordsPlanned
    <2>2. PlannedAt(t, i) \in PlannedOccupations
      BY <1>1, <2>1, OccupationsPlanned
    <2> HIDE DEF of
    <2> QED
      BY <1>2, <2>1, <2>2
  <1>4. ASSUME NEW o \in PlannedOccupations PROVE \E r \in Range(occupations) : of(r) = of(o)
    <2>1. PICK t \in Trains, i \in Nat : i \in DOMAIN Path(t) /\ ~IsLast(t, i) /\ o = PlannedAt(t, i)
      BY <1>1, OccupationsPlanned
    <2>2. PICK n \in Nat : DOMAIN Path(t) = 0..n /\ \A j \in 0..n : IsLast(t, j) <=> j = n
      BY <1>1, PathsAreSequences
    <2>3. PICK k \in DOMAIN Path(t) : Reached(t, k)
      BY DEF MesoInv, Placed
    <2>4. Cardinality(Arrivals(t)) = n
      BY <2>2, <2>3 DEF AtFinalStop, Reached
    <2>5. i < Cardinality(Arrivals(t))
      BY <2>1, <2>2, <2>4
    <2>6. PICK r \in Range(occupations) : Recorded(r, t, i)
      BY <2>5 DEF PlanInv, RecordsPlanned
    <2> HIDE DEF of
    <2> QED
      BY <1>2, <2>1, <2>6
  <1> HIDE DEF of
  <1>5. {of(r) : r \in Range(occupations)} = {of(o) : o \in PlannedOccupations}
    BY <1>3, <1>4
  <1> QED
    BY <1>5 DEF of

\* The conflicts of a plan say when its segments would be overclaimed, by whom
\* and how much; and on single tracks, or without headways, a plan without
\* conflicts is what the run does, to the second.  Segments take time:
\* from_segments gives each at least min_running_s, a minute by default.
THEOREM ConflictsAreForetold == Spec => [](TakesTime => ConflictsForetellWaiting)
  <1>1. ASSUME MesoInv, History, Smooth => PlanInv, TakesTime PROVE ConflictsForetellWaiting
    <2>1. scenario \in Scenarios
      BY <1>1 DEF MesoInv, LayerTyped
    <2>2. ASSUME NEW s \in Segments
          PROVE  LET found == {c \in DetectConflicts : c.seg = s}
                 IN /\ Crowded(s) = {x \in Instants : \E c \in found : c.start <= x /\ x < c.end}
                    /\ \A c \in found : Truthful(s, c)
      BY <1>1, <2>1, ConflictsForetell
    <2>3. ASSUME heap = {}, scenario.closures = <<>>, DetectConflicts = {},
                 \A s \in Segments : Segment(s).capacity = 1 \/ Segment(s).headway = 0
          PROVE  {<<r.train, r.seg, r.enter, r.exit>> : r \in Range(occupations)}
                    = {<<o.train, o.seg, o.enter, o.exit>> : o \in PlannedOccupations}
      <3>1. PlanInv
        BY <1>1, <2>3 DEF Smooth
      <3>2. \A t \in Trains : AtFinalStop(t)
        BY <1>1, <2>3, EndsComplete
      <3> QED
        BY <1>1, <3>1, <3>2, RecordsAreThePlan
    <2>4. OvercapacitySegments = {}
      BY <1>1, PeakBounded
    <2> QED
      BY <2>2, <2>3, <2>4 DEF ConflictsForetellWaiting, Crowded, Truthful, During, Claim, Instants
  <1>2. Init => History /\ (Smooth => PlanInv)
    BY HistoryInit, PlanInit
  <1>3. MesoInv /\ History /\ (Smooth => PlanInv) => (TakesTime => ConflictsForetellWaiting)
    BY <1>1
  <1> QED
    BY <1>2, <1>3, HistoryStep, PlanStep, MesoInvariant, PTL DEF Spec
=============================================================================
