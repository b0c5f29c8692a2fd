--------------------------- MODULE TimetableProofs ---------------------------
(***************************************************************************)
(* What is in the database after any history of loads, complete or cut     *)
(* short, and what the analyses of a line make of it, for all feeds, all   *)
(* lines and all windows.                                                  *)
(***************************************************************************)
EXTENDS TrainPaths, Extremes, SequenceTheorems

-----------------------------------------------------------------------------
\* The i-th table is the one that f has, or empty for want of it; of agency
\* an earlier one may be left.
IsLoaded(d, f, i) ==
    LET table == Tables[i]
    IN IF table \in DOMAIN f THEN table \in DOMAIN d /\ d[table] = Select(table, f[table])
       ELSE table \in EmptyIfAbsent => table \in DOMAIN d /\ d[table] = {}

\* Whatever a table holds is of some feed.
IsOfAFeed(table) ==
    \/ \E f \in Feeds : table \in DOMAIN f /\ db[table] = Select(table, f[table])
    \/ table \in EmptyIfAbsent /\ db[table] = {}

\* What a load under way has done, and what a complete one has left.
LoadInv ==
    /\ zip = Null \/ zip \in Feeds
    /\ next \in 0..Len(Tables)
    /\ next # 0 => /\ zip \in Feeds /\ Required \subseteq DOMAIN zip /\ loaded = Null
                   /\ \A i \in 1..(next - 1) : IsLoaded(db, zip, i)
    /\ loaded # Null => /\ loaded \in Feeds /\ Required \subseteq DOMAIN loaded
                        /\ \A i \in DOMAIN Tables : IsLoaded(db, loaded, i)
    /\ \A table \in DOMAIN db : IsOfAFeed(table)

\* The tables are seven, with different names.
LEMMA SevenTables ==
    /\ Len(Tables) = 7 /\ DOMAIN Tables = 1..7
    /\ \A i, j \in 1..7 : i # j => Tables[i] # Tables[j]
  <1>1. Len(Tables) = 7 /\ DOMAIN Tables = 1..7
    BY DEF Tables
  <1>2. /\ Tables[1] = "agency" /\ Tables[2] = "stops" /\ Tables[3] = "routes" /\ Tables[4] = "trips"
        /\ Tables[5] = "stop_times" /\ Tables[6] = "calendar" /\ Tables[7] = "calendar_dates"
    BY DEF Tables
  <1> QED
    BY <1>1, <1>2

\* A turn of the loop loads its table and leaves the ones before.
LEMMA TableLoaded ==
    ASSUME LoadInv, LoadTable
    PROVE  /\ \A i \in 1..next : IsLoaded(db', zip, i)
           /\ \A table \in DOMAIN db' : IsOfAFeed(table)'
  <1> DEFINE t == Tables[next]
  <1>1. next \in 1..7 /\ zip \in Feeds /\ \A i \in 1..(next - 1) : IsLoaded(db, zip, i)
    BY SevenTables DEF LoadInv, LoadTable
  <1>2. \A i \in 1..(next - 1) : Tables[i] # t
    BY <1>1, SevenTables
  <1>3. ASSUME NEW rows, db' = With(t, rows),
               t \in DOMAIN zip => rows = Select(t, zip[t]),
               t \notin DOMAIN zip => t \in EmptyIfAbsent /\ rows = {}
        PROVE  /\ \A i \in 1..next : IsLoaded(db', zip, i)
               /\ \A table \in DOMAIN db' : IsOfAFeed(table)'
    <2>1. /\ DOMAIN db' = DOMAIN db \cup {t} /\ db'[t] = rows
          /\ \A u \in DOMAIN db : u # t => db'[u] = db[u]
      BY <1>3 DEF With
    <2>2. IsLoaded(db', zip, next)
      BY <1>3, <2>1 DEF IsLoaded
    <2>3. ASSUME NEW i \in 1..(next - 1) PROVE IsLoaded(db', zip, i)
      BY <1>1, <1>2, <2>1 DEF IsLoaded
    <2>4. ASSUME NEW u \in DOMAIN db' PROVE IsOfAFeed(u)'
      <3>1. CASE u = t
        BY <1>1, <1>3, <2>1, <3>1 DEF IsOfAFeed
      <3>2. CASE u # t
        <4>1. u \in DOMAIN db /\ db'[u] = db[u]
          BY <2>1, <3>2
        <4> QED
          BY <4>1 DEF IsOfAFeed, LoadInv
      <3> QED
        BY <3>1, <3>2
    <2>5. \A i \in 1..next : i = next \/ i \in 1..(next - 1)
      BY <1>1
    <2> QED
      BY <2>2, <2>3, <2>4, <2>5
  <1>4. CASE t \in DOMAIN zip
    <2>1. db' = With(t, Select(t, zip[t]))
      BY <1>4 DEF LoadTable
    <2> QED
      BY <1>3, <1>4, <2>1
  <1>5. CASE t \notin DOMAIN zip /\ t \in EmptyIfAbsent
    <2>1. db' = With(t, {})
      BY <1>5 DEF LoadTable
    <2> QED
      BY <1>3, <1>5, <2>1
  <1>6. CASE t \notin DOMAIN zip /\ t \notin EmptyIfAbsent
    <2>1. db' = db
      BY <1>6 DEF LoadTable
    <2>2. IsLoaded(db', zip, next)
      BY <1>6 DEF IsLoaded
    <2>3. \A i \in 1..next : i = next \/ i \in 1..(next - 1)
      BY <1>1
    <2>4. \A table \in DOMAIN db' : IsOfAFeed(table)'
      BY <2>1 DEF IsOfAFeed, LoadInv
    <2> QED
      BY <1>1, <2>1, <2>2, <2>3, <2>4
  <1> QED
    BY <1>4, <1>5, <1>6

\* Every step of an ingestion keeps this.
LEMMA LoadStep ==
    ASSUME LoadInv, [Next]_vars
    PROVE  LoadInv'
  <1>1. ASSUME UNCHANGED <<db, loaded>>, \A table \in DOMAIN db : IsOfAFeed(table)
        PROVE  \A table \in DOMAIN db' : IsOfAFeed(table)'
    BY <1>1 DEF IsOfAFeed
  <1>2. \A table \in DOMAIN db : IsOfAFeed(table)
    BY DEF LoadInv
  <1>3. CASE UNCHANGED ingestVars
    BY <1>1, <1>2, <1>3 DEF LoadInv, ingestVars
  <1>4. CASE Download
    BY <1>1, <1>2, <1>4, SevenTables DEF LoadInv, Download
  <1>5. CASE WriteManifest
    BY <1>1, <1>2, <1>5 DEF LoadInv, WriteManifest
  <1>6. CASE BeginLoad
    <2>1. next' = 1 /\ zip' = zip /\ zip \in Feeds /\ Required \subseteq DOMAIN zip /\ loaded' = Null
      BY <1>6 DEF LoadInv, BeginLoad
    <2>2. \A i \in 1..(next' - 1) : IsLoaded(db', zip', i)
      BY <2>1
    <2>3. \A table \in DOMAIN db' : IsOfAFeed(table)'
      BY <1>2, <1>6 DEF BeginLoad, IsOfAFeed
    <2> QED
      BY <2>1, <2>2, <2>3, SevenTables DEF LoadInv
  <1>7. CASE LoadTable
    <2>1. /\ next \in 1..7 /\ zip' = zip /\ zip \in Feeds /\ Required \subseteq DOMAIN zip
          /\ next' = (IF next = 7 THEN 0 ELSE next + 1) /\ loaded' = (IF next = 7 THEN zip ELSE Null)
      BY <1>7, SevenTables DEF LoadInv, LoadTable
    <2>2. /\ \A i \in 1..next : IsLoaded(db', zip, i)
          /\ \A table \in DOMAIN db' : IsOfAFeed(table)'
      BY <1>7, TableLoaded
    <2>3. CASE next = 7
      BY <2>1, <2>2, <2>3, SevenTables DEF LoadInv
    <2>4. CASE next # 7
      <3>1. next' \in 1..7 /\ next' - 1 = next /\ loaded' = Null
        BY <2>1, <2>4
      <3> QED
        BY <2>1, <2>2, <3>1, SevenTables DEF LoadInv
    <2> QED
      BY <2>3, <2>4
  <1>8. CASE CutShort
    BY <1>1, <1>2, <1>8, SevenTables DEF LoadInv, CutShort
  <1> QED
    BY <1>3, <1>4, <1>5, <1>6, <1>7, <1>8 DEF Next, Route, Ingest, vars, ingestVars

\* An empty directory to begin with.
LEMMA LoadInit == Init => LoadInv
  <1> SUFFICES ASSUME Init PROVE LoadInv
    OBVIOUS
  <1>1. zip = Null /\ loaded = Null /\ db = <<>> /\ next = 0
    BY DEF Init, IngestInit
  <1>2. DOMAIN db = {}
    BY <1>1
  <1> QED
    BY <1>1, <1>2, SevenTables DEF LoadInv

\* The invariant of the ingestion, for all feeds.
THEOREM LoadInvariant == Spec => []LoadInv
  <1> QED
    BY LoadInit, LoadStep, PTL DEF Spec

\* What is recorded as loaded is what the queries read, table by table, and
\* the answer printed last was found in it: nothing of an earlier load, one
\* that was cut short included, is left in a table they read.
LoadIsComplete ==
    /\ loaded # Null => /\ Required \subseteq DOMAIN loaded
                        /\ \A i \in DOMAIN Tables : IsLoaded(db, loaded, i)
    /\ journey # Null => journey.feed = loaded

\* Whatever loads were cut short before it, a load that ran to its end leaves
\* its feed and nothing else in the tables that the queries read.
THEOREM LoadsAreComplete == Spec => []LoadIsComplete
  <1> DEFINE JourneyInv == journey # Null => journey.feed = loaded
  <1>1. Init => JourneyInv
    BY DEF Init
  <1>2. JourneyInv /\ [Next]_vars => JourneyInv'
    BY DEF Next, Route, ingestVars, vars
  <1>3. LoadInv /\ JourneyInv => LoadIsComplete
    BY DEF LoadInv, LoadIsComplete
  <1> QED
    BY <1>1, <1>2, <1>3, LoadInvariant, PTL DEF Spec

-----------------------------------------------------------------------------
\* What the queries rely on.
WellFormed(d) ==
    /\ IsFiniteSet(d["stop_times"])
    /\ \A c \in d["stop_times"] : c.seq \in Int /\ c.arr \in Int \cup {Null} /\ c.dep \in Int \cup {Null}
    /\ \A c, e \in d["stop_times"] : c.trip = e.trip /\ c.seq = e.seq => c = e
    /\ \A s \in d["stops"] : s.pos \in Int \cup {Null}

\* The image of a finite set is finite, and what is in it.
LEMMA ImageFinite ==
    ASSUME NEW S, IsFiniteSet(S), NEW g, NEW T, \A y \in T : \E x \in S : y = g[x]
    PROVE  IsFiniteSet(T)
  <1> DEFINE I == {g[x] : x \in S}
             h == [x \in S |-> g[x]]
  <1>1. h \in Surjection(S, I)
    BY DEF Surjection
  <1>2. IsFiniteSet(I)
    <2> HIDE DEF I, h
    <2> QED
      BY <1>1, FS_Surjection
  <1>3. T \in SUBSET I
    OBVIOUS
  <1> HIDE DEF I
  <1> QED
    BY <1>2, <1>3, FS_Subset

\* A time of day is a number unless a part of it is missing.
LEMMA SecondsTyped ==
    ASSUME NEW parts \in Seq(Int \cup {Null})
    PROVE  Seconds(parts) \in Int \cup {Null}
  <1>1. CASE Len(parts) < 3 \/ \E i \in 1..3 : parts[i] = Null
    BY <1>1 DEF Seconds
  <1>2. CASE ~(Len(parts) < 3 \/ \E i \in 1..3 : parts[i] = Null)
    <2>1. Len(parts) \in Nat /\ ~(Len(parts) < 3) /\ \A i \in 1..3 : parts[i] # Null
      BY <1>2
    <2>2. \A i \in 1..3 : i \in 1..Len(parts)
      BY <2>1
    <2>3. \A i \in 1..3 : parts[i] \in Int \cup {Null}
      BY <2>2, ElementOfSeq
    <2>4. parts[1] \in Int /\ parts[2] \in Int /\ parts[3] \in Int
      BY <2>1, <2>3
    <2> QED
      BY <1>2, <2>4 DEF Seconds
  <1> QED
    BY <1>1, <1>2

\* Whenever the queries find their tables these are as the feeds are.
LEMMA DatabaseWellFormed ==
    ASSUME LoadInv, Queryable(db)
    PROVE  WellFormed(db)
  <1>1. "stop_times" \in DOMAIN db /\ "stops" \in DOMAIN db
    <2>1. Tables[5] = "stop_times" /\ Tables[2] = "stops" /\ 2 \in DOMAIN Tables /\ 5 \in DOMAIN Tables
      BY DEF Tables
    <2> QED
      BY <2>1 DEF Queryable
  <1>2. PICK f \in Feeds : "stop_times" \in DOMAIN f /\ db["stop_times"] = Select("stop_times", f["stop_times"])
    BY <1>1 DEF LoadInv, IsOfAFeed, EmptyIfAbsent
  <1>3. PICK g \in Feeds : "stops" \in DOMAIN g /\ db["stops"] = Select("stops", g["stops"])
    BY <1>1 DEF LoadInv, IsOfAFeed, EmptyIfAbsent
  <1>4. PICK file : file = f["stop_times"]
    OBVIOUS
  <1>5. /\ IsFiniteSet(file.rows) /\ "stop_sequence" \in file.columns
        /\ \A r \in file.rows : r.seq \in Int /\ r.arr \in Seq(Int \cup {Null}) /\ r.dep \in Seq(Int \cup {Null})
        /\ \A r, s \in file.rows : r.trip = s.trip /\ r.seq = s.seq => r = s
    BY <1>2, <1>4, FeedsAssumption DEF FeedsAssumption
  <1> DEFINE call(r) == [trip |-> r.trip, stop |-> r.stop, seq |-> Column(file, "stop_sequence", r.seq),
                         arr |-> Column(file, "arrival_time", Seconds(r.arr)),
                         dep |-> Column(file, "departure_time", Seconds(r.dep))]
  <1>6. db["stop_times"] = {call(r) : r \in file.rows}
    BY <1>2, <1>4 DEF Select
  <1>7. ASSUME NEW r \in file.rows
        PROVE  /\ call(r).seq = r.seq /\ call(r).trip = r.trip
               /\ call(r).arr \in Int \cup {Null} /\ call(r).dep \in Int \cup {Null}
    <2>1. Seconds(r.arr) \in Int \cup {Null} /\ Seconds(r.dep) \in Int \cup {Null}
      BY <1>5, SecondsTyped
    <2> QED
      BY <1>5, <2>1 DEF Column
  <1>8. IsFiniteSet(db["stop_times"])
    <2>1. PICK h : h = [r \in file.rows |-> call(r)]
      OBVIOUS
    <2>2. \A y \in db["stop_times"] : \E x \in file.rows : y = h[x]
      BY <1>6, <2>1
    <2>3. PICK T : T = db["stop_times"]
      OBVIOUS
    <2> HIDE DEF call
    <2> QED
      BY <1>5, <2>2, <2>3, ImageFinite
  <1> HIDE DEF call
  <1>9. \A c \in db["stop_times"] : c.seq \in Int /\ c.arr \in Int \cup {Null} /\ c.dep \in Int \cup {Null}
    BY <1>5, <1>6, <1>7
  <1>10. \A c, e \in db["stop_times"] : c.trip = e.trip /\ c.seq = e.seq => c = e
    BY <1>5, <1>6, <1>7
  <1>11. \A s \in db["stops"] : s.pos \in Int \cup {Null}
    <2>1. \A r \in g["stops"].rows : DOMAIN r = {"id", "parent", "name", "pos"} /\ r.pos \in Int \cup {Null}
      BY <1>3, FeedsAssumption DEF FeedsAssumption
    <2>2. db["stops"] = {[r EXCEPT !.parent = Column(g["stops"], "parent_station", r.parent)] : r \in g["stops"].rows}
      BY <1>3 DEF Select
    <2> QED
      BY <2>1, <2>2
  <1> QED
    BY <1>8, <1>9, <1>10, <1>11 DEF WellFormed

-----------------------------------------------------------------------------
\* The length of a list is the last of its indices.
LEMMA LengthOf ==
    ASSUME NEW n \in Nat, NEW f, f = [i \in 1..n |-> f[i]]
    PROVE  Len(f) = n
  <1>1. PICK S : S = {f[i] : i \in 1..n}
    OBVIOUS
  <1>2. f \in [1..n -> S]
    BY <1>1
  <1>3. f \in Seq(S)
    BY <1>2
  <1>4. PICK l \in Nat : l = Len(f) /\ 1..l = 1..n
    BY <1>3, LenProperties
  <1>5. n # 0 => n \in 1..l
    BY <1>4
  <1>6. l # 0 => l \in 1..n
    BY <1>4
  <1> QED
    BY <1>4, <1>5, <1>6

\* Sums along a list exist,
LEMMA RunningSumsExist ==
    ASSUME NEW n \in Nat, NEW D, \A i \in 1..n : D[i] \in Int
    PROVE  \E f : f = [i \in 1..n |-> IF i = 1 THEN 0 ELSE f[i - 1] + D[i]]
  <1> DEFINE Summed(k) == \E f \in [1..k -> Int] :
                              \A i \in 1..k : f[i] = IF i = 1 THEN 0 ELSE f[i - 1] + D[i]
             K == {k \in Nat : k <= n => Summed(k)}
  <1>1. Summed(0)
    <2>1. PICK f : f = [i \in 1..0 |-> 0]
      OBVIOUS
    <2>2. f \in [1..0 -> Int] /\ \A i \in 1..0 : f[i] = IF i = 1 THEN 0 ELSE f[i - 1] + D[i]
      BY <2>1
    <2> QED
      BY <2>2
  <1>2. ASSUME NEW k \in Nat, Summed(k), k + 1 <= n PROVE Summed(k + 1)
    <2>1. PICK f \in [1..k -> Int] : \A i \in 1..k : f[i] = IF i = 1 THEN 0 ELSE f[i - 1] + D[i]
      BY <1>2
    <2>2. PICK g : g = [i \in 1..(k + 1) |-> IF i \in 1..k THEN f[i] ELSE IF i = 1 THEN 0 ELSE f[k] + D[i]]
      OBVIOUS
    <2>3. ASSUME NEW i \in 1..(k + 1) PROVE g[i] \in Int /\ g[i] = IF i = 1 THEN 0 ELSE g[i - 1] + D[i]
      <3>1. CASE i \in 1..k
        <4>1. g[i] = f[i] /\ f[i] \in Int /\ f[i] = IF i = 1 THEN 0 ELSE f[i - 1] + D[i]
          BY <2>1, <2>2, <3>1
        <4>2. i # 1 => i - 1 \in 1..k /\ i - 1 \in 1..(k + 1)
          BY <3>1
        <4>3. i # 1 => g[i - 1] = f[i - 1]
          BY <2>2, <4>2
        <4> QED
          BY <4>1, <4>3
      <3>2. CASE i = k + 1 /\ i = 1
        <4>1. i \notin 1..k
          BY <3>2
        <4>2. g[i] = 0
          BY <2>2, <3>2, <4>1
        <4> QED
          BY <3>2, <4>2
      <3>3. CASE i = k + 1 /\ i # 1
        <4>1. k \in 1..k /\ k \in 1..(k + 1) /\ i \notin 1..k /\ i - 1 = k
          BY <3>3
        <4>2. g[i] = f[k] + D[i]
          BY <2>2, <3>3, <4>1
        <4>3. g[i - 1] = f[k]
          BY <2>2, <4>1
        <4>4. f[k] \in Int /\ D[i] \in Int
          BY <1>2, <3>3, <4>1
        <4> QED
          BY <3>3, <4>2, <4>3, <4>4
      <3> QED
        BY <3>1, <3>2, <3>3
    <2>4. g \in [1..(k + 1) -> Int]
      BY <2>2, <2>3
    <2> QED
      BY <2>3, <2>4
  <1> HIDE DEF Summed
  <1>3. Nat \subseteq K
    <2>1. 0 \in K
      BY <1>1
    <2>2. \A k \in Nat : k \in K => k + 1 \in K
      BY <1>2
    <2> HIDE DEF K
    <2> QED
      BY <2>1, <2>2, NumbersReached
  <1>4. PICK f \in [1..n -> Int] : \A i \in 1..n : f[i] = IF i = 1 THEN 0 ELSE f[i - 1] + D[i]
    <2>1. n \in K /\ n <= n
      BY <1>3
    <2> QED
      BY <2>1 DEF Summed
  <1>5. f = [i \in 1..n |-> f[i]]
    OBVIOUS
  <1>6. f = [i \in 1..n |-> IF i = 1 THEN 0 ELSE f[i - 1] + D[i]]
    BY <1>4, <1>5
  <1> QED
    BY <1>6

\* and are numbers.
LEMMA RunningSumsTyped ==
    ASSUME NEW n \in Nat, NEW D, \A i \in 1..n : D[i] \in Int,
           NEW f, \A i \in 1..n : f[i] = IF i = 1 THEN 0 ELSE f[i - 1] + D[i]
    PROVE  \A i \in 1..n : f[i] \in Int
  <1> DEFINE K == {k \in Nat : k \in 1..n => f[k] \in Int}
  <1>1. 0 \in K
    OBVIOUS
  <1>2. ASSUME NEW k \in Nat, k \in K PROVE k + 1 \in K
    <2>1. CASE k = 0
      BY <2>1
    <2>2. CASE k # 0 /\ k + 1 \in 1..n
      <3>1. k \in 1..n /\ k + 1 # 1 /\ (k + 1) - 1 = k
        BY <2>2
      <3>2. f[k + 1] = f[k] + D[k + 1]
        BY <2>2, <3>1
      <3> QED
        BY <1>2, <2>2, <3>1, <3>2
    <2> QED
      BY <2>1, <2>2
  <1> HIDE DEF K
  <1>3. Nat \subseteq K
    BY <1>1, <1>2, NumbersReached
  <1> QED
    BY <1>3 DEF K

\* The stations of the corridor are where the numbers say.
CorridorTyped ==
    /\ DOMAIN Corridor = 1..Len(Names) /\ Len(Corridor) = Len(Names)
    /\ \A i \in 1..Len(Names) : Corridor[i].km \in Int
    /\ \A i \in 1..(Len(Names) - 1) : Corridor[i].km <= Corridor[i + 1].km

\* Distances are sums along the list of stations, so they are numbers and ascend.
LEMMA CorridorIsTyped ==
    ASSUME WellFormed(db), CorridorIsFound(db)
    PROVE  CorridorTyped
  <1> DEFINE pos(i) == (CHOOSE s \in Located(db, Names[i]) : TRUE).pos
             Fits(f) == f = [i \in DOMAIN Names |-> IF i = 1 THEN 0 ELSE f[i - 1] + Distance(pos(i - 1), pos(i))]
             km == CHOOSE f : Fits(f)
  <1>1. PICK n \in Nat : n = Len(Names) /\ DOMAIN Names = 1..n
    BY LineAssumption DEF LineAssumption
  <1>2. ASSUME NEW i \in 1..n PROVE pos(i) \in Int
    <2>1. Located(db, Names[i]) # {}
      BY <1>1 DEF CorridorIsFound
    <2>2. \A s \in Located(db, Names[i]) : s.pos \in Int
      BY DEF Located, WellFormed
    <2> QED
      BY <2>1, <2>2
  <1>3. PICK D : D = [i \in 1..n |-> IF i = 1 THEN 0 ELSE Distance(pos(i - 1), pos(i))]
    OBVIOUS
  <1>4. \A i \in 1..n : D[i] \in Int /\ D[i] >= 0
    <2> SUFFICES ASSUME NEW i \in 1..n PROVE D[i] \in Int /\ D[i] >= 0
      OBVIOUS
    <2>1. CASE i = 1
      BY <1>3, <2>1
    <2>2. CASE i # 1
      <3>1. i - 1 \in 1..n
        BY <2>2
      <3>2. pos(i - 1) \in Int /\ pos(i) \in Int
        BY <1>2, <3>1
      <3> HIDE DEF pos
      <3>3. Distance(pos(i - 1), pos(i)) \in Int /\ Distance(pos(i - 1), pos(i)) >= 0
        BY <3>2 DEF Distance
      <3> QED
        BY <1>3, <2>2, <3>3
    <2> QED
      BY <2>1, <2>2
  <1>5. ASSUME NEW f PROVE Fits(f) <=> f = [i \in 1..n |-> IF i = 1 THEN 0 ELSE f[i - 1] + D[i]]
    <2>1. \A i \in 1..n : (IF i = 1 THEN 0 ELSE f[i - 1] + Distance(pos(i - 1), pos(i)))
                             = IF i = 1 THEN 0 ELSE f[i - 1] + D[i]
      BY <1>3
    <2>2. [i \in 1..n |-> IF i = 1 THEN 0 ELSE f[i - 1] + Distance(pos(i - 1), pos(i))]
            = [i \in 1..n |-> IF i = 1 THEN 0 ELSE f[i - 1] + D[i]]
      BY <2>1
    <2> QED
      BY <1>1, <2>2
  <1>6. \E f : Fits(f)
    <2>1. PICK f : f = [i \in 1..n |-> IF i = 1 THEN 0 ELSE f[i - 1] + D[i]]
      BY <1>4, RunningSumsExist
    <2> HIDE DEF Fits
    <2> QED
      BY <1>5, <2>1
  <1>7. Fits(km)
    <2> HIDE DEF Fits
    <2> QED
      BY <1>6
  <1>8. Corridor = [i \in DOMAIN Names |->
           [name |-> Names[i], km |-> km[i], stops |-> {s.id : s \in {x \in db["stops"] : x.name = Names[i]}}]]
    BY DEF Corridor, BuildCorridor
  <1>9. PICK g : g = km /\ g = [i \in 1..n |-> IF i = 1 THEN 0 ELSE g[i - 1] + D[i]]
    <2> HIDE DEF Fits
    <2>1. PICK f : f = km /\ Fits(f)
      BY <1>7
    <2> QED
      BY <1>5, <2>1
  <1>10. \A i \in 1..n : g[i] = IF i = 1 THEN 0 ELSE g[i - 1] + D[i]
    BY <1>9
  <1>11. \A i \in 1..n : g[i] \in Int
    BY <1>4, <1>10, RunningSumsTyped
  <1> HIDE DEF Fits, km, pos
  <1>12. DOMAIN Corridor = 1..n /\ \A i \in 1..n : Corridor[i].km \in Int
    BY <1>1, <1>8, <1>9, <1>11
  <1>13. Len(Corridor) = n
    <2>1. PICK c : c = Corridor
      OBVIOUS
    <2>2. c = [i \in 1..n |-> c[i]]
      BY <1>1, <1>8, <2>1
    <2>3. Len(c) = n
      BY <2>2, LengthOf
    <2> QED
      BY <2>1, <2>3
  <1>14. ASSUME NEW i \in 1..(n - 1) PROVE Corridor[i].km <= Corridor[i + 1].km
    <2>1. i \in 1..n /\ i + 1 \in 1..n /\ i + 1 # 1 /\ (i + 1) - 1 = i
      BY <1>1
    <2>2. g[i + 1] = g[i] + D[i + 1]
      BY <1>10, <2>1
    <2>3. g[i] \in Int /\ D[i + 1] \in Int /\ D[i + 1] >= 0
      BY <1>4, <1>11, <2>1
    <2>4. Corridor[i].km = g[i] /\ Corridor[i + 1].km = g[i + 1]
      BY <1>1, <1>8, <1>9, <2>1
    <2>5. g[i] <= g[i + 1]
      BY <2>2, <2>3
    <2> QED
      BY <2>4, <2>5
  <1> QED
    BY <1>1, <1>12, <1>13, <1>14 DEF CorridorTyped

-----------------------------------------------------------------------------
\* The calls at the stations of the corridor, and where they are.
OnLine == {c \in CallsOn(db, Day) : IndexOfStop(Corridor, c.stop) <= Len(Corridor)}
Km(c) == Corridor[IndexOfStop(Corridor, c.stop)].km
CallsOf(trip) == {c \in OnLine : c.trip = trip}
PointsOf(trip) == UNION {{[time |-> x, km |-> Km(c)] : x \in {c.arr, c.dep} \ {Null}} : c \in CallsOf(trip)}

\* They are finitely many, each at a place.
LEMMA CallsOnLine ==
    ASSUME WellFormed(db), CorridorTyped
    PROVE  IsFiniteSet(OnLine) /\ \A c \in OnLine : c \in db["stop_times"] /\ Km(c) \in Int
  <1>1. \A c \in OnLine : c \in db["stop_times"] /\ IndexOfStop(Corridor, c.stop) <= Len(Corridor)
    BY DEF OnLine, CallsOn
  <1>2. IsFiniteSet(OnLine)
    <2>1. PICK S, T : S = db["stop_times"] /\ T = OnLine
      OBVIOUS
    <2>2. IsFiniteSet(S) /\ T \in SUBSET S
      BY <1>1, <2>1 DEF WellFormed
    <2>3. IsFiniteSet(T)
      BY <2>2, FS_Subset
    <2> QED
      BY <2>1, <2>3
  <1>3. ASSUME NEW c \in OnLine PROVE Km(c) \in Int
    <2>1. PICK n \in Nat : n = Len(Names) /\ n = Len(Corridor) /\ DOMAIN Corridor = 1..n
      BY LineAssumption DEF LineAssumption, CorridorTyped
    <2>2. PICK T : T = {i \in 1..n : c.stop \in Corridor[i].stops} \cup {n + 1}
      OBVIOUS
    <2>3. T \subseteq Nat /\ T # {}
      BY <2>2
    <2>4. PICK m \in T : \A y \in T : m <= y
      BY <2>3, LeastNumber
    <2>5. Min(T) \in T
      BY <2>4 DEF Min
    <2>6. IndexOfStop(Corridor, c.stop) = Min(T)
      BY <2>1, <2>2 DEF IndexOfStop
    <2>7. Min(T) \in 1..n
      BY <1>1, <2>1, <2>2, <2>5, <2>6
    <2> QED
      BY <2>1, <2>6, <2>7 DEF Km, CorridorTyped
  <1> QED
    BY <1>1, <1>2, <1>3

\* A path is made of the calls of its train, and a train has one path.
LEMMA PathsOfCalls ==
    /\ \A p \in Paths : /\ CallsOf(p.trip) # {} /\ p.points = PointsOf(p.trip)
                        /\ p.direction \in {"down", "up"}
    /\ \A p, q \in Paths : p.trip = q.trip => p = q
  <1> DEFINE ends(t) == <<CHOOSE c \in CallsOf(t) : \A e \in CallsOf(t) : c.seq <= e.seq,
                          CHOOSE c \in CallsOf(t) : \A e \in CallsOf(t) : c.seq >= e.seq>>
             way(t) == IF Km(ends(t)[2]) > Km(ends(t)[1]) THEN "down" ELSE "up"
             trips == {c.trip : c \in {x \in OnLine : Cardinality({Km(y) : y \in CallsOf(x.trip)}) >= 2}}
  <1>1. Paths = {[trip |-> t, points |-> PointsOf(t), direction |-> way(t)] : t \in trips}
    BY DEF Paths, ExtractTrainPaths, OnLine, Km, CallsOf, PointsOf
  <1>2. \A t \in trips : CallsOf(t) # {}
    BY DEF CallsOf
  <1>3. \A t : way(t) \in {"down", "up"}
    OBVIOUS
  <1> HIDE DEF way, trips
  <1> QED
    BY <1>1, <1>2, <1>3

\* So there are finitely many paths.
LEMMA PathsFinite ==
    ASSUME WellFormed(db), CorridorTyped
    PROVE  IsFiniteSet(Paths)
  <1>1. PICK S, P : S = OnLine /\ P = Paths
    OBVIOUS
  <1>2. PICK g : g = [c \in S |-> CHOOSE p \in P : p.trip = c.trip]
    OBVIOUS
  <1>3. ASSUME NEW p \in P PROVE \E c \in S : p = g[c]
    <2>1. PICK c \in S : c.trip = p.trip
      BY <1>1, PathsOfCalls DEF CallsOf
    <2>2. g[c] \in P /\ g[c].trip = p.trip
      BY <1>2, <2>1
    <2>3. g[c] = p
      BY <1>1, <2>2, PathsOfCalls
    <2> QED
      BY <2>3
  <1>4. IsFiniteSet(S)
    BY <1>1, CallsOnLine
  <1>5. IsFiniteSet(P)
    BY <1>3, <1>4, ImageFinite
  <1> QED
    BY <1>1, <1>5

\* Points of a path: numbers, finitely many of them.
PointsTyped(points) ==
    /\ IsFiniteSet(points)
    /\ \A x \in points : x.time \in Int /\ x.km \in Int
    /\ \A x, y \in points : x.time = y.time /\ x.km = y.km => x = y

\* The points of a train are its times at the stations of the corridor.
LEMMA PathsTyped ==
    ASSUME WellFormed(db), CorridorTyped, NEW p \in Paths
    PROVE  PointsTyped(p.points)
  <1>1. PICK S, P : S = CallsOf(p.trip) /\ P = p.points
    OBVIOUS
  <1>2. IsFiniteSet(S)
    <2>1. PICK T : T = OnLine
      OBVIOUS
    <2>2. S \in SUBSET T /\ IsFiniteSet(T)
      BY <1>1, <2>1, CallsOnLine DEF CallsOf
    <2> QED
      BY <2>2, FS_Subset
  <1>3. \A x \in P : \E c \in S : \E t \in {c.arr, c.dep} \ {Null} : x = [time |-> t, km |-> Km(c)]
    BY <1>1, PathsOfCalls DEF PointsOf
  <1>4. \A c \in S : Km(c) \in Int /\ \A t \in {c.arr, c.dep} \ {Null} : t \in Int
    <2>1. \A c \in S : c \in OnLine
      BY <1>1 DEF CallsOf
    <2> QED
      BY <2>1, CallsOnLine DEF WellFormed
  <1>5. IsFiniteSet(P)
    <2>1. PICK g, h : /\ g = [c \in S |-> [time |-> c.arr, km |-> Km(c)]]
                      /\ h = [c \in S |-> [time |-> c.dep, km |-> Km(c)]]
      OBVIOUS
    <2>2. PICK A, B : A = {g[c] : c \in S} /\ B = {h[c] : c \in S}
      OBVIOUS
    <2>3. IsFiniteSet(A) /\ IsFiniteSet(B)
      <3>1. (\A y \in A : \E x \in S : y = g[x]) /\ (\A y \in B : \E x \in S : y = h[x])
        BY <2>2
      <3> QED
        BY <1>2, <3>1, ImageFinite
    <2>4. ASSUME NEW x \in P PROVE x \in A \cup B
      <3>1. PICK c \in S : x = [time |-> c.arr, km |-> Km(c)] \/ x = [time |-> c.dep, km |-> Km(c)]
        BY <1>3
      <3>2. x = g[c] \/ x = h[c]
        BY <2>1, <3>1
      <3> QED
        BY <2>2, <3>2
    <2>5. IsFiniteSet(A \cup B)
      BY <2>3, FS_Union
    <2>6. P \in SUBSET (A \cup B)
      BY <2>4
    <2> QED
      BY <2>5, <2>6, FS_Subset
  <1>6. \A x \in P : x.time \in Int /\ x.km \in Int
    BY <1>3, <1>4
  <1>7. \A x, y \in P : x.time = y.time /\ x.km = y.km => x = y
    BY <1>3
  <1> QED
    BY <1>1, <1>5, <1>6, <1>7 DEF PointsTyped

-----------------------------------------------------------------------------
\* Division with a remainder.
LEMMA Quotient ==
    ASSUME NEW n \in Int, NEW m \in Int, m > 0
    PROVE  /\ n \div m \in Int /\ n % m \in Int /\ 0 <= n % m /\ n % m < m
           /\ n = m * (n \div m) + (n % m)
  OBVIOUS

\* A positive factor may be cancelled.
LEMMA Cancelled ==
    ASSUME NEW a \in Int, NEW b \in Int, NEW m \in Int, m > 0, m * a < m * b
    PROVE  a < b
  OBVIOUS

\* Rounding leaves a quotient between the numbers it was between.
LEMMA RoundBetween ==
    ASSUME NEW n \in Int, NEW m \in Int, m > 0, NEW a \in Int, NEW b \in Int, m * a <= n, n <= m * b
    PROVE  Round(n, m) \in Int /\ a <= Round(n, m) /\ Round(n, m) <= b
  <1>1. PICK q, r : q = n \div m /\ r = n % m
    OBVIOUS
  <1>2. q \in Int /\ r \in Int /\ 0 <= r /\ r < m /\ n = m * q + r
    BY <1>1, Quotient
  <1>3. a <= q
    <2>1. m * a < m * (q + 1)
      BY <1>2
    <2>2. a < q + 1
      BY <1>2, <2>1, Cancelled
    <2> QED
      BY <1>2, <2>2
  <1>4. q <= b /\ (r > 0 => q + 1 <= b)
    <2>1. m * q < m * (b + 1)
      BY <1>2
    <2>2. q < b + 1
      BY <1>2, <2>1, Cancelled
    <2>3. ASSUME r > 0 PROVE q < b
      <3>1. m * q < m * b
        BY <1>2, <2>3
      <3> QED
        BY <1>2, <3>1, Cancelled
    <2> QED
      BY <1>2, <2>2, <2>3
  <1>5. Round(n, m) = q \/ (r > 0 /\ Round(n, m) = q + 1)
    BY <1>1, <1>2 DEF Round
  <1> QED
    BY <1>2, <1>3, <1>4, <1>5

\* Rounding keeps quotients in order.
LEMMA RoundMonotone ==
    ASSUME NEW n \in Int, NEW l \in Int, NEW m \in Int, m > 0, n <= l
    PROVE  Round(n, m) <= Round(l, m)
  <1>1. PICK q, r, p, t : q = n \div m /\ r = n % m /\ p = l \div m /\ t = l % m
    OBVIOUS
  <1>2. /\ q \in Int /\ r \in Int /\ 0 <= r /\ r < m /\ n = m * q + r
        /\ p \in Int /\ t \in Int /\ 0 <= t /\ t < m /\ l = m * p + t
    BY <1>1, Quotient
  <1>3. q <= p
    <2>1. m * q < m * (p + 1)
      BY <1>2
    <2>2. q < p + 1
      BY <1>2, <2>1, Cancelled
    <2> QED
      BY <1>2, <2>2
  <1>4. Round(n, m) \in {q, q + 1} /\ Round(l, m) \in {p, p + 1}
    BY <1>1, <1>2 DEF Round
  <1>5. CASE q < p
    BY <1>2, <1>4, <1>5
  <1>6. CASE q = p
    <2>1. r <= t
      BY <1>2, <1>6
    <2> QED
      BY <1>1, <1>2, <1>6, <2>1 DEF Round
  <1> QED
    BY <1>2, <1>3, <1>5, <1>6

\* What lies between two numbers, weighted by the distances to them.
LEMMA WeightedBetween ==
    ASSUME NEW s \in Int, NEW t \in Int, NEW u \in Int, NEW v \in Int, 0 <= u, 0 <= v
    PROVE  /\ s <= t => (u + v) * s <= s * u + t * v /\ s * u + t * v <= (u + v) * t
           /\ t <= s => (u + v) * t <= s * u + t * v /\ s * u + t * v <= (u + v) * s
  <1>1. ASSUME NEW x \in Int, NEW y \in Int, NEW k \in Int, 0 <= k, x <= y PROVE x * k <= y * k
    BY <1>1
  <1>2. ASSUME s <= t PROVE s * u <= t * u /\ s * v <= t * v
    BY <1>1, <1>2
  <1>3. ASSUME t <= s PROVE t * u <= s * u /\ t * v <= s * v
    BY <1>1, <1>3
  <1>4. (u + v) * s = s * u + s * v /\ (u + v) * t = t * u + t * v
    OBVIOUS
  <1>5. PICK a, b, c, d : a = s * u /\ b = s * v /\ c = t * u /\ d = t * v
    OBVIOUS
  <1>6. a \in Int /\ b \in Int /\ c \in Int /\ d \in Int
    BY <1>5
  <1>7. /\ s <= t => a <= c /\ b <= d
        /\ t <= s => c <= a /\ d <= b
    BY <1>2, <1>3, <1>5
  <1>8. /\ s <= t => a + b <= a + d /\ a + d <= c + d
        /\ t <= s => c + d <= a + d /\ a + d <= a + b
    BY <1>6, <1>7
  <1> QED
    BY <1>4, <1>5, <1>8

-----------------------------------------------------------------------------
\* The order in which points are taken to look for a place between two.
Nearer(p, q) == p.km < q.km \/ (p.km = q.km /\ p.time < q.time)

\* Each of them is looked at.
LEMMA PointsInOrder ==
    ASSUME NEW P, PointsTyped(P), P # {}
    PROVE  \E n \in Nat \ {0} :
             /\ Len(Sorted(P, Nearer)) = n /\ \A i \in 1..n : Sorted(P, Nearer)[i] \in P
             /\ \A x \in P : \E i \in 1..n : Sorted(P, Nearer)[i] = x
             /\ \A i, j \in 1..n : i < j => Nearer(Sorted(P, Nearer)[i], Sorted(P, Nearer)[j])
  <1> DEFINE R == {p \in P \X P : Nearer(p[1], p[2])}
  <1>1. \A x, y \in P : <<x, y>> \in R <=> Nearer(x, y)
    OBVIOUS
  <1>2. StrictOrder(P, R)
    <2>1. /\ \A x \in P : ~Nearer(x, x)
          /\ \A x, y, z \in P : Nearer(x, y) /\ Nearer(y, z) => Nearer(x, z)
          /\ \A x, y \in P : x # y => Nearer(x, y) \/ Nearer(y, x)
      BY DEF PointsTyped, Nearer
    <2> HIDE DEF R
    <2> QED
      BY <1>1, <2>1 DEF StrictOrder
  <1>3. \A x \in P : {y \in P : Nearer(y, x)} = Below(P, R, x)
    BY <1>1 DEF Below
  <1>4. PICK n \in Nat \ {0} : n = Cardinality(P)
    BY FS_CardinalityType, FS_EmptySet DEF PointsTyped
  <1>5. PICK pts : /\ pts = Sorted(P, Nearer)
                   /\ pts = [i \in 1..n |-> CHOOSE x \in P : Cardinality({y \in P : Nearer(y, x)}) = i - 1]
    BY <1>4 DEF Sorted
  <1> HIDE DEF R
  <1>6. PICK f : f = [i \in 1..n |-> CHOOSE x \in P : Cardinality(Below(P, R, x)) = i - 1]
    OBVIOUS
  <1>7. \A i \in 1..n : pts[i] = f[i]
    <2>1. \A i : (CHOOSE x \in P : Cardinality({y \in P : Nearer(y, x)}) = i - 1)
                    = CHOOSE x \in P : Cardinality(Below(P, R, x)) = i - 1
      BY <1>3
    <2>2. \A i \in 1..n : pts[i] = CHOOSE x \in P : Cardinality({y \in P : Nearer(y, x)}) = i - 1
      BY <1>5
    <2>3. \A i \in 1..n : f[i] = CHOOSE x \in P : Cardinality(Below(P, R, x)) = i - 1
      BY <1>6
    <2> QED
      BY <2>1, <2>2, <2>3
  <1>8. InOrder(P, R, f)
    BY <1>2, <1>4, <1>6, Ranking DEF PointsTyped
  <1>9. /\ \A i \in 1..n : pts[i] \in P
        /\ \A x \in P : \E i \in 1..n : pts[i] = x
    BY <1>4, <1>7, <1>8 DEF InOrder
  <1>10. ASSUME NEW i \in 1..n, NEW j \in 1..n, i < j PROVE Nearer(pts[i], pts[j])
    <2>1. <<pts[i], pts[j]>> \in R
      BY <1>4, <1>7, <1>8, <1>10 DEF InOrder
    <2> QED
      BY <1>1, <1>9, <2>1
  <1>11. pts = [i \in 1..n |-> pts[i]]
    BY <1>5
  <1>12. Len(pts) = n
    BY <1>11, LengthOf
  <1> QED
    BY <1>5, <1>9, <1>10, <1>12

\* A train passes a place between two of its times.
Passed(points, t) == t \in Int /\ \E x, y \in points : x.time <= t /\ t <= y.time

\* An interpolated time lies between those of two neighbouring points.
LEMMA Interpolated ==
    ASSUME NEW path, PointsTyped(path.points), path.points # {}, NEW km \in Int, InterpTimeAt(path, km) # Null
    PROVE  Passed(path.points, InterpTimeAt(path, km))
  <1>1. PICK pts, n : /\ pts = Sorted(path.points, Nearer)
                      /\ n \in Nat \ {0} /\ Len(pts) = n /\ \A i \in 1..n : pts[i] \in path.points
    BY PointsInOrder
  <1>2. \A x \in path.points : x.time \in Int /\ x.km \in Int
    BY DEF PointsTyped
  <1>3. pts = Sorted(path.points, LAMBDA p, q : p.km < q.km \/ (p.km = q.km /\ p.time < q.time))
    BY <1>1 DEF Sorted, Nearer
  <1>4. PICK around : around = {i \in 1..(n - 1) : pts[i].km <= km /\ km <= pts[i + 1].km}
    OBVIOUS
  <1> DEFINE p == pts[Min(around)]
             q == pts[Min(around) + 1]
  <1>5. PICK t : t = InterpTimeAt(path, km)
    OBVIOUS
  <1> SUFFICES Passed(path.points, t)
    BY <1>5
  <1>6. t = IF around = {} THEN pts[n].time
            ELSE IF p.km = q.km THEN p.time
            ELSE Round(p.time * (q.km - p.km) + (q.time - p.time) * (km - p.km), q.km - p.km)
    BY <1>5, <1>1, <1>3, <1>4 DEF InterpTimeAt
  <1>7. ASSUME NEW x \in path.points, t = x.time PROVE Passed(path.points, t)
    BY <1>2, <1>7 DEF Passed
  <1>8. CASE around = {}
    <2>1. n \in 1..n
      BY <1>1
    <2>2. pts[n] \in path.points /\ t = pts[n].time
      BY <1>1, <1>6, <1>8, <2>1
    <2> QED
      BY <1>7, <2>2
  <1>9. CASE around # {}
    <2>1. around \subseteq Nat
      BY <1>1, <1>4
    <2>2. PICK m \in around : \A y \in around : m <= y
      BY <1>9, <2>1, LeastNumber
    <2>3. Min(around) \in around
      BY <2>2 DEF Min
    <2>4. PICK i \in 1..(n - 1) : i = Min(around) /\ pts[i].km <= km /\ km <= pts[i + 1].km
      BY <1>4, <2>3
    <2>5. i \in 1..n /\ i + 1 \in 1..n
      BY <1>1, <2>4
    <2>6. PICK a \in path.points, b \in path.points : a = p /\ b = q /\ a.km <= km /\ km <= b.km
      BY <1>1, <2>4, <2>5
    <2>7. t = IF a.km = b.km THEN a.time
              ELSE Round(a.time * (b.km - a.km) + (b.time - a.time) * (km - a.km), b.km - a.km)
      BY <1>6, <1>9, <2>6
    <2> HIDE DEF p, q
    <2>8. CASE a.km = b.km
      BY <1>7, <2>7, <2>8
    <2>9. CASE a.km # b.km
      <3>1. PICK s \in Int, e \in Int, u \in Int, v \in Int :
               s = a.time /\ e = b.time /\ u = b.km - km /\ v = km - a.km
        BY <1>2
      <3>2. 0 <= u /\ 0 <= v /\ u + v = b.km - a.km /\ u + v > 0
        <4>1. PICK k \in Int, l \in Int : k = a.km /\ l = b.km
          BY <1>2
        <4>2. k <= km /\ km <= l /\ k # l /\ u = l - km /\ v = km - k
          BY <2>6, <2>9, <3>1, <4>1
        <4>3. 0 <= u /\ 0 <= v /\ u + v = l - k /\ u + v > 0
          BY <4>2
        <4> QED
          BY <4>1, <4>3
      <3>3. PICK w \in Int : w = s * u + e * v
        OBVIOUS
      <3>4. s * (u + v) + (e - s) * v = w
        BY <3>3
      <3>5. t = Round(w, u + v)
        <4>1. t = Round(a.time * (b.km - a.km) + (b.time - a.time) * (km - a.km), b.km - a.km)
          BY <2>7, <2>9
        <4> QED
          BY <3>1, <3>2, <3>4, <4>1
      <3>6. PICK d \in Int : d = u + v
        OBVIOUS
      <3>7. CASE s <= e
        <4>1. d * s <= w /\ w <= d * e
          BY <3>2, <3>3, <3>6, <3>7, WeightedBetween
        <4>2. t \in Int /\ s <= t /\ t <= e
          BY <3>2, <3>5, <3>6, <4>1, RoundBetween
        <4> QED
          BY <3>1, <4>2 DEF Passed
      <3>8. CASE e <= s
        <4>1. d * e <= w /\ w <= d * s
          BY <3>2, <3>3, <3>6, <3>8, WeightedBetween
        <4>2. t \in Int /\ e <= t /\ t <= s
          BY <3>2, <3>5, <3>6, <4>1, RoundBetween
        <4> QED
          BY <3>1, <4>2 DEF Passed
      <3> QED
        BY <3>7, <3>8
    <2> QED
      BY <2>8, <2>9
  <1> QED
    BY <1>5, <1>8, <1>9

\* The last point below a place, and the first one above it, in the order of
\* _interp_time_at.
IsLow(P, a, km) ==
    a \in P /\ a.km < km /\ \A x \in P : x.km < km => x.km < a.km \/ (x.km = a.km /\ x.time <= a.time)

IsHigh(P, b, km) ==
    b \in P /\ km < b.km /\ \A x \in P : km < x.km => b.km < x.km \/ (x.km = b.km /\ b.time <= x.time)

IsFirstAt(P, x, km) == x \in P /\ x.km = km /\ \A y \in P : y.km = km => x.time <= y.time

Between(a, b, km) == Round(a.time * (b.km - km) + b.time * (km - a.km), b.km - a.km)

\* Places k and times s, n of them, in order.
InLine(n, k, s) ==
    /\ k \in [1..n -> Int] /\ s \in [1..n -> Int]
    /\ \A i, j \in 1..n : i < j => k[i] < k[j] \/ (k[i] = k[j] /\ s[i] < s[j])

\* The j-th is the first at a place, and in the first pair of A if there is one.
PairMeets(n, k, s, km, A, j) ==
    /\ k[j] = km /\ \A i \in 1..n : k[i] = km => s[j] <= s[i]
    /\ \/ A = {} /\ j = n
       \/ \E i \in A : (\A m \in A : i <= m) /\ (j = i \/ (j = i + 1 /\ k[i] # k[j]))

\* The first pair of A is the pair around the place.
PairSpans(n, k, s, km, A, i) ==
    /\ \A m \in A : i <= m
    /\ k[i] < km /\ km < k[i + 1]
    /\ \A m \in 1..n : k[m] < km => k[m] < k[i] \/ (k[m] = k[i] /\ s[m] <= s[i])
    /\ \A m \in 1..n : km < k[m] => k[i + 1] < k[m] \/ (k[m] = k[i + 1] /\ s[i + 1] <= s[m])

\* The first pair that has a place between meets it or spans it.
LEMMA PairAround ==
    ASSUME NEW n \in Nat, n > 0, NEW k, NEW s, InLine(n, k, s),
           NEW km \in Int, k[1] <= km, km <= k[n],
           NEW A, A = {i \in 1..(n - 1) : k[i] <= km /\ km <= k[i + 1]}
    PROVE  \/ \E j \in 1..n : PairMeets(n, k, s, km, A, j)
           \/ \E i \in A : PairSpans(n, k, s, km, A, i)
  <1> USE DEF InLine, PairMeets, PairSpans
  <1>1. \A i \in 1..n : k[i] \in Int /\ s[i] \in Int
    OBVIOUS
  <1>2. \A i, j \in 1..n : i <= j => k[i] <= k[j]
    <2> SUFFICES ASSUME NEW i \in 1..n, NEW j \in 1..n, i <= j PROVE k[i] <= k[j]
      OBVIOUS
    <2>1. i = j \/ i < j
      OBVIOUS
    <2> QED
      BY <1>1, <2>1
  <1>3. PICK J : J = {i \in 1..n : km <= k[i]}
    OBVIOUS
  <1>4. n \in J /\ J \subseteq Nat
    BY <1>3
  <1>5. PICK j \in J : \A i \in J : j <= i
    BY <1>4, LeastNumber
  <1>6. j \in 1..n /\ km <= k[j] /\ \A i \in 1..n : i < j => k[i] < km
    <2>1. j \in 1..n /\ km <= k[j]
      BY <1>3, <1>5
    <2>2. ASSUME NEW i \in 1..n, i < j PROVE k[i] < km
      <3>1. i \notin J
        BY <1>5, <2>1, <2>2
      <3> QED
        BY <1>1, <1>3, <3>1
    <2> QED
      BY <2>1, <2>2
  <1>7. ASSUME NEW i \in 1..n, k[i] = km PROVE k[j] = km /\ s[j] <= s[i]
    <2>1. j <= i
      BY <1>3, <1>5, <1>7
    <2>2. k[j] <= km
      BY <1>2, <1>6, <1>7, <2>1
    <2>3. j = i \/ j < i
      BY <1>6, <2>1
    <2>4. k[j] = km
      BY <1>1, <1>6, <2>2
    <2>5. CASE j < i
      <3>1. k[j] < k[i] \/ (k[j] = k[i] /\ s[j] < s[i])
        BY <1>6, <2>5
      <3> QED
        BY <1>1, <1>6, <1>7, <2>4, <3>1
    <2> QED
      BY <1>1, <1>6, <1>7, <2>3, <2>4, <2>5
  <1>8. CASE j = 1
    <2>1. k[j] = km
      BY <1>1, <1>6, <1>8
    <2>2. CASE n = 1
      <3>1. 1..(n - 1) = {}
        BY <2>2
      <3>2. A = {} /\ j = n
        BY <1>8, <2>2, <3>1
      <3> QED
        BY <1>6, <1>7, <2>1, <3>2
    <2>3. CASE n # 1
      <3>1. 1 \in 1..(n - 1) /\ 1 \in 1..n /\ 1 + 1 \in 1..n
        BY <2>3
      <3>2. k[1] <= k[1 + 1]
        BY <1>2, <3>1
      <3>3. j \in A /\ \A m \in A : j <= m
        BY <1>8, <2>1, <3>1, <3>2
      <3> QED
        BY <1>6, <1>7, <2>1, <3>3
    <2> QED
      BY <2>2, <2>3
  <1>9. CASE j # 1
    <2>1. PICK i \in 1..(n - 1) : i = j - 1
      BY <1>6, <1>9
    <2>2. i \in 1..n /\ i + 1 = j /\ i < j
      BY <1>6, <2>1
    <2>3. k[i] < km /\ k[i] # k[j]
      BY <1>1, <1>6, <2>2
    <2>4. i \in A
      BY <1>1, <1>6, <2>1, <2>2, <2>3
    <2>5. ASSUME NEW m \in A PROVE i <= m
      <3>1. m \in 1..(n - 1) /\ km <= k[m + 1] /\ m + 1 \in 1..n
        BY <2>5
      <3>2. ~(m + 1 < j)
        BY <1>1, <1>6, <3>1
      <3> QED
        BY <2>2, <3>1, <3>2
    <2>6. CASE k[j] = km
      BY <1>6, <1>7, <2>2, <2>3, <2>4, <2>5, <2>6
    <2>7. CASE k[j] # km
      <3>1. km < k[j]
        BY <1>1, <1>6, <2>7
      <3>2. ASSUME NEW m \in 1..n, k[m] < km PROVE k[m] < k[i] \/ (k[m] = k[i] /\ s[m] <= s[i])
        <4>1. ~(j <= m)
          BY <1>1, <1>2, <1>6, <3>1, <3>2
        <4>2. m = i \/ m < i
          BY <1>6, <2>2, <4>1
        <4> QED
          BY <1>1, <2>2, <4>2
      <3>3. ASSUME NEW m \in 1..n, km < k[m] PROVE k[j] < k[m] \/ (k[m] = k[j] /\ s[j] <= s[m])
        <4>1. ~(m < j)
          BY <1>1, <1>6, <3>3
        <4>2. m = j \/ j < m
          BY <1>6, <4>1
        <4> QED
          BY <1>1, <1>6, <4>2
      <3>4. /\ k[i] < km /\ km < k[i + 1]
            /\ \A m \in 1..n : km < k[m] => k[i + 1] < k[m] \/ (k[m] = k[i + 1] /\ s[i + 1] <= s[m])
        BY <2>2, <2>3, <3>1, <3>3
      <3> QED
        BY <2>4, <2>5, <3>2, <3>4
    <2> QED
      BY <2>6, <2>7
  <1> QED
    BY <1>8, <1>9

\* What _interp_time_at takes is the first time at a place, or the weighted one
\* between the points below and above.
LEMMA InterpolatedTime ==
    ASSUME NEW path, NEW P, P = path.points, PointsTyped(P), P # {}, NEW km \in Int, InterpTimeAt(path, km) # Null
    PROVE  \/ \E x : IsFirstAt(P, x, km) /\ InterpTimeAt(path, km) = x.time
           \/ \E a, b : /\ \A x \in P : x.km # km
                        /\ IsLow(P, a, km) /\ IsHigh(P, b, km) /\ InterpTimeAt(path, km) = Between(a, b, km)
  <1>1. PICK pts, n : /\ pts = Sorted(P, Nearer) /\ n \in Nat \ {0} /\ Len(pts) = n
                      /\ \A i \in 1..n : pts[i] \in P
                      /\ \A x \in P : \E i \in 1..n : pts[i] = x
                      /\ \A i, j \in 1..n : i < j => Nearer(pts[i], pts[j])
    BY PointsInOrder
  <1>2. \A x \in P : x.time \in Int /\ x.km \in Int
    BY DEF PointsTyped
  <1>3. pts = Sorted(P, LAMBDA p, q : p.km < q.km \/ (p.km = q.km /\ p.time < q.time))
    BY <1>1 DEF Sorted, Nearer
  <1>4. PICK k, s : k = [i \in 1..n |-> pts[i].km] /\ s = [i \in 1..n |-> pts[i].time]
    OBVIOUS
  <1>5. k \in [1..n -> Int] /\ s \in [1..n -> Int] /\ \A i \in 1..n : k[i] = pts[i].km /\ s[i] = pts[i].time
    BY <1>1, <1>2, <1>4
  <1>6. PICK A : A = {i \in 1..(n - 1) : pts[i].km <= km /\ km <= pts[i + 1].km}
    OBVIOUS
  <1>7. A = {i \in 1..(n - 1) : k[i] <= km /\ km <= k[i + 1]}
    <2>1. \A i \in 1..(n - 1) : i \in 1..n /\ i + 1 \in 1..n
      BY <1>1
    <2> QED
      BY <1>5, <1>6, <2>1
  <1> DEFINE at(i) == IF pts[i].km = pts[i + 1].km THEN pts[i].time
                      ELSE Round(pts[i].time * (pts[i + 1].km - pts[i].km) + (pts[i + 1].time - pts[i].time) * (km - pts[i].km),
                                 pts[i + 1].km - pts[i].km)
  <1>8. PICK t : t = InterpTimeAt(path, km)
    OBVIOUS
  <1>9. 1 \in 1..n /\ n \in 1..n
    BY <1>1
  <1>10. /\ k[1] <= km /\ km <= k[n]
         /\ t = IF A = {} THEN pts[n].time ELSE at(Min(A))
    <2>1. ~(km < pts[1].km \/ km > pts[n].km)
      BY <1>1, <1>3 DEF InterpTimeAt
    <2>2. t = IF A = {} THEN pts[n].time ELSE at(Min(A))
      BY <1>8, <1>1, <1>3, <1>6, <2>1 DEF InterpTimeAt
    <2> HIDE DEF at
    <2>3. pts[1].km \in Int /\ pts[n].km \in Int
      BY <1>1, <1>2, <1>9
    <2> QED
      BY <1>5, <1>9, <2>1, <2>2, <2>3
  <1>11. ASSUME NEW i \in A, \A j \in A : i <= j PROVE t = at(i)
    <2>1. A \subseteq Nat
      BY <1>1, <1>6
    <2>2. \A x \in A : (\A y \in A : x <= y) => x = i
      BY <1>11, <2>1
    <2>3. Min(A) = i
      BY <1>11, <2>2 DEF Min
    <2> HIDE DEF at
    <2> QED
      BY <1>10, <1>11, <2>3
  <1>12. ASSUME NEW i \in A
         PROVE  /\ i \in 1..n /\ i + 1 \in 1..n
                /\ at(i) = IF k[i] = k[i + 1] THEN s[i]
                           ELSE Round(s[i] * (k[i + 1] - k[i]) + (s[i + 1] - s[i]) * (km - k[i]), k[i + 1] - k[i])
    <2>1. i \in 1..n /\ i + 1 \in 1..n
      BY <1>1, <1>6
    <2> QED
      BY <1>5, <2>1
  <1> HIDE DEF at
  <1>13. \A i, j \in 1..n : i < j => k[i] < k[j] \/ (k[i] = k[j] /\ s[i] < s[j])
    <2> SUFFICES ASSUME NEW i \in 1..n, NEW j \in 1..n, i < j PROVE k[i] < k[j] \/ (k[i] = k[j] /\ s[i] < s[j])
      OBVIOUS
    <2>1. PICK x, y : x = pts[i] /\ y = pts[j]
      OBVIOUS
    <2>2. Nearer(x, y)
      BY <1>1, <2>1
    <2>3. k[i] = x.km /\ s[i] = x.time /\ k[j] = y.km /\ s[j] = y.time
      BY <1>5, <2>1
    <2> QED
      BY <2>2, <2>3 DEF Nearer
  <1>14. /\ \A x \in P : \E i \in 1..n : x.km = k[i] /\ x.time = s[i]
         /\ \A i \in 1..n : pts[i] \in P
    <2> SUFFICES ASSUME NEW x \in P PROVE \E i \in 1..n : x.km = k[i] /\ x.time = s[i]
      BY <1>1
    <2>1. PICK i \in 1..n : pts[i] = x
      BY <1>1
    <2> QED
      BY <1>5, <2>1
  <1>15. ASSUME NEW j \in 1..n, PairMeets(n, k, s, km, A, j)
         PROVE  IsFirstAt(P, pts[j], km) /\ t = pts[j].time
    <2> USE <1>15 DEF PairMeets
    <2>1. IsFirstAt(P, pts[j], km)
      <3>1. PICK z \in P : z = pts[j] /\ z.km = k[j] /\ z.time = s[j]
        BY <1>5, <1>14
      <3>2. \A y \in P : y.km = km => s[j] <= y.time
        BY <1>14, <1>15
      <3> QED
        BY <1>15, <3>1, <3>2 DEF IsFirstAt
    <2>2. CASE A = {} /\ j = n
      BY <1>10, <2>1, <2>2
    <2>3. ASSUME NEW i \in A, \A m \in A : i <= m, j = i \/ (j = i + 1 /\ k[i] # k[j]) PROVE t = s[j]
      <3>1. /\ i \in 1..n /\ i + 1 \in 1..n
            /\ t = IF k[i] = k[i + 1] THEN s[i]
                   ELSE Round(s[i] * (k[i + 1] - k[i]) + (s[i + 1] - s[i]) * (km - k[i]), k[i + 1] - k[i])
        BY <1>11, <1>12, <2>3
      <3>2. PICK x \in Int, y \in Int, d \in Int : x = s[i] /\ y = s[i + 1] /\ d = k[i + 1] - k[i]
        BY <1>5, <3>1
      <3>3. k[i] # k[i + 1] => d > 0
        <4>1. i < i + 1
          BY <3>1
        <4>2. k[i] # k[i + 1] => k[i] < k[i + 1]
          BY <1>13, <3>1, <4>1
        <4>3. k[i] \in Int /\ k[i + 1] \in Int
          BY <1>5, <3>1
        <4> QED
          BY <3>2, <4>2, <4>3
      <3>4. CASE k[i] = k[i + 1]
        BY <2>3, <3>1, <3>4
      <3>5. CASE k[i] # k[i + 1] /\ j = i
        <4>1. km - k[i] = 0
          BY <1>5, <1>15, <3>1, <3>5
        <4>2. t = Round(x * d + (y - x) * 0, d)
          BY <3>1, <3>2, <3>5, <4>1
        <4>3. d * x <= x * d + (y - x) * 0 /\ x * d + (y - x) * 0 <= d * x /\ x * d + (y - x) * 0 \in Int
          OBVIOUS
        <4>4. t \in Int /\ x <= t /\ t <= x
          BY <3>3, <3>5, <4>2, <4>3, RoundBetween
        <4> QED
          BY <3>2, <3>5, <4>4
      <3>6. CASE k[i] # k[i + 1] /\ j = i + 1
        <4>1. km - k[i] = d
          BY <1>15, <3>2, <3>6
        <4>2. t = Round(x * d + (y - x) * d, d)
          BY <3>1, <3>2, <3>6, <4>1
        <4>3. d * y <= x * d + (y - x) * d /\ x * d + (y - x) * d <= d * y /\ x * d + (y - x) * d \in Int
          OBVIOUS
        <4>4. t \in Int /\ y <= t /\ t <= y
          BY <3>3, <3>6, <4>2, <4>3, RoundBetween
        <4> QED
          BY <3>2, <3>6, <4>4
      <3> QED
        BY <2>3, <3>4, <3>5, <3>6
    <2> QED
      BY <1>5, <1>15, <2>1, <2>2, <2>3
  <1>16. ASSUME NEW i \in A, PairSpans(n, k, s, km, A, i)
         PROVE  /\ \A x \in P : x.km # km
                /\ IsLow(P, pts[i], km) /\ IsHigh(P, pts[i + 1], km) /\ t = Between(pts[i], pts[i + 1], km)
    <2> USE <1>16 DEF PairSpans
    <2>1. /\ i \in 1..n /\ i + 1 \in 1..n
          /\ t = IF k[i] = k[i + 1] THEN s[i]
                 ELSE Round(s[i] * (k[i + 1] - k[i]) + (s[i + 1] - s[i]) * (km - k[i]), k[i + 1] - k[i])
      BY <1>11, <1>12, <1>16
    <2>2. IsLow(P, pts[i], km)
      <3>1. PICK z \in P : z = pts[i] /\ z.km = k[i] /\ z.time = s[i]
        BY <1>5, <1>14, <2>1
      <3>2. \A x \in P : x.km < km => x.km < k[i] \/ (x.km = k[i] /\ x.time <= s[i])
        BY <1>14, <1>16
      <3> QED
        BY <1>16, <3>1, <3>2 DEF IsLow
    <2>3. IsHigh(P, pts[i + 1], km)
      <3>1. PICK z \in P : z = pts[i + 1] /\ z.km = k[i + 1] /\ z.time = s[i + 1]
        BY <1>5, <1>14, <2>1
      <3>2. \A x \in P : km < x.km => k[i + 1] < x.km \/ (x.km = k[i + 1] /\ s[i + 1] <= x.time)
        BY <1>14, <1>16
      <3> QED
        BY <1>16, <3>1, <3>2 DEF IsHigh
    <2>4. ASSUME NEW x \in P, x.km = km PROVE FALSE
      <3>1. PICK m \in 1..n : k[m] = km
        BY <1>14, <2>4
      <3>2. m = i \/ m = i + 1 \/ m < i \/ i + 1 < m
        BY <2>1
      <3>3. /\ k[m] \in Int /\ k[i] \in Int /\ k[i + 1] \in Int
            /\ m < i => k[m] <= k[i]
            /\ i + 1 < m => k[i + 1] <= k[m]
        <4>1. k[m] \in Int /\ k[i] \in Int /\ k[i + 1] \in Int
          BY <1>5, <2>1
        <4>2. /\ m < i => k[m] < k[i] \/ k[m] = k[i]
              /\ i + 1 < m => k[i + 1] < k[m] \/ k[i + 1] = k[m]
          BY <1>13, <2>1
        <4> QED
          BY <4>1, <4>2
      <3> QED
        BY <1>16, <3>1, <3>2, <3>3
    <2>5. t = Between(pts[i], pts[i + 1], km)
      <3>1. PICK x \in Int, y \in Int, c \in Int, d \in Int : x = s[i] /\ y = s[i + 1] /\ c = k[i] /\ d = k[i + 1]
        BY <1>5, <2>1
      <3>2. t = Round(x * (d - c) + (y - x) * (km - c), d - c)
        <4>1. c # d
          BY <1>16, <3>1
        <4> QED
          BY <2>1, <3>1, <4>1
      <3>3. x * (d - c) + (y - x) * (km - c) = x * (d - km) + y * (km - c)
        OBVIOUS
      <3>4. t = Round(x * (d - km) + y * (km - c), d - c)
        BY <3>2, <3>3
      <3>5. pts[i].time = x /\ pts[i + 1].time = y /\ pts[i].km = c /\ pts[i + 1].km = d
        BY <1>5, <2>1, <3>1
      <3> QED
        BY <3>4, <3>5 DEF Between
    <2> QED
      BY <2>2, <2>3, <2>4, <2>5
  <1>17. \/ \E j \in 1..n : PairMeets(n, k, s, km, A, j)
         \/ \E i \in A : PairSpans(n, k, s, km, A, i)
    <2>1. n \in Nat /\ n > 0
      BY <1>1
    <2>2. InLine(n, k, s)
      BY <1>5, <1>13 DEF InLine
    <2> QED
      BY <1>7, <1>10, <2>1, <2>2, PairAround
  <1> QED
    BY <1>8, <1>15, <1>16, <1>17

-----------------------------------------------------------------------------
\* Only one point is at a place.
Single(P, km) == \A x, y \in P : x.km = km /\ y.km = km => x = y

\* A train comes to the places of a line one after the other, the way it goes.
InTurn(p, P) ==
    \A x, y \in P : (IF p.direction = "down" THEN x.km < y.km ELSE y.km < x.km) => x.time <= y.time

\* Which it does if it does not turn round.
LEMMA OneWayInTurn ==
    ASSUME NEW p, NEW P, P = p.points, PointsTyped(P), RunsOneWay(p)
    PROVE  InTurn(p, P)
  <1> SUFFICES ASSUME NEW x \in P, NEW y \in P, IF p.direction = "down" THEN x.km < y.km ELSE y.km < x.km
               PROVE  x.time <= y.time
    BY DEF InTurn
  <1>1. x.time \in Int /\ y.time \in Int /\ x.km \in Int /\ y.km \in Int
    BY DEF PointsTyped
  <1>2. y.time < x.time => IF p.direction = "down" THEN y.km <= x.km ELSE x.km <= y.km
    BY DEF RunsOneWay
  <1> QED
    BY <1>1, <1>2

\* A place where a train has one time is the place of one of its points.
LEMMA SingleCall ==
    ASSUME NEW p, NEW P, P = p.points, PointsTyped(P), NEW km, ~(Cardinality(CalledAt(p, km)) > 1)
    PROVE  Single(P, km)
  <1> SUFFICES ASSUME NEW x \in P, NEW y \in P, x.km = km, y.km = km, x # y PROVE FALSE
    BY DEF Single
  <1>1. PICK C, S : C = CalledAt(p, km) /\ S = {z \in P : z.km = km}
    OBVIOUS
  <1>2. C = {z.time : z \in S}
    BY <1>1 DEF CalledAt
  <1>3. IsFiniteSet(C)
    <2>1. IsFiniteSet(P) /\ S \in SUBSET P
      BY <1>1 DEF PointsTyped
    <2>2. IsFiniteSet(S)
      BY <2>1, FS_Subset
    <2>3. PICK g : g = [z \in S |-> z.time]
      OBVIOUS
    <2>4. \A t \in C : \E z \in S : t = g[z]
      BY <1>2, <2>3
    <2> QED
      BY <2>2, <2>4, ImageFinite
  <1>4. PICK s, t : s = x.time /\ t = y.time
    OBVIOUS
  <1>5. s # t /\ s \in C /\ t \in C
    BY <1>1, <1>2, <1>4 DEF PointsTyped
  <1>6. Cardinality({s, t}) = 2
    <2>1. IsFiniteSet({s}) /\ Cardinality({s}) = 1
      BY FS_Singleton
    <2>2. Cardinality({s} \cup {t}) = Cardinality({s}) + 1
      BY <1>5, <2>1, FS_AddElement
    <2>3. {s} \cup {t} = {s, t}
      OBVIOUS
    <2> QED
      BY <2>1, <2>2, <2>3
  <1>7. {s, t} \in SUBSET C
    BY <1>5
  <1>8. 2 <= Cardinality(C) /\ Cardinality(C) \in Nat
    BY <1>3, <1>6, <1>7, FS_Subset, FS_CardinalityType
  <1> QED
    BY <1>1, <1>8

\* The point that is later than the others, or nearer, is the one chosen.
LEMMA LastChosen ==
    ASSUME NEW S, NEW km \in Int, \A x \in S : x.time \in Int /\ x.km \in Int,
           \A x, y \in S : x.time = y.time /\ x.km = y.km => x = y,
           (\A x \in S : x.km < km) \/ (\A x \in S : km < x.km),
           NEW z \in S,
           \A y \in S : y.time < z.time \/ (y.time = z.time /\ Distance(z.km, km) <= Distance(y.km, km))
    PROVE  (CHOOSE x \in S : \A y \in S :
                y.time < x.time \/ (y.time = x.time /\ Distance(x.km, km) <= Distance(y.km, km))) = z
  <1>1. ASSUME NEW x \in S,
               z.time < x.time \/ (z.time = x.time /\ Distance(x.km, km) <= Distance(z.km, km))
        PROVE  x = z
    <2>1. PICK s \in Int, t \in Int, k \in Int, l \in Int : s = x.time /\ t = z.time /\ k = x.km /\ l = z.km
      OBVIOUS
    <2>2. s < t \/ (s = t /\ Distance(l, km) <= Distance(k, km))
      BY <2>1
    <2>3. t < s \/ (t = s /\ Distance(k, km) <= Distance(l, km))
      BY <1>1, <2>1
    <2>4. (k < km /\ l < km) \/ (km < k /\ km < l)
      BY <2>1
    <2>5. s = t /\ k = l
      BY <2>2, <2>3, <2>4 DEF Distance
    <2> QED
      BY <2>1, <2>5
  <1> QED
    BY <1>1

\* And so is the one that is earlier, or nearer.
LEMMA FirstChosen ==
    ASSUME NEW S, NEW km \in Int, \A x \in S : x.time \in Int /\ x.km \in Int,
           \A x, y \in S : x.time = y.time /\ x.km = y.km => x = y,
           (\A x \in S : x.km < km) \/ (\A x \in S : km < x.km),
           NEW z \in S,
           \A y \in S : z.time < y.time \/ (z.time = y.time /\ Distance(z.km, km) <= Distance(y.km, km))
    PROVE  (CHOOSE x \in S : \A y \in S :
                x.time < y.time \/ (x.time = y.time /\ Distance(x.km, km) <= Distance(y.km, km))) = z
  <1>1. ASSUME NEW x \in S,
               x.time < z.time \/ (x.time = z.time /\ Distance(x.km, km) <= Distance(z.km, km))
        PROVE  x = z
    <2>1. PICK s \in Int, t \in Int, k \in Int, l \in Int : s = x.time /\ t = z.time /\ k = x.km /\ l = z.km
      OBVIOUS
    <2>2. t < s \/ (t = s /\ Distance(l, km) <= Distance(k, km))
      BY <2>1
    <2>3. s < t \/ (s = t /\ Distance(k, km) <= Distance(l, km))
      BY <1>1, <2>1
    <2>4. (k < km /\ l < km) \/ (km < k /\ km < l)
      BY <2>1
    <2>5. s = t /\ k = l
      BY <2>2, <2>3, <2>4 DEF Distance
    <2> QED
      BY <2>1, <2>5
  <1> QED
    BY <1>1

\* Finitely many numbers have a least one, too.
LEMMA LeastOfFinite ==
    ASSUME NEW S, S \subseteq Int, IsFiniteSet(S), S # {}
    PROVE  \E x \in S : \A y \in S : x <= y
  <1>1. PICK g, T : g = [x \in S |-> 0 - x] /\ T = {g[x] : x \in S}
    OBVIOUS
  <1>2. \A y \in T : \E x \in S : y = g[x]
    BY <1>1
  <1>3. IsFiniteSet(T)
    BY <1>2, ImageFinite
  <1>4. \A x \in S : g[x] \in Int /\ g[x] = 0 - x
    BY <1>1
  <1>5. T \subseteq Int /\ T # {}
    BY <1>1, <1>4
  <1>6. PICK z \in T : \A y \in T : z >= y
    BY <1>3, <1>5, GreatestNumber
  <1>7. PICK x \in S : z = g[x]
    BY <1>2
  <1>8. \A y \in S : g[x] >= g[y]
    BY <1>1, <1>6, <1>7
  <1>9. \A y \in S : x <= y
    BY <1>4, <1>8
  <1> QED
    BY <1>9

\* Of the points at a place one is the last and one the first.
LEMMA EndsOfStay ==
    ASSUME NEW P, PointsTyped(P), NEW x \in P
    PROVE  /\ \E z \in P : z.km = x.km /\ \A y \in P : y.km = x.km => y.time <= z.time
           /\ \E z \in P : z.km = x.km /\ \A y \in P : y.km = x.km => z.time <= y.time
  <1>1. PICK S, C : S = {y \in P : y.km = x.km} /\ C = {y.time : y \in S}
    OBVIOUS
  <1>2. IsFiniteSet(C)
    <2>1. IsFiniteSet(P) /\ S \in SUBSET P
      BY <1>1 DEF PointsTyped
    <2>2. IsFiniteSet(S)
      BY <2>1, FS_Subset
    <2>3. PICK g : g = [y \in S |-> y.time]
      OBVIOUS
    <2>4. \A t \in C : \E y \in S : t = g[y]
      BY <1>1, <2>3
    <2> QED
      BY <2>2, <2>4, ImageFinite
  <1>3. C \subseteq Int /\ C # {}
    BY <1>1 DEF PointsTyped
  <1>4. PICK t \in C : \A u \in C : t >= u
    BY <1>2, <1>3, GreatestNumber
  <1>5. PICK r \in C : \A u \in C : r <= u
    BY <1>2, <1>3, LeastOfFinite
  <1>6. \A y \in P : y.km = x.km => y.time <= t /\ r <= y.time
    BY <1>1, <1>3, <1>4, <1>5
  <1>7. \A u \in C : \E z \in P : z.km = x.km /\ z.time = u
    BY <1>1
  <1> QED
    BY <1>4, <1>5, <1>6, <1>7

\* The points that _interp_time_at takes for a place are the last before it and
\* the next after it, for a train that is not misplaced there.
LEMMA Neighbours ==
    ASSUME NEW p, NEW P, P = p.points, PointsTyped(P), NEW km \in Int, InTurn(p, P),
           p.direction \in {"down", "up"}, ~Misplaced(p, km), \A x \in P : x.km # km,
           NEW a, NEW b, IsLow(P, a, km), IsHigh(P, b, km)
    PROVE  /\ p.direction = "down" => LastBefore(p, km) = a /\ NextAfter(p, km) = b
           /\ p.direction = "up" => /\ LastBefore(p, km) = b /\ NextAfter(p, km) = a
                                    /\ Single(P, a.km) /\ Single(P, b.km)
  <1>1. /\ \A x \in P : x.time \in Int /\ x.km \in Int
        /\ \A x, y \in P : x.time = y.time /\ x.km = y.km => x = y
    BY DEF PointsTyped
  <1>2. PICK L, H : L = {x \in P : x.km < km} /\ H = {x \in P : km < x.km}
    OBVIOUS
  <1>3. a \in L /\ b \in H
    BY <1>2 DEF IsLow, IsHigh
  <1>4. /\ \A x \in L : x.time \in Int /\ x.km \in Int /\ x.km < km
        /\ \A x \in H : x.time \in Int /\ x.km \in Int /\ km < x.km
        /\ \A x, y \in L : x.time = y.time /\ x.km = y.km => x = y
        /\ \A x, y \in H : x.time = y.time /\ x.km = y.km => x = y
    BY <1>1, <1>2
  <1>5. /\ \A y \in L : y.km < a.km \/ (y.km = a.km /\ y.time <= a.time)
        /\ \A y \in H : b.km < y.km \/ (y.km = b.km /\ b.time <= y.time)
    BY <1>2 DEF IsLow, IsHigh
  <1>6. CASE p.direction = "down"
    <2>1. \A y \in L : y.time < a.time \/ (y.time = a.time /\ Distance(a.km, km) <= Distance(y.km, km))
      <3> SUFFICES ASSUME NEW y \in L
                   PROVE  y.time < a.time \/ (y.time = a.time /\ Distance(a.km, km) <= Distance(y.km, km))
        OBVIOUS
      <3>1. y.km < a.km => y.time <= a.time
        BY <1>2, <1>3, <1>6 DEF InTurn
      <3> QED
        BY <1>3, <1>4, <1>5, <3>1 DEF Distance
    <2>2. \A y \in H : b.time < y.time \/ (b.time = y.time /\ Distance(b.km, km) <= Distance(y.km, km))
      <3> SUFFICES ASSUME NEW y \in H
                   PROVE  b.time < y.time \/ (b.time = y.time /\ Distance(b.km, km) <= Distance(y.km, km))
        OBVIOUS
      <3>1. b.km < y.km => b.time <= y.time
        BY <1>2, <1>3, <1>6 DEF InTurn
      <3> QED
        BY <1>3, <1>4, <1>5, <3>1 DEF Distance
    <2>3. LastBefore(p, km) = CHOOSE x \in L : \A y \in L :
              y.time < x.time \/ (y.time = x.time /\ Distance(x.km, km) <= Distance(y.km, km))
      <3>1. L = {x \in p.points : IF p.direction = "down" THEN x.km < km ELSE km < x.km}
        BY <1>2, <1>6
      <3> QED
        BY <3>1 DEF LastBefore
    <2>4. NextAfter(p, km) = CHOOSE x \in H : \A y \in H :
              x.time < y.time \/ (x.time = y.time /\ Distance(x.km, km) <= Distance(y.km, km))
      <3>1. H = {x \in p.points : IF p.direction = "down" THEN km < x.km ELSE x.km < km}
        BY <1>2, <1>6
      <3> QED
        BY <3>1 DEF NextAfter
    <2>5. LastBefore(p, km) = a
      BY <1>3, <1>4, <2>1, <2>3, LastChosen
    <2>6. NextAfter(p, km) = b
      BY <1>3, <1>4, <2>2, <2>4, FirstChosen
    <2> QED
      BY <1>6, <2>5, <2>6
  <1>7. CASE p.direction = "up"
    <2>1. PICK z \in P : z.km = b.km /\ \A y \in P : y.km = b.km => y.time <= z.time
      <3>1. b \in P
        BY <1>2, <1>3
      <3> QED
        BY <3>1, EndsOfStay
    <2>2. PICK w \in P : w.km = a.km /\ \A y \in P : y.km = a.km => w.time <= y.time
      <3>1. a \in P
        BY <1>2, <1>3
      <3> QED
        BY <3>1, EndsOfStay
    <2>3. z \in H /\ w \in L
      BY <1>2, <1>3, <2>1, <2>2
    <2>4. \A y \in H : y.time < z.time \/ (y.time = z.time /\ Distance(z.km, km) <= Distance(y.km, km))
      <3> SUFFICES ASSUME NEW y \in H
                   PROVE  y.time < z.time \/ (y.time = z.time /\ Distance(z.km, km) <= Distance(y.km, km))
        OBVIOUS
      <3>1. z.km < y.km => y.time <= z.time
        BY <1>2, <2>3, <1>7 DEF InTurn
      <3>2. y.km = z.km => y.time <= z.time
        BY <1>2, <2>1
      <3> QED
        BY <1>4, <1>5, <2>1, <2>3, <3>1, <3>2 DEF Distance
    <2>5. \A y \in L : w.time < y.time \/ (w.time = y.time /\ Distance(w.km, km) <= Distance(y.km, km))
      <3> SUFFICES ASSUME NEW y \in L
                   PROVE  w.time < y.time \/ (w.time = y.time /\ Distance(w.km, km) <= Distance(y.km, km))
        OBVIOUS
      <3>1. y.km < w.km => w.time <= y.time
        BY <1>2, <2>3, <1>7 DEF InTurn
      <3>2. y.km = w.km => w.time <= y.time
        BY <1>2, <2>2
      <3> QED
        BY <1>4, <1>5, <2>2, <2>3, <3>1, <3>2 DEF Distance
    <2>6. LastBefore(p, km) = CHOOSE x \in H : \A y \in H :
              y.time < x.time \/ (y.time = x.time /\ Distance(x.km, km) <= Distance(y.km, km))
      <3>1. H = {x \in p.points : IF p.direction = "down" THEN x.km < km ELSE km < x.km}
        BY <1>2, <1>7
      <3> QED
        BY <3>1 DEF LastBefore
    <2>7. NextAfter(p, km) = CHOOSE x \in L : \A y \in L :
              x.time < y.time \/ (x.time = y.time /\ Distance(x.km, km) <= Distance(y.km, km))
      <3>1. L = {x \in p.points : IF p.direction = "down" THEN km < x.km ELSE x.km < km}
        BY <1>2, <1>7
      <3> QED
        BY <3>1 DEF NextAfter
    <2>8. LastBefore(p, km) = z
      BY <1>4, <2>3, <2>4, <2>6, LastChosen
    <2>9. NextAfter(p, km) = w
      BY <1>4, <2>3, <2>5, <2>7, FirstChosen
    <2>10. CalledAt(p, km) = {}
      BY DEF CalledAt
    <2>11. ~(Cardinality(CalledAt(p, z.km)) > 1) /\ ~(Cardinality(CalledAt(p, w.km)) > 1)
      BY <1>7, <2>8, <2>9, <2>10 DEF Misplaced
    <2>12. Single(P, z.km) /\ Single(P, w.km)
      BY <2>11, SingleCall
    <2>13. Single(P, a.km) /\ Single(P, b.km) /\ z = b /\ w = a
      BY <1>2, <1>3, <2>1, <2>2, <2>12 DEF Single
    <2> QED
      BY <1>7, <2>8, <2>9, <2>13
  <1> QED
    BY <1>6, <1>7

\* A time between those of two points around a place, nearer to the nearer one.
LEMMA TimeBetween ==
    ASSUME NEW s \in Int, NEW t \in Int, NEW u \in Int, NEW v \in Int, 0 <= u, 0 <= v, 0 < u + v
    PROVE  /\ Round(s * u + t * v, u + v) \in Int
           /\ s <= t => s <= Round(s * u + t * v, u + v) /\ Round(s * u + t * v, u + v) <= t
           /\ t <= s => t <= Round(s * u + t * v, u + v) /\ Round(s * u + t * v, u + v) <= s
  <1>1. PICK w \in Int, d \in Int : w = s * u + t * v /\ d = u + v
    OBVIOUS
  <1>2. /\ s <= t => d * s <= w /\ w <= d * t
        /\ t <= s => d * t <= w /\ w <= d * s
    BY <1>1, WeightedBetween
  <1>3. ASSUME s <= t PROVE Round(w, d) \in Int /\ s <= Round(w, d) /\ Round(w, d) <= t
    BY <1>1, <1>2, <1>3, RoundBetween
  <1>4. ASSUME t <= s PROVE Round(w, d) \in Int /\ t <= Round(w, d) /\ Round(w, d) <= s
    BY <1>1, <1>2, <1>4, RoundBetween
  <1> QED
    BY <1>1, <1>3, <1>4

\* Further on it is later, if the second time is.
LEMMA LaterFurther ==
    ASSUME NEW s \in Int, NEW t \in Int, NEW u \in Int, NEW v \in Int, 0 < u + v,
           NEW c \in Int, 0 <= c, s <= t
    PROVE  Round(s * u + t * v, u + v) <= Round(s * (u - c) + t * (v + c), u + v)
  <1>1. PICK w \in Int, x \in Int, d \in Int : w = s * u + t * v /\ x = s * (u - c) + t * (v + c) /\ d = u + v
    OBVIOUS
  <1>2. PICK e \in Int : e = (t - s) * c
    OBVIOUS
  <1>3. x = w + e
    BY <1>1, <1>2
  <1>4. e >= 0
    <2>1. PICK f \in Int : f = t - s /\ f >= 0
      OBVIOUS
    <2>2. f * c >= 0
      BY <2>1
    <2> QED
      BY <1>2, <2>1, <2>2
  <1>5. w <= x
    BY <1>3, <1>4
  <1>6. Round(w, d) <= Round(x, d)
    BY <1>1, <1>5, RoundMonotone
  <1> QED
    BY <1>1, <1>6

\* What _interp_time_at takes is when the train reaches the place.
LEMMA Reached ==
    ASSUME NEW p, PointsTyped(p.points), p.points # {}, p.direction \in {"down", "up"}, NEW km \in Int,
           InterpTimeAt(p, km) # Null, RunsOneWay(p), ~Misplaced(p, km)
    PROVE  InterpTimeAt(p, km) = ReachedAt(p, km)
  <1>1. PICK P, t : P = p.points /\ t = InterpTimeAt(p, km)
    OBVIOUS
  <1>2. \A x \in P : x.time \in Int /\ x.km \in Int
    BY <1>1 DEF PointsTyped
  <1>3. ASSUME NEW x, IsFirstAt(P, x, km), t = x.time PROVE t = ReachedAt(p, km)
    <2>1. PICK C : C = CalledAt(p, km)
      OBVIOUS
    <2>2. t \in C /\ \A y \in C : t <= y
      BY <1>1, <1>3, <2>1 DEF IsFirstAt, CalledAt
    <2>3. C \subseteq Int
      BY <1>1, <1>2, <2>1 DEF CalledAt
    <2>4. \A z \in C : (\A y \in C : z <= y) => z = t
      BY <2>2, <2>3
    <2>5. Min(C) = t
      BY <2>2, <2>4 DEF Min
    <2> QED
      BY <2>1, <2>2, <2>5 DEF ReachedAt
  <1>4. ASSUME NEW a, NEW b, \A x \in P : x.km # km, IsLow(P, a, km), IsHigh(P, b, km), t = Between(a, b, km)
        PROVE  t = ReachedAt(p, km)
    <2>1. CalledAt(p, km) = {}
      BY <1>1, <1>4 DEF CalledAt
    <2>2. PICK s \in Int, r \in Int, k \in Int, l \in Int :
             /\ s = a.time /\ r = b.time /\ k = a.km /\ l = b.km
             /\ k < km /\ km < l
      BY <1>2, <1>4 DEF IsLow, IsHigh
    <2>3. /\ p.direction = "down" => LastBefore(p, km) = a /\ NextAfter(p, km) = b
          /\ p.direction = "up" => LastBefore(p, km) = b /\ NextAfter(p, km) = a
      <3>1. PointsTyped(P) /\ InTurn(p, P)
        BY <1>1, OneWayInTurn
      <3> QED
        BY <1>1, <1>4, <3>1, Neighbours
    <2>4. t = Round(s * (l - km) + r * (km - k), l - k)
      BY <1>4, <2>2 DEF Between
    <2>5. /\ Distance(k, km) = km - k /\ Distance(l, km) = l - km
          /\ Distance(k, l) = l - k /\ Distance(l, k) = l - k
      BY <2>2 DEF Distance
    <2>6. CASE p.direction = "down"
      <3>1. ReachedAt(p, km) = Round(s * Distance(l, km) + r * Distance(k, km), Distance(k, l))
        BY <2>1, <2>2, <2>3, <2>6 DEF ReachedAt
      <3> QED
        BY <2>4, <2>5, <3>1
    <2>7. CASE p.direction = "up"
      <3>1. ReachedAt(p, km) = Round(r * Distance(k, km) + s * Distance(l, km), Distance(l, k))
        BY <2>1, <2>2, <2>3, <2>7 DEF ReachedAt
      <3>2. r * (km - k) + s * (l - km) = s * (l - km) + r * (km - k)
        BY <2>2
      <3> QED
        BY <2>4, <2>5, <3>1, <3>2
    <2> QED
      BY <2>6, <2>7
  <1>5. \/ \E x : IsFirstAt(P, x, km) /\ t = x.time
        \/ \E a, b : /\ \A x \in P : x.km # km
                     /\ IsLow(P, a, km) /\ IsHigh(P, b, km) /\ t = Between(a, b, km)
    <2>1. PointsTyped(P) /\ P # {} /\ InterpTimeAt(p, km) # Null
      BY <1>1
    <2> QED
      BY <1>1, <2>1, InterpolatedTime
  <1> QED
    BY <1>1, <1>3, <1>4, <1>5

\* An interpolated time lies between those of the points around the place.
LEMMA TimeAround ==
    ASSUME NEW p, NEW P, PointsTyped(P), InTurn(p, P), NEW km \in Int,
           NEW a, NEW b, IsLow(P, a, km), IsHigh(P, b, km)
    PROVE  /\ Between(a, b, km) \in Int
           /\ IF p.direction = "down" THEN a.time <= Between(a, b, km) /\ Between(a, b, km) <= b.time
              ELSE b.time <= Between(a, b, km) /\ Between(a, b, km) <= a.time
  <1>1. PICK s \in Int, r \in Int, k \in Int, l \in Int :
           /\ s = a.time /\ r = b.time /\ k = a.km /\ l = b.km
           /\ k < km /\ km < l
    BY DEF IsLow, IsHigh, PointsTyped
  <1>2. IF p.direction = "down" THEN s <= r ELSE r <= s
    <2>1. a \in P /\ b \in P /\ a.km < b.km
      BY <1>1 DEF IsLow, IsHigh
    <2> QED
      BY <1>1, <2>1 DEF InTurn
  <1>3. PICK u \in Int, v \in Int : u = l - km /\ v = km - k /\ 0 <= u /\ 0 <= v /\ 0 < u + v /\ u + v = l - k
    BY <1>1
  <1>4. Between(a, b, km) = Round(s * u + r * v, u + v)
    BY <1>1, <1>3 DEF Between
  <1>5. PICK t : t = Round(s * u + r * v, u + v)
    OBVIOUS
  <1>6. t \in Int /\ (s <= r => s <= t /\ t <= r) /\ (r <= s => r <= t /\ t <= s)
    BY <1>3, <1>5, TimeBetween
  <1> QED
    BY <1>1, <1>2, <1>4, <1>5, <1>6

\* A train is at the nearer of two places first, unless it is misplaced there.
LEMMA NearerFirst ==
    ASSUME NEW p, PointsTyped(p.points), p.points # {}, p.direction \in {"down", "up"},
           NEW k \in Int, NEW l \in Int, IF p.direction = "down" THEN k <= l ELSE l <= k,
           InterpTimeAt(p, k) # Null, InterpTimeAt(p, l) # Null, RunsOneWay(p), ~Misplaced(p, k)
    PROVE  InterpTimeAt(p, k) <= InterpTimeAt(p, l)
  <1>1. PICK P, s, t : P = p.points /\ s = InterpTimeAt(p, k) /\ t = InterpTimeAt(p, l)
    OBVIOUS
  <1>2. PointsTyped(P) /\ InTurn(p, P) /\ P # {} /\ \A x \in P : x.time \in Int /\ x.km \in Int
    BY <1>1, OneWayInTurn DEF PointsTyped
  <1> DEFINE Down == p.direction = "down"
  <1>3. \A x, y \in P : (IF Down THEN x.km < y.km ELSE y.km < x.km) => x.time <= y.time
    BY <1>2 DEF InTurn
  <1>4. CASE k = l
    <2>1. s = t /\ s \in Int
      BY <1>1, <1>2, <1>4, Interpolated DEF Passed
    <2> QED
      BY <1>1, <2>1
  <1>5. CASE k # l
    <2>1. IF Down THEN k < l ELSE l < k
      BY <1>5
    <2>2. ASSUME NEW x, NEW y, IsFirstAt(P, x, k), IsFirstAt(P, y, l), s = x.time, t = y.time PROVE s <= t
      BY <1>3, <2>1, <2>2 DEF IsFirstAt
    <2>3. ASSUME NEW x, NEW a, NEW b, IsFirstAt(P, x, k), s = x.time,
                 IsLow(P, a, l), IsHigh(P, b, l), t = Between(a, b, l)
          PROVE  s <= t
      <3>1. t \in Int /\ IF Down THEN a.time <= t ELSE b.time <= t
        BY <1>2, <2>3, TimeAround
      <3>2. x \in P /\ x.km = k /\ a \in P /\ b \in P /\ \A y \in P : y.km = k => x.time <= y.time
        BY <2>3 DEF IsFirstAt, IsLow, IsHigh
      <3>3. CASE Down
        <4>1. k < a.km \/ (k = a.km /\ x.time <= a.time)
          BY <2>1, <2>3, <3>2, <3>3 DEF IsLow
        <4>2. x.time <= a.time
          BY <1>3, <3>2, <3>3, <4>1
        <4> QED
          BY <1>2, <2>3, <3>1, <3>2, <3>3, <4>2
      <3>4. CASE ~Down
        <4>1. b.km < k \/ b.km = k
          BY <2>1, <2>3, <3>2, <3>4 DEF IsHigh
        <4>2. x.time <= b.time
          BY <1>3, <3>2, <3>4, <4>1
        <4> QED
          BY <1>2, <2>3, <3>1, <3>2, <3>4, <4>2
      <3> QED
        BY <3>3, <3>4
    <2>4. ASSUME NEW a, NEW b, IsLow(P, a, k), IsHigh(P, b, k), \A x \in P : x.km # k, ~Down
          PROVE  Single(P, a.km) /\ Single(P, b.km)
      BY <1>1, <1>2, <2>4, Neighbours
    <2>5. ASSUME NEW y, NEW a, NEW b, IsFirstAt(P, y, l), t = y.time, \A x \in P : x.km # k,
                 IsLow(P, a, k), IsHigh(P, b, k), s = Between(a, b, k)
          PROVE  s <= t
      <3>1. s \in Int /\ IF Down THEN s <= b.time ELSE s <= a.time
        BY <1>2, <2>5, TimeAround
      <3>2. y \in P /\ y.km = l /\ a \in P /\ b \in P
        BY <2>5 DEF IsFirstAt, IsLow, IsHigh
      <3>3. CASE Down
        <4>1. b.km < l \/ (b.km = l /\ b.time <= y.time)
          BY <2>1, <2>5, <3>2, <3>3 DEF IsHigh
        <4>2. b.time <= y.time
          BY <1>3, <3>2, <3>3, <4>1
        <4> QED
          BY <1>2, <2>5, <3>1, <3>2, <3>3, <4>2
      <3>4. CASE ~Down
        <4>1. l < a.km \/ l = a.km
          BY <2>1, <2>5, <3>2, <3>4 DEF IsLow
        <4>2. l = a.km => y = a
          BY <2>4, <2>5, <3>2, <3>4 DEF Single
        <4>3. a.time <= y.time
          BY <1>2, <1>3, <3>2, <3>4, <4>1, <4>2
        <4> QED
          BY <1>2, <2>5, <3>1, <3>2, <3>4, <4>3
      <3> QED
        BY <3>3, <3>4
    <2>6. ASSUME NEW a, NEW b, \A x \in P : x.km # k, IsLow(P, a, k), IsHigh(P, b, k), s = Between(a, b, k),
                 NEW c, NEW d, \A x \in P : x.km # l, IsLow(P, c, l), IsHigh(P, d, l), t = Between(c, d, l)
          PROVE  s <= t
      <3>1. a \in P /\ b \in P /\ c \in P /\ d \in P /\ a.km < k /\ k < b.km /\ c.km < l /\ l < d.km
        BY <2>6 DEF IsLow, IsHigh
      <3>2. s \in Int /\ IF Down THEN s <= b.time ELSE s <= a.time
        BY <1>2, <2>6, TimeAround
      <3>3. t \in Int /\ IF Down THEN c.time <= t ELSE d.time <= t
        BY <1>2, <2>6, TimeAround
      <3>4. CASE a = c /\ b = d
        <4>1. PICK e \in Int, f \in Int, m \in Int, n \in Int : e = a.time /\ f = b.time /\ m = a.km /\ n = b.km
          BY <1>2, <3>1
        <4>2. m < k /\ k < n /\ m < l /\ l < n
          BY <3>1, <3>4, <4>1
        <4>3. IF Down THEN e <= f ELSE f <= e
          <5>1. a.km < b.km
            BY <4>1, <4>2
          <5> QED
            BY <1>3, <3>1, <4>1, <5>1
        <4>4. s = Round(e * (n - k) + f * (k - m), n - m) /\ t = Round(e * (n - l) + f * (l - m), n - m)
          BY <2>6, <3>4, <4>1 DEF Between
        <4>5. CASE Down
          <5>1. PICK u \in Int, v \in Int, w \in Int :
                   /\ u = n - k /\ v = k - m /\ w = l - k
                   /\ 0 < u + v /\ 0 <= w /\ n - m = u + v /\ n - l = u - w /\ l - m = v + w
            BY <2>1, <4>2, <4>5
          <5>2. Round(e * u + f * v, u + v) <= Round(e * (u - w) + f * (v + w), u + v)
            BY <4>3, <4>5, <5>1, LaterFurther
          <5>3. s = Round(e * u + f * v, u + v) /\ t = Round(e * (u - w) + f * (v + w), u + v)
            BY <4>4, <5>1
          <5> QED
            BY <5>2, <5>3
        <4>6. CASE ~Down
          <5>1. PICK u \in Int, v \in Int, w \in Int :
                   /\ u = k - m /\ v = n - k /\ w = k - l
                   /\ 0 < u + v /\ 0 <= w /\ n - m = u + v /\ n - l = v + w /\ l - m = u - w
            BY <2>1, <4>2, <4>6
          <5>2. Round(f * u + e * v, u + v) <= Round(f * (u - w) + e * (v + w), u + v)
            BY <4>3, <4>6, <5>1, LaterFurther
          <5>3. e * v + f * u = f * u + e * v /\ e * (v + w) + f * (u - w) = f * (u - w) + e * (v + w)
            BY <5>1
          <5>4. s = Round(e * v + f * u, u + v) /\ t = Round(e * (v + w) + f * (u - w), u + v)
            BY <4>4, <5>1
          <5> QED
            BY <5>2, <5>3, <5>4
        <4> QED
          BY <4>5, <4>6
      <3>5. CASE \E z \in P : IF Down THEN k < z.km /\ z.km < l ELSE l < z.km /\ z.km < k
        <4>1. PICK z \in P : IF Down THEN k < z.km /\ z.km < l ELSE l < z.km /\ z.km < k
          BY <3>5
        <4>2. CASE Down
          <5>1. b.km <= z.km /\ z.km <= c.km
            BY <1>2, <2>6, <4>1, <4>2 DEF IsHigh, IsLow
          <5>2. b.km < c.km \/ (b.km = c.km /\ b.time <= c.time)
            <6>1. k < c.km
              BY <1>2, <3>1, <4>1, <4>2, <5>1
            <6> QED
              BY <2>6, <3>1, <6>1 DEF IsHigh
          <5>3. b.time <= c.time
            BY <1>3, <3>1, <4>2, <5>2
          <5> QED
            BY <1>2, <3>1, <3>2, <3>3, <4>2, <5>3
        <4>3. CASE ~Down
          <5>1. d.km <= z.km /\ z.km <= a.km
            BY <1>2, <2>6, <4>1, <4>3 DEF IsHigh, IsLow
          <5>2. d.km < a.km \/ d = a
            <6>1. d.km = a.km => d = a
              BY <2>4, <2>6, <3>1, <4>3 DEF Single
            <6> QED
              BY <1>2, <3>1, <5>1, <6>1
          <5>3. a.time <= d.time
            BY <1>2, <1>3, <3>1, <4>3, <5>2
          <5> QED
            BY <1>2, <3>1, <3>2, <3>3, <4>3, <5>3
        <4> QED
          BY <4>2, <4>3
      <3>6. ASSUME ~\E z \in P : IF Down THEN k < z.km /\ z.km < l ELSE l < z.km /\ z.km < k
            PROVE  a = c /\ b = d
        <4>1. \A x \in P : (x.km < k <=> x.km < l) /\ (k < x.km <=> l < x.km)
          BY <1>2, <2>1, <2>6, <3>6
        <4>2. /\ a.km < c.km \/ (a.km = c.km /\ a.time <= c.time)
              /\ c.km < a.km \/ (c.km = a.km /\ c.time <= a.time)
          BY <2>6, <3>1, <4>1 DEF IsLow
        <4>3. /\ b.km < d.km \/ (b.km = d.km /\ d.time <= b.time)
              /\ d.km < b.km \/ (d.km = b.km /\ b.time <= d.time)
          BY <2>6, <3>1, <4>1 DEF IsHigh
        <4>4. a.km = c.km /\ a.time = c.time /\ b.km = d.km /\ b.time = d.time
          BY <1>2, <3>1, <4>2, <4>3
        <4> QED
          BY <1>2, <3>1, <4>4 DEF PointsTyped
      <3> QED
        BY <3>4, <3>5, <3>6
    <2>7. /\ \/ \E x : IsFirstAt(P, x, k) /\ s = x.time
             \/ \E a, b : /\ \A x \in P : x.km # k
                          /\ IsLow(P, a, k) /\ IsHigh(P, b, k) /\ s = Between(a, b, k)
          /\ \/ \E x : IsFirstAt(P, x, l) /\ t = x.time
             \/ \E a, b : /\ \A x \in P : x.km # l
                          /\ IsLow(P, a, l) /\ IsHigh(P, b, l) /\ t = Between(a, b, l)
      BY <1>1, <1>2, InterpolatedTime
    <2> HIDE DEF Down
    <2>8. s <= t
      BY <2>2, <2>3, <2>5, <2>6, <2>7
    <2> QED
      BY <1>1, <2>8
  <1> QED
    BY <1>4, <1>5

\* The lesser of two numbers is one of them.
LEMMA LesserOfTwo ==
    ASSUME NEW a \in Int, NEW b \in Int
    PROVE  /\ Min({a, b}) \in {a, b}
           /\ a <= b => Min({a, b}) = a
           /\ b <= a => Min({a, b}) = b
  <1>1. \E x \in {a, b} : \A y \in {a, b} : x <= y
    OBVIOUS
  <1>2. Min({a, b}) \in {a, b} /\ \A y \in {a, b} : Min({a, b}) <= y
    BY <1>1 DEF Min
  <1> QED
    BY <1>2

-----------------------------------------------------------------------------
\* Entries: who enters which segment, when.
Entries == SegmentEntries(Corridor, Paths)

\* The end of a segment that a train comes to first.
NearEnd(p, i) == Corridor[IF p.direction = "down" THEN i ELSE i + 1].km

\* A train enters a segment once, when it comes to the nearer end; there are
\* finitely many segments and trains.
LEMMA EntriesTyped ==
    ASSUME WellFormed(db), CorridorTyped, HaveTimes(Paths)
    PROVE  /\ IsFiniteSet(Entries)
           /\ \A e \in Entries : /\ e.seg \in 1..(Len(Names) - 1) /\ e.time \in Int
                                 /\ \E p \in Paths : p.trip = e.trip /\ IsTimeAt(p, NearEnd(p, e.seg), e.time)
           /\ \A e, o \in Entries : o.trip = e.trip /\ o.seg = e.seg => o = e
  <1> DEFINE passing(p, i) == {InterpTimeAt(p, Corridor[k].km) : k \in {i, i + 1}}
             entry(p, i) == [seg |-> i, trip |-> p.trip, time |-> Min(passing(p, i))]
  <1>1. PICK m \in Nat : m = Len(Names) - 1 /\ m = Len(Corridor) - 1 /\ Len(Names) = m + 1
    <2>1. PICK n \in Nat \ {0, 1} : n = Len(Names) /\ n = Len(Corridor)
      BY LineAssumption DEF LineAssumption, CorridorTyped
    <2>2. n - 1 \in Nat /\ (n - 1) + 1 = n
      BY <2>1
    <2> QED
      BY <2>1, <2>2
  <1>2. \A e \in Entries : \E i \in 1..m : \E p \in Paths : Null \notin passing(p, i) /\ e = entry(p, i)
    BY <1>1 DEF Entries, SegmentEntries
  <1>3. ASSUME NEW p \in Paths, NEW i \in 1..m, Null \notin passing(p, i)
        PROVE  Min(passing(p, i)) \in Int /\ IsTimeAt(p, NearEnd(p, i), Min(passing(p, i)))
    <2>1. i \in 1..(m + 1) /\ i + 1 \in 1..(m + 1)
      BY <1>1
    <2>2. PICK k \in Int, l \in Int : k = Corridor[i].km /\ l = Corridor[i + 1].km
      BY <1>1, <2>1 DEF CorridorTyped
    <2>3. passing(p, i) = {InterpTimeAt(p, k), InterpTimeAt(p, l)}
      BY <2>2
    <2>4. PointsTyped(p.points) /\ p.points # {}
      BY PathsTyped DEF HaveTimes
    <2>5. PICK s, t : s = InterpTimeAt(p, k) /\ t = InterpTimeAt(p, l)
      OBVIOUS
    <2>6. s # Null /\ t # Null
      BY <1>3, <2>3, <2>5
    <2>7. Passed(p.points, s) /\ Passed(p.points, t)
      BY <2>4, <2>5, <2>6, Interpolated
    <2>8. s \in Int /\ t \in Int
      BY <2>7 DEF Passed
    <2>9. /\ Min({s, t}) \in {s, t}
          /\ s <= t => Min({s, t}) = s
          /\ t <= s => Min({s, t}) = t
      BY <2>8, LesserOfTwo
    <2>10. PICK near, first : near \in Int /\ near = NearEnd(p, i) /\ first = Min({s, t})
      BY <2>2 DEF NearEnd
    <2>11. p.direction \in {"down", "up"}
      BY PathsOfCalls
    <2>12. ASSUME RunsOneWay(p), ~Misplaced(p, near) PROVE first = ReachedAt(p, near)
      <3>1. k <= l
        <4>1. PICK n : n = Len(Names) /\ i \in 1..(n - 1)
          BY <1>1
        <4> QED
          BY <2>2, <4>1 DEF CorridorTyped
      <3>2. CASE p.direction = "down"
        <4>1. near = k
          BY <2>2, <2>10, <3>2 DEF NearEnd
        <4>2. InterpTimeAt(p, k) <= InterpTimeAt(p, l)
          BY <2>4, <2>5, <2>6, <2>11, <2>12, <3>1, <3>2, <4>1, NearerFirst
        <4>3. first = s
          BY <2>5, <2>9, <2>10, <4>2
        <4> QED
          BY <2>4, <2>5, <2>6, <2>11, <2>12, <4>1, <4>3, Reached
      <3>3. CASE p.direction = "up"
        <4>1. near = l
          BY <2>2, <2>10, <3>3 DEF NearEnd
        <4>2. InterpTimeAt(p, l) <= InterpTimeAt(p, k)
          BY <2>4, <2>5, <2>6, <2>11, <2>12, <3>1, <3>3, <4>1, NearerFirst
        <4>3. first = t
          BY <2>5, <2>9, <2>10, <4>2
        <4> QED
          BY <2>4, <2>5, <2>6, <2>11, <2>12, <4>1, <4>3, Reached
      <3> QED
        BY <2>11, <3>2, <3>3
    <2>13. \E x, y \in p.points : x.time <= first /\ first <= y.time
      BY <2>7, <2>9, <2>10 DEF Passed
    <2>14. first \in Int /\ IsTimeAt(p, near, first)
      BY <2>8, <2>9, <2>10, <2>12, <2>13 DEF IsTimeAt
    <2> HIDE DEF passing
    <2> QED
      BY <2>3, <2>5, <2>10, <2>14
  <1>4. \A p \in Paths : \A i \in 1..m : entry(p, i).seg = i /\ entry(p, i).trip = p.trip
                                            /\ entry(p, i).time = Min(passing(p, i))
    OBVIOUS
  <1> HIDE DEF passing, entry
  <1>5. \A e \in Entries : /\ e.seg \in 1..m /\ e.time \in Int
                           /\ \E p \in Paths : p.trip = e.trip /\ IsTimeAt(p, NearEnd(p, e.seg), e.time)
    <2> SUFFICES ASSUME NEW e \in Entries
                 PROVE  /\ e.seg \in 1..m /\ e.time \in Int
                        /\ \E p \in Paths : p.trip = e.trip /\ IsTimeAt(p, NearEnd(p, e.seg), e.time)
      OBVIOUS
    <2>1. PICK i \in 1..m, p \in Paths : Null \notin passing(p, i) /\ e = entry(p, i)
      BY <1>2
    <2>2. e.time \in Int /\ IsTimeAt(p, NearEnd(p, i), e.time) /\ e.seg = i /\ p.trip = e.trip
      BY <1>3, <1>4, <2>1
    <2> QED
      BY <2>2
  <1>6. \A e, o \in Entries : o.trip = e.trip /\ o.seg = e.seg => o = e
    <2> SUFFICES ASSUME NEW e \in Entries, NEW o \in Entries, o.trip = e.trip, o.seg = e.seg PROVE o = e
      OBVIOUS
    <2>1. PICK i \in 1..m, p \in Paths : e = entry(p, i)
      BY <1>2
    <2>2. PICK j \in 1..m, q \in Paths : o = entry(q, j)
      BY <1>2
    <2>3. i = j /\ p.trip = q.trip
      BY <1>4, <2>1, <2>2
    <2>4. p = q
      BY <2>3, PathsOfCalls
    <2> QED
      BY <2>1, <2>2, <2>3, <2>4
  <1>7. IsFiniteSet(Entries)
    <2>1. PICK I, P, E, S : I = 1..m /\ P = Paths /\ E = Entries /\ S = P \X I
      OBVIOUS
    <2>2. IsFiniteSet(I) /\ IsFiniteSet(P)
      BY <2>1, PathsFinite, FS_Interval
    <2>3. IsFiniteSet(S)
      BY <2>1, <2>2, FS_Product
    <2>4. PICK g : g = [z \in S |-> entry(z[1], z[2])]
      OBVIOUS
    <2>5. \A e \in E : \E z \in S : e = g[z]
      <3> SUFFICES ASSUME NEW e \in E PROVE \E z \in S : e = g[z]
        OBVIOUS
      <3>1. PICK i \in I, p \in P : e = entry(p, i)
        BY <1>2, <2>1
      <3>2. PICK z \in S : z = <<p, i>>
        BY <2>1
      <3>3. z[1] = p /\ z[2] = i
        BY <3>2
      <3>4. g[z] = entry(z[1], z[2])
        BY <2>4
      <3> QED
        BY <3>1, <3>3, <3>4
    <2>6. IsFiniteSet(E)
      BY <2>3, <2>5, ImageFinite
    <2> QED
      BY <2>1, <2>6
  <1> QED
    BY <1>1, <1>5, <1>6, <1>7

-----------------------------------------------------------------------------
\* The window of the report begins at an entry, and no other window, wherever
\* it begins, has more entries: one that has any has no more than the window
\* that begins at the first of them.
LEMMA PeakIsMost ==
    ASSUME NEW E, IsFiniteSet(E), E # {}, \A e \in E : e.time \in Int
    PROVE  /\ PeakWindow(E) \in Int
           /\ \A start \in Int : Cardinality(During(E, start)) <= Cardinality(During(E, PeakWindow(E)))
  <1>1. PICK starts : starts = {e.time : e \in E}
    OBVIOUS
  <1>2. starts \subseteq Int /\ starts # {}
    BY <1>1
  <1>3. IsFiniteSet(starts)
    <2>1. PICK g : g = [e \in E |-> e.time]
      OBVIOUS
    <2>2. \A y \in starts : \E x \in E : y = g[x]
      BY <1>1, <2>1
    <2> QED
      BY <2>2, ImageFinite
  <1>4. ASSUME NEW s PROVE IsFiniteSet(During(E, s)) /\ Cardinality(During(E, s)) \in Nat
    <2>1. During(E, s) \in SUBSET E
      BY DEF During
    <2> QED
      BY <2>1, FS_Subset, FS_CardinalityType
  <1>5. PICK c : c = [s \in starts |-> Cardinality(During(E, s))]
    OBVIOUS
  <1>6. PICK top \in starts : \A x \in starts : c[x] <= c[top]
    <2>1. PICK C : C = {c[s] : s \in starts}
      OBVIOUS
    <2>2. IsFiniteSet(C)
      <3>1. \A y \in C : \E x \in starts : y = c[x]
        BY <2>1
      <3> QED
        BY <1>3, <3>1, ImageFinite
    <2>3. C \subseteq Int /\ C # {}
      <3>1. \A s \in starts : c[s] \in Int
        BY <1>4, <1>5
      <3> QED
        BY <1>2, <2>1, <3>1
    <2>4. PICK z \in C : \A y \in C : z >= y
      BY <2>2, <2>3, GreatestNumber
    <2>5. PICK s \in starts : z = c[s]
      BY <2>1
    <2>6. \A x \in starts : c[s] >= c[x]
      BY <2>1, <2>4, <2>5
    <2>7. \A x \in starts : c[x] \in Int
      BY <1>4, <1>5
    <2> QED
      BY <2>6, <2>7
  <1>7. PICK tops : tops = {s \in starts : \A x \in starts : c[x] <= c[s]}
    OBVIOUS
  <1>8. Min(tops) \in tops
    <2>1. tops \subseteq Int /\ tops # {} /\ tops \in SUBSET starts
      BY <1>2, <1>6, <1>7
    <2>2. IsFiniteSet(tops)
      BY <1>3, <2>1, FS_Subset
    <2>3. \E x \in tops : \A y \in tops : x <= y
      BY <2>1, <2>2, LeastOfFinite
    <2> QED
      BY <2>3 DEF Min
  <1>9. PeakWindow(E) = Min(tops)
    <2>1. tops = {s \in starts : \A x \in starts : Cardinality(During(E, x)) <= Cardinality(During(E, s))}
      BY <1>5, <1>7
    <2>2. PeakWindow(E) = Min(tops \cup {})
      BY <1>1, <1>2, <2>1 DEF PeakWindow
    <2> QED
      BY <2>2
  <1>10. PICK peak : peak = PeakWindow(E)
    OBVIOUS
  <1>11. peak \in starts /\ \A x \in starts : Cardinality(During(E, x)) <= Cardinality(During(E, peak))
    BY <1>5, <1>7, <1>8, <1>9, <1>10
  <1>12. ASSUME NEW start \in Int PROVE Cardinality(During(E, start)) <= Cardinality(During(E, peak))
    <2>1. PICK D : D = During(E, start)
      OBVIOUS
    <2>2. CASE D = {}
      <3>1. Cardinality(D) = 0
        BY <2>2, FS_EmptySet
      <3> QED
        BY <1>4, <2>1, <3>1
    <2>3. CASE D # {}
      <3>1. PICK times : times = {e.time : e \in D}
        OBVIOUS
      <3>2. times \in SUBSET starts /\ times # {}
        BY <1>1, <2>1, <2>3, <3>1 DEF During
      <3>3. times \subseteq Int /\ IsFiniteSet(times)
        BY <1>2, <1>3, <3>2, FS_Subset
      <3>4. PICK first \in times : \A y \in times : first <= y
        BY <3>2, <3>3, LeastOfFinite
      <3>5. D \in SUBSET During(E, first)
        <4> SUFFICES ASSUME NEW e \in D PROVE e \in During(E, first)
          OBVIOUS
        <4>1. e \in E /\ e.time \in Int /\ e.time < start + Window
          BY <2>1 DEF During
        <4>2. first <= e.time /\ start <= first /\ first \in Int
          BY <2>1, <3>1, <3>3, <3>4 DEF During
        <4>3. e.time < first + Window
          BY <4>1, <4>2, LineAssumption DEF LineAssumption
        <4> QED
          BY <4>1, <4>2, <4>3 DEF During
      <3>6. Cardinality(D) <= Cardinality(During(E, first))
        BY <1>4, <3>5, FS_Subset
      <3>7. Cardinality(During(E, first)) <= Cardinality(During(E, peak))
        BY <1>11, <3>2
      <3> QED
        BY <1>4, <2>1, <3>6, <3>7
    <2> QED
      BY <2>2, <2>3
  <1> QED
    BY <1>2, <1>10, <1>11, <1>12

\* The report counts each entry of its window, at its segment.
LEMMA WindowCounted ==
    ASSUME NEW E, IsFiniteSet(E), \A e \in E : e.seg \in DOMAIN Segments
    PROVE  MapThenSumSet(LAMBDA s : s.trains, Uic406Occupancy(E)) = Cardinality(During(E, PeakWindow(E)))
  <1>1. PICK B, R : B = During(E, PeakWindow(E)) /\ R = Uic406Occupancy(E)
    OBVIOUS
  <1> DEFINE n(i) == Cardinality({e \in B : e.seg = i})
             row(i) == [seg |-> i, trains |-> n(i), occupied |-> n(i) * (Segments[i].running + Segments[i].headway),
                        capacity |-> Segments[i].capacity]
  <1>2. PICK m \in Nat : DOMAIN Segments = 1..m
    <2>1. PICK l \in Nat \ {0, 1} : l = Len(Names)
      BY LineAssumption DEF LineAssumption
    <2>2. l - 1 \in Nat /\ DOMAIN Segments = 1..(l - 1)
      BY <2>1, LineAssumption DEF LineAssumption
    <2> QED
      BY <2>2
  <1>3. R = {row(i) : i \in 1..m}
    BY <1>1, <1>2 DEF Uic406Occupancy
  <1>4. \A i \in 1..m : row(i).seg = i /\ row(i).trains = n(i)
    OBVIOUS
  <1> HIDE DEF row
  <1>5. IsFiniteSet(R)
    <2>1. PICK I, h : I = 1..m /\ h = [i \in I |-> row(i)]
      OBVIOUS
    <2>2. IsFiniteSet(I)
      BY <2>1, FS_Interval
    <2>3. ASSUME NEW y \in R PROVE \E x \in I : y = h[x]
      <3>1. PICK i \in I : y = row(i)
        BY <1>3, <2>1
      <3>2. h[i] = row(i)
        BY <2>1
      <3> QED
        BY <3>1, <3>2
    <2> QED
      BY <2>2, <2>3, ImageFinite
  <1>6. IsFiniteSet(B) /\ \A e \in B : e.seg \in 1..m
    <2>1. B \in SUBSET E
      BY <1>1 DEF During
    <2> QED
      BY <1>2, <2>1, FS_Subset
  <1>7. ASSUME NEW b \in SUBSET B PROVE IsFiniteSet(b) /\ Cardinality(b) \in Nat
    BY <1>6, FS_Subset, FS_CardinalityType
  <1>8. \A r \in R : r.trains = n(r.seg) /\ r.trains \in Int
    <2>1. \A i : {e \in B : e.seg = i} \in SUBSET B
      OBVIOUS
    <2>2. \A i : n(i) \in Int
      BY <1>7, <2>1
    <2> HIDE DEF n
    <2> QED
      BY <1>3, <1>4, <2>2
  <1>9. \A r, s \in R : r.seg = s.seg => r = s
    <2> HIDE DEF n
    <2> QED
      BY <1>3, <1>4
  <1>10. PICK g : g = [r \in R |-> r.trains]
    OBVIOUS
  <1>11. \A r \in R : g[r] = n(r.seg) /\ g[r] = r.trains /\ g[r] \in Int
    BY <1>8, <1>10
  <1> DEFINE Fits(f) == f = [s \in SUBSET R |-> IF s = {} THEN 0
                               ELSE (CHOOSE x \in s : TRUE).trains + f[s \ {CHOOSE x \in s : TRUE}]]
             sum == CHOOSE f : Fits(f)
  <1>12. ASSUME NEW f PROVE Fits(f) <=> SumsOver(R, g, f)
    <2>1. PICK F, G : /\ F = [s \in SUBSET R |-> IF s = {} THEN 0
                                ELSE (CHOOSE x \in s : TRUE).trains + f[s \ {CHOOSE x \in s : TRUE}]]
                      /\ G = [s \in SUBSET R |-> IF s = {} THEN 0 ELSE g[Pick(s)] + f[s \ {Pick(s)}]]
      OBVIOUS
    <2>2. \A s \in SUBSET R : s # {} => Pick(s) \in R
      BY DEF Pick
    <2>3. F = G
      <3>1. \A r \in R : g[r] = r.trains
        BY <1>11
      <3> HIDE DEF n
      <3> QED
        BY <2>1, <2>2, <3>1 DEF Pick
    <2>4. Fits(f) <=> f = F
      BY <2>1
    <2> HIDE DEF Fits, sum
    <2>5. IsFold(R, g, f) <=> SumsOver(R, g, f)
      BY <1>5, <1>11, SetSumsDefined
    <2>6. IsFold(R, g, f) <=> f = G
      BY <2>1 DEF IsFold
    <2> QED
      BY <2>3, <2>4, <2>5, <2>6
  <1>13. SumsOver(R, g, sum)
    <2>1. \E f : SumsOver(R, g, f)
      <3> HIDE DEF Fits, sum
      <3> QED
        BY <1>5, <1>11, SetSumsExist
    <2> HIDE DEF Fits
    <2> QED
      BY <1>12, <2>1
  <1>14. MapThenSumSet(LAMBDA s : s.trains, R) = sum[R]
    BY DEF MapThenSumSet, MapThenFoldSet
  <1> HIDE DEF Fits
  <1>15. PICK f : SumsOver(R, g, f) /\ f = sum
    BY <1>13
  <1> HIDE DEF sum
  <1> DEFINE at(s) == {e \in B : \E r \in s : r.seg = e.seg}
             P == {s \in SUBSET R : f[s] = Cardinality(at(s))}
  <1>16. {} \in P
    <2>1. at({}) = {}
      OBVIOUS
    <2>2. f[{}] = 0
      BY <1>15 DEF SumsOver
    <2> QED
      BY <2>1, <2>2, FS_EmptySet
  <1>17. ASSUME NEW s \in SUBSET R, s # {}, \A x \in s : s \ {x} \in P PROVE s \in P
    <2>1. PICK x \in s : x = Pick(s)
      BY <1>17 DEF Pick
    <2>2. f[s] = g[x] + f[s \ {x}]
      BY <1>15, <1>17, <2>1 DEF SumsOver
    <2>3. PICK b, c : b = {e \in B : e.seg = x.seg} /\ c = at(s \ {x})
      OBVIOUS
    <2>4. f[s \ {x}] = Cardinality(c) /\ g[x] = Cardinality(b)
      BY <1>11, <1>17, <2>1, <2>3
    <2>5. at(s) = b \cup c
      BY <2>3
    <2>6. b \cap c = {}
      BY <1>9, <1>17, <2>3
    <2>7. IsFiniteSet(b) /\ IsFiniteSet(c) /\ Cardinality(b) \in Nat /\ Cardinality(c) \in Nat
      BY <1>7, <2>3
    <2>8. Cardinality(b \cup c) = Cardinality(b) + Cardinality(c) - Cardinality(b \cap c)
      BY <2>7, FS_Union
    <2>9. Cardinality(b \cup c) = Cardinality(b) + Cardinality(c)
      <3>1. Cardinality(b \cap c) = 0
        BY <2>6, FS_EmptySet
      <3> QED
        BY <2>7, <2>8, <3>1
    <2> QED
      BY <2>2, <2>4, <2>5, <2>9
  <1> HIDE DEF P
  <1>18. SUBSET R \subseteq P
    BY <1>5, <1>16, <1>17, PartsReached
  <1>19. f[R] = Cardinality(at(R))
    BY <1>18 DEF P
  <1>20. at(R) = B
    <2>1. ASSUME NEW e \in B PROVE \E r \in R : r.seg = e.seg
      BY <1>3, <1>4, <1>6
    <2> QED
      BY <2>1
  <1> QED
    BY <1>1, <1>14, <1>15, <1>19, <1>20

-----------------------------------------------------------------------------
\* The order of the calls of a train.
BySeq(c, e) == c.seq < e.seq

\* Each call of a day is a stop of the schedule of its train.
LEMMA CallIsScheduled ==
    ASSUME WellFormed(db), NEW c \in CallsOn(db, Day)
    PROVE  \E i \in DOMAIN LoadSchedules(db, Day)[c.trip] : LoadSchedules(db, Day)[c.trip][i] = c
  <1>1. PICK S : S = {e \in CallsOn(db, Day) : e.trip = c.trip}
    OBVIOUS
  <1>2. /\ \A e \in S : e.seq \in Int
        /\ \A d, e \in S : d.seq = e.seq => d = e
    BY <1>1 DEF CallsOn, WellFormed
  <1>3. IsFiniteSet(S)
    <2>1. PICK T : T = db["stop_times"]
      OBVIOUS
    <2>2. IsFiniteSet(T) /\ S \in SUBSET T
      BY <1>1, <2>1 DEF CallsOn, WellFormed
    <2> QED
      BY <2>2, FS_Subset
  <1> DEFINE R == {p \in S \X S : p[1].seq < p[2].seq}
  <1>4. \A d, e \in S : <<d, e>> \in R <=> d.seq < e.seq
    OBVIOUS
  <1> HIDE DEF R
  <1>5. StrictOrder(S, R)
    <2>1. /\ \A d \in S : ~(d.seq < d.seq)
          /\ \A d, e, f \in S : d.seq < e.seq /\ e.seq < f.seq => d.seq < f.seq
          /\ \A d, e \in S : d # e => d.seq < e.seq \/ e.seq < d.seq
      BY <1>2
    <2> QED
      BY <1>4, <2>1 DEF StrictOrder
  <1>6. \A e \in S : {d \in S : d.seq < e.seq} = Below(S, R, e)
    BY <1>4 DEF Below
  <1>7. PICK n \in Nat : n = Cardinality(S)
    BY <1>3, FS_CardinalityType
  <1>8. PICK calls : /\ calls = Sorted(S, BySeq)
                     /\ calls = [i \in 1..n |-> CHOOSE x \in S : Cardinality({y \in S : y.seq < x.seq}) = i - 1]
    BY <1>7 DEF Sorted, BySeq
  <1>9. PICK f : f = [i \in 1..n |-> CHOOSE x \in S : Cardinality(Below(S, R, x)) = i - 1]
    OBVIOUS
  <1>10. \A i \in 1..n : calls[i] = f[i]
    <2>1. \A i : (CHOOSE x \in S : Cardinality({y \in S : y.seq < x.seq}) = i - 1)
                    = CHOOSE x \in S : Cardinality(Below(S, R, x)) = i - 1
      BY <1>6
    <2>2. \A i \in 1..n : calls[i] = CHOOSE x \in S : Cardinality({y \in S : y.seq < x.seq}) = i - 1
      BY <1>8
    <2>3. \A i \in 1..n : f[i] = CHOOSE x \in S : Cardinality(Below(S, R, x)) = i - 1
      BY <1>9
    <2> QED
      BY <2>1, <2>2, <2>3
  <1>11. InOrder(S, R, f)
    BY <1>3, <1>5, <1>7, <1>9, Ranking
  <1>12. PICK k \in 1..n : calls[k] = c
    <2>1. c \in S
      BY <1>1
    <2>2. PICK k \in DOMAIN f : f[k] = c
      BY <1>11, <2>1 DEF InOrder
    <2>3. k \in 1..n
      BY <1>9, <2>2
    <2> QED
      BY <1>10, <2>2, <2>3
  <1>13. calls = [i \in 1..n |-> calls[i]]
    BY <1>8
  <1>14. Len(calls) = n
    BY <1>13, LengthOf
  <1>15. LoadSchedules(db, Day)[c.trip] = [i \in 0..(n - 1) |-> calls[i + 1]]
    <2> DEFINE line(t) == Sorted({e \in CallsOn(db, Day) : e.trip = t}, BySeq)
    <2>1. LoadSchedules(db, Day) =
             [t \in {e.trip : e \in CallsOn(db, Day)} |-> [i \in 0..(Len(line(t)) - 1) |-> line(t)[i + 1]]]
      BY DEF LoadSchedules, Sorted, BySeq
    <2>2. line(c.trip) = calls
      BY <1>1, <1>8
    <2> HIDE DEF line
    <2> QED
      BY <1>14, <2>1, <2>2
  <1>16. k - 1 \in 0..(n - 1) /\ (k - 1) + 1 = k
    BY <1>12
  <1>17. PICK stops : stops = LoadSchedules(db, Day)[c.trip]
    OBVIOUS
  <1>18. k - 1 \in DOMAIN stops /\ stops[k - 1] = c
    BY <1>12, <1>15, <1>16, <1>17
  <1> QED
    BY <1>17, <1>18

-----------------------------------------------------------------------------
\* A train comes to the boundary of a zone once, when it reaches it.
LEMMA ArrivalsAtBoundary ==
    ASSUME WellFormed(db), CorridorTyped, HaveTimes(Paths),
           NEW west \in 1..Len(Names), NEW east \in 1..Len(Names),
           NEW a \in BoundaryArrivals(Corridor, Paths, west, east)
    PROVE  /\ \A p \in Paths : p.trip = a.train =>
                 IsTimeAt(p, Corridor[IF p.direction = "down" THEN west ELSE east].km, a.time)
           /\ \A o \in BoundaryArrivals(Corridor, Paths, west, east) : o.train = a.train => o = a
  <1> DEFINE place(p) == Corridor[IF p.direction = "down" THEN west ELSE east].km
             arrival(p) == [train |-> p.trip, direction |-> IF p.direction = "down" THEN "WE" ELSE "EW",
                            time |-> InterpTimeAt(p, place(p))]
  <1>1. BoundaryArrivals(Corridor, Paths, west, east)
          = {arrival(p) : p \in {x \in Paths : InterpTimeAt(x, place(x)) # Null}}
    BY DEF BoundaryArrivals
  <1>2. PICK q \in Paths : InterpTimeAt(q, place(q)) # Null /\ a = arrival(q)
    BY <1>1
  <1>3. PICK k, t : k \in Int /\ k = place(q) /\ t = InterpTimeAt(q, k)
    BY DEF CorridorTyped
  <1>4. PointsTyped(q.points) /\ q.points # {} /\ q.direction \in {"down", "up"}
    BY PathsTyped, PathsOfCalls DEF HaveTimes
  <1>5. \E x, y \in q.points : x.time <= t /\ t <= y.time
    BY <1>2, <1>3, <1>4, Interpolated DEF Passed
  <1>6. RunsOneWay(q) /\ ~Misplaced(q, k) => t = ReachedAt(q, k)
    BY <1>2, <1>3, <1>4, Reached
  <1>7. IsTimeAt(q, place(q), t) /\ a.time = t /\ a.train = q.trip
    BY <1>2, <1>3, <1>5, <1>6 DEF IsTimeAt
  <1>8. ASSUME NEW o \in BoundaryArrivals(Corridor, Paths, west, east), o.train = a.train PROVE o = a
    <2>1. PICK r \in Paths : o = arrival(r)
      BY <1>1
    <2>2. r.trip = q.trip
      BY <1>2, <1>8, <2>1
    <2>3. r = q
      BY <2>2, PathsOfCalls
    <2> HIDE DEF arrival
    <2> QED
      BY <1>2, <2>1, <2>3
  <1>9. ASSUME NEW p \in Paths, p.trip = a.train PROVE IsTimeAt(p, place(p), a.time)
    <2>1. p = q
      BY <1>7, <1>9, PathsOfCalls
    <2> HIDE DEF place
    <2> QED
      BY <1>7, <2>1
  <1> QED
    BY <1>8, <1>9

\* For every feed, whatever else was loaded before: paths have the times and
\* places of the schedules; segments and zones are entered once by a train, when
\* it reaches them; and no window that begins near an entry has more entries
\* than the report counts.  PeakIsMost says so of all windows.
LEMMA AnalysesOfTheLine ==
    ASSUME LoadInv
    PROVE  OccupancyIsOfTheBusiestHour
  <1> SUFFICES ASSUME Settled PROVE OccupancyIsOfTheBusiestHour
    BY DEF OccupancyIsOfTheBusiestHour
  <1> DEFINE counted == MapThenSumSet(LAMBDA s : s.trains, Uic406Occupancy(Entries))
             Met(arrivals, west, east) ==
                \A a \in arrivals :
                    /\ \A p \in Paths : p.trip = a.train =>
                        IsTimeAt(p, Corridor[IF p.direction = "down" THEN west ELSE east].km, a.time)
                    /\ \A o \in arrivals : o.train = a.train => o = a
  <1>1. WellFormed(db) /\ HaveTimes(Paths)
    BY DatabaseWellFormed DEF Settled
  <1>2. CorridorTyped
    BY <1>1, CorridorIsTyped DEF Settled
  <1>3. ASSUME NEW p \in Paths, NEW x \in p.points
        PROVE  LET stops == LoadSchedules(db, Day)[p.trip]
               IN \E i \in DOMAIN stops : /\ x.time \in {stops[i].arr, stops[i].dep}
                                           /\ x.km = Corridor[IndexOfStop(Corridor, stops[i].stop)].km
    <2>1. PICK c \in CallsOf(p.trip) : \E t \in {c.arr, c.dep} \ {Null} : x = [time |-> t, km |-> Km(c)]
      BY PathsOfCalls DEF PointsOf
    <2>2. c \in CallsOn(db, Day) /\ c.trip = p.trip
      BY <2>1 DEF CallsOf, OnLine
    <2>3. x.time \in {c.arr, c.dep} /\ x.km = Corridor[IndexOfStop(Corridor, c.stop)].km
      BY <2>1 DEF Km
    <2>4. PICK i \in DOMAIN LoadSchedules(db, Day)[p.trip] : LoadSchedules(db, Day)[p.trip][i] = c
      BY <1>1, <2>2, CallIsScheduled
    <2> QED
      BY <2>3, <2>4
  <1>4. ASSUME NEW e \in Entries
        PROVE  /\ \A p \in Paths : p.trip = e.trip =>
                    IsTimeAt(p, Corridor[IF p.direction = "down" THEN e.seg ELSE e.seg + 1].km, e.time)
               /\ \A o \in Entries : o.trip = e.trip /\ o.seg = e.seg => o = e
    <2>1. PICK q \in Paths : q.trip = e.trip /\ IsTimeAt(q, NearEnd(q, e.seg), e.time)
      BY <1>1, <1>2, EntriesTyped
    <2>2. \A p \in Paths : p.trip = e.trip => p = q
      BY <2>1, PathsOfCalls
    <2>3. \A p \in Paths : p.trip = e.trip =>
              IsTimeAt(p, Corridor[IF p.direction = "down" THEN e.seg ELSE e.seg + 1].km, e.time)
      BY <2>1, <2>2 DEF NearEnd
    <2> QED
      BY <1>1, <1>2, <2>3, EntriesTyped
  <1>5. ASSUME NEW west \in DOMAIN Corridor, NEW east \in DOMAIN Corridor
        PROVE  Met(BoundaryArrivals(Corridor, Paths, west, east), west, east)
    <2>1. west \in 1..Len(Names) /\ east \in 1..Len(Names)
      BY <1>2 DEF CorridorTyped
    <2> QED
      BY <1>1, <1>2, <2>1, ArrivalsAtBoundary
  <1>6. ASSUME NEW e \in Entries, NEW start \in Int PROVE Cardinality(During(Entries, start)) <= counted
    <2>1. PICK E : E = Entries
      OBVIOUS
    <2>2. IsFiniteSet(E) /\ E # {} /\ \A d \in E : d.time \in Int /\ d.seg \in DOMAIN Segments
      BY <1>1, <1>2, <2>1, EntriesTyped, LineAssumption DEF LineAssumption
    <2>3. Cardinality(During(E, start)) <= Cardinality(During(E, PeakWindow(E)))
      BY <2>2, PeakIsMost
    <2>4. MapThenSumSet(LAMBDA s : s.trains, Uic406Occupancy(E)) = Cardinality(During(E, PeakWindow(E)))
      BY <2>2, WindowCounted
    <2>5. Cardinality(During(E, start)) <= MapThenSumSet(LAMBDA s : s.trains, Uic406Occupancy(E))
      BY <2>3, <2>4, Zenon
    <2> QED
      BY <2>1, <2>5
  <1>7. ASSUME NEW e \in Entries, NEW start \in {e.time - Window, e.time - Window + 1, e.time + 1}
        PROVE  Cardinality(During(Entries, start)) <= counted
    <2>1. e.time \in Int
      BY <1>1, <1>2, EntriesTyped
    <2>2. start \in Int
      BY <2>1, LineAssumption DEF LineAssumption
    <2> QED
      BY <1>6, <2>2
  <1> QED
    BY <1>3, <1>4, <1>5, <1>7 DEF OccupancyIsOfTheBusiestHour, Entries

\* Whatever the ingestions before, the analyses of the line count every train
\* once and, unless it is misplaced or turns round, when it is there, and no
\* window of the length asked for holds more entries than uic406_occupancy
\* counts over all segments.
THEOREM BusiestHourIsFound == Spec => []OccupancyIsOfTheBusiestHour
  <1> QED
    BY LoadInvariant, AnalysesOfTheLine, PTL
=============================================================================
