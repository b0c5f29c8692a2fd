----------------------------- MODULE EventQueue -----------------------------
(***************************************************************************)
(* The state of dbsim.engine.loop.Simulation that every layer shares: the  *)
(* heap, the sequence counter and the clock.  The macro, meso and micro    *)
(* layers EXTEND this module: a handler of theirs is one step that takes   *)
(* the head of the heap, changes the layer's own state and pushes a batch  *)
(* of new events, which is what the single-threaded loop does.             *)
(*                                                                         *)
(* A batch is a function from positions 1..width to [time, event]; it may  *)
(* be sparse, since only the order of the sequence numbers matters.        *)
(***************************************************************************)
EXTENDS Integers

VARIABLES
    heap,       \* _heap: a set of entries [time, seq, event]
    sequence,   \* _sequence: the number the next entry gets
    now,        \* _now
    raised      \* schedule() has refused an event of the last batch

queueVars == <<heap, sequence, now, raised>>

\* The order of the heap's (time, sequence, event) tuples: the sequence
\* number is the sole tie-breaker.
Precedes(a, b) == a.time < b.time \/ (a.time = b.time /\ a.seq < b.seq)

\* Mutant: the latest call of an instant is served first.
IsNextLifo(e) ==
    e \in heap /\ \A f \in heap \ {e} : e.time < f.time \/ (e.time = f.time /\ e.seq > f.seq)

IsNext(e) == e \in heap /\ \A f \in heap \ {e} : Precedes(e, f)

\* Mutant: schedule() takes events for the past.
AcceptsAll(batch, width, t, n) == n = width

\* schedule() accepts the first n calls of the batch at clock t: it raises at
\* the first event before t, and the later calls never happen.
Accepts(batch, width, t, n) ==
    /\ \A i \in DOMAIN batch : i <= n => batch[i].time >= t
    /\ n < width => n + 1 \in DOMAIN batch /\ batch[n + 1].time < t

\* Mutant: the events of one handler share a sequence number.
EntriesUnnumbered(batch, n, from) ==
    {[time |-> batch[i].time, seq |-> from, event |-> batch[i].event] :
        i \in {k \in DOMAIN batch : k <= n}}

\* Mutant: the counter is read before it exists.
EntriesFromMinusOne(batch, n, from) ==
    {[time |-> batch[i].time, seq |-> from + i - 2, event |-> batch[i].event] :
        i \in {k \in DOMAIN batch : k <= n}}

Entries(batch, n, from) ==
    {[time |-> batch[i].time, seq |-> from + i - 1, event |-> batch[i].event] :
        i \in {k \in DOMAIN batch : k <= n}}

\* Events a constructor schedules before run(), with the clock at 0.
QueueInit(batch, width) ==
    \E n \in 0..width :
        /\ Accepts(batch, width, 0, n)
        /\ heap = Entries(batch, n, 0)
        /\ sequence = n
        /\ now = 0
        /\ raised = (n < width)

\* schedule() called for every event of the batch in turn at clock t, with
\* the entries of rest in the heap.
Push(rest, batch, width, t) ==
    \E n \in 0..width :
        /\ Accepts(batch, width, t, n)
        /\ heap' = rest \cup Entries(batch, n, sequence)
        /\ sequence' = sequence + n
        /\ raised' = (n < width)

\* Mutant: the clock is not advanced.
ProcessStandingStill(e, batch, width) ==
    /\ ~raised
    /\ IsNext(e)
    /\ now' = now
    /\ Push(heap \ {e}, batch, width, e.time)

\* One turn of run(): pop the head e, advance the clock, run a handler that
\* schedules the batch.  A refused event ends run() with an exception.
Process(e, batch, width) ==
    /\ ~raised
    /\ IsNext(e)
    /\ now' = e.time
    /\ Push(heap \ {e}, batch, width, e.time)

NoEvents == <<>>

\* Updating a dictionary; with k = width + 1, adding a last call to a batch.
Put(f, k, v) == [x \in DOMAIN f \cup {k} |-> IF x = k THEN v ELSE f[x]]

At(time, event) == [time |-> time, event |-> event]

=============================================================================
