----------------------------- MODULE EventLoop ------------------------------
(***************************************************************************)
(* dbsim.engine.loop.Simulation with arbitrary clients: events are         *)
(* scheduled from outside run() or by a handler, run() may be called again *)
(* after it returned, and max_time cuts a run short.                       *)
(***************************************************************************)
EXTENDS EventQueue, Sequences, Basics

CONSTANTS
    Kinds,        \* event kinds
    Registered,   \* the kinds with a handler
    NoLimit,      \* max_time = None
    Horizon,      \* bound: events are scheduled at times up to Horizon
    MaxBatch,     \* bound: events one handler schedules
    MaxEvents     \* bound: events ever offered to schedule()

ASSUME LoopAssumption ==
    /\ Registered \subseteq Kinds
    /\ NoLimit \notin Int
    /\ Horizon \in Nat /\ MaxBatch \in Nat /\ MaxEvents \in Nat

VARIABLES
    log,       \* _log
    dropped,   \* history: entries popped but never processed
    running,   \* inside run()
    maxTime    \* _max_time: __init__ refuses a negative one

vars == <<heap, sequence, now, raised, log, dropped, running, maxTime>>

Call == [time : -1..Horizon, event : Kinds]

Batches == UNION {[1..n -> Call] : n \in 0..MaxBatch}

Within(t) == maxTime # NoLimit => t <= maxTime

Init ==
    /\ QueueInit(NoEvents, 0)
    /\ log = <<>>
    /\ dropped = {}
    /\ running = FALSE
    /\ maxTime \in 0..Horizon \cup {NoLimit}

\* schedule() / schedule_at() called while no run is in progress.
Schedule(call) ==
    /\ ~running
    /\ sequence < MaxEvents
    /\ Push(heap, <<call>>, 1, now)
    /\ UNCHANGED <<now, log, dropped, running, maxTime>>

StartRun ==
    /\ ~running
    /\ running' = TRUE
    /\ raised' = FALSE
    /\ UNCHANGED <<heap, sequence, now, log, dropped, maxTime>>

\* An event within max_time is logged and handled; an exception from
\* schedule() leaves run().
Fire(e, batch) ==
    /\ running
    /\ Within(e.time)
    /\ sequence + Len(batch) <= MaxEvents
    /\ e.event \notin Registered => batch = NoEvents
    /\ Process(e, batch, Len(batch))
    /\ log' = Append(log, e)
    /\ running' = ~raised'
    /\ UNCHANGED <<dropped, maxTime>>

\* The head is beyond max_time: it has been popped, and run() breaks.
CutOff(e) ==
    /\ running
    /\ IsNext(e)
    /\ ~Within(e.time)
    /\ heap' = heap \ {e}
    /\ dropped' = dropped \cup {e}
    /\ running' = FALSE
    /\ UNCHANGED <<sequence, now, raised, log, maxTime>>

Drained ==
    /\ running
    /\ heap = {}
    /\ running' = FALSE
    /\ UNCHANGED <<heap, sequence, now, raised, log, dropped, maxTime>>

Next ==
    \/ \E call \in Call : Schedule(call)
    \/ StartRun
    \/ \E e \in heap, batch \in Batches : Fire(e, batch)
    \/ \E e \in heap : CutOff(e)
    \/ Drained

Spec == Init /\ [][Next]_vars

-----------------------------------------------------------------------------
Entry == [time : Int, seq : Nat, event : Kinds]

TypeOK ==
    /\ heap \in SUBSET Entry
    /\ sequence \in Nat
    /\ now \in Int
    /\ raised \in BOOLEAN
    /\ log \in Seq(Entry)
    /\ dropped \in SUBSET Entry
    /\ running \in BOOLEAN
    /\ maxTime \in Nat \cup {NoLimit}

\* "No acausal effects": nothing waits in the heap for a time already passed,
\* and the clock never shows less than what the log ends with.
Causal ==
    /\ \A e \in heap : e.time >= now
    /\ \A i \in 1..Len(log) : log[i].time <= now

\* "Stable FIFO ordering": the log is strictly ordered by time and, among
\* events of one instant, by the order of their schedule() calls, however
\* many handlers and outside calls interleaved.
LogOrdered ==
    \A i, j \in 1..Len(log) : i < j => Precedes(log[i], log[j])

\* Every call schedule() accepted is in exactly one place: still in the heap,
\* processed once, or popped by a run that max_time cut short.
NothingLost ==
    \A s \in 0..(sequence - 1) :
        Cardinality({e \in heap : e.seq = s})
          + Cardinality({i \in 1..Len(log) : log[i].seq = s})
          + Cardinality({e \in dropped : e.seq = s}) = 1

\* The events of the entries H that are due at t, oldest first.
DueAt(H, t) ==
    LET before(a, b) == a.seq < b.seq
        due == Sorted({e \in H : e.time = t}, before)
    IN [k \in DOMAIN due |-> due[k].event]

Abstract == INSTANCE Calendar WITH
    Instants <- -1..Horizon,
    Kinds <- Kinds,
    NoLimit <- NoLimit,
    MaxCalls <- MaxBatch,
    agenda <- [t \in -1..Horizon |-> DueAt(heap, t)],
    clock <- now,
    history <- [i \in DOMAIN log |-> <<log[i].time, log[i].event>>],
    active <- running,
    limit <- maxTime

\* The heap of (time, sequence) tuples behaves as a calendar of first-come-
\* first-served lists, also when run() is called again, stops at max_time or
\* ends because an event for the past was refused.
ImplementsCalendar == Abstract!Spec
=============================================================================
