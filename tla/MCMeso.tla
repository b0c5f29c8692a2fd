------------------------------- MODULE MCMeso -------------------------------
(***************************************************************************)
(* Three stations, two segments and three trains, at least one of which    *)
(* runs against the others; and runs of documents and of the command meso. *)
(***************************************************************************)
EXTENDS ScenarioFile, TLC

Up == 0 :> 0 @@ 1 :> 1 @@ 2 :> 2
Down == 0 :> 2 @@ 1 :> 1 @@ 2 :> 0
Return == 0 :> 0 @@ 1 :> 1 @@ 2 :> 2 @@ 3 :> 1     \* passes its last station on the way

Stay == 0 :> 1                            \* already at its destination

Train(path, entry, priority, dwell) ==
    [path |-> path, entry |-> entry, priority |-> priority, dwell |-> dwell]

Closure(seg, start, end) == [seg |-> seg, start |-> start, end |-> end]

\* No closure; one that begins under traffic; two that overlap.
ClosureLists ==
    {<<>>, <<Closure(0, 1, 4)>>, <<Closure(1, 2, 5), Closure(1, 0, 3), Closure(0, 4, 6)>>}

Track(capacity, headway) == [running |-> 2, capacity |-> capacity, headway |-> headway]

Constructed ==
    {[segments |-> 0 :> Track(c0, h) @@ 1 :> Track(1, h),
      trains |-> <<Train(Up, 0, 0, 0), Train(p2, 0, 1, d), Train(Down, e3, p3, 1)>>,
      closures |-> closures, dispatcher |-> dispatcher,
      rank |-> 0 :> (3 :> 0 @@ 1 :> 1) @@ 1 :> (2 :> 0 @@ 3 :> 1 @@ 1 :> 2)] :
        c0 \in {1, 2}, h \in {0, 1, 3}, p2 \in {Up, Down, Return, Stay}, d \in {0, 2},
        e3 \in {0, 3, 9}, p3 \in {1, 2}, closures \in ClosureLists,
        dispatcher \in {"priority", "fifo", "ranked", "any"}}

\* A double track and a short single one without a speed limit.
Line == <<[length |-> 3000, speed |-> 100, tracks |-> 2], [length |-> 500, speed |-> 0, tracks |-> 0]>>
Stretch == <<"A", "B", "C">>

Document(trains, more) ==
    ("corridor" :> ("stations" :> Stretch) @@ "trains" :> trains) @@ more

\* All that may be left out is; a restriction that is given twice.
Documents ==
    {Document(<<"from" :> "A" @@ "to" :> "C", "from" :> "C" @@ "to" :> "A">>, more) :
        more \in {<<>>, "dispatch" :> ("dispatcher" :> "fifo"), "dispatch" :> ("dispatcher" :> "none")}}
      \cup {Document(<<"from" :> "A" @@ "to" :> "C" @@ "dwell_s" :> 0 @@ "entry_time_s" :> e,
                       "from" :> "C" @@ "to" :> "B" @@ "priority" :> 1, "from" :> "B" @@ "to" :> "B">>,
                     "disruptions" :>
                       ("closures" :> <<Closure(1, 60, 300)>> @@
                        "speed_restrictions" :> <<[seg |-> 0, factor |-> <<4, 1>>], [seg |-> 1, factor |-> <<3, 2>>],
                                                  [seg |-> 0, factor |-> <<5, 2>>]>>)) : e \in {0, 90, 400}}

MCScenarios ==
    Constructed \cup {RunScenario(FromDict(doc), Line) : doc \in {d \in Documents : Accepted(d)}}
      \cup {RunMeso(Line, h, c, d) : h \in {0, 120}, c \in {<<>>, <<Closure(0, 100, 200)>>}, d \in Dispatchers}
=============================================================================
