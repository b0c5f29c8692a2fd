-------------------------------- MODULE Gtfs --------------------------------
(***************************************************************************)
(* dbsim.ingest.gtfs: a feed is downloaded and its files replace the       *)
(* tables of a database one by one.  The command `ingest` does both; it    *)
(* may end at any point, by an error or because it is killed, and be run   *)
(* again with a later feed.                                                *)
(*                                                                         *)
(* A feed is a function from the tables whose files the zip holds to       *)
(* [columns, rows].  Rows are sets of records: a repeated row says nothing *)
(* new to the queries.                                                     *)
(***************************************************************************)
EXTENDS Integers, Sequences, FiniteSetsExt

CONSTANTS
    Feeds,   \* what latest.zip may hold, one after the other
    Null     \* SQL's NULL; also a value that is missing

\* The files of a zip are finite; the trip and the position along it identify
\* a row of stop_times, whose positions, and the parts of its times that are
\* given, are numbers.
FeedsAssumption ==
    /\ Null \notin Int
    /\ \A f \in Feeds :
        /\ "stop_times" \in DOMAIN f =>
             LET file == f["stop_times"]
             IN /\ IsFiniteSet(file.rows) /\ "stop_sequence" \in file.columns
                /\ \A r \in file.rows : r.seq \in Int /\ {r.arr, r.dep} \subseteq Seq(Int \cup {Null})
                /\ \A r, s \in file.rows : r.trip = s.trip /\ r.seq = s.seq => r = s
        /\ "stops" \in DOMAIN f =>
             \A r \in f["stops"].rows : DOMAIN r = {"id", "parent", "name", "pos"} /\ r.pos \in Int \cup {Null}
ASSUME FeedsAssumption

VARIABLES
    zip,       \* feed.zip: a feed or Null
    manifest,  \* the feed whose checksum source.json records, or Null
    db,        \* the database: table -> rows, a partial function
    next,      \* the position in Tables of the next table to load, or 0
    loaded     \* the feed of the last load if it was complete, or Null

ingestVars == <<zip, manifest, db, next, loaded>>

\* Mutant: a feed without a calendar leaves the table as it is.
NoneEmptyIfAbsent == {}

\* _TABLES, _REQUIRED_FILES and _EMPTY_DDL
Tables == <<"agency", "stops", "routes", "trips", "stop_times", "calendar", "calendar_dates">>
Required == {"stops", "routes", "trips", "stop_times"}
EmptyIfAbsent == {"calendar", "calendar_dates"}

\* _num and _raw: a column the file lacks is NULL, as is what is no number.
Column(file, name, value) == IF name \in file.columns THEN value ELSE Null

\* _time_seconds: a time is the tuple of its parts between colons, where a
\* part that is no number is Null.  The hour may be 24 or more.
Seconds(parts) ==
    IF Len(parts) < 3 \/ \E i \in 1..3 : parts[i] = Null THEN Null
    ELSE parts[1] * 3600 + parts[2] * 60 + parts[3]

\* _build_select: what of a file becomes a table.
Select(table, file) ==
    CASE table = "stop_times" ->
           {[trip |-> r.trip, stop |-> r.stop, seq |-> Column(file, "stop_sequence", r.seq),
             arr |-> Column(file, "arrival_time", Seconds(r.arr)),
             dep |-> Column(file, "departure_time", Seconds(r.dep))] : r \in file.rows}
      [] table = "stops" ->
           {[r EXCEPT !.parent = Column(file, "parent_station", r.parent)] : r \in file.rows}
      [] OTHER -> file.rows

IngestInit ==
    /\ zip = Null /\ manifest = Null /\ loaded = Null
    /\ db = <<>>
    /\ next = 0

\* download_feed: the zip is in place before the manifest that describes it.
Download ==
    /\ next = 0
    /\ \E f \in Feeds : zip' = f
    /\ UNCHANGED <<manifest, db, next, loaded>>

WriteManifest ==
    /\ next = 0 /\ zip # Null
    /\ manifest' = zip
    /\ UNCHANGED <<zip, db, next, loaded>>

\* load_feed refuses a feed that lacks a required file before it opens the
\* database.
BeginLoad ==
    /\ next = 0 /\ zip # Null /\ manifest = zip
    /\ Required \subseteq DOMAIN zip
    /\ next' = 1
    /\ loaded' = Null
    /\ UNCHANGED <<zip, manifest, db>>

With(table, rows) == [t \in DOMAIN db \cup {table} |-> IF t = table THEN rows ELSE db[t]]

\* One turn of _load_extracted's loop: CREATE OR REPLACE TABLE.
LoadTable ==
    /\ next \in DOMAIN Tables
    /\ LET table == Tables[next]
       IN db' = IF table \in DOMAIN zip THEN With(table, Select(table, zip[table]))
                ELSE IF table \in EmptyIfAbsent THEN With(table, {})
                ELSE db
    /\ next' = IF next = Len(Tables) THEN 0 ELSE next + 1
    /\ loaded' = IF next = Len(Tables) THEN zip ELSE Null
    /\ UNCHANGED <<zip, manifest>>

\* The command ends before its time; each statement was committed by itself.
CutShort ==
    /\ next # 0
    /\ next' = 0
    /\ UNCHANGED <<zip, manifest, db, loaded>>

Ingest == Download \/ WriteManifest \/ BeginLoad \/ LoadTable \/ CutShort

=============================================================================
