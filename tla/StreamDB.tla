------------------------------ MODULE StreamDB ------------------------------
(***************************************************************************)
(* The stream database as one thread at a time uses it: StreamDB and its   *)
(* wrapper StreamStorageStreamDB, with the operations of the server that   *)
(* change stored data.  Each action is a whole handler, every map it       *)
(* touches included.                                                       *)
(*                                                                         *)
(* The maps live in one MapDB database file.  Changes are in memory until  *)
(* commit; a process that dies comes back with the last committed state.   *)
(***************************************************************************)
EXTENDS Chunks

CONSTANTS
  Station,
  Sensor,
  MaxBatch      \* bound: entries of one sensor in one request

ASSUME BatchAssumption == MaxBatch \in Nat

VARIABLES
  stationMetaMap,   \* stations with an entry in stationMap
  sensorMap,        \* per station: sensors with an entry in its sensor map
  maskMap,          \* per station: sensors with a (suspect) mask
  chunkMetaMap,     \* per stream: first timestamp -> ChunkMeta
  chunkMap,         \* per stream: first timestamp -> Chunk
  committed         \* all of the above at the last db.commit

maps == <<stationMetaMap, sensorMap, maskMap, chunkMetaMap, chunkMap>>
vars == <<stationMetaMap, sensorMap, maskMap, chunkMetaMap, chunkMap, committed>>

Stream == Station \X Sensor

Snapshot ==
  [stationMetaMap |-> stationMetaMap,
   sensorMap      |-> sensorMap,
   maskMap        |-> maskMap,
   chunkMetaMap   |-> chunkMetaMap,
   chunkMap       |-> chunkMap]

NoMap == [k \in {} |-> 0]

Init ==
  /\ stationMetaMap = {}
  /\ sensorMap = [st \in Station |-> {}]
  /\ maskMap = [st \in Station |-> {}]
  /\ chunkMetaMap = [p \in Stream |-> NoMap]
  /\ chunkMap = [p \in Stream |-> NoMap]
  /\ committed = Snapshot

-----------------------------------------------------------------------------
(* Requests.  A request names sensors in an order and has entries for each *)
(* (rows without a finite value for a sensor are filtered out before).     *)
(* Timestamps may be unordered or lie before the epoch: nothing in front   *)
(* of insertSensorData rejects them.                                       *)

Entry == [timestamp : -1..MaxTime, value : Value]
Batch == UNION {[1..n -> Entry] : n \in 0..MaxBatch}

\* Sensors are handled in the order of the request until one throws.
Handled(names, data) ==
  {names[i] : i \in {i \in DOMAIN names :
                       \A j \in 1..(i - 1) : Unordered(data[names[j]]) = {}}}

Throws(names, data) == \E i \in DOMAIN names : Unordered(data[names[i]]) # {}

\* insertSensorData for every handled sensor that has entries.  It creates
\* station and sensor first and looks at the entries afterwards.
InsertSensors(st, names, data) ==
  LET touched == {se \in Handled(names, data) : data[se] # <<>>}
      given(p) == IF p[1] = st /\ p[2] \in touched THEN Accepted(data[p[2]])
                                                   ELSE NoEntries
  IN  /\ stationMetaMap' = stationMetaMap \cup {s \in {st} : touched # {}}
      /\ sensorMap' = [sensorMap EXCEPT ![st] = @ \cup touched]
      /\ chunkMetaMap' =
           [p \in Stream |->
              ReplaceMetas(chunkMetaMap[p],
                           InsertedKeys(chunkMetaMap[p], given(p)),
                           InsertedChunks(chunkMetaMap[p], chunkMap[p], given(p)))]
      /\ chunkMap' =
           [p \in Stream |->
              ReplaceChunks(chunkMap[p],
                            InsertedKeys(chunkMetaMap[p], given(p)),
                            InsertedChunks(chunkMetaMap[p], chunkMap[p], given(p)))]
      /\ UNCHANGED maskMap

\* ServerTsDB.insertDataRows and insertOneValue: insert, then commit; an
\* exception leaves the method before the commit.
InsertDataRows(st, names, data) ==
  /\ InsertSensors(st, names, data)
  /\ committed' = IF Throws(names, data) THEN committed ELSE Snapshot'

\* insertTimestampSeries, as the importers use it: no commit.
InsertTimestampSeries(st, names, data) ==
  /\ InsertSensors(st, names, data)
  /\ UNCHANGED committed

\* removeInterval: removeSensorData for every sensor of the station.
RemoveInterval(st, start, end) ==
  LET Hit(p) == p[1] = st /\ st \in stationMetaMap /\ p[2] \in sensorMap[st]
  IN  /\ chunkMetaMap' =
           [p \in Stream |->
              IF Hit(p)
                THEN ReplaceMetas(chunkMetaMap[p],
                                  RemovedKeys(chunkMetaMap[p], start, end),
                                  RemainingChunks(chunkMetaMap[p], chunkMap[p], start, end))
                ELSE chunkMetaMap[p]]
      /\ chunkMap' =
           [p \in Stream |->
              IF Hit(p)
                THEN ReplaceChunks(chunkMap[p],
                                   RemovedKeys(chunkMetaMap[p], start, end),
                                   RemainingChunks(chunkMetaMap[p], chunkMap[p], start, end))
                ELSE chunkMap[p]]
      /\ UNCHANGED <<stationMetaMap, sensorMap, maskMap, committed>>

\* setTimeSeriesMask and setTimeSeriesSuspectMask create the station.
SetTimeSeriesMask(st, se, commit) ==
  /\ stationMetaMap' = stationMetaMap \cup {st}
  /\ maskMap' = [maskMap EXCEPT ![st] = @ \cup {se}]
  /\ UNCHANGED <<sensorMap, chunkMetaMap, chunkMap>>
  /\ committed' = IF commit THEN Snapshot' ELSE committed

ClearMaskOfStation(st) ==
  /\ st \in stationMetaMap
  /\ maskMap' = [maskMap EXCEPT ![st] = {}]
  /\ UNCHANGED <<stationMetaMap, sensorMap, chunkMetaMap, chunkMap, committed>>

\* Mutant: clear deletes the data but forgets the masks.
ClearKeepsMasks ==
  /\ stationMetaMap' = {}
  /\ sensorMap' = [st \in Station |->
                     IF st \in stationMetaMap THEN {} ELSE sensorMap[st]]
  /\ UNCHANGED maskMap
  /\ LET Deleted(p) == p[1] \in stationMetaMap /\ p[2] \in sensorMap[p[1]]
     IN  /\ chunkMetaMap' =
              [p \in Stream |-> IF Deleted(p) THEN NoMap ELSE chunkMetaMap[p]]
         /\ chunkMap' =
              [p \in Stream |-> IF Deleted(p) THEN NoMap ELSE chunkMap[p]]
  /\ committed' = Snapshot'

\* clear walks the stations and their sensors, deletes the maps it finds
\* there, empties stationMap and commits.
Clear ==
  /\ stationMetaMap' = {}
  /\ sensorMap' = [st \in Station |->
                     IF st \in stationMetaMap THEN {} ELSE sensorMap[st]]
  /\ maskMap' = [st \in Station |->
                   IF st \in stationMetaMap THEN {} ELSE maskMap[st]]
  /\ LET Deleted(p) == p[1] \in stationMetaMap /\ p[2] \in sensorMap[p[1]]
     IN  /\ chunkMetaMap' =
              [p \in Stream |-> IF Deleted(p) THEN NoMap ELSE chunkMetaMap[p]]
         /\ chunkMap' =
              [p \in Stream |-> IF Deleted(p) THEN NoMap ELSE chunkMap[p]]
  /\ committed' = Snapshot'

\* commit, and close followed by a start.
Commit ==
  /\ committed' = Snapshot
  /\ UNCHANGED maps

\* The process dies and starts again on the database file.
Crash ==
  /\ stationMetaMap' = committed.stationMetaMap
  /\ sensorMap' = committed.sensorMap
  /\ maskMap' = committed.maskMap
  /\ chunkMetaMap' = committed.chunkMetaMap
  /\ chunkMap' = committed.chunkMap
  /\ UNCHANGED committed

SensorNames == {names \in UNION {[1..n -> Sensor] : n \in 1..Cardinality(Sensor)} :
                  \A i, j \in DOMAIN names : names[i] = names[j] => i = j}

Next ==
  \/ \E st \in Station, names \in SensorNames, data \in [Sensor -> Batch] :
       \/ InsertDataRows(st, names, data)
       \/ InsertTimestampSeries(st, names, data)
  \/ \E st \in Station, start, end \in Time : RemoveInterval(st, start, end)
  \/ \E st \in Station, se \in Sensor, commit \in BOOLEAN :
       SetTimeSeriesMask(st, se, commit)
  \/ \E st \in Station : ClearMaskOfStation(st)
  \/ Clear
  \/ Commit
  \/ Crash

Spec == Init /\ [][Next]_vars

-----------------------------------------------------------------------------
(* Properties                                                              *)

IsDb(db) ==
  /\ db.stationMetaMap \subseteq Station
  /\ db.sensorMap \in [Station -> SUBSET Sensor]
  /\ db.maskMap \in [Station -> SUBSET Sensor]
  /\ DOMAIN db.chunkMetaMap = Stream
  /\ DOMAIN db.chunkMap = Stream
  /\ \A p \in Stream :
       /\ DOMAIN db.chunkMetaMap[p] \subseteq Time
       /\ \A k \in DOMAIN db.chunkMetaMap[p] : db.chunkMetaMap[p][k] \in ChunkMetaType
       /\ DOMAIN db.chunkMap[p] \subseteq Time
       /\ \A k \in DOMAIN db.chunkMap[p] : IsChunk(db.chunkMap[p][k])

\* The maps have the types of their MapDB serializers, in memory and on disk;
\* no chunk is ever empty (Chunk.of would throw).
TypeOK == IsDb(Snapshot) /\ IsDb(committed)

\* Insertions that split, merge and replace chunks and removals that cut them
\* keep metadata and chunks of every stream in step, in memory and on disk.
ChunkIndexExact ==
  \A db \in {Snapshot, committed} : \A p \in Stream :
    MetaExact(db.chunkMetaMap[p], db.chunkMap[p])

\* getChunkMeta finds "the" chunk of a year: there is never a second one that
\* a merge would miss, whatever sequence of inserts and removals came before.
YearsDoNotOverlap ==
  \A db \in {Snapshot, committed} : \A p \in Stream : OneChunkPerYear(db.chunkMap[p])

\* Data is reachable from the station map, so that clear finds every map it
\* has to delete and queries by name find every stream.
DataIsRegistered ==
  \A db \in {Snapshot, committed} :
    /\ \A p \in Stream : DOMAIN db.chunkMap[p] # {} => p[2] \in db.sensorMap[p[1]]
    /\ \A st \in Station :
         db.sensorMap[st] \cup db.maskMap[st] # {} => st \in db.stationMetaMap

\* A StreamIterator over any window delivers exactly the stored entries of
\* the window: it opens no chunk too few and clips each one correctly.
QueryExact ==
  \A p \in Stream, min, max \in Window :
    LET f == Series(chunkMap[p])
    IN  StreamIterator(chunkMetaMap[p], chunkMap[p], min, max)
          = {<<t, f[t]>> : t \in {t \in DOMAIN f : min <= t /\ t <= max}}

\* The time intervals that are computed from metadata are those of the entries, null
\* exactly if there are none: getSensorTimeInterval with a window, which opens chunks
\* at the ends of the window only, and getStationTimeInterval, which opens none.
TimeIntervalExact ==
  /\ \A p \in Stream, min, max \in Time :
       min <= max =>
         getSensorTimeIntervalIn(chunkMetaMap[p], chunkMap[p], min, max)
           = IntervalOf({t \in SeriesTimes(chunkMap[p]) : min <= t /\ t <= max})
  /\ \A st \in Station :
       getStationTimeInterval(UNION {getSensorTimeInterval(chunkMetaMap[<<st, se>>]) : se \in sensorMap[st]})
         = IntervalOf(UNION {SeriesTimes(chunkMap[<<st, se>>]) : se \in Sensor})

\* Removing an interval takes exactly its entries, wherever its ends lie in
\* chunks, between them or outside the data, and whichever way round they are.
RemoveExact ==
  \A p \in Stream, start, end \in Time :
    LET before == Series(chunkMap[p])
        after  == Series(ReplaceChunks(chunkMap[p], RemovedKeys(chunkMetaMap[p], start, end),
                           RemainingChunks(chunkMetaMap[p], chunkMap[p], start, end)))
    IN  after = Restrict(before, {t \in DOMAIN before : t < start \/ end < t})

\* Chunked storage implements the plain series store, with crash recovery.
Abstract ==
  INSTANCE SeriesStore WITH
    series  <- [p \in Stream |-> Series(chunkMap[p])],
    durable <- [p \in Stream |-> Series(committed.chunkMap[p])]

ImplementsSeriesStore == Abstract!Spec
=============================================================================
