--------------------------- MODULE StreamDBProofs ---------------------------
(***************************************************************************)
(* Safety of StreamDB for any number of stations, sensors and values, any  *)
(* length of the time line, any calendar and any size of a request.        *)
(***************************************************************************)
EXTENDS StreamDB, ChunksProofs

(***************************************************************************)
(* The inductive invariant.  The maps of each stream are consistent (one   *)
(* chunk per year, exact metadata), streams with data are registered, and  *)
(* the same is true of the committed state, which a restart loads.         *)
(***************************************************************************)
DbOK(db) ==
  /\ db.stationMetaMap \subseteq Station
  /\ db.sensorMap \in [Station -> SUBSET Sensor]
  /\ db.maskMap \in [Station -> SUBSET Sensor]
  /\ DOMAIN db.chunkMetaMap = Stream
  /\ DOMAIN db.chunkMap = Stream
  /\ \A p \in Stream : Consistent(db.chunkMetaMap[p], db.chunkMap[p])
  /\ \A p \in Stream : DOMAIN db.chunkMap[p] # {} => p[2] \in db.sensorMap[p[1]]
  /\ \A st \in Station :
       db.sensorMap[st] \cup db.maskMap[st] # {} => st \in db.stationMetaMap

IInv == DbOK(Snapshot) /\ DbOK(committed)

\* The invariant of the maps in memory, read off the variables.
LEMMA MapsOfSnapshot ==
  DbOK(Snapshot) <=>
    /\ stationMetaMap \subseteq Station
    /\ sensorMap \in [Station -> SUBSET Sensor]
    /\ maskMap \in [Station -> SUBSET Sensor]
    /\ DOMAIN chunkMetaMap = Stream
    /\ DOMAIN chunkMap = Stream
    /\ \A p \in Stream : Consistent(chunkMetaMap[p], chunkMap[p])
    /\ \A p \in Stream : DOMAIN chunkMap[p] # {} => p[2] \in sensorMap[p[1]]
    /\ \A st \in Station :
         sensorMap[st] \cup maskMap[st] # {} => st \in stationMetaMap
BY DEF DbOK, Snapshot

\* A stream without chunks is consistent.
LEMMA NoMapConsistent == Consistent(NoMap, NoMap)
BY DEF Consistent, MetaExact, OneChunkPerYear, NoMap

\* An empty batch of entries is one that insertSensorData accepts.
LEMMA NoEntriesType == IsEntries(NoEntries)
<1>1. DOMAIN NoEntries = {}
  BY DEF NoEntries
<1>2. NoEntries \in [{} -> Value]
  BY DEF NoEntries
<1>. QED
  BY <1>1, <1>2 DEF IsEntries

\* The maps an insertion writes, stream by stream.
LEMMA InsertedStream ==
  ASSUME NEW metas, NEW chunks, Consistent(metas, chunks), NEW e, IsEntries(e)
  PROVE  LET old == InsertedKeys(metas, e)
             new == InsertedChunks(metas, chunks, e)
         IN  /\ Consistent(ReplaceMetas(metas, old, new), ReplaceChunks(chunks, old, new))
             /\ DOMAIN e = {} => DOMAIN ReplaceChunks(chunks, old, new) = DOMAIN chunks
<1>1. Fits(chunks, InsertedKeys(metas, e), InsertedChunks(metas, chunks, e))
  BY InsertFits
<1>2. Consistent(ReplaceMetas(metas, InsertedKeys(metas, e), InsertedChunks(metas, chunks, e)),
                 ReplaceChunks(chunks, InsertedKeys(metas, e), InsertedChunks(metas, chunks, e)))
  BY <1>1, ReplaceConsistent
<1>3. ASSUME DOMAIN e = {}
      PROVE  DOMAIN ReplaceChunks(chunks, InsertedKeys(metas, e), InsertedChunks(metas, chunks, e))
               = DOMAIN chunks
  <2>1. InsertedKeys(metas, e) = {} /\ InsertedChunks(metas, chunks, e) = {}
    BY <1>3 DEF InsertedKeys, InsertedChunks
  <2>. QED
    BY <2>1 DEF ReplaceChunks
<1>. QED
  BY <1>2, <1>3

\* The entries of a request that reach each stream of its station.
Given(st, names, data) ==
  [p \in Stream |->
     IF p[1] = st /\ p[2] \in {se \in Handled(names, data) : data[se] # <<>>}
       THEN Accepted(data[p[2]])
       ELSE NoEntries]

\* Only sensors of the request are touched, and what reaches them is a series.
LEMMA RequestType ==
  ASSUME NEW st \in Station, NEW names \in SensorNames, NEW data \in [Sensor -> Batch]
  PROVE  /\ Handled(names, data) \subseteq Sensor
         /\ \A p \in Stream : IsEntries(Given(st, names, data)[p])
<1>1. Handled(names, data) \subseteq Sensor
  <2>1. PICK n \in 1..Cardinality(Sensor) : names \in [1..n -> Sensor]
    BY DEF SensorNames
  <2>. QED
    BY <2>1 DEF Handled
<1>2. ASSUME NEW se \in Sensor PROVE IsEntries(Accepted(data[se]))
  <2>1. PICK n \in 0..MaxBatch : data[se] \in [1..n -> Entry]
    BY DEF Batch
  <2>2. n \in Nat
    BY <2>1, BatchAssumption
  <2>. QED
    BY <2>1, <2>2, AcceptedType DEF Entry
<1>3. ASSUME NEW p \in Stream PROVE IsEntries(Given(st, names, data)[p])
  BY <1>1, <1>2, NoEntriesType DEF Given, Stream
<1>. QED
  BY <1>1, <1>3

\* InsertSensors keeps the invariant of the maps in memory.
LEMMA InsertSensorsOK ==
  ASSUME IInv, NEW st \in Station, NEW names \in SensorNames, NEW data \in [Sensor -> Batch],
         InsertSensors(st, names, data)
  PROVE  DbOK(Snapshot)'
<1>. DEFINE touched == {se \in Handled(names, data) : data[se] # <<>>}
            g == Given(st, names, data)
            old(p) == InsertedKeys(chunkMetaMap[p], g[p])
            new(p) == InsertedChunks(chunkMetaMap[p], chunkMap[p], g[p])
<1>1. /\ stationMetaMap' = stationMetaMap \cup {s \in {st} : touched # {}}
      /\ sensorMap' = [sensorMap EXCEPT ![st] = @ \cup touched]
      /\ maskMap' = maskMap
      /\ chunkMetaMap' = [p \in Stream |-> ReplaceMetas(chunkMetaMap[p], old(p), new(p))]
      /\ chunkMap' = [p \in Stream |-> ReplaceChunks(chunkMap[p], old(p), new(p))]
  BY DEF InsertSensors, Given
<1>2. touched \subseteq Sensor /\ \A p \in Stream : IsEntries(g[p])
  BY RequestType
<1>3. \A p \in Stream : DOMAIN g[p] # {} => p[1] = st /\ p[2] \in touched
  BY DEF Given, NoEntries
<1>4. /\ stationMetaMap \subseteq Station
      /\ sensorMap \in [Station -> SUBSET Sensor]
      /\ maskMap \in [Station -> SUBSET Sensor]
      /\ \A p \in Stream : Consistent(chunkMetaMap[p], chunkMap[p])
      /\ \A p \in Stream : DOMAIN chunkMap[p] # {} => p[2] \in sensorMap[p[1]]
      /\ \A s \in Station : sensorMap[s] \cup maskMap[s] # {} => s \in stationMetaMap
  BY MapsOfSnapshot DEF IInv
<1>5. ASSUME NEW p \in Stream
      PROVE  /\ Consistent(chunkMetaMap'[p], chunkMap'[p])
             /\ DOMAIN g[p] = {} => DOMAIN chunkMap'[p] = DOMAIN chunkMap[p]
  <2>. HIDE DEF g
  <2>1. Consistent(chunkMetaMap[p], chunkMap[p]) /\ IsEntries(g[p])
    BY <1>2, <1>4
  <2>2. /\ Consistent(ReplaceMetas(chunkMetaMap[p], old(p), new(p)),
                      ReplaceChunks(chunkMap[p], old(p), new(p)))
        /\ DOMAIN g[p] = {} =>
             DOMAIN ReplaceChunks(chunkMap[p], old(p), new(p)) = DOMAIN chunkMap[p]
    BY ZenonT(40), <2>1, InsertedStream
  <2>. HIDE DEF old, new
  <2>. QED
    BY <1>1, <2>2
<1>. HIDE DEF touched, g, old, new
<1>6. /\ stationMetaMap' \subseteq Station
      /\ sensorMap' \in [Station -> SUBSET Sensor]
      /\ maskMap' \in [Station -> SUBSET Sensor]
      /\ DOMAIN chunkMetaMap' = Stream
      /\ DOMAIN chunkMap' = Stream
  BY <1>1, <1>2, <1>4
<1>7. \A p \in Stream : DOMAIN chunkMap'[p] # {} => p[2] \in sensorMap'[p[1]]
  BY <1>1, <1>3, <1>4, <1>5 DEF Stream
<1>8. \A s \in Station : sensorMap'[s] \cup maskMap'[s] # {} => s \in stationMetaMap'
  BY <1>1, <1>4
<1>. QED
  BY <1>5, <1>6, <1>7, <1>8 DEF DbOK, Snapshot

\* RemoveInterval keeps the invariant of the maps in memory.
LEMMA RemoveIntervalOK ==
  ASSUME IInv, NEW st \in Station, NEW start \in Time, NEW end \in Time,
         RemoveInterval(st, start, end)
  PROVE  DbOK(Snapshot)'
<1>. DEFINE hit(p) == p[1] = st /\ st \in stationMetaMap /\ p[2] \in sensorMap[st]
            old(p) == RemovedKeys(chunkMetaMap[p], start, end)
            new(p) == RemainingChunks(chunkMetaMap[p], chunkMap[p], start, end)
<1>1. /\ chunkMetaMap' = [p \in Stream |->
           IF hit(p) THEN ReplaceMetas(chunkMetaMap[p], old(p), new(p)) ELSE chunkMetaMap[p]]
      /\ chunkMap' = [p \in Stream |->
           IF hit(p) THEN ReplaceChunks(chunkMap[p], old(p), new(p)) ELSE chunkMap[p]]
      /\ UNCHANGED <<stationMetaMap, sensorMap, maskMap>>
  BY DEF RemoveInterval
<1>2. /\ stationMetaMap \subseteq Station
      /\ sensorMap \in [Station -> SUBSET Sensor]
      /\ maskMap \in [Station -> SUBSET Sensor]
      /\ \A p \in Stream : Consistent(chunkMetaMap[p], chunkMap[p])
      /\ \A p \in Stream : DOMAIN chunkMap[p] # {} => p[2] \in sensorMap[p[1]]
      /\ \A s \in Station : sensorMap[s] \cup maskMap[s] # {} => s \in stationMetaMap
  BY MapsOfSnapshot DEF IInv
<1>3. ASSUME NEW p \in Stream
      PROVE  Consistent(ReplaceMetas(chunkMetaMap[p], old(p), new(p)),
                        ReplaceChunks(chunkMap[p], old(p), new(p)))
  <2>1. Fits(chunkMap[p], old(p), new(p))
    BY <1>2, RemoveFits
  <2>. QED
    BY <1>2, <2>1, ReplaceConsistent
<1>. HIDE DEF hit, old, new
<1>4. \A p \in Stream : Consistent(chunkMetaMap'[p], chunkMap'[p])
  BY <1>1, <1>2, <1>3
<1>5. \A p \in Stream : DOMAIN chunkMap'[p] # {} => p[2] \in sensorMap'[p[1]]
  BY <1>1, <1>2 DEF hit
<1>. QED
  BY <1>1, <1>2, <1>4, <1>5 DEF DbOK, Snapshot

\* Clear leaves nothing behind, because all data is registered.
LEMMA ClearEmpties ==
  ASSUME IInv, Clear
  PROVE  /\ stationMetaMap' = {}
         /\ sensorMap' = [st \in Station |-> {}]
         /\ maskMap' = [st \in Station |-> {}]
         /\ DOMAIN chunkMetaMap' = Stream
         /\ DOMAIN chunkMap' = Stream
         /\ \A p \in Stream : DOMAIN chunkMetaMap'[p] = {} /\ DOMAIN chunkMap'[p] = {}
         /\ committed' = Snapshot'
<1>1. /\ sensorMap \in [Station -> SUBSET Sensor]
      /\ maskMap \in [Station -> SUBSET Sensor]
      /\ \A p \in Stream : Consistent(chunkMetaMap[p], chunkMap[p])
      /\ \A p \in Stream : DOMAIN chunkMap[p] # {} => p[2] \in sensorMap[p[1]]
      /\ \A s \in Station : sensorMap[s] \cup maskMap[s] # {} => s \in stationMetaMap
  BY MapsOfSnapshot DEF IInv
<1>2. sensorMap' = [st \in Station |-> {}] /\ maskMap' = [st \in Station |-> {}]
  BY <1>1 DEF Clear
<1>3. ASSUME NEW p \in Stream, ~(p[1] \in stationMetaMap /\ p[2] \in sensorMap[p[1]])
      PROVE  DOMAIN chunkMap[p] = {} /\ DOMAIN chunkMetaMap[p] = {}
  BY <1>1, <1>3 DEF Stream, Consistent, MetaExact
<1>4. DOMAIN NoMap = {}
  BY DEF NoMap
<1>5. \A p \in Stream : DOMAIN chunkMetaMap'[p] = {} /\ DOMAIN chunkMap'[p] = {}
  BY <1>3, <1>4 DEF Clear
<1>. QED
  BY <1>2, <1>5 DEF Clear

\* A state of the maps that the invariant allows and that becomes the
\* committed one, or a committed one that stays, is allowed on disk.
LEMMA CommittedOK ==
  ASSUME IInv, DbOK(Snapshot)', committed' = committed \/ committed' = Snapshot'
  PROVE  IInv'
BY DEF IInv, DbOK

\* Every run begins with empty maps, in memory and on disk.
LEMMA InitOK == Init => IInv
<1>. SUFFICES ASSUME Init PROVE IInv
  OBVIOUS
<1>1. DOMAIN NoMap = {}
  BY DEF NoMap
<1>2. DbOK(Snapshot)
  BY <1>1, NoMapConsistent, MapsOfSnapshot DEF Init
<1>. QED
  BY <1>2 DEF Init, IInv

\* Every operation, every crash and every commit keeps the invariant.
LEMMA NextOK == IInv /\ [Next]_vars => IInv'
<1>. SUFFICES ASSUME IInv, [Next]_vars PROVE IInv'
  OBVIOUS
<1>1. ASSUME NEW st \in Station, NEW names \in SensorNames, NEW data \in [Sensor -> Batch],
             InsertDataRows(st, names, data) \/ InsertTimestampSeries(st, names, data)
      PROVE  IInv'
  <2>1. InsertSensors(st, names, data)
    BY <1>1 DEF InsertDataRows, InsertTimestampSeries
  <2>2. committed' = committed \/ committed' = Snapshot'
    BY <1>1 DEF InsertDataRows, InsertTimestampSeries
  <2>. QED
    BY <2>1, <2>2, InsertSensorsOK, CommittedOK
<1>2. ASSUME NEW st \in Station, NEW start \in Time, NEW end \in Time,
             RemoveInterval(st, start, end)
      PROVE  IInv'
  <2>1. committed' = committed
    BY <1>2 DEF RemoveInterval
  <2>. QED
    BY <1>2, <2>1, RemoveIntervalOK, CommittedOK
<1>3. ASSUME NEW st \in Station, NEW se \in Sensor, NEW commit \in BOOLEAN,
             SetTimeSeriesMask(st, se, commit)
      PROVE  IInv'
  <2>1. DbOK(Snapshot)'
    BY <1>3, MapsOfSnapshot DEF IInv, SetTimeSeriesMask, DbOK, Snapshot
  <2>2. committed' = committed \/ committed' = Snapshot'
    BY <1>3 DEF SetTimeSeriesMask
  <2>. QED
    BY <2>1, <2>2, CommittedOK
<1>4. ASSUME NEW st \in Station, ClearMaskOfStation(st)
      PROVE  IInv'
  <2>1. DbOK(Snapshot)'
    BY <1>4, MapsOfSnapshot DEF IInv, ClearMaskOfStation, DbOK, Snapshot
  <2>2. committed' = committed
    BY <1>4 DEF ClearMaskOfStation
  <2>. QED
    BY <2>1, <2>2, CommittedOK
<1>5. CASE Clear
  <2>1. /\ DOMAIN chunkMetaMap' = Stream
        /\ DOMAIN chunkMap' = Stream
        /\ stationMetaMap' = {}
        /\ sensorMap' = [st \in Station |-> {}]
        /\ maskMap' = [st \in Station |-> {}]
        /\ \A p \in Stream : DOMAIN chunkMetaMap'[p] = {} /\ DOMAIN chunkMap'[p] = {}
        /\ committed' = Snapshot'
    BY <1>5, ClearEmpties
  <2>2. \A p \in Stream : Consistent(chunkMetaMap'[p], chunkMap'[p])
    BY <2>1 DEF Consistent, MetaExact, OneChunkPerYear
  <2>3. DbOK(Snapshot)'
    BY <2>1, <2>2 DEF DbOK, Snapshot
  <2>. QED
    BY <2>1, <2>3, CommittedOK
<1>6. CASE Commit
  <2>1. DbOK(Snapshot)'
    BY <1>6 DEF IInv, Commit, maps, DbOK, Snapshot
  <2>2. committed' = Snapshot'
    BY <1>6 DEF Commit, maps, Snapshot
  <2>. QED
    BY <2>1, <2>2, CommittedOK
<1>7. CASE Crash
  <2>1. DbOK(Snapshot)'
    BY <1>7 DEF IInv, Crash, DbOK, Snapshot
  <2>2. committed' = committed
    BY <1>7 DEF Crash
  <2>. QED
    BY <2>1, <2>2, CommittedOK
<1>8. CASE UNCHANGED vars
  BY <1>8 DEF vars, IInv, DbOK, Snapshot
<1>. QED
  BY <1>1, <1>2, <1>3, <1>4, <1>5, <1>6, <1>7, <1>8 DEF Next

\* The invariant holds in every reachable state.
THEOREM Inductive == Spec => []IInv
BY InitOK, NextOK, PTL DEF Spec

-----------------------------------------------------------------------------
(* The properties of StreamDB that follow from it.                         *)

\* The maps of a consistent stream have the types of their serializers.
LEMMA ConsistentType ==
  ASSUME NEW metas, NEW chunks, Consistent(metas, chunks)
  PROVE  /\ DOMAIN metas \subseteq Time
         /\ \A k \in DOMAIN metas : metas[k] \in ChunkMetaType
         /\ DOMAIN chunks \subseteq Time
         /\ \A k \in DOMAIN chunks : IsChunk(chunks[k])
<1>1. \A k \in DOMAIN chunks : IsChunk(chunks[k]) /\ metas[k] = MetaOf(chunks[k])
  BY KeysAreTimes DEF Consistent
<1>2. DOMAIN metas = DOMAIN chunks /\ DOMAIN chunks \subseteq Time
  BY KeysAreTimes
<1>. QED
  BY <1>1, <1>2, MetaOfType

\* The maps have their types and no chunk is empty, in memory and on disk.
THEOREM TypeCorrect == Spec => []TypeOK
<1>1. \A db : DbOK(db) => IsDb(db)
  BY ConsistentType DEF DbOK, IsDb
<1>2. IInv => TypeOK
  BY <1>1 DEF IInv, TypeOK
<1>. QED
  BY <1>2, Inductive, PTL

\* Metadata and chunks of every stream agree, in memory and on disk.
THEOREM IndexCorrect == Spec => []ChunkIndexExact
<1>1. IInv => ChunkIndexExact
  BY DEF IInv, DbOK, ChunkIndexExact, Consistent
<1>. QED
  BY <1>1, Inductive, PTL

\* There is one chunk per year of every stream, in memory and on disk.
THEOREM YearsCorrect == Spec => []YearsDoNotOverlap
<1>1. IInv => YearsDoNotOverlap
  BY DEF IInv, DbOK, YearsDoNotOverlap, Consistent
<1>. QED
  BY <1>1, Inductive, PTL

\* All data is reachable from the station map, in memory and on disk.
THEOREM RegistrationCorrect == Spec => []DataIsRegistered
<1>1. IInv => DataIsRegistered
  BY DEF IInv, DbOK, DataIsRegistered
<1>. QED
  BY <1>1, Inductive, PTL

\* In every reachable state removing any interval takes exactly its entries.
THEOREM RemovalCorrect == Spec => []RemoveExact
<1>1. ASSUME IInv, NEW p \in Stream, NEW start \in Time, NEW end \in Time
      PROVE  Series(ReplaceChunks(chunkMap[p], RemovedKeys(chunkMetaMap[p], start, end),
                      RemainingChunks(chunkMetaMap[p], chunkMap[p], start, end)))
               = Outside(Series(chunkMap[p]), start, end)
  <2>1. Consistent(chunkMetaMap[p], chunkMap[p])
    BY <1>1, MapsOfSnapshot DEF IInv
  <2>. QED
    BY <2>1, RemoveSeries
<1>2. IInv => RemoveExact
  BY <1>1 DEF RemoveExact, Restrict, Outside
<1>. QED
  BY <1>2, Inductive, PTL

\* A query of any stream over any window delivers exactly the stored entries of the
\* window, after every history of insertions, removals, commits and crashes.
THEOREM QueryCorrect == Spec => []QueryExact
<1>1. IInv => QueryExact
  <2>1. IInv => \A p \in Stream : Consistent(chunkMetaMap[p], chunkMap[p])
    BY MapsOfSnapshot DEF IInv
  <2>. QED
    BY <2>1, StreamIteratorExact DEF QueryExact
<1>. QED
  BY <1>1, Inductive, PTL

\* The intervals of sensors in a window, and of stations, are those of the stored entries,
\* after every history of insertions, removals, commits and crashes.
THEOREM IntervalCorrect == Spec => []TimeIntervalExact
<1>1. IInv => TimeIntervalExact
  <2>. SUFFICES ASSUME IInv PROVE TimeIntervalExact
    OBVIOUS
  <2>1. /\ sensorMap \in [Station -> SUBSET Sensor]
        /\ \A p \in Stream : Consistent(chunkMetaMap[p], chunkMap[p])
        /\ \A p \in Stream : DOMAIN chunkMap[p] # {} => p[2] \in sensorMap[p[1]]
    BY MapsOfSnapshot DEF IInv
  <2>2. ASSUME NEW p \in Stream, NEW min \in Time, NEW max \in Time
        PROVE  getSensorTimeIntervalIn(chunkMetaMap[p], chunkMap[p], min, max)
                 = IntervalOf({t \in SeriesTimes(chunkMap[p]) : min <= t /\ t <= max})
    BY <2>1, IntervalInExact DEF InWindow
  <2>3. ASSUME NEW st \in Station
        PROVE  getStationTimeInterval(
                 UNION {getSensorTimeInterval(chunkMetaMap[<<st, se>>]) : se \in sensorMap[st]})
                 = IntervalOf(UNION {SeriesTimes(chunkMap[<<st, se>>]) : se \in Sensor})
    <3>. DEFINE I == sensorMap[st]
                T == [se \in I |-> SeriesTimes(chunkMap[<<st, se>>])]
                U == UNION {SeriesTimes(chunkMap[<<st, se>>]) : se \in Sensor}
    <3>1. I \subseteq Sensor /\ \A se \in Sensor : <<st, se>> \in Stream
      BY <2>1 DEF Stream
    <3>2. \A se \in Sensor : SeriesTimes(chunkMap[<<st, se>>]) \subseteq Time
      BY <2>1, <3>1, SeriesByChunk DEF IsEntries
    <3>3. \A se \in Sensor : se \notin I => SeriesTimes(chunkMap[<<st, se>>]) = {}
      BY <2>1, <3>1 DEF SeriesTimes
    <3>4. T \in [I -> SUBSET Time]
      BY <3>1, <3>2
    <3>5. U = UNION {T[se] : se \in I}
      BY <3>1, <3>3
    <3>6. \A se \in I : getSensorTimeInterval(chunkMetaMap[<<st, se>>]) = IntervalOf(T[se])
      BY <2>1, <3>1, IntervalExact
    <3>. HIDE DEF T, U
    <3>7. getStationTimeInterval(UNION {IntervalOf(T[se]) : se \in I}) = IntervalOf(U)
      BY <3>4, <3>5, HullExact
    <3>8. {getSensorTimeInterval(chunkMetaMap[<<st, se>>]) : se \in I} = {IntervalOf(T[se]) : se \in I}
      BY <3>6
    <3>. QED
      BY <3>7, <3>8 DEF U
  <2>. QED
    BY <2>2, <2>3 DEF TimeIntervalExact
<1>. QED
  BY <1>1, Inductive, PTL

-----------------------------------------------------------------------------
(* StreamDB implements SeriesStore.                                        *)

seriesOf == [p \in Stream |-> Series(chunkMap[p])]
durableOf == [p \in Stream |-> Series(committed.chunkMap[p])]

\* Chunk maps without chunks stand for the empty series.
LEMMA EmptySeries ==
  ASSUME NEW chunks, DOMAIN chunks = {}
  PROVE  Series(chunks) = [t \in {} |-> 0]
BY DEF Series, SeriesTimes

\* A commit makes the series durable that the operation leaves.
LEMMA CommitOfSnapshot ==
  ASSUME committed' = committed \/ committed' = Snapshot'
  PROVE  durableOf' = durableOf \/ durableOf' = seriesOf'
BY DEF durableOf, seriesOf, Snapshot

\* The abstract store begins empty where StreamDB does.
LEMMA RefineInit == Init => Abstract!Init
<1>. SUFFICES ASSUME Init PROVE Abstract!Init
  OBVIOUS
<1>1. DOMAIN NoMap = {}
  BY DEF NoMap
<1>2. seriesOf = [p \in Stream |-> [t \in {} |-> 0]]
  BY <1>1, EmptySeries DEF Init, seriesOf
<1>3. durableOf = seriesOf
  BY DEF Init, Snapshot, durableOf, seriesOf
<1>. QED
  BY <1>2, <1>3 DEF Abstract!Init, Abstract!Empty, Abstract!Stream, Stream, seriesOf, durableOf

\* Inserting entries of a request is an insertion into the series of its
\* station: no other station changes and no stored timestamp disappears.
LEMMA RefineInsert ==
  ASSUME IInv, NEW st \in Station, NEW names \in SensorNames, NEW data \in [Sensor -> Batch],
         InsertSensors(st, names, data)
  PROVE  \A p \in Stream :
           /\ IsEntries(seriesOf'[p])
           /\ DOMAIN seriesOf[p] \subseteq DOMAIN seriesOf'[p]
           /\ p[1] # st => seriesOf'[p] = seriesOf[p]
<1>. DEFINE g == Given(st, names, data)
<1>1. chunkMap' = [p \in Stream |->
        ReplaceChunks(chunkMap[p], InsertedKeys(chunkMetaMap[p], g[p]),
                      InsertedChunks(chunkMetaMap[p], chunkMap[p], g[p]))]
  BY DEF InsertSensors, Given
<1>. SUFFICES ASSUME NEW p \in Stream
     PROVE  /\ IsEntries(seriesOf'[p])
            /\ DOMAIN seriesOf[p] \subseteq DOMAIN seriesOf'[p]
            /\ p[1] # st => seriesOf'[p] = seriesOf[p]
  OBVIOUS
<1>2. IsEntries(g[p])
  BY RequestType
<1>3. p[1] # st => DOMAIN g[p] = {}
  BY DEF Given, NoEntries
<1>. HIDE DEF g
<1>4. Consistent(chunkMetaMap[p], chunkMap[p])
  BY DEF IInv, DbOK, Snapshot
<1>5. Consistent(chunkMetaMap'[p], chunkMap'[p])
  BY InsertSensorsOK DEF DbOK, Snapshot
<1>6. IsEntries(Series(chunkMap'[p]))
  BY <1>5, SeriesByChunk
<1>7. Series(chunkMap'[p]) = Overwrite(Series(chunkMap[p]), g[p])
  BY <1>1, <1>2, <1>4, InsertSeries
<1>8. seriesOf'[p] = Series(chunkMap'[p]) /\ seriesOf[p] = Series(chunkMap[p])
  BY DEF seriesOf
<1>9. DOMAIN g[p] = {} => Overwrite(Series(chunkMap[p]), g[p]) = Series(chunkMap[p])
  BY DEF Overwrite, Series
<1>10. DOMAIN Series(chunkMap[p]) \subseteq DOMAIN Overwrite(Series(chunkMap[p]), g[p])
  BY DEF Overwrite
<1>. QED
  BY <1>3, <1>6, <1>7, <1>8, <1>9, <1>10

\* Removing an interval from a station removes it from all its series: no
\* stream with data is missed.
LEMMA RefineRemove ==
  ASSUME IInv, NEW st \in Station, NEW start \in Time, NEW end \in Time,
         RemoveInterval(st, start, end)
  PROVE  seriesOf' = [p \in Stream |->
           IF p[1] = st
             THEN [t \in {t \in DOMAIN seriesOf[p] : t < start \/ end < t} |-> seriesOf[p][t]]
             ELSE seriesOf[p]]
<1>. DEFINE hit(p) == p[1] = st /\ st \in stationMetaMap /\ p[2] \in sensorMap[st]
            without(f) == Outside(f, start, end)
<1>1. chunkMap' = [p \in Stream |->
        IF hit(p)
          THEN ReplaceChunks(chunkMap[p], RemovedKeys(chunkMetaMap[p], start, end),
                             RemainingChunks(chunkMetaMap[p], chunkMap[p], start, end))
          ELSE chunkMap[p]]
  BY DEF RemoveInterval
<1>2. \A p \in Stream : Consistent(chunkMetaMap[p], chunkMap[p])
  BY DEF IInv, DbOK, Snapshot
<1>3. ASSUME NEW p \in Stream, hit(p)
      PROVE  Series(chunkMap'[p]) = without(Series(chunkMap[p]))
  <2>1. Consistent(chunkMetaMap[p], chunkMap[p])
    BY <1>2
  <2>2. chunkMap'[p] = ReplaceChunks(chunkMap[p], RemovedKeys(chunkMetaMap[p], start, end),
                         RemainingChunks(chunkMetaMap[p], chunkMap[p], start, end))
    BY <1>1, <1>3
  <2>. QED
    BY <2>1, <2>2, RemoveSeries
<1>4. ASSUME NEW p \in Stream, p[1] = st, ~hit(p)
      PROVE  Series(chunkMap[p]) = without(Series(chunkMap[p]))
  <2>1. DOMAIN chunkMap[p] = {}
    BY <1>4 DEF IInv, DbOK, Snapshot, Stream
  <2>2. Series(chunkMap[p]) = [t \in {} |-> 0]
    BY <2>1, EmptySeries
  <2>. QED
    BY <2>2 DEF Outside
<1>5. \A p \in Stream : ~hit(p) => chunkMap'[p] = chunkMap[p]
  BY <1>1
<1>. HIDE DEF without
<1>6. \A p \in Stream :
        Series(chunkMap'[p]) = IF p[1] = st THEN without(Series(chunkMap[p]))
                                            ELSE Series(chunkMap[p])
  BY <1>3, <1>4, <1>5
<1>. QED
  BY <1>6 DEF seriesOf, without, Outside

\* Every step of StreamDB is a step of the abstract store or leaves it alone.
LEMMA RefineNext == IInv /\ [Next]_vars => [Abstract!Next]_(Abstract!vars)
<1>. SUFFICES ASSUME IInv, [Next]_vars
     PROVE  Abstract!Next \/ (seriesOf' = seriesOf /\ durableOf' = durableOf)
  BY DEF Abstract!vars, seriesOf, durableOf
<1>1. ASSUME NEW st \in Station, NEW names \in SensorNames, NEW data \in [Sensor -> Batch],
             InsertDataRows(st, names, data) \/ InsertTimestampSeries(st, names, data)
      PROVE  Abstract!Next
  <2>1. InsertSensors(st, names, data)
    BY <1>1 DEF InsertDataRows, InsertTimestampSeries
  <2>2. durableOf' = durableOf \/ durableOf' = seriesOf'
    BY <1>1, CommitOfSnapshot DEF InsertDataRows, InsertTimestampSeries
  <2>3. \A p \in Stream :
          /\ IsEntries(seriesOf'[p])
          /\ DOMAIN seriesOf[p] \subseteq DOMAIN seriesOf'[p]
          /\ p[1] # st => seriesOf'[p] = seriesOf[p]
    BY <2>1, RefineInsert
  <2>4. Abstract!Insert(st)
    BY <2>2, <2>3 DEF Abstract!Insert, Abstract!MayCommit, Abstract!IsSeries, Abstract!Stream,
         Abstract!Time, Stream, Time, IsEntries, seriesOf, durableOf
  <2>. QED
    BY <2>4 DEF Abstract!Next
<1>2. ASSUME NEW st \in Station, NEW start \in Time, NEW end \in Time,
             RemoveInterval(st, start, end)
      PROVE  Abstract!Next
  <2>1. durableOf' = durableOf
    BY <1>2 DEF RemoveInterval, durableOf
  <2>2. Abstract!Remove(st, start, end)
    BY <1>2, <2>1, RefineRemove DEF Abstract!Remove, Abstract!Without, Abstract!Stream, Stream,
         seriesOf, durableOf
  <2>. QED
    BY <2>2 DEF Abstract!Next, Abstract!Time, Time
<1>3. ASSUME NEW st \in Station, NEW se \in Sensor, NEW commit \in BOOLEAN,
             SetTimeSeriesMask(st, se, commit)
      PROVE  Abstract!Next \/ (seriesOf' = seriesOf /\ durableOf' = durableOf)
  <2>1. seriesOf' = seriesOf
    BY <1>3 DEF SetTimeSeriesMask, seriesOf
  <2>2. durableOf' = durableOf \/ durableOf' = seriesOf'
    BY <1>3, CommitOfSnapshot DEF SetTimeSeriesMask
  <2>. QED
    BY <2>1, <2>2 DEF Abstract!Next, Abstract!Commit, seriesOf, durableOf
<1>4. ASSUME NEW st \in Station, ClearMaskOfStation(st)
      PROVE  seriesOf' = seriesOf /\ durableOf' = durableOf
  BY <1>4 DEF ClearMaskOfStation, seriesOf, durableOf
<1>5. CASE Clear
  <2>1. /\ \A p \in Stream : DOMAIN chunkMap'[p] = {}
        /\ committed' = Snapshot'
    BY <1>5, ClearEmpties
  <2>2. \A p \in Stream : Series(chunkMap'[p]) = [t \in {} |-> 0]
    BY <2>1, EmptySeries
  <2>3. seriesOf' = [p \in Stream |-> [t \in {} |-> 0]]
    BY <2>2 DEF seriesOf
  <2>4. durableOf' = seriesOf'
    BY <2>1 DEF durableOf, seriesOf, Snapshot
  <2>. QED
    BY <2>3, <2>4 DEF Abstract!Next, Abstract!Clear, Abstract!Empty, Abstract!Stream, Stream,
         seriesOf, durableOf
<1>6. CASE Commit
  <2>1. seriesOf' = seriesOf /\ durableOf' = seriesOf
    BY <1>6 DEF Commit, maps, Snapshot, seriesOf, durableOf
  <2>. QED
    BY <2>1 DEF Abstract!Next, Abstract!Commit, seriesOf, durableOf
<1>7. CASE Crash
  <2>1. seriesOf' = durableOf /\ durableOf' = durableOf
    BY <1>7 DEF Crash, seriesOf, durableOf
  <2>. QED
    BY <2>1 DEF Abstract!Next, Abstract!Crash, seriesOf, durableOf
<1>8. CASE UNCHANGED vars
  BY <1>8 DEF vars, seriesOf, durableOf
<1>. QED
  BY <1>1, <1>2, <1>3, <1>4, <1>5, <1>6, <1>7, <1>8 DEF Next

\* StreamDB, chunks and metadata and all, behaves like one plain series per
\* stream with crash recovery to the last commit.
THEOREM Refinement == Spec => ImplementsSeriesStore
BY RefineInit, RefineNext, Inductive, PTL DEF Spec, ImplementsSeriesStore, Abstract!Spec
=============================================================================
