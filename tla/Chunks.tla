------------------------------- MODULE Chunks -------------------------------
(***************************************************************************)
(* The storage layout of one sensor in StreamDB and the pure algorithms    *)
(* over it.  A time series is cut into chunks, one per calendar year.  Two *)
(* MapDB tree maps hold them, both keyed by the first timestamp of the     *)
(* chunk:                                                                  *)
(*                                                                         *)
(*   chunkMap      first timestamp -> the entries (class Chunk)            *)
(*   chunkMetaMap  first timestamp -> their summary (class ChunkMeta)      *)
(*                                                                         *)
(* Queries walk chunkMetaMap and open only the chunks they need, so every  *)
(* answer depends on the two maps telling the same story.                  *)
(*                                                                         *)
(* A Java array of entries with ascending timestamps is a function from a  *)
(* non-empty set of timestamps to values.  A nullable result is a set with *)
(* at most one element.                                                    *)
(***************************************************************************)
EXTENDS Integers, Sequences, FiniteSetsExt

CONSTANTS
  MaxTime,          \* last timestamp (minutes since the OLE epoch)
  Value,            \* tokens that tell measurements apart, see below
  roundLowerYear,   \* TimeUtil.roundLowerYear: start of the year of a timestamp
  roundNextYear     \* TimeUtil.roundNextYear: start of the year after it

(***************************************************************************)
(* Stored timestamps are never negative: insertSensorData compares the     *)
(* first one with -1.                                                      *)
(***************************************************************************)
Time == 0..MaxTime

ASSUME TimeAssumption == MaxTime \in Nat

(***************************************************************************)
(* A value stands for the measurement an entry came with: the properties   *)
(* are about which measurement is found where.  What the stored number     *)
(* loses in the serializer is the subject of ChunkSerializer.              *)
(***************************************************************************)

(***************************************************************************)
(* Years are half-open intervals.  They differ in length (leap years), and *)
(* the year of timestamp 0 begins before it: the epoch is 1899-12-30.      *)
(***************************************************************************)
ASSUME YearAssumption ==
  /\ roundLowerYear \in [Time -> Int]
  /\ roundNextYear \in [Time -> Int]
  /\ \A t \in Time : roundLowerYear[t] <= t /\ t < roundNextYear[t]
  /\ \A s, t \in Time :
       roundLowerYear[t] <= s /\ s < roundNextYear[t] =>
         /\ roundLowerYear[s] = roundLowerYear[t]
         /\ roundNextYear[s] = roundNextYear[t]

-----------------------------------------------------------------------------
(* Chunk and ChunkMeta                                                     *)

IsEntries(c) ==
  /\ DOMAIN c \subseteq Time
  /\ c \in [DOMAIN c -> Value]

\* Chunk.of refuses an empty array.
IsChunk(c) == IsEntries(c) /\ DOMAIN c # {}

NoEntries == [t \in {} |-> 0]

ChunkMetaType ==
  [firstTimestamp : Time, lastTimestamp : Time, entryCount : Nat]

First(c) == Min(DOMAIN c)
Last(c) == Max(DOMAIN c)

MetaOf(c) ==
  [firstTimestamp |-> First(c),
   lastTimestamp  |-> Last(c),
   entryCount     |-> Cardinality(DOMAIN c)]

\* The series a chunk map stands for: all its entries together.
SeriesTimes(chunks) == UNION {DOMAIN chunks[k] : k \in DOMAIN chunks}

Series(chunks) ==
  [t \in SeriesTimes(chunks) |->
     chunks[CHOOSE k \in DOMAIN chunks : t \in DOMAIN chunks[k]][t]]

\* New entries win over old ones at the same timestamp.
Overwrite(old, new) ==
  [t \in DOMAIN old \cup DOMAIN new |->
     IF t \in DOMAIN new THEN new[t] ELSE old[t]]

-----------------------------------------------------------------------------
(* What it means for the two maps of a stream to agree                     *)

\* The metadata of a stream is exact: same keys as the chunk map, every key
\* the first timestamp of its chunk, every summary the summary of that chunk.
MetaExact(metas, chunks) ==
  /\ DOMAIN metas = DOMAIN chunks
  /\ \A k \in DOMAIN chunks :
       /\ k = First(chunks[k])
       /\ metas[k] = MetaOf(chunks[k])

\* All entries of a chunk are of one year, and no two chunks share a year.
OneChunkPerYear(chunks) ==
  \A j, k \in DOMAIN chunks : \A s \in DOMAIN chunks[j], t \in DOMAIN chunks[k] :
    (roundLowerYear[s] = roundLowerYear[t]) <=> (j = k)

-----------------------------------------------------------------------------
(* Insertion                                                               *)

\* Mutant: higherKey instead of ceilingKey.
higherKeyOfYear(keys, t) ==
  LET above == {k \in keys : roundLowerYear[t] < k}
  IN  IF above = {} \/ roundNextYear[t] <= Min(above) THEN {} ELSE {Min(above)}

\* Mutant: the first key from the year of t on, of whatever year.
ceilingKeyOfAnyYear(keys, t) ==
  LET above == {k \in keys : roundLowerYear[t] <= k}
  IN  IF above = {} THEN {} ELSE {Min(above)}

\* The first key that is not before the start of the year of t, unless that
\* key is in a later year.
ceilingKeyOfYear(keys, t) ==
  LET above == {k \in keys : roundLowerYear[t] <= k}
  IN  IF above = {} \/ roundNextYear[t] <= Min(above) THEN {} ELSE {Min(above)}

\* getChunkMeta: the metadata of the chunk of the year of t.
getChunkMeta(metas, t) == {metas[k] : k \in ceilingKeyOfYear(DOMAIN metas, t)}

\* The entries of e in the year of t: one call of insertIntoOneChunk.
YearGroup(e, t) ==
  Restrict(e, {s \in DOMAIN e : roundLowerYear[s] = roundLowerYear[t]})

\* insertIntoOneChunk, what it removes and what it puts.  The group replaces
\* the chunk of its year with the old and the new entries merged.
ReplacedKeys(metas, t) == {m.firstTimestamp : m \in getChunkMeta(metas, t)}

\* Mutant: the group replaces the chunk of its year without being merged into it.
MergedChunkDropsOld(metas, chunks, group) == group

\* insertIntoOneChunk: the chunk of the year of group after group is merged in.
MergedChunk(metas, chunks, group) ==
  LET old == getChunkMeta(metas, First(group))
  IN  IF old = {}
        THEN group
        ELSE Overwrite(chunks[(CHOOSE m \in old : TRUE).firstTimestamp], group)

\* removeChunk for every key of old, then insertChunk for every chunk of new.
ReplaceChunks(chunks, old, new) ==
  [k \in (DOMAIN chunks \ old) \cup {First(c) : c \in new} |->
     IF \E c \in new : First(c) = k
       THEN CHOOSE c \in new : First(c) = k
       ELSE chunks[k]]

\* Mutant: removeChunk forgets the metadata.
ReplaceMetasKeepsOld(metas, old, new) ==
  [k \in DOMAIN metas \cup {First(c) : c \in new} |->
     IF \E c \in new : First(c) = k
       THEN MetaOf(CHOOSE c \in new : First(c) = k)
       ELSE metas[k]]

ReplaceMetas(metas, old, new) ==
  [k \in (DOMAIN metas \ old) \cup {First(c) : c \in new} |->
     IF \E c \in new : First(c) = k
       THEN MetaOf(CHOOSE c \in new : First(c) = k)
       ELSE metas[k]]

\* insertSensorData for entries that passed its check.  The groups of
\* different years work on different chunks, so one step stands for the loop.
InsertedKeys(metas, e) == UNION {ReplacedKeys(metas, t) : t \in DOMAIN e}
InsertedChunks(metas, chunks, e) ==
  {MergedChunk(metas, chunks, YearGroup(e, t)) : t \in DOMAIN e}

\* The check of insertSensorData on the entries it is given (a sequence): at
\* the first timestamp that is not after its predecessor it throws.  By then
\* the groups of the earlier years are stored; the group it was collecting,
\* the year of the predecessor, is lost.
Unordered(entries) ==
  {i \in DOMAIN entries :
     entries[i].timestamp <= IF i = 1 THEN -1 ELSE entries[i - 1].timestamp}

AcceptedIndices(entries) ==
  IF Unordered(entries) = {}
    THEN DOMAIN entries
    ELSE LET last == Min(Unordered(entries)) - 1
         IN  {i \in 1..last :
                roundLowerYear[entries[i].timestamp]
                  # roundLowerYear[entries[last].timestamp]}

Accepted(entries) ==
  LET indices == AcceptedIndices(entries)
  IN  [t \in {entries[i].timestamp : i \in indices} |->
         entries[CHOOSE i \in indices : entries[i].timestamp = t].value]

-----------------------------------------------------------------------------
(* Removal                                                                 *)

FullyInside(m, start, end) ==
  start <= m.firstTimestamp /\ m.lastTimestamp <= end

PartlyInside(m, start, end) ==
  /\ ~FullyInside(m, start, end)
  /\ start <= m.lastTimestamp
  /\ m.firstTimestamp <= end

\* Mutant: the interval is half-open.
removeIntervalHalfOpen(c, start, end) ==
  Restrict(c, {t \in DOMAIN c : t < start \/ end <= t})

removeIntervalInChunk(c, start, end) ==
  Restrict(c, {t \in DOMAIN c : t < start \/ end < t})

\* removeSensorData: chunks inside the interval go, chunks that overlap it are
\* replaced by what is left of them.
RemovedKeys(metas, start, end) ==
  {k \in DOMAIN metas :
     FullyInside(metas[k], start, end) \/ PartlyInside(metas[k], start, end)}

RemainingChunks(metas, chunks, start, end) ==
  {removeIntervalInChunk(chunks[k], start, end) :
     k \in {k \in DOMAIN metas : PartlyInside(metas[k], start, end)}}

-----------------------------------------------------------------------------
(* Queries                                                                 *)

IntegerMAX == MaxTime + 1
IntegerMIN == -1

\* The windows a query may have; Integer.MIN_VALUE and MAX_VALUE leave an end open.
Window == IntegerMIN..IntegerMAX

\* Mutant: a chunk that ends exactly at min is skipped.
ChunkMetaIteratorStrict(metas, min, max) ==
  LET reached == {k \in DOMAIN metas : min < metas[k].lastTimestamp}
  IN  {k \in DOMAIN metas :
         /\ reached # {}
         /\ Min(reached) <= k
         /\ \A j \in DOMAIN metas :
              Min(reached) <= j /\ j <= k => metas[j].firstTimestamp <= max}

\* ChunkMetaIterator: starts at the first chunk that ends at or after min and
\* goes on until one begins after max.
ChunkMetaIterator(metas, min, max) ==
  LET reached == {k \in DOMAIN metas : min <= metas[k].lastTimestamp}
  IN  {k \in DOMAIN metas :
         /\ reached # {}
         /\ Min(reached) <= k
         /\ \A j \in DOMAIN metas :
              Min(reached) <= j /\ j <= k => metas[j].firstTimestamp <= max}

\* The ends of a window cut to the stored data.
getDataMinTimestamp(metas, min) ==
  IF DOMAIN metas = {} THEN min ELSE Max({min, metas[Min(DOMAIN metas)].firstTimestamp})

getDataMaxTimestamp(metas, max) ==
  IF DOMAIN metas = {} THEN max ELSE Min({max, metas[Max(DOMAIN metas)].lastTimestamp})

\* An empty intersection becomes -1, -1.
QueryInterval(lo, hi) == IF lo <= hi THEN <<lo, hi>> ELSE <<-1, -1>>

\* nextChunk: which timestamps of a chunk the chosen iterator delivers.
ChunkPart(m, c, lo, hi) ==
  IF m.lastTimestamp <= hi
    THEN IF lo <= m.firstTimestamp
           THEN DOMAIN c                               \* SimpleIterator
           ELSE {t \in DOMAIN c : lo <= t}             \* SimpleIterator from lo
    ELSE {t \in DOMAIN c : lo <= t /\ t <= hi}         \* ClipIterator

\* The entries a StreamIterator delivers, as pairs.
StreamIterator(metas, chunks, min, max) ==
  LET q == QueryInterval(getDataMinTimestamp(metas, min), getDataMaxTimestamp(metas, max))
  IN  UNION {{<<t, chunks[k][t]>> : t \in ChunkPart(metas[k], chunks[k], q[1], q[2])} :
               k \in ChunkMetaIterator(metas, min, max)}

\* The interval of some timestamps.
IntervalOf(times) == IF times = {} THEN {} ELSE {<<Min(times), Max(times)>>}

\* getSensorTimeMin: the first chunk that gives an answer decides.
getSensorTimeMin(metas, chunks, min, max) ==
  LET keys    == ChunkMetaIterator(metas, min, max)
      From(k) == {t \in DOMAIN chunks[k] : min <= t}
      Hit(k)  == min <= metas[k].firstTimestamp /\ metas[k].firstTimestamp <= max
      answers == {k \in keys : Hit(k) \/ From(k) # {}}
  IN  IF answers = {} THEN IntegerMAX
      ELSE LET k == Min(answers)
           IN  IF Hit(k) THEN metas[k].firstTimestamp
               ELSE IF max < Min(From(k)) THEN IntegerMAX ELSE Min(From(k))

\* Mutant: the chunks are not walked backwards.
getSensorTimeMaxForward(metas, chunks, min, max) ==
  LET keys    == ChunkMetaIterator(metas, min, max)
      UpTo(k) == {t \in DOMAIN chunks[k] : t <= max}
      Hit(k)  == min <= metas[k].lastTimestamp /\ metas[k].lastTimestamp <= max
      answers == {k \in keys : Hit(k) \/ UpTo(k) # {}}
  IN  IF answers = {} THEN IntegerMIN
      ELSE LET k == Min(answers)
           IN  IF Hit(k) THEN metas[k].lastTimestamp
               ELSE IF Max(UpTo(k)) < min THEN IntegerMIN ELSE Max(UpTo(k))

\* getSensorTimeMax: the same from the last chunk backwards.
getSensorTimeMax(metas, chunks, min, max) ==
  LET keys    == ChunkMetaIterator(metas, min, max)
      UpTo(k) == {t \in DOMAIN chunks[k] : t <= max}
      Hit(k)  == min <= metas[k].lastTimestamp /\ metas[k].lastTimestamp <= max
      answers == {k \in keys : Hit(k) \/ UpTo(k) # {}}
  IN  IF answers = {} THEN IntegerMIN
      ELSE LET k == Max(answers)
           IN  IF Hit(k) THEN metas[k].lastTimestamp
               ELSE IF Max(UpTo(k)) < min THEN IntegerMIN ELSE Max(UpTo(k))

\* getSensorTimeInterval with a window; null if either end is missing.
getSensorTimeIntervalIn(metas, chunks, min, max) ==
  LET imin == getSensorTimeMin(metas, chunks, min, max)
      imax == getSensorTimeMax(metas, chunks, min, max)
  IN  IF imin = IntegerMAX \/ imax = IntegerMIN THEN {} ELSE {<<imin, imax>>}

\* getSensorTimeInterval without a window reads the metadata only.
getSensorTimeInterval(metas) ==
  IF DOMAIN metas = {} THEN {}
    ELSE {<<Min(DOMAIN metas), metas[Max(DOMAIN metas)].lastTimestamp>>}

\* getStationTimeInterval: the hull of the intervals of the sensors.
getStationTimeInterval(intervals) ==
  IF intervals = {} THEN {}
    ELSE {<<Min({i[1] : i \in intervals}), Max({i[2] : i \in intervals})>>}
=============================================================================
