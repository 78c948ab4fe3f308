---------------------------- MODULE ChunksProofs ----------------------------
(***************************************************************************)
(* Lemmas about the operators of Chunks, for every length of the time line *)
(* and every calendar: what insertions and removals do to a stream, and    *)
(* that queries of a consistent stream with any window deliver exactly the *)
(* entries of the window, also where they look at metadata only.           *)
(***************************************************************************)
EXTENDS Chunks, FiniteSetTheorems, WellFoundedInduction, TLAPS

(***************************************************************************)
(* Smallest and greatest elements of sets of timestamps.                   *)
(***************************************************************************)

\* Subsets of an initial segment of the naturals are finite.
LEMMA FiniteSegment ==
  ASSUME NEW N \in Nat
  PROVE  \A S \in SUBSET (0..N) : S \in FiniteSubsetsOf(0..N)
<1>1. IsFiniteSet(0..N)
  BY FS_Interval
<1>. QED
  BY <1>1, FS_FiniteSubsetsOfFinite

\* Min is the least element: among the intervals 0..n for n in S one has no
\* smaller one below it.
LEMMA MinOfSegment ==
  ASSUME NEW N \in Nat, NEW S, S \subseteq 0..N, S # {}
  PROVE  Min(S) \in S /\ \A x \in S : Min(S) <= x
<1>. DEFINE T == {0..n : n \in S}
            U == 0..N
<1>1. T \subseteq FiniteSubsetsOf(U) /\ T # {}
  <2>1. \A n \in S : 0..n \in SUBSET U
    OBVIOUS
  <2>. QED
    BY <2>1, FiniteSegment
<1>2. PICK x \in T : \A y \in T : ~(<<y, x>> \in StrictSubsetOrdering(U))
  <2>. HIDE DEF T, U
  <2>. QED
    BY <1>1, FS_StrictSubsetOrderingWellFounded, WFMin
<1>3. PICK m \in S : x = 0..m
  BY <1>2
<1>4. ASSUME NEW n \in S, n < m
      PROVE  FALSE
  <2>1. n \in Nat /\ m \in Nat /\ n <= N /\ m <= N
    OBVIOUS
  <2>2. 0..n \subseteq 0..m /\ m \in 0..m /\ m \notin 0..n
    BY <1>4, <2>1
  <2>3. 0..n \in SUBSET U /\ 0..m \in SUBSET U
    BY <2>1
  <2>4. <<0..n, 0..m>> \in StrictSubsetOrdering(U)
    BY <2>2, <2>3 DEF StrictSubsetOrdering
  <2>. QED
    BY <1>2, <1>3, <2>4
<1>5. \A n \in S : m <= n
  BY <1>4
<1>. QED
  BY <1>5 DEF Min

\* The earliest of a non-empty set of timestamps.
LEMMA MinOfTime ==
  ASSUME NEW S, S \subseteq Time, S # {}
  PROVE  Min(S) \in S /\ \A x \in S : Min(S) <= x
BY MinOfSegment, TimeAssumption DEF Time

\* The latest of a non-empty set of timestamps, by mirroring the time line.
LEMMA MaxOfTime ==
  ASSUME NEW S, S \subseteq Time, S # {}
  PROVE  Max(S) \in S /\ \A x \in S : x <= Max(S)
<1>. DEFINE T == {MaxTime - x : x \in S}
<1>1. T \subseteq Time /\ T # {}
  <2>1. \A x \in S : MaxTime - x \in Time
    BY TimeAssumption DEF Time
  <2>. QED
    BY <2>1
<1>2. Min(T) \in T /\ \A y \in T : Min(T) <= y
  <2>. HIDE DEF T
  <2>. QED
    BY <1>1, MinOfTime
<1>3. PICK s \in S : Min(T) = MaxTime - s
  BY <1>2
<1>4. \A x \in S : MaxTime - s <= MaxTime - x
  BY <1>2, <1>3
<1>5. \A x \in S : s >= x
  BY <1>4, TimeAssumption DEF Time
<1>6. \A x \in S : Max(S) >= x /\ Max(S) \in S
  BY <1>5 DEF Max
<1>. QED
  BY <1>6, TimeAssumption DEF Time

\* First and last timestamp of a chunk are its smallest and greatest.
LEMMA FirstLast ==
  ASSUME NEW c, IsChunk(c)
  PROVE  /\ First(c) \in DOMAIN c /\ First(c) \in Time
         /\ Last(c) \in DOMAIN c /\ Last(c) \in Time
         /\ \A t \in DOMAIN c : First(c) <= t /\ t <= Last(c)
         /\ DOMAIN c \subseteq Time
<1>1. DOMAIN c \subseteq Time /\ DOMAIN c # {}
  BY DEF IsChunk, IsEntries
<1>. QED
  BY <1>1, MinOfTime, MaxOfTime DEF First, Last

\* The summary insertChunk stores is a ChunkMeta.
LEMMA MetaOfType ==
  ASSUME NEW c, IsChunk(c)
  PROVE  MetaOf(c) \in ChunkMetaType
<1>1. IsFiniteSet(Time)
  BY FS_Interval, TimeAssumption DEF Time
<1>2. Cardinality(DOMAIN c) \in Nat
  BY <1>1, FS_Subset, FS_CardinalityType DEF IsChunk, IsEntries
<1>. QED
  BY <1>2, FirstLast DEF MetaOf, ChunkMetaType

-----------------------------------------------------------------------------
(* Streams in a consistent state, and what getChunkMeta finds in them.     *)

Consistent(metas, chunks) ==
  /\ \A k \in DOMAIN chunks : IsChunk(chunks[k])
  /\ MetaExact(metas, chunks)
  /\ OneChunkPerYear(chunks)

SameYear(s, t) == roundLowerYear[s] = roundLowerYear[t]

\* A set of new chunks that may join the chunks that stay: each is of one
\* year, and the years are different from each other and from the rest.
Fits(chunks, old, new) ==
  /\ \A c \in new : IsChunk(c)
  /\ \A b, c \in new : \A s \in DOMAIN b, t \in DOMAIN c : SameYear(s, t) <=> (b = c)
  /\ \A c \in new, k \in DOMAIN chunks \ old :
       \A s \in DOMAIN c, t \in DOMAIN chunks[k] : ~SameYear(s, t)

\* Keys of a consistent stream are timestamps, one per year.
LEMMA KeysAreTimes ==
  ASSUME NEW metas, NEW chunks, Consistent(metas, chunks)
  PROVE  /\ DOMAIN metas = DOMAIN chunks
         /\ DOMAIN chunks \subseteq Time
         /\ \A k \in DOMAIN chunks :
              /\ k \in DOMAIN chunks[k]
              /\ metas[k] = MetaOf(chunks[k])
              /\ metas[k].firstTimestamp = k
              /\ metas[k].lastTimestamp = Last(chunks[k])
BY FirstLast DEF Consistent, MetaExact, MetaOf

\* getChunkMeta finds the chunk of the year of t, or nothing if no entry of
\* that year is stored.
LEMMA GetChunkMeta ==
  ASSUME NEW metas, NEW chunks, Consistent(metas, chunks), NEW t \in Time
  PROVE  \/ /\ getChunkMeta(metas, t) = {}
            /\ \A k \in DOMAIN chunks : \A s \in DOMAIN chunks[k] : ~SameYear(s, t)
         \/ \E k \in DOMAIN chunks :
              /\ getChunkMeta(metas, t) = {metas[k]}
              /\ \A s \in DOMAIN chunks[k] : SameYear(s, t)
<1>. DEFINE above == {k \in DOMAIN metas : roundLowerYear[t] <= k}
<1>1. /\ DOMAIN metas = DOMAIN chunks
      /\ DOMAIN chunks \subseteq Time
      /\ \A k \in DOMAIN chunks : k \in DOMAIN chunks[k]
  BY KeysAreTimes
<1>2. \A k \in DOMAIN chunks : \A s \in DOMAIN chunks[k] :
        s \in Time /\ k <= s /\ SameYear(s, k)
  BY <1>1, FirstLast DEF Consistent, MetaExact, OneChunkPerYear, SameYear
<1>3. above = {} \/ (Min(above) \in above /\ \A x \in above : Min(above) <= x)
  BY <1>1, MinOfTime
<1>4. \A s \in Time : SameYear(s, t) => roundLowerYear[t] <= s /\ s < roundNextYear[t]
  BY YearAssumption DEF SameYear, Time
<1>. HIDE DEF above
<1>5. CASE above = {} \/ roundNextYear[t] <= Min(above)
  <2>1. getChunkMeta(metas, t) = {}
    BY <1>5 DEF getChunkMeta, ceilingKeyOfYear, above
  <2>2. ASSUME NEW k \in DOMAIN chunks, NEW s \in DOMAIN chunks[k], SameYear(s, t)
        PROVE  FALSE
    <3>1. k \in Time /\ SameYear(k, t)
      BY <1>1, <1>2, <2>2 DEF SameYear
    <3>2. k \in above /\ k < roundNextYear[t]
      BY <1>1, <1>4, <3>1 DEF above
    <3>3. Min(above) <= k /\ roundNextYear[t] <= Min(above) /\ Min(above) \in Time
      BY <1>1, <1>3, <1>5, <3>2 DEF above
    <3>. QED
      BY <3>1, <3>2, <3>3, YearAssumption DEF Time
  <2>. QED
    BY <2>1, <2>2
<1>6. CASE above # {} /\ ~(roundNextYear[t] <= Min(above))
  <2>1. getChunkMeta(metas, t) = {metas[Min(above)]}
    BY <1>6 DEF getChunkMeta, ceilingKeyOfYear, above
  <2>2. Min(above) \in DOMAIN chunks /\ roundLowerYear[t] <= Min(above)
    BY <1>1, <1>3, <1>6 DEF above
  <2>3. Min(above) \in Time /\ Min(above) < roundNextYear[t]
    BY <1>1, <1>6, <2>2, YearAssumption DEF Time
  <2>4. SameYear(Min(above), t)
    BY <2>2, <2>3, YearAssumption DEF SameYear
  <2>5. \A s \in DOMAIN chunks[Min(above)] : SameYear(s, t)
    BY <1>2, <2>2, <2>4 DEF SameYear
  <2>. QED
    BY <2>1, <2>2, <2>5
<1>. QED
  BY <1>5, <1>6

\* What is in the maps after removing the chunks of old and putting new ones.
LEMMA ReplaceContent ==
  ASSUME NEW metas, NEW chunks, NEW old, NEW new,
         Consistent(metas, chunks), Fits(chunks, old, new)
  PROVE  LET kept == DOMAIN chunks \ old
             M == ReplaceMetas(metas, old, new)
             C == ReplaceChunks(chunks, old, new)
         IN  /\ \A k : k \in DOMAIN C <=> k \in kept \/ \E c \in new : k = First(c)
             /\ DOMAIN M = DOMAIN C
             /\ \A k \in kept : /\ ~\E c \in new : First(c) = k
                                /\ C[k] = chunks[k]
                                /\ M[k] = metas[k]
             /\ \A c \in new : C[First(c)] = c /\ M[First(c)] = MetaOf(c)
<1>. DEFINE kept == DOMAIN chunks \ old
            M == ReplaceMetas(metas, old, new)
            C == ReplaceChunks(chunks, old, new)
<1>1. /\ \A k : k \in DOMAIN C <=> k \in kept \/ \E c \in new : k = First(c)
      /\ DOMAIN M = DOMAIN C
  BY DEF ReplaceMetas, ReplaceChunks, Consistent, MetaExact
<1>2. \A k \in kept : /\ ~\E c \in new : First(c) = k
                      /\ C[k] = chunks[k]
                      /\ M[k] = metas[k]
  <2>1. ASSUME NEW k \in kept, NEW c \in new, First(c) = k PROVE FALSE
    <3>1. k \in DOMAIN c /\ k \in DOMAIN chunks[k]
      BY <2>1, FirstLast, KeysAreTimes DEF Fits
    <3>. QED
      BY <3>1 DEF Fits, SameYear
  <2>. QED
    BY <2>1 DEF ReplaceMetas, ReplaceChunks, Consistent, MetaExact
<1>3. \A c \in new : C[First(c)] = c /\ M[First(c)] = MetaOf(c)
  <2>1. ASSUME NEW b \in new, NEW c \in new, First(b) = First(c) PROVE b = c
    <3>1. First(b) \in DOMAIN b /\ First(b) \in DOMAIN c
      BY <2>1, FirstLast DEF Fits
    <3>. QED
      BY <3>1 DEF Fits, SameYear
  <2>2. \A c \in new : (CHOOSE b \in new : First(b) = First(c)) = c
    BY <2>1
  <2>. QED
    BY <2>2 DEF ReplaceMetas, ReplaceChunks
<1>. QED
  BY <1>1, <1>2, <1>3

\* Replacing chunks by fitting ones keeps a stream consistent.
LEMMA ReplaceConsistent ==
  ASSUME NEW metas, NEW chunks, NEW old, NEW new,
         Consistent(metas, chunks), Fits(chunks, old, new)
  PROVE  Consistent(ReplaceMetas(metas, old, new), ReplaceChunks(chunks, old, new))
<1>. DEFINE kept == DOMAIN chunks \ old
            M == ReplaceMetas(metas, old, new)
            C == ReplaceChunks(chunks, old, new)
            keys == DOMAIN C
<1>1. /\ \A k : k \in keys <=> k \in kept \/ \E c \in new : k = First(c)
      /\ DOMAIN M = keys
      /\ DOMAIN C = keys
  BY ReplaceContent
<1>2. \A k \in kept : /\ ~\E c \in new : First(c) = k
                      /\ C[k] = chunks[k]
                      /\ M[k] = metas[k]
  BY ReplaceContent
<1>3. \A c \in new : C[First(c)] = c /\ M[First(c)] = MetaOf(c)
  BY ReplaceContent
<1>4. \A k \in keys : \/ k \in kept /\ C[k] = chunks[k] /\ M[k] = metas[k]
                      \/ \E c \in new : k = First(c) /\ C[k] = c /\ M[k] = MetaOf(c)
  BY <1>1, <1>2, <1>3
<1>. HIDE DEF M, C, keys
<1>5. \A k \in keys : IsChunk(C[k]) /\ k = First(C[k]) /\ M[k] = MetaOf(C[k])
  BY <1>4 DEF Consistent, MetaExact, Fits
<1>6. ASSUME NEW j \in keys, NEW k \in keys,
             NEW s \in DOMAIN C[j], NEW t \in DOMAIN C[k]
      PROVE  SameYear(s, t) <=> (j = k)
  <2>1. CASE j \in kept /\ k \in kept
    BY <1>2, <2>1 DEF Consistent, OneChunkPerYear, SameYear
  <2>2. ASSUME NEW c \in new, j = First(c), C[j] = c, k \in kept, C[k] = chunks[k]
        PROVE  ~SameYear(s, t) /\ j # k
    BY <1>2, <2>2 DEF Fits
  <2>3. ASSUME NEW c \in new, k = First(c), C[k] = c, j \in kept, C[j] = chunks[j]
        PROVE  ~SameYear(s, t) /\ j # k
    BY <1>2, <2>3 DEF Fits, SameYear
  <2>4. ASSUME NEW b \in new, NEW c \in new, j = First(b), C[j] = b, k = First(c), C[k] = c
        PROVE  SameYear(s, t) <=> (j = k)
    BY <2>4 DEF Fits
  <2>. QED
    BY <1>4, <2>1, <2>2, <2>3, <2>4
<1>7. Consistent(M, C)
  BY <1>1, <1>5, <1>6 DEF Consistent, MetaExact, OneChunkPerYear, SameYear
<1>. QED
  BY <1>7 DEF M, C

-----------------------------------------------------------------------------
(* Inserting and removing.                                                 *)

\* The series of a consistent stream, read chunk by chunk.
LEMMA SeriesByChunk ==
  ASSUME NEW metas, NEW chunks, Consistent(metas, chunks)
  PROVE  /\ DOMAIN Series(chunks) = SeriesTimes(chunks)
         /\ IsEntries(Series(chunks))
         /\ \A k \in DOMAIN chunks : \A s \in DOMAIN chunks[k] :
              s \in SeriesTimes(chunks) /\ Series(chunks)[s] = chunks[k][s]
<1>1. \A k \in DOMAIN chunks : \A s \in DOMAIN chunks[k] :
        /\ s \in SeriesTimes(chunks)
        /\ (CHOOSE j \in DOMAIN chunks : s \in DOMAIN chunks[j]) = k
  BY DEF SeriesTimes, Consistent, OneChunkPerYear
<1>2. \A s \in SeriesTimes(chunks) : \E k \in DOMAIN chunks : s \in DOMAIN chunks[k]
  BY DEF SeriesTimes
<1>3. \A k \in DOMAIN chunks : \A s \in DOMAIN chunks[k] :
        s \in Time /\ chunks[k][s] \in Value
  BY DEF Consistent, IsChunk, IsEntries
<1>4. \A k \in DOMAIN chunks : \A s \in DOMAIN chunks[k] :
        Series(chunks)[s] = chunks[k][s]
  BY <1>1 DEF Series
<1>5. DOMAIN Series(chunks) = SeriesTimes(chunks)
  BY DEF Series
<1>6. \A s \in SeriesTimes(chunks) : s \in Time /\ Series(chunks)[s] \in Value
  BY <1>2, <1>3, <1>4
<1>7. Series(chunks) \in [SeriesTimes(chunks) -> Value]
  <2>. DEFINE f == Series(chunks)
  <2>1. f = [s \in SeriesTimes(chunks) |-> f[s]]
    BY DEF Series
  <2>. HIDE DEF f
  <2>. QED
    BY <1>6, <2>1 DEF f
<1>. QED
  BY <1>1, <1>4, <1>5, <1>6, <1>7 DEF IsEntries

\* insertIntoOneChunk: the chunk it puts holds exactly the old and the new
\* entries of one year, the new ones winning.
LEMMA MergedChunkExact ==
  ASSUME NEW metas, NEW chunks, Consistent(metas, chunks),
         NEW e, IsEntries(e), NEW t \in DOMAIN e
  PROVE  LET c == MergedChunk(metas, chunks, YearGroup(e, t))
         IN  /\ IsChunk(c)
             /\ t \in DOMAIN c
             /\ \A s \in DOMAIN c : SameYear(s, t)
             /\ \A s \in DOMAIN e : SameYear(s, t) => s \in DOMAIN c /\ c[s] = e[s]
             /\ \A k \in DOMAIN chunks : \A s \in DOMAIN chunks[k] :
                  SameYear(s, t) =>
                    /\ s \in DOMAIN c
                    /\ s \notin DOMAIN e => c[s] = chunks[k][s]
             /\ \A s \in DOMAIN c : s \notin DOMAIN e => s \in SeriesTimes(chunks)
<1>. DEFINE group == YearGroup(e, t)
            c == MergedChunk(metas, chunks, YearGroup(e, t))
<1>1. DOMAIN group = {s \in DOMAIN e : SameYear(s, t)} /\ \A s \in DOMAIN group : group[s] = e[s]
  BY DEF YearGroup, Restrict, SameYear
<1>2. \A s \in DOMAIN e : s \in Time /\ e[s] \in Value
  BY DEF IsEntries
<1>3. IsChunk(group)
  <2>1. group \in [DOMAIN group -> Value]
    <3>1. group = [s \in {s \in DOMAIN e : SameYear(s, t)} |-> e[s]]
      BY DEF YearGroup, Restrict, SameYear
    <3>. QED
      BY <1>1, <1>2, <3>1
  <2>2. t \in DOMAIN group /\ DOMAIN group \subseteq Time
    BY <1>1, <1>2 DEF SameYear
  <2>. QED
    BY <2>1, <2>2 DEF IsChunk, IsEntries
<1>4. First(group) \in DOMAIN group /\ First(group) \in Time
  BY <1>3, FirstLast
<1>. HIDE DEF group
<1>5. SameYear(First(group), t)
  BY <1>1, <1>4
<1>6. CASE /\ getChunkMeta(metas, First(group)) = {}
           /\ \A k \in DOMAIN chunks : \A s \in DOMAIN chunks[k] : ~SameYear(s, First(group))
  <2>1. c = group
    BY <1>6 DEF MergedChunk, group
  <2>2. \A k \in DOMAIN chunks : \A s \in DOMAIN chunks[k] : ~SameYear(s, t)
    BY <1>5, <1>6 DEF SameYear
  <2>. QED
    BY <1>1, <1>3, <2>1, <2>2 DEF SameYear
<1>7. ASSUME NEW k \in DOMAIN chunks,
             getChunkMeta(metas, First(group)) = {metas[k]},
             \A s \in DOMAIN chunks[k] : SameYear(s, First(group))
      PROVE  /\ IsChunk(c)
             /\ t \in DOMAIN c
             /\ \A s \in DOMAIN c : SameYear(s, t)
             /\ \A s \in DOMAIN e : SameYear(s, t) => s \in DOMAIN c /\ c[s] = e[s]
             /\ \A j \in DOMAIN chunks : \A s \in DOMAIN chunks[j] :
                  SameYear(s, t) =>
                    /\ s \in DOMAIN c
                    /\ s \notin DOMAIN e => c[s] = chunks[j][s]
             /\ \A s \in DOMAIN c : s \notin DOMAIN e => s \in SeriesTimes(chunks)
  <2>1. c = Overwrite(chunks[k], group)
    <3>1. (CHOOSE m \in {metas[k]} : TRUE).firstTimestamp = k
      BY KeysAreTimes
    <3>. QED
      BY <1>7, <3>1 DEF MergedChunk, group
  <2>2. DOMAIN c = DOMAIN chunks[k] \cup DOMAIN group
    BY <2>1 DEF Overwrite
  <2>3. \A s \in DOMAIN c : c[s] = IF s \in DOMAIN group THEN group[s] ELSE chunks[k][s]
    BY <2>1 DEF Overwrite
  <2>4. \A s \in DOMAIN chunks[k] : s \in Time /\ chunks[k][s] \in Value /\ SameYear(s, t)
    BY <1>5, <1>7 DEF Consistent, IsChunk, IsEntries, SameYear
  <2>5. \A s \in DOMAIN group : s \in Time /\ group[s] \in Value
    BY <1>1, <1>2
  <2>6. IsChunk(c)
    <3>1. c \in [DOMAIN c -> Value]
      <4>1. c = [s \in DOMAIN chunks[k] \cup DOMAIN group |->
                   IF s \in DOMAIN group THEN group[s] ELSE chunks[k][s]]
        BY <2>1 DEF Overwrite
      <4>2. \A s \in DOMAIN chunks[k] \cup DOMAIN group :
              (IF s \in DOMAIN group THEN group[s] ELSE chunks[k][s]) \in Value
        BY <2>4, <2>5
      <4>. QED
        BY <4>1, <4>2
    <3>. QED
      BY <1>4, <2>2, <2>4, <2>5, <3>1 DEF IsChunk, IsEntries
  <2>7. \A j \in DOMAIN chunks : \A s \in DOMAIN chunks[j] : SameYear(s, t) => j = k
    <3>1. k \in DOMAIN chunks[k]
      BY KeysAreTimes
    <3>. QED
      BY <2>4, <3>1 DEF Consistent, OneChunkPerYear, SameYear
  <2>8. \A s \in DOMAIN chunks[k] : s \in SeriesTimes(chunks)
    BY DEF SeriesTimes
  <2>. HIDE DEF c
  <2>9. t \in DOMAIN group
    BY <1>1 DEF SameYear
  <2>10. \A s \in DOMAIN c : s \notin DOMAIN e => s \in DOMAIN chunks[k] /\ s \notin DOMAIN group
    BY <1>1, <2>2
  <2>11. \A j \in DOMAIN chunks : \A s \in DOMAIN chunks[j] :
           SameYear(s, t) => s \in DOMAIN c /\ (s \notin DOMAIN e => c[s] = chunks[j][s])
    BY <2>2, <2>3, <2>7, <1>1
  <2>. QED
    BY <1>1, <2>2, <2>3, <2>4, <2>6, <2>8, <2>9, <2>10, <2>11
<1>. QED
  BY <1>4, <1>6, <1>7, GetChunkMeta

\* The series after replacing chunks.
LEMMA ReplaceSeries ==
  ASSUME NEW metas, NEW chunks, NEW old, NEW new,
         Consistent(metas, chunks), Fits(chunks, old, new)
  PROVE  LET kept == DOMAIN chunks \ old
             C == ReplaceChunks(chunks, old, new)
         IN  /\ \A s : s \in DOMAIN Series(C) <=>
                      \/ \E k \in kept : s \in DOMAIN chunks[k]
                      \/ \E c \in new : s \in DOMAIN c
             /\ \A k \in kept : \A s \in DOMAIN chunks[k] : Series(C)[s] = chunks[k][s]
             /\ \A c \in new : \A s \in DOMAIN c : Series(C)[s] = c[s]
<1>. DEFINE kept == DOMAIN chunks \ old
            M == ReplaceMetas(metas, old, new)
            C == ReplaceChunks(chunks, old, new)
            keys == DOMAIN C
            F == Series(C)
<1>1. Consistent(M, C)
  BY ReplaceConsistent
<1>2. \A k : k \in keys <=> k \in kept \/ \E c \in new : k = First(c)
  BY ReplaceContent
<1>3. \A k \in kept : /\ ~\E c \in new : First(c) = k
                      /\ C[k] = chunks[k]
                      /\ M[k] = metas[k]
  BY ReplaceContent
<1>4. \A c \in new : C[First(c)] = c /\ M[First(c)] = MetaOf(c)
  BY ReplaceContent
<1>. HIDE DEF M, C
<1>5. \A k \in keys : \A s \in DOMAIN C[k] : F[s] = C[k][s]
  BY <1>1, SeriesByChunk
<1>6. \A s : s \in DOMAIN F <=> \E k \in keys : s \in DOMAIN C[k]
  BY DEF Series, SeriesTimes
<1>. HIDE DEF keys, F
<1>7. \A s : s \in DOMAIN F <=> \/ \E k \in kept : s \in DOMAIN chunks[k]
                               \/ \E c \in new : s \in DOMAIN c
  BY <1>2, <1>3, <1>4, <1>6
<1>8. \A k \in kept : \A s \in DOMAIN chunks[k] : F[s] = chunks[k][s]
  BY <1>2, <1>3, <1>5
<1>9. \A c \in new : \A s \in DOMAIN c : F[s] = c[s]
  BY <1>2, <1>4, <1>5
<1>. QED
  BY <1>7, <1>8, <1>9 DEF F, C

\* The merged chunks of an insertion fit between the chunks it leaves alone.
LEMMA InsertFits ==
  ASSUME NEW metas, NEW chunks, Consistent(metas, chunks), NEW e, IsEntries(e)
  PROVE  Fits(chunks, InsertedKeys(metas, e), InsertedChunks(metas, chunks, e))
<1>. DEFINE merged(t) == MergedChunk(metas, chunks, YearGroup(e, t))
            new == InsertedChunks(metas, chunks, e)
            old == InsertedKeys(metas, e)
<1>1. \A t \in DOMAIN e : /\ IsChunk(merged(t)) /\ t \in DOMAIN merged(t)
                         /\ \A s \in DOMAIN merged(t) : SameYear(s, t)
  BY MergedChunkExact
<1>2. \A t, u \in DOMAIN e : SameYear(t, u) => merged(t) = merged(u)
  <2>1. \A t, u \in DOMAIN e : SameYear(t, u) => YearGroup(e, t) = YearGroup(e, u)
    BY DEF YearGroup, SameYear
  <2>. QED
    BY <2>1
<1>3. \A c \in new : \E t \in DOMAIN e : c = merged(t)
  BY DEF InsertedChunks
<1>. HIDE DEF merged, new
<1>4. \A b, c \in new : \A s \in DOMAIN b, u \in DOMAIN c : SameYear(s, u) <=> (b = c)
  <2>1. ASSUME NEW t \in DOMAIN e, NEW v \in DOMAIN e,
               NEW s \in DOMAIN merged(t), NEW u \in DOMAIN merged(v)
        PROVE  SameYear(s, u) <=> (merged(t) = merged(v))
    <3>1. SameYear(s, t) /\ SameYear(u, v)
      BY <1>1
    <3>2. merged(t) = merged(v) => SameYear(s, v)
      BY <1>1
    <3>. QED
      BY <1>2, <3>1, <3>2 DEF SameYear
  <2>. QED
    BY <1>3, <2>1
<1>5. ASSUME NEW t \in DOMAIN e, NEW k \in DOMAIN chunks \ old,
             NEW s \in DOMAIN merged(t), NEW u \in DOMAIN chunks[k]
      PROVE  ~SameYear(s, u)
  <2>1. SUFFICES ASSUME SameYear(u, t) PROVE FALSE
    BY <1>1 DEF SameYear
  <2>2. t \in Time
    BY DEF IsEntries
  <2>3. PICK j \in DOMAIN chunks : /\ getChunkMeta(metas, t) = {metas[j]}
                                   /\ \A r \in DOMAIN chunks[j] : SameYear(r, t)
    BY <2>1, <2>2, GetChunkMeta
  <2>4. j \in DOMAIN chunks[j] /\ metas[j].firstTimestamp = j
    BY KeysAreTimes
  <2>5. j = k
    BY <2>1, <2>3, <2>4 DEF Consistent, OneChunkPerYear, SameYear
  <2>6. j \in old
    BY <2>3, <2>4 DEF InsertedKeys, ReplacedKeys
  <2>. QED
    BY <2>5, <2>6
<1>. QED
  BY <1>1, <1>3, <1>4, <1>5 DEF Fits, new, old

\* The chunks an insertion replaces are those of the years of its entries.
LEMMA InsertedKeysExact ==
  ASSUME NEW metas, NEW chunks, Consistent(metas, chunks), NEW e, IsEntries(e)
  PROVE  InsertedKeys(metas, e) =
           {k \in DOMAIN chunks :
              \E t \in DOMAIN e : \A s \in DOMAIN chunks[k] : SameYear(s, t)}
<1>1. ASSUME NEW t \in DOMAIN e
      PROVE  ReplacedKeys(metas, t) =
               {k \in DOMAIN chunks : \A s \in DOMAIN chunks[k] : SameYear(s, t)}
  <2>1. t \in Time
    BY DEF IsEntries
  <2>2. \A k \in DOMAIN chunks : k \in DOMAIN chunks[k] /\ metas[k].firstTimestamp = k
    BY KeysAreTimes
  <2>3. CASE /\ getChunkMeta(metas, t) = {}
             /\ \A k \in DOMAIN chunks : \A s \in DOMAIN chunks[k] : ~SameYear(s, t)
    BY <2>2, <2>3 DEF ReplacedKeys
  <2>4. ASSUME NEW j \in DOMAIN chunks, getChunkMeta(metas, t) = {metas[j]},
               \A s \in DOMAIN chunks[j] : SameYear(s, t)
        PROVE  ReplacedKeys(metas, t) =
                 {k \in DOMAIN chunks : \A s \in DOMAIN chunks[k] : SameYear(s, t)}
    <3>1. ReplacedKeys(metas, t) = {j}
      BY <2>2, <2>4 DEF ReplacedKeys
    <3>2. \A k \in DOMAIN chunks : (\A s \in DOMAIN chunks[k] : SameYear(s, t)) => k = j
      BY <2>2, <2>4 DEF Consistent, OneChunkPerYear, SameYear
    <3>. QED
      BY <2>4, <3>1, <3>2
  <2>. QED
    BY <2>1, <2>3, <2>4, GetChunkMeta
<1>. QED
  BY <1>1 DEF InsertedKeys
\* An insertion leaves the stored series overwritten by the new entries: no
\* year is lost or doubled, and the old entries of a touched year survive.
LEMMA InsertSeries ==
  ASSUME NEW metas, NEW chunks, Consistent(metas, chunks), NEW e, IsEntries(e)
  PROVE  Series(ReplaceChunks(chunks, InsertedKeys(metas, e), InsertedChunks(metas, chunks, e)))
           = Overwrite(Series(chunks), e)
<1>. DEFINE old == InsertedKeys(metas, e)
            new == InsertedChunks(metas, chunks, e)
            merged(t) == MergedChunk(metas, chunks, YearGroup(e, t))
            kept == DOMAIN chunks \ old
            C == ReplaceChunks(chunks, old, new)
            F == Series(chunks)
            G == Series(C)
<1>1. Fits(chunks, old, new)
  BY InsertFits
<1>2. /\ \A s : s \in DOMAIN G <=>
               \/ \E k \in kept : s \in DOMAIN chunks[k]
               \/ \E c \in new : s \in DOMAIN c
      /\ \A k \in kept : \A s \in DOMAIN chunks[k] : G[s] = chunks[k][s]
      /\ \A c \in new : \A s \in DOMAIN c : G[s] = c[s]
  BY <1>1, ReplaceSeries
<1>3. /\ DOMAIN F = SeriesTimes(chunks)
      /\ \A k \in DOMAIN chunks : \A s \in DOMAIN chunks[k] :
           s \in SeriesTimes(chunks) /\ F[s] = chunks[k][s]
  BY SeriesByChunk
<1>4. \A s \in SeriesTimes(chunks) : \E k \in DOMAIN chunks : s \in DOMAIN chunks[k]
  BY DEF SeriesTimes
<1>5. \A t \in DOMAIN e :
        /\ merged(t) \in new
        /\ t \in DOMAIN merged(t)
        /\ \A s \in DOMAIN merged(t) : SameYear(s, t)
        /\ \A s \in DOMAIN e : SameYear(s, t) => s \in DOMAIN merged(t) /\ merged(t)[s] = e[s]
        /\ \A k \in DOMAIN chunks : \A s \in DOMAIN chunks[k] :
             SameYear(s, t) =>
               /\ s \in DOMAIN merged(t)
               /\ s \notin DOMAIN e => merged(t)[s] = chunks[k][s]
        /\ \A s \in DOMAIN merged(t) : s \notin DOMAIN e => s \in SeriesTimes(chunks)
  BY MergedChunkExact DEF InsertedChunks
<1>6. \A c \in new : \E t \in DOMAIN e : c = merged(t)
  BY DEF InsertedChunks
<1>7. \A k \in DOMAIN chunks :
        k \in old <=> \E t \in DOMAIN e : \A s \in DOMAIN chunks[k] : SameYear(s, t)
  BY InsertedKeysExact
<1>8. G = [s \in DOMAIN G |-> G[s]]
  BY DEF Series
<1>. HIDE DEF old, new, merged, C, F, G
<1>9. \A s : s \in DOMAIN G <=> s \in SeriesTimes(chunks) \/ s \in DOMAIN e
  <2>1. ASSUME NEW s \in DOMAIN G PROVE s \in SeriesTimes(chunks) \/ s \in DOMAIN e
    BY <1>2, <1>3, <1>5, <1>6
  <2>2. ASSUME NEW s \in DOMAIN e PROVE s \in DOMAIN G
    BY <1>2, <1>5
  <2>3. ASSUME NEW s \in SeriesTimes(chunks) PROVE s \in DOMAIN G
    <3>1. PICK k \in DOMAIN chunks : s \in DOMAIN chunks[k]
      BY <1>4
    <3>2. CASE k \in old
      BY <1>2, <1>5, <1>7, <3>1, <3>2
    <3>3. CASE k \in kept
      BY <1>2, <3>1, <3>3
    <3>. QED
      BY <3>2, <3>3
  <2>. QED
    BY <2>1, <2>2, <2>3
<1>10. \A s \in DOMAIN e : G[s] = e[s]
  BY <1>2, <1>5 DEF SameYear
<1>11. ASSUME NEW s \in SeriesTimes(chunks), s \notin DOMAIN e PROVE G[s] = F[s]
  <2>1. PICK k \in DOMAIN chunks : s \in DOMAIN chunks[k]
    BY <1>4
  <2>2. CASE k \in old
    <3>1. PICK t \in DOMAIN e : \A r \in DOMAIN chunks[k] : SameYear(r, t)
      BY <1>7, <2>2
    <3>2. s \in DOMAIN merged(t) /\ merged(t)[s] = chunks[k][s] /\ merged(t) \in new
      BY <1>5, <1>11, <2>1, <3>1
    <3>. QED
      BY <1>2, <1>3, <2>1, <3>2
  <2>3. CASE k \in kept
    BY <1>2, <1>3, <2>1, <2>3
  <2>. QED
    BY <2>2, <2>3
<1>12. G = Overwrite(F, e)
  <2>1. DOMAIN G = DOMAIN F \cup DOMAIN e
    BY <1>3, <1>9
  <2>2. \A s \in DOMAIN G : G[s] = IF s \in DOMAIN e THEN e[s] ELSE F[s]
    BY <1>9, <1>10, <1>11
  <2>. QED
    BY <1>8, <2>1, <2>2 DEF Overwrite
<1>. QED
  BY <1>12 DEF F, G, C, old, new

\* What removeInterval leaves of a chunk it cuts is a chunk: Chunk.of is never
\* given an empty array.
LEMMA RemainingChunk ==
  ASSUME NEW metas, NEW chunks, Consistent(metas, chunks),
         NEW start \in Time, NEW end \in Time,
         NEW k \in DOMAIN chunks, PartlyInside(metas[k], start, end)
  PROVE  LET c == removeIntervalInChunk(chunks[k], start, end)
         IN  /\ IsChunk(c)
             /\ DOMAIN c = {t \in DOMAIN chunks[k] : t < start \/ end < t}
             /\ \A t \in DOMAIN c : c[t] = chunks[k][t]
<1>. DEFINE c == removeIntervalInChunk(chunks[k], start, end)
            left == {t \in DOMAIN chunks[k] : t < start \/ end < t}
<1>1. DOMAIN c = left /\ \A t \in left : c[t] = chunks[k][t]
  BY DEF removeIntervalInChunk, Restrict
<1>2. IsChunk(chunks[k])
  BY DEF Consistent
<1>3. /\ metas[k].firstTimestamp \in DOMAIN chunks[k]
      /\ metas[k].lastTimestamp \in DOMAIN chunks[k]
      /\ DOMAIN chunks[k] \subseteq Time
  BY <1>2, KeysAreTimes, FirstLast
<1>4. left # {}
  <2>1. metas[k].firstTimestamp < start \/ end < metas[k].lastTimestamp
    BY <1>3 DEF PartlyInside, FullyInside, Time
  <2>. QED
    BY <1>3, <2>1
<1>5. c \in [left -> Value]
  <2>1. c = [t \in left |-> chunks[k][t]]
    BY DEF removeIntervalInChunk, Restrict
  <2>2. \A t \in left : chunks[k][t] \in Value
    BY <1>2 DEF IsChunk, IsEntries
  <2>. QED
    BY <2>1, <2>2
<1>. QED
  BY <1>1, <1>3, <1>4, <1>5 DEF IsChunk, IsEntries

\* The remainders of a removal fit between the chunks it leaves alone.
LEMMA RemoveFits ==
  ASSUME NEW metas, NEW chunks, Consistent(metas, chunks),
         NEW start \in Time, NEW end \in Time
  PROVE  Fits(chunks, RemovedKeys(metas, start, end),
              RemainingChunks(metas, chunks, start, end))
<1>. DEFINE old == RemovedKeys(metas, start, end)
            new == RemainingChunks(metas, chunks, start, end)
            rest(k) == removeIntervalInChunk(chunks[k], start, end)
            cut == {k \in DOMAIN metas : PartlyInside(metas[k], start, end)}
<1>1. \A k \in cut : /\ k \in DOMAIN chunks
                     /\ k \in old
                     /\ IsChunk(rest(k))
                     /\ DOMAIN rest(k) \subseteq DOMAIN chunks[k]
  <2>1. DOMAIN metas = DOMAIN chunks
    BY KeysAreTimes
  <2>2. ASSUME NEW k \in cut
        PROVE  k \in DOMAIN chunks /\ k \in old /\ PartlyInside(metas[k], start, end)
    BY <2>1 DEF RemovedKeys
  <2>3. ASSUME NEW k \in cut
        PROVE  /\ IsChunk(rest(k))
               /\ DOMAIN rest(k) = {t \in DOMAIN chunks[k] : t < start \/ end < t}
    <3>1. k \in DOMAIN chunks /\ PartlyInside(metas[k], start, end)
      BY <2>2
    <3>. QED
      BY <3>1, RemainingChunk
  <2>. HIDE DEF rest, cut, old
  <2>. QED
    BY <2>2, <2>3
<1>2. \A c \in new : \E k \in cut : c = rest(k)
  BY DEF RemainingChunks
<1>3. \A j, k \in DOMAIN chunks : \A s \in DOMAIN chunks[j], t \in DOMAIN chunks[k] :
        SameYear(s, t) <=> (j = k)
  BY DEF Consistent, OneChunkPerYear, SameYear
<1>4. \A k \in cut : \E s \in DOMAIN rest(k) : s \in DOMAIN chunks[k]
  BY <1>1 DEF IsChunk
<1>5. \A j, k \in cut : rest(j) = rest(k) => j = k
  <2>1. ASSUME NEW j \in cut, NEW k \in cut, rest(j) = rest(k) PROVE j = k
    <3>1. PICK s \in DOMAIN rest(j) : s \in DOMAIN chunks[j]
      BY <1>4
    <3>2. s \in DOMAIN chunks[k]
      BY <1>1, <2>1, <3>1
    <3>3. SameYear(s, s)
      BY DEF SameYear
    <3>. QED
      BY <1>1, <1>3, <3>1, <3>2, <3>3
  <2>. QED
    BY <2>1
<1>. HIDE DEF old, new, rest, cut
<1>6. \A b, c \in new : \A s \in DOMAIN b, t \in DOMAIN c : SameYear(s, t) <=> (b = c)
  <2>1. ASSUME NEW j \in cut, NEW k \in cut,
               NEW s \in DOMAIN rest(j), NEW t \in DOMAIN rest(k)
        PROVE  SameYear(s, t) <=> (rest(j) = rest(k))
    BY <1>1, <1>3, <1>5
  <2>. QED
    BY <1>2, <2>1
<1>7. \A c \in new, k \in DOMAIN chunks \ old :
        \A s \in DOMAIN c, t \in DOMAIN chunks[k] : ~SameYear(s, t)
  BY <1>1, <1>2, <1>3
<1>8. \A c \in new : IsChunk(c)
  BY <1>1, <1>2
<1>. QED
  BY <1>6, <1>7, <1>8 DEF Fits, old, new

Outside(f, start, end) == [t \in {t \in DOMAIN f : t < start \/ end < t} |-> f[t]]

\* A removal takes exactly the entries of the interval out of the series.
LEMMA RemoveSeries ==
  ASSUME NEW metas, NEW chunks, Consistent(metas, chunks),
         NEW start \in Time, NEW end \in Time
  PROVE  Series(ReplaceChunks(chunks, RemovedKeys(metas, start, end),
                              RemainingChunks(metas, chunks, start, end)))
           = Outside(Series(chunks), start, end)
<1>. DEFINE old == RemovedKeys(metas, start, end)
            new == RemainingChunks(metas, chunks, start, end)
            rest(k) == removeIntervalInChunk(chunks[k], start, end)
            cut == {k \in DOMAIN metas : PartlyInside(metas[k], start, end)}
            kept == DOMAIN chunks \ old
            out(t) == t < start \/ end < t
            C == ReplaceChunks(chunks, old, new)
            F == Series(chunks)
            G == Series(C)
<1>1. Fits(chunks, old, new)
  BY RemoveFits
<1>2. /\ \A s : s \in DOMAIN G <=>
               \/ \E k \in kept : s \in DOMAIN chunks[k]
               \/ \E c \in new : s \in DOMAIN c
      /\ \A k \in kept : \A s \in DOMAIN chunks[k] : G[s] = chunks[k][s]
      /\ \A c \in new : \A s \in DOMAIN c : G[s] = c[s]
  BY <1>1, ReplaceSeries
<1>3. /\ DOMAIN F = SeriesTimes(chunks)
      /\ \A k \in DOMAIN chunks : \A s \in DOMAIN chunks[k] :
           s \in SeriesTimes(chunks) /\ F[s] = chunks[k][s]
  BY SeriesByChunk
<1>4. \A s \in DOMAIN F : \E k \in DOMAIN chunks : s \in DOMAIN chunks[k]
  BY DEF Series, SeriesTimes
<1>5. \A k \in cut : /\ k \in DOMAIN chunks
                     /\ \A s : s \in DOMAIN rest(k) <=> s \in DOMAIN chunks[k] /\ out(s)
                     /\ \A s \in DOMAIN rest(k) : rest(k)[s] = chunks[k][s]
  <2>1. DOMAIN metas = DOMAIN chunks
    BY KeysAreTimes
  <2>2. ASSUME NEW k \in cut
        PROVE  k \in DOMAIN chunks /\ PartlyInside(metas[k], start, end)
    BY <2>1
  <2>3. ASSUME NEW k \in cut
        PROVE  /\ DOMAIN rest(k) = {t \in DOMAIN chunks[k] : t < start \/ end < t}
               /\ \A s \in DOMAIN rest(k) : rest(k)[s] = chunks[k][s]
    BY <2>2, RemainingChunk
  <2>. HIDE DEF rest, cut
  <2>. QED
    BY <2>2, <2>3
<1>6. \A k \in cut : rest(k) \in new
  BY DEF RemainingChunks
<1>7. \A c \in new : \E k \in cut : c = rest(k)
  BY DEF RemainingChunks
<1>8. /\ \A k \in kept : \A s \in DOMAIN chunks[k] : out(s)
      /\ \A k \in old : k \notin cut => \A s \in DOMAIN chunks[k] : ~out(s)
  <2>1. \A k \in DOMAIN chunks :
          /\ \A s \in DOMAIN chunks[k] :
               /\ s \in Time
               /\ metas[k].firstTimestamp <= s
               /\ s <= metas[k].lastTimestamp
          /\ metas[k].firstTimestamp \in Time
          /\ metas[k].lastTimestamp \in Time
    <3>1. \A k \in DOMAIN chunks :
            /\ IsChunk(chunks[k])
            /\ metas[k].firstTimestamp = First(chunks[k])
            /\ metas[k].lastTimestamp = Last(chunks[k])
      BY DEF Consistent, MetaExact, MetaOf
    <3>. QED
      BY <3>1, FirstLast
  <2>2. DOMAIN metas = DOMAIN chunks
    BY KeysAreTimes
  <2>3. ASSUME NEW k \in kept, NEW s \in DOMAIN chunks[k] PROVE out(s)
    <3>1. ~FullyInside(metas[k], start, end) /\ ~PartlyInside(metas[k], start, end)
      BY <2>2 DEF RemovedKeys
    <3>2. metas[k].lastTimestamp < start \/ end < metas[k].firstTimestamp
      BY <2>1, <3>1 DEF PartlyInside, Time
    <3>. QED
      BY <2>1, <3>2 DEF Time
  <2>4. ASSUME NEW k \in old, k \notin cut, NEW s \in DOMAIN chunks[k] PROVE ~out(s)
    <3>1. k \in DOMAIN chunks /\ FullyInside(metas[k], start, end)
      BY <2>2, <2>4 DEF RemovedKeys
    <3>. QED
      BY <2>1, <3>1 DEF FullyInside, Time
  <2>. QED
    BY <2>3, <2>4
<1>9. \A k \in cut : k \in old
  BY DEF RemovedKeys
<1>10. G = [s \in DOMAIN G |-> G[s]]
  BY DEF Series
<1>. HIDE DEF old, new, rest, cut, out, C, F, G
<1>11. \A s : s \in DOMAIN G <=> s \in DOMAIN F /\ out(s)
  <2>1. ASSUME NEW s \in DOMAIN G PROVE s \in DOMAIN F /\ out(s)
    BY <1>2, <1>3, <1>5, <1>7, <1>8
  <2>2. ASSUME NEW s \in DOMAIN F, out(s) PROVE s \in DOMAIN G
    <3>1. PICK k \in DOMAIN chunks : s \in DOMAIN chunks[k]
      BY <1>4
    <3>. QED
      BY <1>2, <1>5, <1>6, <1>8, <2>2, <3>1
  <2>. QED
    BY <2>1, <2>2
<1>12. \A s \in DOMAIN G : G[s] = F[s]
  BY <1>2, <1>3, <1>5, <1>7
<1>13. DOMAIN G = {t \in DOMAIN F : t < start \/ end < t}
  BY <1>11 DEF out
<1>14. G = [t \in {t \in DOMAIN F : t < start \/ end < t} |-> F[t]]
  BY <1>10, <1>12, <1>13
<1>. QED
  BY <1>14 DEF Outside, F, G, C, old, new

-----------------------------------------------------------------------------
(* Requests.                                                               *)

\* What insertSensorData stores of a request are entries of a time series:
\* nothing before the epoch, whatever timestamps and order it was given.
LEMMA AcceptedType ==
  ASSUME NEW n \in Nat,
         NEW entries \in [1..n -> [timestamp : -1..MaxTime, value : Value]]
  PROVE  IsEntries(Accepted(entries))
<1>. DEFINE indices == AcceptedIndices(entries)
            bad == Unordered(entries)
            times == {entries[i].timestamp : i \in indices}
            pick(t) == CHOOSE i \in indices : entries[i].timestamp = t
<1>1. \A i \in 1..n : entries[i].timestamp \in -1..MaxTime /\ entries[i].value \in Value
  OBVIOUS
<1>2. indices \subseteq (1..n) \ bad
  <2>1. CASE bad = {}
    BY <2>1 DEF AcceptedIndices
  <2>2. CASE bad # {}
    <3>1. bad \subseteq 1..n /\ bad \subseteq 0..n
      BY DEF Unordered
    <3>2. Min(bad) \in bad /\ \A x \in bad : Min(bad) <= x
      BY <2>2, <3>1, MinOfSegment
    <3>3. \A i \in indices : i \in 1..(Min(bad) - 1)
      BY <2>2 DEF AcceptedIndices
    <3>. QED
      BY <3>1, <3>2, <3>3
  <2>. QED
    BY <2>1, <2>2
<1>3. \A i \in indices : entries[i].timestamp \in Time
  <2>1. ASSUME NEW i \in 1..n, i \notin bad PROVE entries[i].timestamp \in Time
    <3>1. ~(entries[i].timestamp <= IF i = 1 THEN -1 ELSE entries[i - 1].timestamp)
      BY <2>1 DEF Unordered
    <3>2. i # 1 => entries[i - 1].timestamp \in -1..MaxTime
      BY <1>1
    <3>. QED
      BY <1>1, <3>1, <3>2, TimeAssumption DEF Time
  <2>. QED
    BY <1>2, <2>1
<1>4. \A t \in times : pick(t) \in indices
  OBVIOUS
<1>5. Accepted(entries) = [t \in times |-> entries[pick(t)].value]
  BY DEF Accepted
<1>. HIDE DEF indices, bad, pick
<1>6. \A t \in times : t \in Time /\ entries[pick(t)].value \in Value
  BY <1>1, <1>2, <1>3, <1>4
<1>. HIDE DEF times
<1>. QED
  BY <1>5, <1>6 DEF IsEntries

-----------------------------------------------------------------------------
(***************************************************************************)
(* Queries of a consistent stream.                                         *)
(***************************************************************************)

\* Chunks follow each other: all of a chunk lies before the next key.
LEMMA ChunksInOrder ==
  ASSUME NEW metas, NEW chunks, Consistent(metas, chunks),
         NEW j \in DOMAIN chunks, NEW k \in DOMAIN chunks, j < k
  PROVE  Last(chunks[j]) < k
<1>1. /\ j \in Time /\ k \in Time
      /\ j \in DOMAIN chunks[j] /\ k \in DOMAIN chunks[k]
  BY KeysAreTimes
<1>2. Last(chunks[j]) \in DOMAIN chunks[j] /\ Last(chunks[j]) \in Time
  BY FirstLast DEF Consistent
<1>3. SameYear(Last(chunks[j]), j) /\ ~SameYear(k, j)
  BY <1>1, <1>2 DEF Consistent, OneChunkPerYear, SameYear, Time
<1>4. Last(chunks[j]) < roundNextYear[j] /\ roundLowerYear[j] <= j
  <2>1. \A s, t \in Time : SameYear(s, t) => roundLowerYear[t] <= s /\ s < roundNextYear[t]
    BY YearAssumption DEF SameYear, Time
  <2>. QED
    BY <1>1, <1>2, <1>3, <2>1 DEF SameYear
<1>5. ~(k < roundNextYear[j])
  BY <1>1, <1>3, <1>4, YearAssumption DEF SameYear, Time
<1>. QED
  BY <1>1, <1>2, <1>4, <1>5, YearAssumption DEF Time

\* The metadata iterator visits exactly the chunks that meet the window.
LEMMA IteratorMeetsWindow ==
  ASSUME NEW metas, NEW chunks, Consistent(metas, chunks),
         NEW min \in Window, NEW max \in Window
  PROVE  ChunkMetaIterator(metas, min, max) =
           {k \in DOMAIN chunks : min <= Last(chunks[k]) /\ k <= max}
<1>. DEFINE reached == {k \in DOMAIN metas : min <= metas[k].lastTimestamp}
<1>1. /\ DOMAIN metas = DOMAIN chunks /\ DOMAIN chunks \subseteq Time
      /\ \A k \in DOMAIN chunks : /\ metas[k].firstTimestamp = k
                                  /\ metas[k].lastTimestamp = Last(chunks[k])
  BY KeysAreTimes
<1>2. \A k \in DOMAIN chunks : Last(chunks[k]) \in Time /\ k <= Last(chunks[k])
  BY FirstLast DEF Consistent, MetaExact
<1>3. \A j, k \in DOMAIN chunks : j < k => Last(chunks[j]) < k
  BY ChunksInOrder
<1>4. min \in Int /\ max \in Int
  BY TimeAssumption DEF Window, IntegerMIN, IntegerMAX
<1>5. reached # {} => Min(reached) \in reached /\ \A x \in reached : Min(reached) <= x
  BY <1>1, MinOfTime
<1>6. ASSUME NEW k \in DOMAIN chunks, reached # {}, Min(reached) <= k,
             \A j \in DOMAIN metas : Min(reached) <= j /\ j <= k => metas[j].firstTimestamp <= max
      PROVE  min <= Last(chunks[k]) /\ k <= max
  <2>. DEFINE r == Min(reached)
  <2>1. r \in DOMAIN chunks /\ min <= Last(chunks[r]) /\ r <= k
    BY <1>1, <1>5, <1>6
  <2>2. k <= max
    BY <1>1, <1>6 DEF Time
  <2>3. Last(chunks[r]) <= Last(chunks[k])
    <3>. HIDE DEF r
    <3>. QED
      BY <1>1, <1>2, <1>3, <2>1 DEF Time
  <2>. HIDE DEF r
  <2>. QED
    BY <1>1, <1>2, <1>4, <2>1, <2>2, <2>3 DEF Time
<1>7. ASSUME NEW k \in DOMAIN chunks, min <= Last(chunks[k]), k <= max
      PROVE  /\ reached # {} /\ Min(reached) <= k
             /\ \A j \in DOMAIN metas : Min(reached) <= j /\ j <= k => metas[j].firstTimestamp <= max
  <2>1. k \in reached
    BY <1>1, <1>7
  <2>2. \A j \in DOMAIN metas : j <= k => metas[j].firstTimestamp <= max
    BY <1>1, <1>4, <1>7 DEF Time
  <2>. QED
    BY <1>5, <2>1, <2>2
<1>. QED
  BY <1>1, <1>6, <1>7 DEF ChunkMetaIterator

\* The ends of the window are cut to the stored data.
LEMMA CutWindow ==
  ASSUME NEW metas, NEW chunks, Consistent(metas, chunks), DOMAIN chunks # {},
         NEW min \in Window, NEW max \in Window
  PROVE  LET lo == getDataMinTimestamp(metas, min)
             hi == getDataMaxTimestamp(metas, max)
         IN  /\ lo \in Int /\ hi \in Int
             /\ \A k \in DOMAIN chunks : \A t \in DOMAIN chunks[k] :
                  (lo <= t /\ t <= hi) <=> (min <= t /\ t <= max)
<1>. DEFINE first == Min(DOMAIN metas)
            last == Max(DOMAIN metas)
<1>1. /\ DOMAIN metas = DOMAIN chunks /\ DOMAIN chunks \subseteq Time
      /\ \A k \in DOMAIN chunks : /\ metas[k].firstTimestamp = k
                                  /\ metas[k].lastTimestamp = Last(chunks[k])
  BY KeysAreTimes
<1>2. \A k \in DOMAIN chunks :
        /\ Last(chunks[k]) \in Time
        /\ \A t \in DOMAIN chunks[k] : t \in Time /\ k <= t /\ t <= Last(chunks[k])
  BY FirstLast DEF Consistent, MetaExact
<1>3. \A j, k \in DOMAIN chunks : j < k => Last(chunks[j]) < k
  BY ChunksInOrder
<1>4. min \in Int /\ max \in Int
  BY TimeAssumption DEF Window, IntegerMIN, IntegerMAX
<1>5. first \in DOMAIN chunks /\ \A k \in DOMAIN chunks : first <= k
  BY <1>1, MinOfTime
<1>6. last \in DOMAIN chunks /\ \A k \in DOMAIN chunks : k <= last
  BY <1>1, MaxOfTime
<1>7. getDataMinTimestamp(metas, min) = Max({min, first})
  BY <1>1, <1>5 DEF getDataMinTimestamp
<1>8. getDataMaxTimestamp(metas, max) = Min({max, Last(chunks[last])})
  BY <1>1, <1>6 DEF getDataMaxTimestamp
<1>. HIDE DEF first, last
<1>9. Max({min, first}) = IF min <= first THEN first ELSE min
  BY <1>1, <1>4, <1>5 DEF Max, Time
<1>10. Min({max, Last(chunks[last])}) = IF max <= Last(chunks[last]) THEN max ELSE Last(chunks[last])
  BY <1>2, <1>4, <1>6 DEF Min, Time
<1>11. \A k \in DOMAIN chunks : \A t \in DOMAIN chunks[k] :
         t \in Time /\ first <= t /\ t <= Last(chunks[last])
  <2>1. ASSUME NEW k \in DOMAIN chunks
        PROVE  Last(chunks[k]) <= Last(chunks[last])
    <3>1. k \in Time /\ last \in Time /\ Last(chunks[k]) \in Time /\ Last(chunks[last]) \in Time
      BY <1>1, <1>2, <1>6
    <3>2. last \in DOMAIN chunks[last] /\ last <= Last(chunks[last])
      BY <1>2, <1>6, KeysAreTimes
    <3>3. k = last \/ k < last
      BY <1>6, <3>1 DEF Time
    <3>4. k < last => Last(chunks[k]) < last
      BY <1>3, <1>6
    <3>. QED
      BY <3>1, <3>2, <3>3, <3>4 DEF Time
  <2>. QED
    BY <1>1, <1>2, <1>5, <1>6, <2>1 DEF Time
<1>12. first \in Int /\ Last(chunks[last]) \in Int
  BY <1>1, <1>2, <1>5, <1>6 DEF Time
<1>. QED
  BY <1>4, <1>7, <1>8, <1>9, <1>10, <1>11, <1>12 DEF Time

\* Whichever of the three iterators a chunk gets, it delivers the entries of the interval.
LEMMA PartOfChunk ==
  ASSUME NEW c, IsChunk(c), NEW lo \in Int, NEW hi \in Int
  PROVE  ChunkPart(MetaOf(c), c, lo, hi) = {t \in DOMAIN c : lo <= t /\ t <= hi}
<1>1. /\ First(c) \in Time /\ Last(c) \in Time
      /\ \A t \in DOMAIN c : t \in Time /\ First(c) <= t /\ t <= Last(c)
  BY FirstLast
<1>2. CASE Last(c) <= hi /\ lo <= First(c)
  BY <1>1, <1>2 DEF ChunkPart, MetaOf, Time
<1>3. CASE Last(c) <= hi /\ ~(lo <= First(c))
  BY <1>1, <1>3 DEF ChunkPart, MetaOf, Time
<1>4. CASE ~(Last(c) <= hi)
  BY <1>1, <1>4 DEF ChunkPart, MetaOf, Time
<1>. QED
  BY <1>2, <1>3, <1>4

\* The same for the interval that the query makes of the ends, which may be empty.
LEMMA PartOfWindow ==
  ASSUME NEW metas, NEW chunks, Consistent(metas, chunks), NEW k \in DOMAIN chunks,
         NEW min \in Window, NEW max \in Window
  PROVE  LET q == QueryInterval(getDataMinTimestamp(metas, min), getDataMaxTimestamp(metas, max))
         IN  ChunkPart(metas[k], chunks[k], q[1], q[2])
               = {t \in DOMAIN chunks[k] : min <= t /\ t <= max}
<1>. DEFINE lo == getDataMinTimestamp(metas, min)
            hi == getDataMaxTimestamp(metas, max)
            q == QueryInterval(lo, hi)
<1>1. IsChunk(chunks[k]) /\ metas[k] = MetaOf(chunks[k])
  BY DEF Consistent, MetaExact
<1>2. /\ lo \in Int /\ hi \in Int
      /\ \A t \in DOMAIN chunks[k] : (lo <= t /\ t <= hi) <=> (min <= t /\ t <= max)
  BY CutWindow
<1>3. \A t \in DOMAIN chunks[k] : t \in Time
  BY <1>1, FirstLast
<1>. HIDE DEF lo, hi
<1>4. CASE lo <= hi
  <2>1. q[1] = lo /\ q[2] = hi
    BY <1>4 DEF QueryInterval
  <2>2. ChunkPart(metas[k], chunks[k], q[1], q[2]) = {t \in DOMAIN chunks[k] : lo <= t /\ t <= hi}
    BY <1>1, <1>2, <2>1, PartOfChunk
  <2>. QED
    BY <1>2, <2>2 DEF lo, hi
<1>5. CASE ~(lo <= hi)
  <2>1. q[1] = -1 /\ q[2] = -1
    BY <1>5 DEF QueryInterval
  <2>2. ChunkPart(metas[k], chunks[k], q[1], q[2])
          = {t \in DOMAIN chunks[k] : q[1] <= t /\ t <= q[2]}
    <3>. HIDE DEF q
    <3>. QED
      BY <1>1, <2>1, PartOfChunk
  <2>3. \A t \in DOMAIN chunks[k] : ~(q[1] <= t /\ t <= q[2])
    BY <1>3, <2>1 DEF Time
  <2>4. \A t \in DOMAIN chunks[k] : ~(min <= t /\ t <= max)
    BY <1>2, <1>3, <1>5 DEF Time
  <2>. QED
    BY <2>2, <2>3, <2>4 DEF lo, hi
<1>. QED
  BY <1>4, <1>5 DEF lo, hi

\* StreamIterator delivers the entries of the window, each with its value.
LEMMA StreamIteratorExact ==
  ASSUME NEW metas, NEW chunks, Consistent(metas, chunks),
         NEW min \in Window, NEW max \in Window
  PROVE  LET f == Series(chunks)
         IN  StreamIterator(metas, chunks, min, max)
               = {<<t, f[t]>> : t \in {t \in DOMAIN f : min <= t /\ t <= max}}
<1>. DEFINE f == Series(chunks)
            keys == ChunkMetaIterator(metas, min, max)
            q == QueryInterval(getDataMinTimestamp(metas, min), getDataMaxTimestamp(metas, max))
            part(k) == ChunkPart(metas[k], chunks[k], q[1], q[2])
            all == {<<t, f[t]>> : t \in {t \in DOMAIN f : min <= t /\ t <= max}}
<1>1. /\ DOMAIN f = SeriesTimes(chunks)
      /\ \A k \in DOMAIN chunks : \A t \in DOMAIN chunks[k] : t \in DOMAIN f /\ f[t] = chunks[k][t]
  BY SeriesByChunk
<1>2. \A t \in DOMAIN f : \E k \in DOMAIN chunks : t \in DOMAIN chunks[k]
  BY <1>1 DEF SeriesTimes
<1>3. keys = {k \in DOMAIN chunks : min <= Last(chunks[k]) /\ k <= max}
  BY IteratorMeetsWindow
<1>4. \A k \in DOMAIN chunks : part(k) = {t \in DOMAIN chunks[k] : min <= t /\ t <= max}
  BY PartOfWindow
<1>5. \A k \in DOMAIN chunks : \A t \in DOMAIN chunks[k] :
        min <= t /\ t <= max => k \in keys
  <2>1. min \in Int /\ max \in Int
    BY TimeAssumption DEF Window, IntegerMIN, IntegerMAX
  <2>2. \A k \in DOMAIN chunks : /\ k \in Time /\ Last(chunks[k]) \in Time
                                 /\ \A t \in DOMAIN chunks[k] : t \in Time /\ k <= t /\ t <= Last(chunks[k])
    BY FirstLast DEF Consistent, MetaExact
  <2>. QED
    BY <1>3, <2>1, <2>2 DEF Time
<1>6. StreamIterator(metas, chunks, min, max) = UNION {{<<t, chunks[k][t]>> : t \in part(k)} : k \in keys}
  BY DEF StreamIterator
<1>. HIDE DEF f, keys, q, part
<1>7. \A e \in UNION {{<<t, chunks[k][t]>> : t \in part(k)} : k \in keys} : e \in all
  <2>1. ASSUME NEW k \in keys, NEW t \in part(k)
        PROVE  <<t, chunks[k][t]>> \in all
    <3>1. k \in DOMAIN chunks
      BY <1>3
    <3>. QED
      BY <1>1, <1>4, <3>1
  <2>. QED
    BY <2>1
<1>8. ASSUME NEW t \in DOMAIN f, min <= t, t <= max
      PROVE  <<t, f[t]>> \in UNION {{<<s, chunks[k][s]>> : s \in part(k)} : k \in keys}
  <2>1. PICK k \in DOMAIN chunks : t \in DOMAIN chunks[k]
    BY <1>2
  <2>2. k \in keys /\ t \in part(k) /\ f[t] = chunks[k][t]
    BY <1>1, <1>4, <1>5, <1>8, <2>1
  <2>. QED
    BY <2>2
<1>9. \A e \in all : e \in UNION {{<<t, chunks[k][t]>> : t \in part(k)} : k \in keys}
  BY <1>8
<1>10. UNION {{<<t, chunks[k][t]>> : t \in part(k)} : k \in keys} = all
  <2>. HIDE DEF all
  <2>. QED
    BY <1>7, <1>9
<1>. QED
  BY <1>6, <1>10 DEF f

-----------------------------------------------------------------------------
(* Time intervals                                                          *)

\* The timestamps of a stream in a window.
InWindow(chunks, min, max) == {t \in SeriesTimes(chunks) : min <= t /\ t <= max}

\* The chunks that the iterator visits: what is known of them and of the window.
LEMMA ChunksOfWindow ==
  ASSUME NEW metas, NEW chunks, Consistent(metas, chunks), NEW min \in Time, NEW max \in Time
  PROVE  LET keys == ChunkMetaIterator(metas, min, max)
             W == InWindow(chunks, min, max)
         IN  /\ keys \subseteq DOMAIN chunks /\ keys \subseteq Time
             /\ W \subseteq Time
             /\ \A k \in keys :
                  /\ metas[k].firstTimestamp = k /\ metas[k].lastTimestamp = Last(chunks[k])
                  /\ k \in DOMAIN chunks[k] /\ Last(chunks[k]) \in DOMAIN chunks[k]
                  /\ min <= Last(chunks[k]) /\ k <= max
             /\ \A k \in keys : \A t \in DOMAIN chunks[k] :
                  /\ t \in Time /\ k <= t /\ t <= Last(chunks[k])
                  /\ t \in W <=> (min <= t /\ t <= max)
             /\ \A t \in W : \E k \in keys : t \in DOMAIN chunks[k]
             /\ \A j, k \in keys : j < k => Last(chunks[j]) < k
<1>. DEFINE keys == ChunkMetaIterator(metas, min, max)
            W == InWindow(chunks, min, max)
<1>1. keys = {k \in DOMAIN chunks : min <= Last(chunks[k]) /\ k <= max}
  <2>1. min \in Window /\ max \in Window
    BY TimeAssumption DEF Window, IntegerMIN, IntegerMAX, Time
  <2>. QED
    BY <2>1, IteratorMeetsWindow
<1>2. /\ DOMAIN chunks \subseteq Time
      /\ \A k \in DOMAIN chunks : /\ k \in DOMAIN chunks[k]
                                  /\ metas[k].firstTimestamp = k
                                  /\ metas[k].lastTimestamp = Last(chunks[k])
  BY KeysAreTimes
<1>3. \A k \in DOMAIN chunks :
        /\ Last(chunks[k]) \in DOMAIN chunks[k]
        /\ \A t \in DOMAIN chunks[k] : t \in Time /\ k <= t /\ t <= Last(chunks[k])
  BY FirstLast DEF Consistent, MetaExact
<1>4. \A t : t \in W <=> (min <= t /\ t <= max /\ \E k \in DOMAIN chunks : t \in DOMAIN chunks[k])
  BY DEF InWindow, SeriesTimes
<1>5. \A j, k \in DOMAIN chunks : j < k => Last(chunks[j]) < k
  BY ChunksInOrder
<1>. HIDE DEF keys, W
<1>6. \A t \in W : \E k \in keys : t \in DOMAIN chunks[k]
  <2>. SUFFICES ASSUME NEW t \in W
                PROVE  \E k \in keys : t \in DOMAIN chunks[k]
    OBVIOUS
  <2>1. PICK k \in DOMAIN chunks : t \in DOMAIN chunks[k]
    BY <1>4
  <2>2. /\ t \in Time /\ k \in Time /\ Last(chunks[k]) \in Time
        /\ k <= t /\ t <= Last(chunks[k]) /\ min <= t /\ t <= max
    BY <1>2, <1>3, <1>4, <2>1
  <2>3. min <= Last(chunks[k]) /\ k <= max
    BY <2>2 DEF Time
  <2>. QED
    BY <1>1, <2>1, <2>3
<1>7. W \subseteq Time
  BY <1>3, <1>4
<1>8. \A k \in keys : \A t \in DOMAIN chunks[k] : t \in W <=> (min <= t /\ t <= max)
  BY <1>1, <1>4
<1>. QED
  BY <1>1, <1>2, <1>3, <1>5, <1>6, <1>7, <1>8 DEF keys, W

\* The first chunk that gives an answer has the first entry of the window, or there is none.
LEMMA TimeMinExact ==
  ASSUME NEW metas, NEW chunks, Consistent(metas, chunks), NEW min \in Time, NEW max \in Time
  PROVE  LET W == InWindow(chunks, min, max)
             v == getSensorTimeMin(metas, chunks, min, max)
         IN  \/ W = {} /\ v = IntegerMAX
             \/ v \in W /\ \A t \in W : v <= t
<1>. DEFINE keys == ChunkMetaIterator(metas, min, max)
            W == InWindow(chunks, min, max)
            v == getSensorTimeMin(metas, chunks, min, max)
            From(k) == {t \in DOMAIN chunks[k] : min <= t}
            Hit(k) == min <= metas[k].firstTimestamp /\ metas[k].firstTimestamp <= max
            answers == {k \in keys : Hit(k) \/ From(k) # {}}
<1>1. /\ keys \subseteq Time /\ W \subseteq Time
      /\ \A k \in keys :
           /\ metas[k].firstTimestamp = k
           /\ k \in DOMAIN chunks[k] /\ Last(chunks[k]) \in DOMAIN chunks[k]
           /\ min <= Last(chunks[k]) /\ k <= max
      /\ \A k \in keys : \A t \in DOMAIN chunks[k] :
           /\ t \in Time /\ k <= t /\ t <= Last(chunks[k])
           /\ t \in W <=> (min <= t /\ t <= max)
      /\ \A t \in W : \E k \in keys : t \in DOMAIN chunks[k]
      /\ \A j, k \in keys : j < k => Last(chunks[j]) < k
  BY ChunksOfWindow
<1>2. answers = keys
  BY <1>1
<1>3. v = IF keys = {} THEN IntegerMAX
          ELSE IF Hit(Min(keys)) THEN metas[Min(keys)].firstTimestamp
               ELSE IF max < Min(From(Min(keys))) THEN IntegerMAX ELSE Min(From(Min(keys)))
  BY <1>2 DEF getSensorTimeMin
<1>. HIDE DEF keys, W, v, answers
<1>4. CASE keys = {}
  BY <1>1, <1>3, <1>4 DEF v, W
<1>5. CASE keys # {}
  <2>. DEFINE k == Min(keys)
              m == Min(From(k))
  <2>1. k \in keys /\ \A j \in keys : k <= j
    BY <1>1, <1>5, MinOfTime
  <2>. HIDE DEF k
  <2>2. From(k) \subseteq Time /\ Last(chunks[k]) \in From(k)
    BY <1>1, <2>1
  <2>3. m \in From(k) /\ \A t \in From(k) : m <= t
    <3>. HIDE DEF From
    <3>. QED
      BY <2>2, MinOfTime
  <2>. HIDE DEF m
  <2>4. /\ k \in Time /\ m \in Time /\ Last(chunks[k]) \in Time /\ m \in DOMAIN chunks[k]
        /\ min <= m /\ m <= Last(chunks[k]) /\ k <= m
    BY <1>1, <2>1, <2>2, <2>3
  <2>5. \A t \in W : t \in Time /\ min <= t /\ t <= max /\ k <= t /\ m <= t
    <3>. SUFFICES ASSUME NEW t \in W
                  PROVE  t \in Time /\ min <= t /\ t <= max /\ k <= t /\ m <= t
      OBVIOUS
    <3>1. PICK j \in keys : t \in DOMAIN chunks[j]
      BY <1>1
    <3>2. t \in Time /\ min <= t /\ t <= max /\ j <= t /\ j \in Time /\ k <= j
      BY <1>1, <2>1, <3>1
    <3>3. CASE j = k
      BY <2>3, <3>1, <3>2, <3>3
    <3>4. CASE k < j
      <4>1. Last(chunks[k]) < j
        BY <1>1, <2>1, <3>4
      <4>. QED
        BY <2>4, <3>2, <4>1 DEF Time
    <3>. QED
      BY <2>4, <3>2, <3>3, <3>4 DEF Time
  <2>6. CASE Hit(k)
    <3>1. v = k
      BY <1>1, <1>3, <1>5, <2>1, <2>6 DEF k
    <3>2. k \in W
      BY <1>1, <2>1, <2>6
    <3>. QED
      BY <2>5, <3>1, <3>2 DEF v, W
  <2>7. CASE ~Hit(k) /\ max < m
    <3>1. v = IntegerMAX
      BY <1>3, <1>5, <2>7 DEF k, m
    <3>2. W = {}
      BY <2>4, <2>5, <2>7 DEF Time
    <3>. QED
      BY <3>1, <3>2 DEF v, W
  <2>8. CASE ~Hit(k) /\ ~(max < m)
    <3>1. v = m
      BY <1>3, <1>5, <2>8 DEF k, m
    <3>2. m \in W
      BY <1>1, <2>1, <2>4, <2>8 DEF Time
    <3>. QED
      BY <2>5, <3>1, <3>2 DEF v, W
  <2>. QED
    BY <2>6, <2>7, <2>8
<1>. QED
  BY <1>4, <1>5

\* The last chunk that gives an answer has the last entry of the window, or there is none.
LEMMA TimeMaxExact ==
  ASSUME NEW metas, NEW chunks, Consistent(metas, chunks), NEW min \in Time, NEW max \in Time
  PROVE  LET W == InWindow(chunks, min, max)
             v == getSensorTimeMax(metas, chunks, min, max)
         IN  \/ W = {} /\ v = IntegerMIN
             \/ v \in W /\ \A t \in W : t <= v
<1>. DEFINE keys == ChunkMetaIterator(metas, min, max)
            W == InWindow(chunks, min, max)
            v == getSensorTimeMax(metas, chunks, min, max)
            UpTo(k) == {t \in DOMAIN chunks[k] : t <= max}
            Hit(k) == min <= metas[k].lastTimestamp /\ metas[k].lastTimestamp <= max
            answers == {k \in keys : Hit(k) \/ UpTo(k) # {}}
<1>1. /\ keys \subseteq Time /\ W \subseteq Time
      /\ \A k \in keys :
           /\ metas[k].lastTimestamp = Last(chunks[k])
           /\ k \in DOMAIN chunks[k] /\ Last(chunks[k]) \in DOMAIN chunks[k]
           /\ min <= Last(chunks[k]) /\ k <= max
      /\ \A k \in keys : \A t \in DOMAIN chunks[k] :
           /\ t \in Time /\ k <= t /\ t <= Last(chunks[k])
           /\ t \in W <=> (min <= t /\ t <= max)
      /\ \A t \in W : \E k \in keys : t \in DOMAIN chunks[k]
      /\ \A j, k \in keys : j < k => Last(chunks[j]) < k
  BY ChunksOfWindow
<1>2. answers = keys
  BY <1>1
<1>3. v = IF keys = {} THEN IntegerMIN
          ELSE IF Hit(Max(keys)) THEN metas[Max(keys)].lastTimestamp
               ELSE IF Max(UpTo(Max(keys))) < min THEN IntegerMIN ELSE Max(UpTo(Max(keys)))
  BY <1>2 DEF getSensorTimeMax
<1>. HIDE DEF keys, W, v, answers
<1>4. CASE keys = {}
  BY <1>1, <1>3, <1>4 DEF v, W
<1>5. CASE keys # {}
  <2>. DEFINE k == Max(keys)
              m == Max(UpTo(k))
  <2>1. k \in keys /\ \A j \in keys : j <= k
    BY <1>1, <1>5, MaxOfTime
  <2>. HIDE DEF k
  <2>2. UpTo(k) \subseteq Time /\ k \in UpTo(k)
    BY <1>1, <2>1
  <2>3. m \in UpTo(k) /\ \A t \in UpTo(k) : t <= m
    <3>. HIDE DEF UpTo
    <3>. QED
      BY <2>2, MaxOfTime
  <2>. HIDE DEF m
  <2>4. /\ k \in Time /\ m \in Time /\ Last(chunks[k]) \in Time /\ m \in DOMAIN chunks[k]
        /\ m <= max /\ m <= Last(chunks[k]) /\ k <= m
    BY <1>1, <2>1, <2>2, <2>3
  <2>5. \A t \in W : t \in Time /\ min <= t /\ t <= max /\ t <= Last(chunks[k]) /\ t <= m
    <3>. SUFFICES ASSUME NEW t \in W
                  PROVE  t \in Time /\ min <= t /\ t <= max /\ t <= Last(chunks[k]) /\ t <= m
      OBVIOUS
    <3>1. PICK j \in keys : t \in DOMAIN chunks[j]
      BY <1>1
    <3>2. /\ t \in Time /\ min <= t /\ t <= max /\ t <= Last(chunks[j])
          /\ j \in Time /\ Last(chunks[j]) \in Time /\ j <= k
      BY <1>1, <2>1, <3>1
    <3>3. CASE j = k
      BY <2>3, <3>1, <3>2, <3>3
    <3>4. CASE j < k
      <4>1. Last(chunks[j]) < k
        BY <1>1, <2>1, <3>4
      <4>. QED
        BY <2>4, <3>2, <4>1 DEF Time
    <3>. QED
      BY <2>4, <3>2, <3>3, <3>4 DEF Time
  <2>6. CASE Hit(k)
    <3>1. v = Last(chunks[k])
      BY <1>1, <1>3, <1>5, <2>1, <2>6 DEF k
    <3>2. Last(chunks[k]) \in W
      BY <1>1, <2>1, <2>6
    <3>. QED
      BY <2>5, <3>1, <3>2 DEF v, W
  <2>7. CASE ~Hit(k) /\ m < min
    <3>1. v = IntegerMIN
      BY <1>3, <1>5, <2>7 DEF k, m
    <3>2. W = {}
      BY <2>4, <2>5, <2>7 DEF Time
    <3>. QED
      BY <3>1, <3>2 DEF v, W
  <2>8. CASE ~Hit(k) /\ ~(m < min)
    <3>1. v = m
      BY <1>3, <1>5, <2>8 DEF k, m
    <3>2. m \in W
      BY <1>1, <2>1, <2>4, <2>8 DEF Time
    <3>. QED
      BY <2>5, <3>1, <3>2 DEF v, W
  <2>. QED
    BY <2>6, <2>7, <2>8
<1>. QED
  BY <1>4, <1>5

\* An element of a set that no other is below is its Min, one that no other is above its Max.
LEMMA EndsOf ==
  ASSUME NEW S, S \subseteq Time, NEW a \in S, \A t \in S : a <= t, NEW b \in S, \A t \in S : t <= b
  PROVE  IntervalOf(S) = {<<a, b>>}
<1>1. Min(S) \in S /\ Min(S) <= a
  BY MinOfTime
<1>2. Max(S) \in S /\ b <= Max(S)
  BY MaxOfTime
<1>3. a <= Min(S) /\ Max(S) <= b
  BY <1>1, <1>2
<1>4. a \in Time /\ b \in Time /\ Min(S) \in Time /\ Max(S) \in Time
  BY <1>1, <1>2
<1>5. Min(S) = a /\ Max(S) = b
  BY <1>1, <1>2, <1>3, <1>4 DEF Time
<1>. QED
  BY <1>5 DEF IntervalOf

\* getSensorTimeInterval with a window.
LEMMA IntervalInExact ==
  ASSUME NEW metas, NEW chunks, Consistent(metas, chunks), NEW min \in Time, NEW max \in Time
  PROVE  getSensorTimeIntervalIn(metas, chunks, min, max) = IntervalOf(InWindow(chunks, min, max))
<1>. DEFINE W == InWindow(chunks, min, max)
            a == getSensorTimeMin(metas, chunks, min, max)
            b == getSensorTimeMax(metas, chunks, min, max)
<1>1. \/ W = {} /\ a = IntegerMAX
      \/ a \in W /\ \A t \in W : a <= t
  BY TimeMinExact
<1>2. \/ W = {} /\ b = IntegerMIN
      \/ b \in W /\ \A t \in W : t <= b
  BY TimeMaxExact
<1>3. W \subseteq Time
  BY ChunksOfWindow
<1>4. \A t \in Time : t # IntegerMAX /\ t # IntegerMIN
  BY TimeAssumption DEF Time, IntegerMAX, IntegerMIN
<1>5. getSensorTimeIntervalIn(metas, chunks, min, max)
        = IF a = IntegerMAX \/ b = IntegerMIN THEN {} ELSE {<<a, b>>}
  BY DEF getSensorTimeIntervalIn
<1>. HIDE DEF a, b, W
<1>6. CASE W = {}
  BY <1>1, <1>5, <1>6 DEF IntervalOf, W
<1>7. CASE W # {}
  <2>1. a \in W /\ b \in W /\ (\A t \in W : a <= t) /\ \A t \in W : t <= b
    BY <1>1, <1>2, <1>7
  <2>2. IntervalOf(W) = {<<a, b>>}
    BY <1>3, <2>1, EndsOf
  <2>. QED
    BY <1>3, <1>4, <1>5, <2>1, <2>2 DEF W
<1>. QED
  BY <1>6, <1>7

\* getSensorTimeInterval without a window: the first key and the last timestamp of the last chunk.
LEMMA IntervalExact ==
  ASSUME NEW metas, NEW chunks, Consistent(metas, chunks)
  PROVE  getSensorTimeInterval(metas) = IntervalOf(SeriesTimes(chunks))
<1>. DEFINE S == SeriesTimes(chunks)
<1>1. /\ DOMAIN metas = DOMAIN chunks /\ DOMAIN chunks \subseteq Time
      /\ \A k \in DOMAIN chunks : /\ k \in DOMAIN chunks[k]
                                  /\ metas[k].lastTimestamp = Last(chunks[k])
  BY KeysAreTimes
<1>2. \A k \in DOMAIN chunks :
        /\ Last(chunks[k]) \in DOMAIN chunks[k]
        /\ \A t \in DOMAIN chunks[k] : t \in Time /\ k <= t /\ t <= Last(chunks[k])
  BY FirstLast DEF Consistent, MetaExact
<1>3. \A t : t \in S <=> \E k \in DOMAIN chunks : t \in DOMAIN chunks[k]
  BY DEF SeriesTimes
<1>4. \A j, k \in DOMAIN chunks : j < k => Last(chunks[j]) < k
  BY ChunksInOrder
<1>. HIDE DEF S
<1>5. CASE DOMAIN chunks = {}
  <2>1. S = {}
    BY <1>3, <1>5
  <2>. QED
    BY <1>1, <1>5, <2>1 DEF getSensorTimeInterval, IntervalOf, S
<1>6. CASE DOMAIN chunks # {}
  <2>. DEFINE a == Min(DOMAIN metas)
              z == Max(DOMAIN metas)
              b == Last(chunks[z])
  <2>1. a \in DOMAIN chunks /\ \A k \in DOMAIN chunks : a <= k
    BY <1>1, <1>6, MinOfTime
  <2>2. z \in DOMAIN chunks /\ \A k \in DOMAIN chunks : k <= z
    BY <1>1, <1>6, MaxOfTime
  <2>3. getSensorTimeInterval(metas) = {<<a, b>>}
    BY <1>1, <1>6, <2>2 DEF getSensorTimeInterval
  <2>. HIDE DEF a, z, b
  <2>4. a \in S /\ b \in S /\ a \in Time /\ z \in Time /\ b \in Time
    BY <1>1, <1>2, <1>3, <2>1, <2>2 DEF b
  <2>5. z <= b
    BY <1>1, <1>2, <2>2 DEF b
  <2>6. \A t \in S : t \in Time /\ a <= t /\ t <= b
    <3>. SUFFICES ASSUME NEW t \in S
                  PROVE  t \in Time /\ a <= t /\ t <= b
      OBVIOUS
    <3>1. PICK k \in DOMAIN chunks : t \in DOMAIN chunks[k]
      BY <1>3
    <3>2. /\ t \in Time /\ k \in Time /\ Last(chunks[k]) \in Time
          /\ k <= t /\ t <= Last(chunks[k]) /\ a <= k /\ k <= z
      BY <1>1, <1>2, <2>1, <2>2, <3>1
    <3>3. k = z => t <= b
      BY <3>2 DEF b
    <3>4. k < z => Last(chunks[k]) < z
      BY <1>4, <2>2
    <3>. QED
      BY <2>4, <2>5, <3>2, <3>3, <3>4 DEF Time
  <2>7. S \subseteq Time
    BY <2>6
  <2>8. IntervalOf(S) = {<<a, b>>}
    BY <2>4, <2>6, <2>7, EndsOf
  <2>. QED
    BY <2>3, <2>8 DEF S
<1>. QED
  BY <1>5, <1>6

\* The hull of the intervals of some sets of timestamps is the interval of all of them together.
LEMMA HullExact ==
  ASSUME NEW I, NEW T, NEW U, T \in [I -> SUBSET Time], U = UNION {T[i] : i \in I}
  PROVE  getStationTimeInterval(UNION {IntervalOf(T[i]) : i \in I}) = IntervalOf(U)
<1>. DEFINE H == UNION {IntervalOf(T[i]) : i \in I}
            A == {h[1] : h \in H}
            B == {h[2] : h \in H}
<1>1. U \subseteq Time /\ \A t : t \in U <=> \E i \in I : t \in T[i]
  OBVIOUS
<1>2. \A i \in I : T[i] = {} => IntervalOf(T[i]) = {}
  BY DEF IntervalOf
<1>3. \A i \in I : T[i] # {} =>
        /\ IntervalOf(T[i]) = {<<Min(T[i]), Max(T[i])>>}
        /\ Min(T[i]) \in T[i] /\ Max(T[i]) \in T[i]
        /\ \A t \in T[i] : Min(T[i]) <= t /\ t <= Max(T[i])
  BY MinOfTime, MaxOfTime DEF IntervalOf
<1>4. \A h \in H : \E i \in I : T[i] # {} /\ h = <<Min(T[i]), Max(T[i])>>
  BY <1>2, <1>3
<1>5. \A i \in I : T[i] # {} => <<Min(T[i]), Max(T[i])>> \in H
  BY <1>3
<1>. HIDE DEF H
<1>6. \A x \in A : x \in U
  BY <1>1, <1>3, <1>4
<1>7. \A x \in B : x \in U
  BY <1>1, <1>3, <1>4
<1>8. \A t \in U : \E x \in A : x <= t
  <2>. SUFFICES ASSUME NEW t \in U PROVE \E x \in A : x <= t
    OBVIOUS
  <2>1. PICK i \in I : t \in T[i]
    BY <1>1
  <2>2. <<Min(T[i]), Max(T[i])>> \in H /\ Min(T[i]) <= t
    BY <1>3, <1>5, <2>1
  <2>3. <<Min(T[i]), Max(T[i])>>[1] \in A
    BY <2>2
  <2>. QED
    BY <2>2, <2>3
<1>9. \A t \in U : \E x \in B : t <= x
  <2>. SUFFICES ASSUME NEW t \in U PROVE \E x \in B : t <= x
    OBVIOUS
  <2>1. PICK i \in I : t \in T[i]
    BY <1>1
  <2>2. <<Min(T[i]), Max(T[i])>> \in H /\ t <= Max(T[i])
    BY <1>3, <1>5, <2>1
  <2>3. <<Min(T[i]), Max(T[i])>>[2] \in B
    BY <2>2
  <2>. QED
    BY <2>2, <2>3
<1>10. getStationTimeInterval(H) = IF H = {} THEN {} ELSE {<<Min(A), Max(B)>>}
  BY DEF getStationTimeInterval
<1>11. CASE H = {}
  <2>1. U = {}
    BY <1>8, <1>11
  <2>. QED
    BY <1>10, <1>11, <2>1 DEF H, IntervalOf
<1>12. CASE H # {}
  <2>1. A # {} /\ B # {} /\ A \subseteq Time /\ B \subseteq Time
    BY <1>1, <1>6, <1>7, <1>12
  <2>. HIDE DEF A, B
  <2>2. Min(A) \in A /\ \A x \in A : Min(A) <= x
    BY <2>1, MinOfTime
  <2>3. Max(B) \in B /\ \A x \in B : x <= Max(B)
    BY <2>1, MaxOfTime
  <2>4. \A t \in U : Min(A) <= t
    <3>. SUFFICES ASSUME NEW t \in U PROVE Min(A) <= t
      OBVIOUS
    <3>1. PICK x \in A : x <= t
      BY <1>8
    <3>2. Min(A) \in Time /\ x \in Time /\ t \in Time /\ Min(A) <= x
      BY <1>1, <2>1, <2>2
    <3>. QED
      BY <3>1, <3>2 DEF Time
  <2>5. \A t \in U : t <= Max(B)
    <3>. SUFFICES ASSUME NEW t \in U PROVE t <= Max(B)
      OBVIOUS
    <3>1. PICK x \in B : t <= x
      BY <1>9
    <3>2. Max(B) \in Time /\ x \in Time /\ t \in Time /\ x <= Max(B)
      BY <1>1, <2>1, <2>3
    <3>. QED
      BY <3>1, <3>2 DEF Time
  <2>6. IntervalOf(U) = {<<Min(A), Max(B)>>}
    BY <1>1, <1>6, <1>7, <2>2, <2>3, <2>4, <2>5, EndsOf
  <2>. QED
    BY <1>10, <1>12, <2>6 DEF H
<1>. QED
  BY <1>11, <1>12
=============================================================================
