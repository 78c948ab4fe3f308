------------------------- MODULE StreamDBConcProofs -------------------------
(***************************************************************************)
(* StreamDBConc for any number of writers and readers, any length of the   *)
(* time line and any calendar, as long as no two writers have entries of   *)
(* the same year: insertions never fail, metadata never lies, and queries  *)
(* deliver the years that nobody changes under them exactly.               *)
(***************************************************************************)
EXTENDS StreamDBConc, ChunksProofs

\* What the callers must see to; StreamDB has no lock for it.
YearsApart ==
  \A v, w \in Writer : \A s \in WriterTimes[v], t \in WriterTimes[w] :
    SameYear(s, t) => v = w

(***************************************************************************)
(* The inductive invariant.  Of the maps: every chunk is of one year and   *)
(* stands at its first timestamp, metadata describes the chunk of its key, *)
(* and no year has two.  There may be chunks without metadata, of writers  *)
(* at work or left by a crash.                                             *)
(***************************************************************************)
MapsOK(metas, chunks) ==
  /\ \A k \in DOMAIN chunks :
       /\ k \in Time
       /\ IsChunk(chunks[k])
       /\ k = First(chunks[k])
       /\ \A t \in DOMAIN chunks[k] : SameYear(t, k)
  /\ \A k \in DOMAIN metas : k \in DOMAIN chunks /\ metas[k] = MetaOf(chunks[k])
  /\ \A j, k \in DOMAIN metas : SameYear(j, k) => j = k

Entries == UNION {[S -> Value] : S \in SUBSET Time}

Pc == {"idle", "find", "get", "read", "removeMeta", "removeChunk", "putChunk", "putMeta", "commit"}

Record == [pc : Pc, entries : Entries, key : SUBSET Time, merged : Entries]

WriterType == writer \in [Writer -> Record]

\* A writer at work has entries, all of its own years.
Working(w) == writer[w].pc \in Pc \ {"idle", "commit"}
OwnEntries(w) == Working(w) => /\ DOMAIN writer[w].entries # {}
                               /\ DOMAIN writer[w].entries \subseteq WriterTimes[w]

OfYear(w, t) == t \in Time /\ roundLowerYear[t] = Year(w)

\* The key it has found is still there until it removes it itself.
KeyFound(w) ==
  writer[w].pc \in {"get", "read", "removeMeta"} =>
    \E k \in DOMAIN chunkMetaMap : writer[w].key = {k} /\ OfYear(w, k)
KeyOfYear(w) ==
  writer[w].pc = "removeChunk" => \E k : writer[w].key = {k} /\ OfYear(w, k)

\* The merged chunk is of the year; the year has no metadata until it is put.
MergedOfYear(w) ==
  writer[w].pc \in {"removeMeta", "removeChunk", "putChunk", "putMeta"} =>
    /\ IsChunk(writer[w].merged)
    /\ \A t \in DOMAIN writer[w].merged : OfYear(w, t)
YearOpen(w) ==
  writer[w].pc \in {"removeChunk", "putChunk", "putMeta"} =>
    \A k \in DOMAIN chunkMetaMap : ~OfYear(w, k)
ChunkIsPut(w) ==
  writer[w].pc = "putMeta" =>
    /\ First(writer[w].merged) \in DOMAIN chunkMap
    /\ chunkMap[First(writer[w].merged)] = writer[w].merged

WriterOK(w) ==
  /\ OwnEntries(w)
  /\ KeyFound(w)
  /\ KeyOfYear(w)
  /\ MergedOfYear(w)
  /\ YearOpen(w)
  /\ ChunkIsPut(w)

IInv ==
  /\ MapsOK(chunkMetaMap, chunkMap)
  /\ MapsOK(committed.metas, committed.chunks)
  /\ WriterType
  /\ \A w \in Writer : WriterOK(w)

-----------------------------------------------------------------------------
(* The key that getChunkMeta finds                                         *)

\* ceilingKey and the check behind it find a key of the year, or there is none.
LEMMA CeilingKey ==
  ASSUME NEW keys \in SUBSET Time, NEW t \in Time
  PROVE  \/ /\ ceilingKeyOfYear(keys, t) = {}
            /\ \A k \in keys : ~SameYear(k, t)
         \/ \E k \in keys : ceilingKeyOfYear(keys, t) = {k} /\ SameYear(k, t)
<1>. DEFINE above == {k \in keys : roundLowerYear[t] <= k}
<1>1. above = {} \/ (Min(above) \in above /\ \A x \in above : Min(above) <= x)
  BY MinOfTime
<1>2. \A s \in Time : SameYear(s, t) => roundLowerYear[t] <= s /\ s < roundNextYear[t]
  BY YearAssumption DEF SameYear, Time
<1>. HIDE DEF above
<1>3. CASE above = {} \/ roundNextYear[t] <= Min(above)
  <2>1. ceilingKeyOfYear(keys, t) = {}
    BY <1>3 DEF ceilingKeyOfYear, above
  <2>2. ASSUME NEW k \in keys, SameYear(k, t)
        PROVE  FALSE
    <3>1. k \in Time /\ roundLowerYear[t] <= k /\ k < roundNextYear[t]
      BY <1>2, <2>2
    <3>2. k \in above
      BY <3>1 DEF above
    <3>3. Min(above) <= k /\ roundNextYear[t] <= Min(above) /\ Min(above) \in Time
      BY <1>1, <1>3, <3>2 DEF above
    <3>. QED
      BY <3>1, <3>3, YearAssumption DEF Time
  <2>. QED
    BY <2>1, <2>2
<1>4. CASE above # {} /\ ~(roundNextYear[t] <= Min(above))
  <2>1. ceilingKeyOfYear(keys, t) = {Min(above)}
    BY <1>4 DEF ceilingKeyOfYear, above
  <2>2. Min(above) \in keys /\ Min(above) \in Time /\ roundLowerYear[t] <= Min(above)
    BY <1>1, <1>4 DEF above
  <2>3. Min(above) < roundNextYear[t]
    BY <1>4, <2>2, YearAssumption DEF Time
  <2>4. SameYear(Min(above), t)
    BY <2>2, <2>3, YearAssumption DEF SameYear
  <2>. QED
    BY <2>1, <2>2, <2>4
<1>. QED
  BY <1>3, <1>4

-----------------------------------------------------------------------------
(* What a writer has in hand                                               *)

\* Entries of a type are entries as Chunks has them.
LEMMA EntriesType ==
  ASSUME NEW e
  PROVE  e \in Entries <=> IsEntries(e)
BY DEF Entries, IsEntries

\* The year of a writer at work, and the group of its entries in that year.
LEMMA GroupOfYear ==
  ASSUME NEW w \in Writer, WriterType, Working(w), OwnEntries(w)
  PROVE  /\ IsChunk(Group(w))
         /\ Group(w) \in Entries
         /\ \A t \in DOMAIN Group(w) : OfYear(w, t) /\ t \in DOMAIN writer[w].entries
         /\ \E t \in WriterTimes[w] : OfYear(w, t)
         /\ \A s : OfYear(w, s) => s \in Time /\ roundLowerYear[s] = Year(w)
<1>. DEFINE e == writer[w].entries
            t == Min(DOMAIN e)
<1>1. e \in Entries /\ DOMAIN e # {} /\ DOMAIN e \subseteq WriterTimes[w]
  BY DEF WriterType, Record, OwnEntries
<1>2. IsEntries(e) /\ DOMAIN e \subseteq Time
  BY <1>1, EntriesType DEF IsEntries
<1>3. t \in DOMAIN e
  BY <1>1, <1>2, MinOfTime
<1>4. Group(w) = [s \in {s \in DOMAIN e : roundLowerYear[s] = roundLowerYear[t]} |-> e[s]]
  BY DEF Group, YearGroup, Restrict
<1>5. Year(w) = roundLowerYear[t]
  BY DEF Year
<1>. HIDE DEF t
<1>6. /\ DOMAIN Group(w) = {s \in DOMAIN e : roundLowerYear[s] = roundLowerYear[t]}
      /\ t \in DOMAIN Group(w)
      /\ \A s \in DOMAIN Group(w) : Group(w)[s] = e[s]
  BY <1>3, <1>4
<1>7. \A s \in DOMAIN e : e[s] \in Value
  BY <1>2 DEF IsEntries
<1>8. Group(w) \in [DOMAIN Group(w) -> Value]
  BY <1>4, <1>6, <1>7
<1>9. IsChunk(Group(w))
  <2>. HIDE DEF e
  <2>. QED
    BY <1>2, <1>6, <1>8 DEF IsChunk, IsEntries
<1>10. Group(w) \in Entries
  BY <1>9, EntriesType DEF IsChunk
<1>. QED
  BY <1>1, <1>2, <1>3, <1>5, <1>6, <1>9, <1>10 DEF OfYear

\* Two writers at work have different years.
LEMMA OtherYear ==
  ASSUME YearsApart, NEW v \in Writer, NEW w \in Writer, v # w, WriterType,
         Working(v), OwnEntries(v), Working(w), OwnEntries(w), NEW s, OfYear(v, s)
  PROVE  ~OfYear(w, s)
<1>1. PICK x \in WriterTimes[v] : OfYear(v, x)
  BY GroupOfYear
<1>2. PICK y \in WriterTimes[w] : OfYear(w, y)
  BY GroupOfYear
<1>. QED
  BY <1>1, <1>2 DEF YearsApart, SameYear, OfYear

\* Old and new entries of a year merged are a chunk of the year.
LEMMA OverwriteOfYear ==
  ASSUME NEW old, IsChunk(old), NEW new, IsChunk(new)
  PROVE  LET c == Overwrite(old, new)
         IN  /\ IsChunk(c)
             /\ c \in Entries
             /\ DOMAIN c = DOMAIN old \cup DOMAIN new
<1>. DEFINE c == Overwrite(old, new)
<1>1. /\ DOMAIN old \subseteq Time /\ DOMAIN new \subseteq Time /\ DOMAIN old # {}
      /\ \A t \in DOMAIN old : old[t] \in Value
      /\ \A t \in DOMAIN new : new[t] \in Value
  BY DEF IsChunk, IsEntries
<1>2. /\ DOMAIN c = DOMAIN old \cup DOMAIN new
      /\ c \in [DOMAIN old \cup DOMAIN new -> Value]
  BY <1>1 DEF Overwrite
<1>3. IsChunk(c)
  <2>. HIDE DEF c
  <2>. QED
    BY <1>1, <1>2 DEF IsChunk, IsEntries
<1>. QED
  BY <1>2, <1>3, EntriesType DEF IsChunk

-----------------------------------------------------------------------------
(* A step of one writer                                                    *)

\* Only the writer that takes the step changes.
LEMMA OneWriter ==
  ASSUME WriterType, NEW w \in Writer, NEW r \in Record, writer' = [writer EXCEPT ![w] = r]
  PROVE  /\ WriterType'
         /\ writer'[w] = r
         /\ \A v \in Writer \ {w} : writer'[v] = writer[v]
BY DEF WriterType

\* A step that changes the maps in the year of one writer only leaves to the others what
\* they rely on.
LEMMA OthersKept ==
  ASSUME YearsApart, IInv, NEW w \in Writer, Working(w),
         NEW v \in Writer, v # w, writer'[v] = writer[v],
         \A k \in Time : ~OfYear(w, k) =>
           /\ k \in DOMAIN chunkMetaMap' <=> k \in DOMAIN chunkMetaMap
           /\ k \in DOMAIN chunkMap => k \in DOMAIN chunkMap' /\ chunkMap'[k] = chunkMap[k]
  PROVE  WriterOK(v)'
<1>1. /\ WriterType /\ WriterOK(v) /\ OwnEntries(v) /\ OwnEntries(w)
      /\ Year(v)' = Year(v) /\ Working(v)' = Working(v)
      /\ \A t : OfYear(v, t)' <=> OfYear(v, t)
  BY DEF IInv, WriterOK, Year, Working, OfYear
<1>2. CASE ~Working(v)
  <2>1. writer[v].pc \in {"idle", "commit"}
    BY <1>1, <1>2 DEF Working, WriterType, Record
  <2>. QED
    BY <1>1, <2>1 DEF WriterOK, OwnEntries, Working, KeyFound, KeyOfYear, MergedOfYear, YearOpen, ChunkIsPut
<1>3. CASE Working(v)
  <2>1. \A k : OfYear(v, k) => k \in Time /\ ~OfYear(w, k)
    BY <1>1, <1>3, OtherYear DEF OfYear
  <2>2. \A k : OfYear(v, k) =>
          /\ k \in DOMAIN chunkMetaMap' <=> k \in DOMAIN chunkMetaMap
          /\ k \in DOMAIN chunkMap => k \in DOMAIN chunkMap' /\ chunkMap'[k] = chunkMap[k]
    BY <2>1
  <2>3. OwnEntries(v)' /\ KeyOfYear(v)' /\ MergedOfYear(v)'
    BY <1>1 DEF WriterOK, OwnEntries, KeyOfYear, MergedOfYear
  <2>4. KeyFound(v)'
    BY <1>1, <2>2 DEF WriterOK, KeyFound
  <2>5. YearOpen(v)'
    BY <1>1, <2>2 DEF WriterOK, YearOpen
  <2>6. ChunkIsPut(v)'
    <3>1. writer[v].pc = "putMeta" => OfYear(v, First(writer[v].merged))
      BY <1>1, FirstLast DEF WriterOK, MergedOfYear
    <3>. QED
      BY <1>1, <2>2, <3>1 DEF WriterOK, ChunkIsPut
  <2>. QED
    BY <2>3, <2>4, <2>5, <2>6 DEF WriterOK
<1>. QED
  BY <1>2, <1>3

\* A step of one writer that changes neither map.
LEMMA LocalStep ==
  ASSUME IInv, NEW w \in Writer, NEW r \in Record, writer' = [writer EXCEPT ![w] = r],
         UNCHANGED <<chunkMetaMap, chunkMap>>, committed' = committed \/ committed' = Maps,
         WriterOK(w)'
  PROVE  IInv'
<1>1. WriterType' /\ \A v \in Writer \ {w} : writer'[v] = writer[v]
  BY OneWriter DEF IInv
<1>2. ASSUME NEW v \in Writer \ {w}
      PROVE  WriterOK(v)'
  <2>1. writer'[v] = writer[v] /\ WriterOK(v)
    BY <1>1 DEF IInv
  <2>. QED
    BY <2>1 DEF WriterOK, OwnEntries, Working, KeyFound, KeyOfYear, MergedOfYear, YearOpen,
         ChunkIsPut, OfYear, Year
<1>3. MapsOK(chunkMetaMap, chunkMap)' /\ MapsOK(committed.metas, committed.chunks)'
  BY DEF IInv, Maps
<1>. QED
  BY <1>1, <1>2, <1>3 DEF IInv

\* A step of one writer at work that changes the maps in its year only.
LEMMA MapStep ==
  ASSUME YearsApart, IInv, NEW w \in Writer, Working(w),
         NEW r \in Record, writer' = [writer EXCEPT ![w] = r], UNCHANGED committed,
         \A k \in Time : ~OfYear(w, k) =>
           /\ k \in DOMAIN chunkMetaMap' <=> k \in DOMAIN chunkMetaMap
           /\ k \in DOMAIN chunkMap => k \in DOMAIN chunkMap' /\ chunkMap'[k] = chunkMap[k],
         MapsOK(chunkMetaMap, chunkMap)',
         WriterOK(w)'
  PROVE  IInv'
<1>1. WriterType' /\ \A v \in Writer \ {w} : writer'[v] = writer[v]
  BY OneWriter DEF IInv
<1>2. ASSUME NEW v \in Writer \ {w}
      PROVE  WriterOK(v)'
  BY <1>1, OthersKept
<1>3. MapsOK(committed.metas, committed.chunks)'
  BY DEF IInv
<1>. QED
  BY <1>1, <1>2, <1>3 DEF IInv

\* A writer with nothing in hand.
LEMMA Idle ==
  /\ IdleWriter \in Record
  /\ NoEntries \in Entries
  /\ \A w \in Writer : writer[w] = IdleWriter => WriterOK(w)
<1>1. NoEntries \in Entries
  BY DEF NoEntries, Entries
<1>2. IdleWriter \in Record
  BY <1>1 DEF IdleWriter, At, Record, Pc
<1>3. \A w \in Writer : writer[w] = IdleWriter => WriterOK(w)
  BY DEF IdleWriter, At, WriterOK, OwnEntries, Working, KeyFound, KeyOfYear, MergedOfYear, YearOpen,
     ChunkIsPut, Pc
<1>. QED
  BY <1>1, <1>2, <1>3

-----------------------------------------------------------------------------
(* Every step keeps the invariant                                          *)

\* An empty stream on which nobody works.
LEMMA InitOK == Init => IInv
<1>. SUFFICES ASSUME Init PROVE IInv
  OBVIOUS
<1>1. MapsOK(chunkMetaMap, chunkMap) /\ MapsOK(committed.metas, committed.chunks)
  BY DEF Init, MapsOK, NoMap, Maps
<1>2. \A w \in Writer : writer[w] = IdleWriter
  BY DEF Init
<1>3. WriterType
  BY <1>2, Idle DEF Init, WriterType
<1>. QED
  BY <1>1, <1>2, <1>3, Idle DEF IInv

\* A writer begins with entries of its own years.
LEMMA BeginOK ==
  ASSUME IInv, NEW w \in Writer, Begin(w)
  PROVE  IInv'
<1>1. PICK times \in (SUBSET WriterTimes[w]) \ {{}} : \E e \in [times -> Value] :
        writer' = [writer EXCEPT ![w] = At("find", e, {}, NoEntries)]
  BY DEF Begin
<1>2. PICK e \in [times -> Value] :
        writer' = [writer EXCEPT ![w] = At("find", e, {}, NoEntries)]
  BY <1>1
<1>3. e \in Entries /\ DOMAIN e = times /\ times # {} /\ times \subseteq WriterTimes[w]
  BY WriterAssumption DEF Entries
<1>4. At("find", e, {}, NoEntries) \in Record
  BY <1>3, Idle DEF Record, At, Pc
<1>5. writer'[w] = At("find", e, {}, NoEntries)
  BY <1>2, <1>4, OneWriter DEF IInv
<1>6. WriterOK(w)'
  BY <1>3, <1>5 DEF At, WriterOK, OwnEntries, Working, KeyFound, KeyOfYear, MergedOfYear, YearOpen,
     ChunkIsPut, Pc
<1>. QED
  BY <1>2, <1>4, <1>6, LocalStep DEF Begin

\* getChunkMeta finds a key of the year, or the year is open.
LEMMA FindOK ==
  ASSUME IInv, NEW w \in Writer, Find(w)
  PROVE  IInv'
<1>. DEFINE e == writer[w].entries
            key == ceilingKeyOfYear(DOMAIN chunkMetaMap, First(Group(w)))
            r == IF key = {} THEN At("putChunk", e, {}, Group(w)) ELSE At("get", e, key, NoEntries)
<1>1. /\ WriterType /\ writer[w] \in Record /\ e \in Entries
      /\ OwnEntries(w) /\ Working(w) /\ writer[w].pc = "find"
  BY DEF IInv, WriterOK, WriterType, Record, Working, Find, Pc
<1>2. /\ IsChunk(Group(w)) /\ Group(w) \in Entries
      /\ \A t \in DOMAIN Group(w) : OfYear(w, t)
      /\ OfYear(w, First(Group(w))) /\ First(Group(w)) \in Time
  BY <1>1, GroupOfYear, FirstLast
<1>3. DOMAIN chunkMetaMap \subseteq Time
  BY DEF IInv, MapsOK
<1>4. \/ key = {} /\ \A k \in DOMAIN chunkMetaMap : ~OfYear(w, k)
      \/ \E k \in DOMAIN chunkMetaMap : key = {k} /\ OfYear(w, k)
  BY <1>2, <1>3, CeilingKey DEF OfYear, SameYear
<1>5. writer' = [writer EXCEPT ![w] = r] /\ UNCHANGED <<chunkMetaMap, chunkMap, committed>>
  BY DEF Find
<1>. HIDE DEF key
<1>6. r \in Record /\ r.entries = e
  BY <1>1, <1>2, <1>3, <1>4, Idle DEF At, Record, Pc
<1>7. writer'[w] = r
  BY <1>1, <1>5, <1>6, OneWriter
<1>8. OwnEntries(w)' /\ \A t : OfYear(w, t)' <=> OfYear(w, t)
  BY <1>1, <1>6, <1>7 DEF OwnEntries, OfYear, Year
<1>9. WriterOK(w)'
  BY <1>2, <1>4, <1>5, <1>7, <1>8
  DEF At, WriterOK, KeyFound, KeyOfYear, MergedOfYear, YearOpen, ChunkIsPut
<1>. QED
  BY <1>5, <1>6, <1>9, LocalStep

\* A step that only moves the program counter.
LEMMA GotoStep ==
  ASSUME WriterType, NEW w \in Writer, NEW pc \in Pc, Goto(w, pc)
  PROVE  \E r \in Record :
           /\ writer' = [writer EXCEPT ![w] = r]
           /\ writer'[w] = r
           /\ r.pc = pc
           /\ r.entries = writer[w].entries
           /\ r.key = writer[w].key
           /\ r.merged = writer[w].merged
           /\ \A t : OfYear(w, t)' <=> OfYear(w, t)
<1>. DEFINE r == [writer[w] EXCEPT !.pc = pc]
<1>1. writer[w] \in Record
  BY DEF WriterType
<1>2. /\ r \in Record /\ r.pc = pc /\ r.entries = writer[w].entries
      /\ r.key = writer[w].key /\ r.merged = writer[w].merged
  BY <1>1 DEF Record
<1>3. writer' = [writer EXCEPT ![w] = r]
  BY DEF Goto
<1>. HIDE DEF r
<1>4. writer'[w] = r
  BY <1>2, <1>3, OneWriter
<1>5. \A t : OfYear(w, t)' <=> OfYear(w, t)
  BY <1>2, <1>4 DEF OfYear, Year
<1>. QED
  BY <1>2, <1>3, <1>4, <1>5

\* The key found is still there.
LEMMA GetOK ==
  ASSUME IInv, NEW w \in Writer, Get(w)
  PROVE  IInv'
<1>1. WriterType /\ WriterOK(w) /\ writer[w].pc = "get"
  BY DEF IInv, Get
<1>2. \E k \in DOMAIN chunkMetaMap : writer[w].key = {k} /\ OfYear(w, k)
  BY <1>1 DEF WriterOK, KeyFound
<1>3. Goto(w, "read") /\ UNCHANGED <<chunkMetaMap, chunkMap, committed>>
  BY <1>2 DEF Get
<1>4. PICK r \in Record :
        /\ writer' = [writer EXCEPT ![w] = r]
        /\ writer'[w] = r /\ r.pc = "read" /\ r.entries = writer[w].entries
        /\ r.key = writer[w].key /\ r.merged = writer[w].merged
        /\ \A t : OfYear(w, t)' <=> OfYear(w, t)
  BY <1>1, <1>3, GotoStep DEF Pc
<1>5. OwnEntries(w)'
  BY <1>1, <1>4 DEF WriterOK, OwnEntries, Working, Pc
<1>6. WriterOK(w)'
  BY <1>2, <1>3, <1>4, <1>5 DEF WriterOK, KeyFound, KeyOfYear, MergedOfYear, YearOpen, ChunkIsPut
<1>. QED
  BY <1>3, <1>4, <1>6, LocalStep

\* Its chunk is there too, and is of the year of the new entries.
LEMMA ReadOK ==
  ASSUME IInv, NEW w \in Writer, Read(w)
  PROVE  IInv'
<1>1. /\ WriterType /\ WriterOK(w) /\ writer[w].pc = "read" /\ writer[w] \in Record
      /\ OwnEntries(w) /\ Working(w)
  BY DEF IInv, Read, WriterType, WriterOK, Working, Pc
<1>2. PICK k \in DOMAIN chunkMetaMap : writer[w].key = {k} /\ OfYear(w, k)
  BY <1>1 DEF WriterOK, KeyFound
<1>3. k \in DOMAIN chunkMap /\ IsChunk(chunkMap[k]) /\ \A t \in DOMAIN chunkMap[k] : SameYear(t, k)
  BY <1>2 DEF IInv, MapsOK
<1>. DEFINE c == Overwrite(chunkMap[k], Group(w))
            r == At("removeMeta", writer[w].entries, writer[w].key, c)
<1>4. writer' = [writer EXCEPT ![w] = r] /\ UNCHANGED <<chunkMetaMap, chunkMap, committed>>
  BY <1>2, <1>3 DEF Read
<1>5. IsChunk(Group(w)) /\ \A t \in DOMAIN Group(w) : OfYear(w, t)
  BY <1>1, GroupOfYear
<1>6. IsChunk(c) /\ c \in Entries /\ DOMAIN c = DOMAIN chunkMap[k] \cup DOMAIN Group(w)
  BY <1>3, <1>5, OverwriteOfYear
<1>7. \A t \in DOMAIN c : OfYear(w, t)
  <2>1. DOMAIN chunkMap[k] \subseteq Time
    BY <1>3 DEF IsChunk, IsEntries
  <2>. QED
    BY <1>2, <1>3, <1>5, <1>6, <2>1 DEF OfYear, SameYear
<1>. HIDE DEF c
<1>8. /\ r \in Record /\ r.pc = "removeMeta" /\ r.entries = writer[w].entries
      /\ r.key = writer[w].key /\ r.merged = c
  BY <1>1, <1>6 DEF At, Record, Pc
<1>. HIDE DEF r
<1>9. writer'[w] = r
  BY <1>1, <1>4, <1>8, OneWriter
<1>10. OwnEntries(w)' /\ \A t : OfYear(w, t)' <=> OfYear(w, t)
  BY <1>1, <1>8, <1>9 DEF OwnEntries, OfYear, Year
<1>11. WriterOK(w)'
  BY <1>2, <1>4, <1>6, <1>7, <1>8, <1>9, <1>10
  DEF WriterOK, KeyFound, KeyOfYear, MergedOfYear, YearOpen, ChunkIsPut
<1>. QED
  BY <1>4, <1>8, <1>11, LocalStep

\* With the metadata of the old chunk gone the year is open.
LEMMA RemoveMetaOK ==
  ASSUME YearsApart, IInv, NEW w \in Writer, RemoveMeta(w)
  PROVE  IInv'
<1>1. WriterType /\ WriterOK(w) /\ writer[w].pc = "removeMeta" /\ Working(w)
  BY DEF IInv, RemoveMeta, Working, Pc
<1>2. PICK k \in DOMAIN chunkMetaMap : writer[w].key = {k} /\ OfYear(w, k)
  BY <1>1 DEF WriterOK, KeyFound
<1>3. Goto(w, "removeChunk") /\ UNCHANGED <<chunkMap, committed>>
  BY DEF RemoveMeta
<1>4. PICK r \in Record :
        /\ writer' = [writer EXCEPT ![w] = r]
        /\ writer'[w] = r /\ r.pc = "removeChunk" /\ r.entries = writer[w].entries
        /\ r.key = writer[w].key /\ r.merged = writer[w].merged
        /\ \A t : OfYear(w, t)' <=> OfYear(w, t)
  BY <1>1, <1>3, GotoStep DEF Pc
<1>5. /\ DOMAIN chunkMetaMap' = DOMAIN chunkMetaMap \ {k}
      /\ \A j \in DOMAIN chunkMetaMap' : chunkMetaMap'[j] = chunkMetaMap[j]
  BY <1>2 DEF RemoveMeta, Restrict
<1>6. MapsOK(chunkMetaMap, chunkMap)'
  BY <1>3, <1>5 DEF IInv, MapsOK
<1>7. \A j \in DOMAIN chunkMetaMap' : ~OfYear(w, j)
  BY <1>2, <1>5 DEF IInv, MapsOK, OfYear, SameYear
<1>8. OwnEntries(w)'
  BY <1>1, <1>4 DEF WriterOK, OwnEntries, Working, Pc
<1>9. WriterOK(w)'
  BY <1>1, <1>2, <1>4, <1>7, <1>8
  DEF WriterOK, KeyFound, KeyOfYear, MergedOfYear, YearOpen, ChunkIsPut
<1>10. \A j \in Time : ~OfYear(w, j) =>
           /\ j \in DOMAIN chunkMetaMap' <=> j \in DOMAIN chunkMetaMap
           /\ j \in DOMAIN chunkMap => j \in DOMAIN chunkMap' /\ chunkMap'[j] = chunkMap[j]
  BY <1>2, <1>3, <1>5
<1>. QED
  BY <1>1, <1>3, <1>4, <1>6, <1>9, <1>10, MapStep

\* The chunk that is removed has no metadata.
LEMMA RemoveChunkOK ==
  ASSUME YearsApart, IInv, NEW w \in Writer, RemoveChunk(w)
  PROVE  IInv'
<1>1. WriterType /\ WriterOK(w) /\ writer[w].pc = "removeChunk" /\ Working(w)
  BY DEF IInv, RemoveChunk, Working, Pc
<1>2. /\ \A k \in writer[w].key : OfYear(w, k)
      /\ \A k \in DOMAIN chunkMetaMap : ~OfYear(w, k)
  BY <1>1 DEF WriterOK, KeyOfYear, YearOpen
<1>3. Goto(w, "putChunk") /\ UNCHANGED <<chunkMetaMap, committed>>
  BY DEF RemoveChunk
<1>4. PICK r \in Record :
        /\ writer' = [writer EXCEPT ![w] = r]
        /\ writer'[w] = r /\ r.pc = "putChunk" /\ r.entries = writer[w].entries
        /\ r.key = writer[w].key /\ r.merged = writer[w].merged
        /\ \A t : OfYear(w, t)' <=> OfYear(w, t)
  BY <1>1, <1>3, GotoStep DEF Pc
<1>5. /\ DOMAIN chunkMap' = DOMAIN chunkMap \ writer[w].key
      /\ \A j \in DOMAIN chunkMap' : chunkMap'[j] = chunkMap[j]
  BY DEF RemoveChunk, Restrict
<1>6. MapsOK(chunkMetaMap, chunkMap)'
  BY <1>2, <1>3, <1>5 DEF IInv, MapsOK
<1>8. OwnEntries(w)'
  BY <1>1, <1>4 DEF WriterOK, OwnEntries, Working, Pc
<1>9. WriterOK(w)'
  BY <1>1, <1>2, <1>3, <1>4, <1>8
  DEF WriterOK, KeyFound, KeyOfYear, MergedOfYear, YearOpen, ChunkIsPut
<1>10. \A j \in Time : ~OfYear(w, j) =>
           /\ j \in DOMAIN chunkMetaMap' <=> j \in DOMAIN chunkMetaMap
           /\ j \in DOMAIN chunkMap => j \in DOMAIN chunkMap' /\ chunkMap'[j] = chunkMap[j]
  BY <1>2, <1>3, <1>5
<1>. QED
  BY <1>1, <1>3, <1>4, <1>6, <1>9, <1>10, MapStep

\* The merged chunk takes no place that metadata refers to.
LEMMA PutChunkOK ==
  ASSUME YearsApart, IInv, NEW w \in Writer, PutChunk(w)
  PROVE  IInv'
<1>. DEFINE c == writer[w].merged
<1>1. WriterType /\ WriterOK(w) /\ writer[w].pc = "putChunk" /\ Working(w)
  BY DEF IInv, PutChunk, Working, Pc
<1>2. /\ IsChunk(c) /\ \A t \in DOMAIN c : OfYear(w, t)
      /\ \A k \in DOMAIN chunkMetaMap : ~OfYear(w, k)
  BY <1>1 DEF WriterOK, MergedOfYear, YearOpen
<1>3. OfYear(w, First(c))
  BY <1>2, FirstLast
<1>4. Goto(w, "putMeta") /\ UNCHANGED <<chunkMetaMap, committed>>
  BY DEF PutChunk
<1>5. PICK r \in Record :
        /\ writer' = [writer EXCEPT ![w] = r]
        /\ writer'[w] = r /\ r.pc = "putMeta" /\ r.entries = writer[w].entries
        /\ r.key = writer[w].key /\ r.merged = writer[w].merged
        /\ \A t : OfYear(w, t)' <=> OfYear(w, t)
  BY <1>1, <1>4, GotoStep DEF Pc
<1>6. /\ DOMAIN chunkMap' = DOMAIN chunkMap \cup {First(c)}
      /\ chunkMap'[First(c)] = c
      /\ \A j \in DOMAIN chunkMap : j # First(c) => chunkMap'[j] = chunkMap[j]
  BY DEF PutChunk, Put
<1>7. MapsOK(chunkMetaMap, chunkMap)'
  <2>1. \A j \in DOMAIN chunkMap' :
          /\ j \in Time
          /\ IsChunk(chunkMap'[j])
          /\ j = First(chunkMap'[j])
          /\ \A t \in DOMAIN chunkMap'[j] : SameYear(t, j)
    BY <1>2, <1>3, <1>6 DEF IInv, MapsOK, OfYear, SameYear
  <2>2. \A j \in DOMAIN chunkMetaMap : j \in DOMAIN chunkMap' /\ chunkMap'[j] = chunkMap[j]
    BY <1>2, <1>3, <1>6 DEF IInv, MapsOK
  <2>. QED
    BY <1>4, <2>1, <2>2 DEF IInv, MapsOK
<1>8. OwnEntries(w)'
  BY <1>1, <1>5 DEF WriterOK, OwnEntries, Working, Pc
<1>9. WriterOK(w)'
  BY <1>2, <1>4, <1>5, <1>6, <1>8
  DEF WriterOK, KeyFound, KeyOfYear, MergedOfYear, YearOpen, ChunkIsPut
<1>10. \A j \in Time : ~OfYear(w, j) =>
           /\ j \in DOMAIN chunkMetaMap' <=> j \in DOMAIN chunkMetaMap
           /\ j \in DOMAIN chunkMap => j \in DOMAIN chunkMap' /\ chunkMap'[j] = chunkMap[j]
  BY <1>3, <1>4, <1>6
<1>. QED
  BY <1>1, <1>4, <1>5, <1>7, <1>9, <1>10, MapStep

\* The metadata that closes the year describes the chunk put before.
LEMMA PutMetaOK ==
  ASSUME YearsApart, IInv, NEW w \in Writer, PutMeta(w)
  PROVE  IInv'
<1>. DEFINE c == writer[w].merged
            e == writer[w].entries
            rest == Restrict(e, DOMAIN e \ DOMAIN Group(w))
            r == At(IF rest = NoEntries THEN "commit" ELSE "find", rest, {}, NoEntries)
<1>1. WriterType /\ WriterOK(w) /\ writer[w].pc = "putMeta" /\ Working(w) /\ OwnEntries(w)
  BY DEF IInv, PutMeta, Working, Pc, WriterOK
<1>2. /\ IsChunk(c) /\ \A t \in DOMAIN c : OfYear(w, t)
      /\ \A k \in DOMAIN chunkMetaMap : ~OfYear(w, k)
      /\ First(c) \in DOMAIN chunkMap /\ chunkMap[First(c)] = c
  BY <1>1 DEF WriterOK, MergedOfYear, YearOpen, ChunkIsPut
<1>3. OfYear(w, First(c))
  BY <1>2, FirstLast
<1>4. writer' = [writer EXCEPT ![w] = r] /\ UNCHANGED <<chunkMap, committed>>
  BY DEF PutMeta
<1>5. e \in Entries /\ DOMAIN e \subseteq WriterTimes[w]
  BY <1>1 DEF WriterType, Record, OwnEntries
<1>6. rest \in Entries /\ DOMAIN rest \subseteq WriterTimes[w]
  <2>1. IsEntries(e)
    BY <1>5, EntriesType
  <2>. HIDE DEF e
  <2>2. rest \in [DOMAIN e \ DOMAIN Group(w) -> Value]
    BY <2>1 DEF IsEntries, Restrict
  <2>3. DOMAIN rest = DOMAIN e \ DOMAIN Group(w)
    BY DEF Restrict
  <2>4. IsEntries(rest)
    <3>. HIDE DEF rest
    <3>. QED
      BY <2>1, <2>2, <2>3 DEF IsEntries
  <2>. QED
    BY <1>5, <2>3, <2>4, EntriesType
<1>7. rest # NoEntries => DOMAIN rest # {}
  BY DEF Restrict, NoEntries
<1>. HIDE DEF rest
<1>8. r \in Record /\ r.entries = rest /\ r.pc = IF rest = NoEntries THEN "commit" ELSE "find"
  BY <1>6, Idle DEF At, Record, Pc
<1>. HIDE DEF r
<1>9. writer'[w] = r
  BY <1>1, <1>4, <1>8, OneWriter
<1>10. WriterOK(w)'
  BY <1>6, <1>7, <1>8, <1>9
  DEF WriterOK, OwnEntries, Working, KeyFound, KeyOfYear, MergedOfYear, YearOpen, ChunkIsPut, Pc
<1>11. /\ DOMAIN chunkMetaMap' = DOMAIN chunkMetaMap \cup {First(c)}
       /\ chunkMetaMap'[First(c)] = MetaOf(c)
       /\ \A j \in DOMAIN chunkMetaMap : chunkMetaMap'[j] = chunkMetaMap[j]
  <2>1. First(c) \notin DOMAIN chunkMetaMap
    BY <1>2, <1>3
  <2>. QED
    BY <2>1 DEF PutMeta, Put
<1>12. MapsOK(chunkMetaMap, chunkMap)'
  <2>2. \A j \in DOMAIN chunkMetaMap : ~SameYear(j, First(c)) /\ ~SameYear(First(c), j)
    BY <1>2, <1>3 DEF OfYear, SameYear, IInv, MapsOK
  <2>3. \A j, k \in DOMAIN chunkMetaMap' : SameYear(j, k) => j = k
    BY <1>11, <2>2 DEF IInv, MapsOK
  <2>4. ASSUME NEW k \in DOMAIN chunkMetaMap'
        PROVE  k \in DOMAIN chunkMap /\ chunkMetaMap'[k] = MetaOf(chunkMap[k])
    <3>1. CASE k = First(c)
      BY <3>1, <1>2, <1>11
    <3>2. CASE k \in DOMAIN chunkMetaMap
      BY <3>2, <1>11 DEF IInv, MapsOK
    <3>. QED
      BY <3>1, <3>2, <1>11
  <2>. QED
    BY <1>4, <2>3, <2>4 DEF IInv, MapsOK
<1>13. \A j \in Time : ~OfYear(w, j) =>
           /\ j \in DOMAIN chunkMetaMap' <=> j \in DOMAIN chunkMetaMap
           /\ j \in DOMAIN chunkMap => j \in DOMAIN chunkMap' /\ chunkMap'[j] = chunkMap[j]
  BY <1>3, <1>4, <1>11
<1>. QED
  BY <1>1, <1>4, <1>8, <1>10, <1>12, <1>13, MapStep

\* The commit, and the exception: the writer has nothing in hand after it.
LEMMA EndOK ==
  ASSUME IInv, NEW w \in Writer, CommitWriter(w) \/ Fail(w)
  PROVE  IInv'
<1>1. /\ writer' = [writer EXCEPT ![w] = IdleWriter]
      /\ UNCHANGED <<chunkMetaMap, chunkMap>>
      /\ committed' = committed \/ committed' = Maps
  BY DEF CommitWriter, Fail
<1>2. writer'[w] = IdleWriter
  BY <1>1, Idle, OneWriter DEF IInv
<1>3. WriterOK(w)'
  BY <1>2 DEF IdleWriter, At, WriterOK, OwnEntries, Working, KeyFound, KeyOfYear, MergedOfYear,
     YearOpen, ChunkIsPut, Pc
<1>. QED
  BY <1>1, <1>3, Idle, LocalStep

\* Queries and commits of other threads leave writers and maps alone.
LEMMA OtherOK ==
  ASSUME IInv, UNCHANGED <<chunkMetaMap, chunkMap, writer>>,
         committed' = committed \/ committed' = Maps
  PROVE  IInv'
<1>1. \A w \in Writer : WriterOK(w)'
  BY DEF IInv, WriterOK, OwnEntries, Working, KeyFound, KeyOfYear, MergedOfYear, YearOpen,
     ChunkIsPut, OfYear, Year
<1>. QED
  BY <1>1 DEF IInv, Maps, WriterType

\* What is on disk is as good as what is in memory.
LEMMA CrashOK ==
  ASSUME IInv, Crash
  PROVE  IInv'
<1>1. \A w \in Writer : writer'[w] = IdleWriter
  BY DEF Crash
<1>2. \A w \in Writer : WriterOK(w)'
  BY <1>1 DEF IdleWriter, At, WriterOK, OwnEntries, Working, KeyFound, KeyOfYear, MergedOfYear,
     YearOpen, ChunkIsPut, Pc
<1>3. WriterType'
  BY Idle DEF Crash, WriterType
<1>4. MapsOK(chunkMetaMap, chunkMap)' /\ MapsOK(committed.metas, committed.chunks)'
  BY DEF Crash, IInv
<1>. QED
  BY <1>2, <1>3, <1>4 DEF IInv

\* Every step keeps the invariant.
LEMMA NextOK ==
  ASSUME YearsApart, IInv, [Next]_vars
  PROVE  IInv'
<1>1. ASSUME NEW w \in Writer, WriterStep(w)
      PROVE  IInv'
  BY <1>1, BeginOK, FindOK, GetOK, ReadOK, RemoveMetaOK, RemoveChunkOK, PutChunkOK, PutMetaOK, EndOK
  DEF WriterStep
<1>2. ASSUME NEW q \in Reader, ReaderStep(q)
      PROVE  IInv'
  BY <1>2, OtherOK
  DEF ReaderStep, Query, QueryMax, CreateIterator, NextChunk, EndOfChunks, Close
<1>3. CASE CommitOther
  BY <1>3, OtherOK DEF CommitOther
<1>4. CASE Crash
  BY <1>4, CrashOK
<1>5. CASE UNCHANGED vars
  BY <1>5, OtherOK DEF vars
<1>. QED
  BY <1>1, <1>2, <1>3, <1>4, <1>5 DEF Next

-----------------------------------------------------------------------------
(* Insertions that keep apart                                              *)

\* Between any two accesses of any number of insertions and queries, and on disk after any
\* commit, metadata that is there describes the chunk that is there.
THEOREM MetadataRight == YearsApart => (Spec => []MetaNeverLies)
<1>. SUFFICES ASSUME YearsApart PROVE Spec => []MetaNeverLies
  OBVIOUS
<1>1. IInv /\ [Next]_vars => IInv'
  BY NextOK
<1>2. IInv => MetaNeverLies
  BY DEF IInv, MapsOK, MetaNeverLies, Maps
<1>. QED
  BY InitOK, <1>1, <1>2, PTL DEF Spec

\* Of writers of different years: what an insertion finds in one access is still there in
\* the next.  (The code does not keep writers of one year apart, and then it is not.)
THEOREM InsertionsSucceed == YearsApart => (Spec => []NoInternalError)
<1>. SUFFICES ASSUME YearsApart PROVE Spec => []NoInternalError
  OBVIOUS
<1>1. IInv /\ [Next]_vars => IInv'
  BY NextOK
<1>2. IInv => NoInternalError
  BY DEF IInv, WriterType, Record, Pc, NoInternalError
<1>. QED
  BY InitOK, <1>1, <1>2, PTL DEF Spec

(***************************************************************************)
(* Queries beside insertions.  The invariant they need speaks of years:    *)
(* which are being exchanged, which a query has seen change, and for every *)
(* other year, that the maps hold the acknowledged entries and that a      *)
(* query in progress has delivered what it should or has it before it.     *)
(***************************************************************************)

\* Years whose entries are being exchanged.
Exchanging(w) ==
  \/ writer[w].pc \in {"removeChunk", "putMeta"}
  \/ writer[w].pc = "putChunk" /\ writer[w].key # {}
Busy == {Year(w) : w \in {w \in Writer : Exchanging(w)}}

\* Queries that begin now find the acknowledged entry of t, and no other.
Current(t) ==
  /\ t \in DOMAIN acked <=> \E k \in DOMAIN chunkMetaMap : t \in DOMAIN chunkMap[k]
  /\ \A k \in DOMAIN chunkMetaMap : t \in DOMAIN chunkMap[k] => chunkMap[k][t] = acked[t]

YearsCurrent == \A t \in Time : roundLowerYear[t] \notin Busy => Current(t)

\* What a writer has merged are the acknowledged entries of its year and its own.
MergedExact(w) ==
  writer[w].pc \in {"removeMeta", "removeChunk", "putChunk", "putMeta"} =>
    \A t : OfYear(w, t) =>
      /\ t \in DOMAIN writer[w].merged <=> t \in DOMAIN acked \cup DOMAIN Group(w)
      /\ t \in DOMAIN Group(w) => writer[w].merged[t] = Group(w)[t]
      /\ t \in DOMAIN acked \ DOMAIN Group(w) => writer[w].merged[t] = acked[t]

\* Years that have not changed since the query began.
Quiet(r, t) == t \in Time /\ roundLowerYear[t] \notin reader[r].touched
InAsked(r, t) == reader[r].min <= t /\ t <= reader[r].max
Wanted(r, t) == t \in DOMAIN acked /\ Quiet(r, t) /\ InAsked(r, t)

ReaderPc == {"max", "iterator", "chunks", "done", "failed"}

\* A query has these variables and no others.
ReaderType(r) ==
  /\ reader[r] = ReaderAt(reader[r].pc, reader[r].min, reader[r].max, reader[r].lo, reader[r].hi,
                          reader[r].metas, reader[r].delivered, reader[r].touched)
  /\ reader[r].pc \in ReaderPc
  /\ reader[r].min \in Time /\ reader[r].max \in Time

\* The window as it was cut loses no entry of a quiet year and adds none.
LowerOK(r) ==
  reader[r].pc \in {"max", "iterator", "chunks"} =>
    /\ reader[r].lo \in Int
    /\ \A t : Wanted(r, t) => reader[r].lo <= t
    /\ reader[r].pc = "max" => reader[r].min <= reader[r].lo
UpperOK(r) ==
  reader[r].pc \in {"iterator", "chunks"} =>
    /\ reader[r].hi \in Int
    /\ \A t : Wanted(r, t) => t <= reader[r].hi
    /\ \A t \in Time : reader[r].lo <= t /\ t <= reader[r].hi => InAsked(r, t)

\* The metadata a query still has before it are those of now, of quiet years.
MetasOK(r) ==
  /\ DOMAIN reader[r].metas \subseteq Time
  /\ reader[r].metas = [k \in DOMAIN reader[r].metas |-> reader[r].metas[k]]
  /\ \A k \in DOMAIN reader[r].metas : Quiet(r, k) =>
       k \in DOMAIN chunkMetaMap /\ reader[r].metas[k] = chunkMetaMap[k]

Delivered(r, t) == <<t, acked[t]>> \in reader[r].delivered
Coming(r, t) == \E k \in DOMAIN reader[r].metas : k \in DOMAIN chunkMap /\ t \in DOMAIN chunkMap[k]

\* Of quiet years it has delivered acknowledged entries only, and it misses none.
DeliveredSound(r) ==
  \A e \in reader[r].delivered : roundLowerYear[e[1]] \notin reader[r].touched =>
    \E t : Wanted(r, t) /\ e = <<t, acked[t]>>
NothingMissed(r) ==
  /\ reader[r].pc = "chunks" => \A t : Wanted(r, t) => Delivered(r, t) \/ Coming(r, t)
  /\ reader[r].pc = "done" => \A t : Wanted(r, t) => Delivered(r, t)
FailsIfTouched(r) == reader[r].pc = "failed" => reader[r].touched # {}

Running(r) ==
  /\ ReaderType(r)
  /\ Busy \subseteq reader[r].touched
  /\ LowerOK(r)
  /\ UpperOK(r)
  /\ MetasOK(r)
  /\ DeliveredSound(r)
  /\ NothingMissed(r)
  /\ FailsIfTouched(r)

ReaderOK(r) == reader[r] = IdleReader \/ Running(r)

ReadersOK == DOMAIN reader = Reader /\ \A r \in Reader : ReaderOK(r)

QueryInv ==
  /\ IsEntries(acked)
  /\ YearsCurrent
  /\ \A w \in Writer : MergedExact(w)
  /\ ReadersOK

-----------------------------------------------------------------------------
(* What a query finds in the maps                                          *)

\* The chunks that have metadata are a consistent stream.
LEMMA VisibleConsistent ==
  ASSUME NEW metas, NEW chunks, MapsOK(metas, chunks)
  PROVE  LET c == Restrict(chunks, DOMAIN metas)
         IN  /\ Consistent(metas, c)
             /\ DOMAIN c = DOMAIN metas
             /\ \A k \in DOMAIN metas : c[k] = chunks[k]
<1>. DEFINE c == Restrict(chunks, DOMAIN metas)
<1>1. DOMAIN c = DOMAIN metas /\ \A k \in DOMAIN metas : c[k] = chunks[k]
  BY DEF Restrict
<1>. HIDE DEF c
<1>2. \A k \in DOMAIN c : /\ IsChunk(c[k]) /\ k = First(c[k]) /\ metas[k] = MetaOf(c[k])
                          /\ \A t \in DOMAIN c[k] : SameYear(t, k)
  BY <1>1 DEF MapsOK
<1>3. OneChunkPerYear(c)
  BY <1>1, <1>2 DEF MapsOK, OneChunkPerYear, SameYear
<1>. QED
  BY <1>1, <1>2, <1>3 DEF Consistent, MetaExact, c

\* getDataMinTimestamp cuts off nothing that can be reached.
LEMMA CutLower ==
  ASSUME NEW metas, NEW chunks, MapsOK(metas, chunks), NEW min \in Time
  PROVE  LET lo == getDataMinTimestamp(metas, min)
         IN  /\ lo \in Int
             /\ min <= lo
             /\ \A k \in DOMAIN metas : \A t \in DOMAIN chunks[k] : min <= t => lo <= t
<1>. DEFINE first == Min(DOMAIN metas)
            lo == getDataMinTimestamp(metas, min)
<1>1. CASE DOMAIN metas = {}
  BY <1>1 DEF getDataMinTimestamp, Time
<1>2. CASE DOMAIN metas # {}
  <2>1. /\ DOMAIN metas \subseteq Time
        /\ \A k \in DOMAIN metas :
             metas[k].firstTimestamp = k /\ IsChunk(chunks[k]) /\ k = First(chunks[k])
    BY DEF MapsOK, MetaOf
  <2>2. first \in DOMAIN metas /\ \A k \in DOMAIN metas : first <= k
    BY <1>2, <2>1, MinOfTime
  <2>3. lo = Max({min, first})
    BY <1>2, <2>1, <2>2 DEF getDataMinTimestamp
  <2>4. {min, first} \subseteq Time
    BY <2>1, <2>2
  <2>. HIDE DEF first, lo
  <2>5. lo \in {min, first} /\ min <= lo
    BY <2>3, <2>4, MaxOfTime
  <2>6. ASSUME NEW k \in DOMAIN metas, NEW t \in DOMAIN chunks[k], min <= t
        PROVE  lo <= t
    <3>1. first <= k /\ k <= t /\ first \in Time /\ k \in Time /\ t \in Time
      BY <2>1, <2>2, FirstLast
    <3>. QED
      BY <2>5, <2>6, <3>1 DEF Time
  <2>. QED
    BY <2>4, <2>5, <2>6 DEF lo, Time
<1>. QED
  BY <1>1, <1>2

\* getDataMaxTimestamp cuts off nothing that can be reached.
LEMMA CutUpper ==
  ASSUME NEW metas, NEW chunks, MapsOK(metas, chunks), NEW max \in Time
  PROVE  LET hi == getDataMaxTimestamp(metas, max)
         IN  /\ hi \in Int
             /\ hi <= max
             /\ \A k \in DOMAIN metas : \A t \in DOMAIN chunks[k] : t <= max => t <= hi
<1>. DEFINE last == Max(DOMAIN metas)
            end == metas[last].lastTimestamp
            hi == getDataMaxTimestamp(metas, max)
            c == Restrict(chunks, DOMAIN metas)
<1>1. CASE DOMAIN metas = {}
  BY <1>1 DEF getDataMaxTimestamp, Time
<1>2. CASE DOMAIN metas # {}
  <2>1. /\ DOMAIN metas \subseteq Time
        /\ \A k \in DOMAIN metas : metas[k].lastTimestamp = Last(chunks[k]) /\ IsChunk(chunks[k])
    BY DEF MapsOK, MetaOf
  <2>2. last \in DOMAIN metas /\ \A k \in DOMAIN metas : k <= last
    BY <1>2, <2>1, MaxOfTime
  <2>3. hi = Min({max, end})
    BY <1>2 DEF getDataMaxTimestamp
  <2>4. end \in Time /\ end = Last(chunks[last])
    BY <2>1, <2>2, FirstLast
  <2>5. ASSUME NEW k \in DOMAIN metas, NEW t \in DOMAIN chunks[k]
        PROVE  t \in Time /\ t <= end
    <3>1. t \in Time /\ t <= Last(chunks[k]) /\ Last(chunks[k]) \in Time
      BY <2>1, FirstLast
    <3>2. CASE k = last
      BY <3>1, <3>2, <2>4
    <3>3. CASE k # last
      <4>1. k < last /\ last \in Time
        BY <2>1, <2>2, <3>3 DEF Time
      <4>. HIDE DEF last
      <4>2. Consistent(metas, c) /\ DOMAIN c = DOMAIN metas /\ c[k] = chunks[k]
        BY VisibleConsistent
      <4>3. Last(chunks[k]) < last
        BY <2>2, <4>1, <4>2, ChunksInOrder
      <4>4. last <= end
        BY <2>1, <2>2, <2>4, FirstLast DEF MapsOK
      <4>. QED
        BY <3>1, <4>1, <4>3, <4>4, <2>4 DEF Time
    <3>. QED
      BY <3>2, <3>3
  <2>6. {max, end} \subseteq Time
    BY <2>4
  <2>. HIDE DEF end, hi
  <2>7. hi \in {max, end} /\ hi <= max
    BY <2>3, <2>6, MinOfTime
  <2>. QED
    BY <2>4, <2>5, <2>7 DEF hi, Time
<1>. QED
  BY <1>1, <1>2

\* The metadata iterator has the chunk of every entry of the window.
LEMMA IteratorReaches ==
  ASSUME NEW metas, NEW chunks, MapsOK(metas, chunks), NEW min \in Time, NEW max \in Time
  PROVE  LET keys == ChunkMetaIterator(metas, min, max)
         IN  /\ keys \subseteq DOMAIN metas
             /\ \A k \in DOMAIN metas : \A t \in DOMAIN chunks[k] : min <= t /\ t <= max => k \in keys
<1>. DEFINE keys == ChunkMetaIterator(metas, min, max)
            c == Restrict(chunks, DOMAIN metas)
<1>1. Consistent(metas, c) /\ DOMAIN c = DOMAIN metas /\ \A k \in DOMAIN metas : c[k] = chunks[k]
  BY VisibleConsistent
<1>2. min \in Window /\ max \in Window
  BY TimeAssumption DEF Window, Time, IntegerMIN, IntegerMAX
<1>. HIDE DEF c
<1>3. keys = {k \in DOMAIN c : min <= Last(c[k]) /\ k <= max}
  BY <1>1, <1>2, IteratorMeetsWindow
<1>. HIDE DEF keys
<1>4. ASSUME NEW k \in DOMAIN metas, NEW t \in DOMAIN chunks[k], min <= t, t <= max
      PROVE  k \in keys
  <2>1. /\ k \in Time /\ t \in Time /\ Last(chunks[k]) \in Time
        /\ k <= t /\ t <= Last(chunks[k])
    BY FirstLast DEF MapsOK
  <2>. QED
    BY <1>1, <1>3, <1>4, <2>1 DEF Time
<1>. QED
  BY <1>1, <1>3, <1>4 DEF keys

-----------------------------------------------------------------------------
(* What is left alone                                                      *)

\* A quiet year is not being exchanged: what a query can find of it is what is acknowledged.
LEMMA QuietCurrent ==
  ASSUME QueryInv, NEW r, Busy \subseteq reader[r].touched, NEW t, Quiet(r, t)
  PROVE  Current(t)
BY DEF QueryInv, YearsCurrent, Quiet

\* A step of one writer outside an exchange of entries, which queries do not see.
LEMMA QuietStep ==
  ASSUME QueryInv, NEW w \in Writer, UNCHANGED <<chunkMetaMap, chunkMap, reader, acked>>,
         \A v \in Writer \ {w} : writer'[v] = writer[v],
         ~Exchanging(w), ~Exchanging(w)', MergedExact(w)'
  PROVE  QueryInv'
<1>1. Busy' = Busy
  BY DEF Busy, Exchanging, Year
<1>2. YearsCurrent'
  BY <1>1 DEF QueryInv, YearsCurrent, Current
<1>3. ASSUME NEW v \in Writer
      PROVE  MergedExact(v)'
  BY DEF QueryInv, MergedExact, OfYear, Year, Group
<1>4. ASSUME NEW r \in Reader
      PROVE  ReaderOK(r)'
  BY <1>1 DEF QueryInv, ReadersOK, ReaderOK, Running, ReaderType, LowerOK, UpperOK, MetasOK,
              DeliveredSound, NothingMissed, FailsIfTouched, Wanted, Quiet, InAsked, Delivered, Coming
<1>. QED
  BY <1>2, <1>3, <1>4 DEF QueryInv, ReadersOK

\* A step of one query.
LEMMA OneReader ==
  ASSUME QueryInv, NEW r \in Reader, NEW q, reader' = [reader EXCEPT ![r] = q],
         UNCHANGED <<chunkMetaMap, chunkMap, writer, acked>>,
         reader'[r] = q => ReaderOK(r)'
  PROVE  QueryInv'
<1>1. /\ DOMAIN reader' = Reader /\ reader'[r] = q
      /\ \A o \in Reader \ {r} : reader'[o] = reader[o]
  BY DEF QueryInv, ReadersOK
<1>2. Busy' = Busy
  BY DEF Busy, Exchanging, Year
<1>3. YearsCurrent'
  BY <1>2 DEF QueryInv, YearsCurrent, Current
<1>4. ASSUME NEW v \in Writer
      PROVE  MergedExact(v)'
  BY DEF QueryInv, MergedExact, OfYear, Year, Group
<1>5. ASSUME NEW o \in Reader \ {r}
      PROVE  ReaderOK(o)'
  <2>1. ReaderOK(o) /\ reader'[o] = reader[o]
    BY <1>1 DEF QueryInv, ReadersOK
  <2>. QED
    BY SMTT(30), <2>1, <1>2 DEF ReaderOK, Running, ReaderType, LowerOK, UpperOK, MetasOK, DeliveredSound,
                      NothingMissed, FailsIfTouched, Wanted, Quiet, InAsked, Delivered, Coming
<1>. QED
  BY <1>1, <1>3, <1>4, <1>5 DEF QueryInv, ReadersOK

\* What stays as it is in a step of w on the maps: everything that is not of its year.
OtherYearsKept(w) ==
  \A t \in Time : ~OfYear(w, t) =>
    /\ t \in DOMAIN chunkMetaMap' <=> t \in DOMAIN chunkMetaMap
    /\ t \in DOMAIN chunkMetaMap => chunkMetaMap'[t] = chunkMetaMap[t]
    /\ t \in DOMAIN chunkMap' <=> t \in DOMAIN chunkMap
    /\ t \in DOMAIN chunkMap => chunkMap'[t] = chunkMap[t]
    /\ t \in DOMAIN acked' <=> t \in DOMAIN acked
    /\ t \in DOMAIN acked => acked'[t] = acked[t]

\* A chunk with an entry of a year is a chunk of that year.
LEMMA ChunkOfYear ==
  ASSUME NEW metas, NEW chunks, MapsOK(metas, chunks), NEW k \in DOMAIN chunks,
         NEW t \in DOMAIN chunks[k]
  PROVE  k \in Time /\ t \in Time /\ SameYear(t, k) /\ IsChunk(chunks[k])
BY DEF MapsOK, IsChunk, IsEntries

\* The entries of other years stay current.
LEMMA OthersCurrent ==
  ASSUME IInv, IInv', NEW w, OtherYearsKept(w), NEW t \in Time, ~OfYear(w, t), Current(t)
  PROVE  Current(t)'
<1>1. ASSUME NEW k \in DOMAIN chunkMetaMap, t \in DOMAIN chunkMap[k]
      PROVE  /\ k \in DOMAIN chunkMetaMap' /\ chunkMap'[k] = chunkMap[k]
  <2>1. k \in DOMAIN chunkMap
    BY DEF IInv, MapsOK
  <2>2. k \in Time /\ ~OfYear(w, k)
    BY <1>1, <2>1, ChunkOfYear DEF IInv, OfYear, SameYear
  <2>. QED
    BY <2>1, <2>2 DEF OtherYearsKept
<1>2. ASSUME NEW k \in DOMAIN chunkMetaMap', t \in DOMAIN chunkMap'[k]
      PROVE  /\ k \in DOMAIN chunkMetaMap /\ chunkMap'[k] = chunkMap[k]
  <2>1. k \in DOMAIN chunkMap'
    BY DEF IInv, MapsOK
  <2>2. k \in Time /\ SameYear(t, k)
    <3>1. MapsOK(chunkMetaMap', chunkMap')
      BY DEF IInv
    <3>. QED
      BY <1>2, <2>1, <3>1, ChunkOfYear
  <2>3. ~OfYear(w, k)
    BY <2>2 DEF OfYear, SameYear
  <2>. QED
    BY <2>1, <2>2, <2>3 DEF OtherYearsKept
<1>3. (t \in DOMAIN acked' <=> t \in DOMAIN acked) /\ (t \in DOMAIN acked => acked'[t] = acked[t])
  BY DEF OtherYearsKept
<1>. QED
  BY <1>1, <1>2, <1>3 DEF Current

\* A query in progress sees the year of w change, and nothing else changes for it.
LEMMA TouchedReader ==
  ASSUME QueryInv, NEW w, Touch(w), NEW r \in Reader, Running(r)
  PROVE  /\ ReaderType(r)'
         /\ reader'[r].touched = reader[r].touched \cup {Year(w)}
         /\ reader'[r].pc = reader[r].pc
         /\ reader'[r].min = reader[r].min /\ reader'[r].max = reader[r].max
         /\ reader'[r].lo = reader[r].lo /\ reader'[r].hi = reader[r].hi
         /\ reader'[r].metas = reader[r].metas
         /\ reader'[r].delivered = reader[r].delivered
<1>. DEFINE q == reader[r]
            p == ReaderAt(q.pc, q.min, q.max, q.lo, q.hi, q.metas, q.delivered,
                          q.touched \cup {Year(w)})
<1>1. q = ReaderAt(q.pc, q.min, q.max, q.lo, q.hi, q.metas, q.delivered, q.touched)
  BY DEF Running, ReaderType
<1>2. q.pc \in ReaderPc /\ q.pc # "idle" /\ q.min \in Time /\ q.max \in Time
  BY DEF Running, ReaderType, ReaderPc
<1>3. reader'[r] = [q EXCEPT !.touched = @ \cup {Year(w)}]
  BY <1>2 DEF Touch
<1>4. [q EXCEPT !.touched = @ \cup {Year(w)}] = p
  <2>. HIDE DEF q
  <2>. QED
    BY <1>1 DEF ReaderAt
<1>5. /\ p.touched = q.touched \cup {Year(w)}
      /\ p.pc = q.pc /\ p.min = q.min /\ p.max = q.max /\ p.lo = q.lo /\ p.hi = q.hi
      /\ p.metas = q.metas /\ p.delivered = q.delivered
  BY DEF ReaderAt
<1>6. p = ReaderAt(p.pc, p.min, p.max, p.lo, p.hi, p.metas, p.delivered, p.touched)
  BY <1>5
<1>. HIDE DEF p
<1>. QED
  BY <1>2, <1>3, <1>4, <1>5, <1>6 DEF ReaderType

\* What a query in progress knows of quiet years survives a change of another year.
LEMMA RunningKept ==
  ASSUME IInv, IInv', QueryInv, NEW w, OtherYearsKept(w), Touch(w), Busy' \subseteq Busy \cup {Year(w)},
         NEW r \in Reader, Running(r)
  PROVE  Running(r)'
<1>1. /\ ReaderType(r)'
      /\ reader'[r].touched = reader[r].touched \cup {Year(w)}
      /\ reader'[r].pc = reader[r].pc
      /\ reader'[r].min = reader[r].min /\ reader'[r].max = reader[r].max
      /\ reader'[r].lo = reader[r].lo /\ reader'[r].hi = reader[r].hi
      /\ reader'[r].metas = reader[r].metas
      /\ reader'[r].delivered = reader[r].delivered
  BY TouchedReader
<1>2. ASSUME NEW t, Quiet(r, t)'
      PROVE  Quiet(r, t) /\ ~OfYear(w, t)
  BY <1>1, <1>2 DEF Quiet, OfYear
<1>3. ASSUME NEW t
      PROVE  /\ Wanted(r, t)' => Wanted(r, t) /\ ~OfYear(w, t) /\ acked'[t] = acked[t]
             /\ Quiet(r, t)' /\ Wanted(r, t) => Wanted(r, t)'
  BY <1>1, <1>2 DEF Wanted, InAsked, OtherYearsKept, Quiet
<1>4. Busy' \subseteq reader'[r].touched
  BY <1>1 DEF Running
<1>5. LowerOK(r)' /\ UpperOK(r)' /\ FailsIfTouched(r)'
  BY <1>1, <1>3 DEF Running, LowerOK, UpperOK, FailsIfTouched, InAsked
<1>6. MetasOK(r)'
  BY <1>1, <1>2 DEF Running, MetasOK, OtherYearsKept, Quiet
<1>7. DeliveredSound(r)'
  <2>. SUFFICES ASSUME NEW e \in reader[r].delivered, roundLowerYear[e[1]] \notin reader'[r].touched
                PROVE  \E t : Wanted(r, t)' /\ e = <<t, acked'[t]>>
    BY <1>1 DEF DeliveredSound
  <2>1. PICK t : Wanted(r, t) /\ e = <<t, acked[t]>>
    BY <1>1 DEF Running, DeliveredSound
  <2>2. Quiet(r, t)'
    BY <2>1 DEF Wanted, Quiet
  <2>. QED
    BY <1>3, <2>1, <2>2
<1>8. NothingMissed(r)'
  <2>1. ASSUME NEW t, Wanted(r, t)', Delivered(r, t)
        PROVE  Delivered(r, t)'
    BY <1>1, <1>3, <2>1 DEF Delivered
  <2>2. ASSUME NEW t, Wanted(r, t)', Coming(r, t)
        PROVE  Coming(r, t)'
    <3>1. PICK k \in DOMAIN reader[r].metas : k \in DOMAIN chunkMap /\ t \in DOMAIN chunkMap[k]
      BY <2>2 DEF Coming
    <3>2. k \in Time /\ ~OfYear(w, k)
      BY <1>3, <2>2, <3>1, ChunkOfYear DEF IInv, OfYear, SameYear
    <3>3. k \in DOMAIN chunkMap' /\ chunkMap'[k] = chunkMap[k]
      BY <3>1, <3>2 DEF OtherYearsKept
    <3>. QED
      BY <1>1, <3>1, <3>3 DEF Coming
  <2>. QED
    BY <1>1, <1>3, <2>1, <2>2 DEF Running, NothingMissed
<1>. QED
  BY <1>1, <1>4, <1>5, <1>6, <1>7, <1>8 DEF Running

\* A step of one writer at work on the maps.
LEMMA ExchangeStep ==
  ASSUME YearsApart, IInv, IInv', QueryInv, NEW w \in Writer, Working(w), OtherYearsKept(w), Touch(w),
         \A v \in Writer \ {w} : writer'[v] = writer[v],
         IsEntries(acked)', MergedExact(w)',
         \/ Exchanging(w)' /\ Year(w)' = Year(w)
         \/ ~Exchanging(w)' /\ \A t : OfYear(w, t) => Current(t)'
  PROVE  QueryInv'
<1>1. \A v \in Writer \ {w} : Year(v)' = Year(v) /\ (Exchanging(v)' <=> Exchanging(v))
  BY DEF Year, Exchanging
<1>2. Busy' \subseteq Busy \cup {Year(w)} /\ Busy \subseteq Busy' \cup {Year(w)}
  BY <1>1 DEF Busy
<1>3. YearsCurrent'
  <2>. SUFFICES ASSUME NEW t \in Time, roundLowerYear[t] \notin Busy' PROVE Current(t)'
    BY DEF YearsCurrent
  <2>1. CASE OfYear(w, t)
    <3>1. ~Exchanging(w)'
      BY <2>1 DEF Busy, OfYear
    <3>. QED
      BY <2>1, <3>1
  <2>2. CASE ~OfYear(w, t)
    <3>1. Current(t)
      BY <1>2, <2>2 DEF QueryInv, YearsCurrent, OfYear
    <3>. QED
      BY <2>2, <3>1, OthersCurrent
  <2>. QED
    BY <2>1, <2>2
<1>4. ASSUME NEW v \in Writer \ {w}
      PROVE  MergedExact(v)'
  <2>1. MergedExact(v) /\ writer'[v] = writer[v]
    BY DEF QueryInv
  <2>2. Group(v)' = Group(v) /\ \A t : OfYear(v, t)' <=> OfYear(v, t)
    BY <2>1 DEF Group, OfYear, Year
  <2>3. ASSUME writer[v].pc \in {"removeMeta", "removeChunk", "putChunk", "putMeta"}, NEW t, OfYear(v, t)
        PROVE  /\ t \in DOMAIN acked' <=> t \in DOMAIN acked
               /\ t \in DOMAIN acked => acked'[t] = acked[t]
    <3>1. Working(v) /\ OwnEntries(v) /\ OwnEntries(w) /\ WriterType
      BY <2>3 DEF IInv, WriterOK, Working, Pc
    <3>2. t \in Time /\ ~OfYear(w, t)
      BY <2>3, <3>1, OtherYear DEF OfYear
    <3>. QED
      BY <3>2 DEF OtherYearsKept
  <2>. QED
    BY <2>1, <2>2, <2>3 DEF MergedExact
<1>5. DOMAIN reader' = Reader
  BY DEF Touch
<1>6. ASSUME NEW r \in Reader
      PROVE  ReaderOK(r)'
  <2>1. CASE reader[r] = IdleReader
    BY <2>1 DEF Touch, IdleReader, ReaderAt, ReaderOK
  <2>2. CASE Running(r)
    BY <1>2, <2>2, RunningKept DEF ReaderOK
  <2>. QED
    BY <2>1, <2>2 DEF QueryInv, ReadersOK, ReaderOK
<1>. QED
  BY <1>3, <1>4, <1>5, <1>6 DEF QueryInv, ReadersOK

-----------------------------------------------------------------------------
(* Steps of a writer                                                       *)

\* Every step of a writer leaves the others as they are.
LEMMA OnlyWriter ==
  ASSUME WriterType, NEW w \in Writer, WriterStep(w)
  PROVE  \A v \in Writer \ {w} : writer'[v] = writer[v]
<1>. DEFINE only == \E x : writer' = [writer EXCEPT ![w] = x]
<1>1. only => \A v \in Writer \ {w} : writer'[v] = writer[v]
  BY DEF WriterType
<1>2. CASE Begin(w)
  BY <1>1, <1>2 DEF Begin
<1>3. CASE Find(w)
  BY <1>1, <1>3 DEF Find
<1>4. CASE Read(w)
  <2>1. CASE writer[w].key \subseteq DOMAIN chunkMap
    <3>1. PICK k \in writer[w].key :
            writer' = [writer EXCEPT ![w] =
              At("removeMeta", @.entries, @.key, Overwrite(chunkMap[k], Group(w)))]
      BY <1>4, <2>1 DEF Read
    <3>. QED
      BY <3>1 DEF WriterType
  <2>2. CASE ~(writer[w].key \subseteq DOMAIN chunkMap)
    BY <1>4, <2>2 DEF Read, Goto, WriterType
  <2>. QED
    BY <2>1, <2>2
<1>5. CASE PutMeta(w)
  BY <1>1, <1>5 DEF PutMeta
<1>6. CASE CommitWriter(w) \/ Fail(w)
  BY <1>1, <1>6 DEF CommitWriter, Fail
<1>7. CASE Get(w)
  BY <1>7 DEF Get, Goto, WriterType
<1>8. CASE RemoveMeta(w) \/ RemoveChunk(w) \/ PutChunk(w)
  BY <1>8 DEF RemoveMeta, RemoveChunk, PutChunk, Goto, WriterType
<1>. QED
  BY <1>2, <1>3, <1>4, <1>5, <1>6, <1>7, <1>8 DEF WriterStep

\* A year that its writer is not exchanging is not being exchanged.
LEMMA NotBusy ==
  ASSUME YearsApart, IInv, NEW w \in Writer, Working(w), ~Exchanging(w), NEW t, OfYear(w, t)
  PROVE  roundLowerYear[t] \notin Busy
<1>1. SUFFICES ASSUME NEW v \in Writer, Exchanging(v), roundLowerYear[t] = Year(v)
               PROVE  FALSE
  BY DEF Busy
<1>2. Working(v)
  BY <1>1 DEF Exchanging, Working, Pc
<1>3. WriterType /\ OwnEntries(v) /\ OwnEntries(w) /\ v # w
  BY <1>1 DEF IInv, WriterOK
<1>4. OfYear(v, t)
  BY <1>1 DEF OfYear
<1>. QED
  BY <1>2, <1>3, <1>4, OtherYear

\* Begin, and the steps after which the writer has merged nothing.
LEMMA BeginQuery ==
  ASSUME IInv, IInv', QueryInv, NEW w \in Writer,
         Begin(w) \/ Get(w) \/ CommitWriter(w) \/ Fail(w)
  PROVE  QueryInv'
<1>1. \A v \in Writer \ {w} : writer'[v] = writer[v]
  BY OnlyWriter DEF IInv, WriterStep
<1>2. /\ UNCHANGED <<chunkMetaMap, chunkMap, reader, acked>>
      /\ writer[w].pc \in {"idle", "get", "commit", "failed", "find"}
  BY DEF Begin, Get, CommitWriter, Fail
<1>3. writer'[w].pc \in {"find", "read", "failed", "idle"}
  <2>1. w \in DOMAIN writer /\ "pc" \in DOMAIN writer[w]
    BY DEF IInv, WriterType, Record
  <2>2. CASE Get(w)
    BY <2>1, <2>2 DEF Get, Goto
  <2>3. CASE Begin(w)
    <3>1. PICK x : writer' = [writer EXCEPT ![w] = At("find", x, {}, NoEntries)]
      BY <2>3 DEF Begin
    <3>. QED
      BY <2>1, <3>1 DEF At
  <2>4. CASE CommitWriter(w) \/ Fail(w)
    BY <2>1, <2>4 DEF CommitWriter, Fail, IdleWriter, At
  <2>. QED
    BY <2>2, <2>3, <2>4
<1>4. ~Exchanging(w) /\ ~Exchanging(w)' /\ MergedExact(w)'
  BY <1>2, <1>3 DEF Exchanging, MergedExact
<1>. QED
  BY <1>1, <1>2, <1>4, QuietStep

\* A year without metadata has no acknowledged entries: its first chunk is the group itself.
LEMMA FindQuery ==
  ASSUME YearsApart, IInv, IInv', QueryInv, NEW w \in Writer, Find(w)
  PROVE  QueryInv'
<1>. DEFINE e == writer[w].entries
            key == ceilingKeyOfYear(DOMAIN chunkMetaMap, First(Group(w)))
            r == IF key = {} THEN At("putChunk", e, {}, Group(w)) ELSE At("get", e, key, NoEntries)
<1>1. \A v \in Writer \ {w} : writer'[v] = writer[v]
  BY OnlyWriter DEF IInv, WriterStep
<1>2. UNCHANGED <<chunkMetaMap, chunkMap, reader, acked>> /\ writer[w].pc = "find"
  BY DEF Find
<1>3. writer'[w] = r
  <2>1. writer' = [writer EXCEPT ![w] = r] /\ w \in DOMAIN writer
    BY DEF Find, IInv, WriterType
  <2>. HIDE DEF r
  <2>. QED
    BY <2>1
<1>. HIDE DEF key
<1>4. writer'[w].entries = e /\ (key # {} => writer'[w].pc = "get")
      /\ (key = {} => writer'[w].pc = "putChunk" /\ writer'[w].key = {} /\ writer'[w].merged = Group(w))
  BY <1>3 DEF At
<1>5. ~Exchanging(w) /\ ~Exchanging(w)'
  BY <1>2, <1>4 DEF Exchanging
<1>6. MergedExact(w)'
  <2>1. CASE key # {}
    BY <1>4, <2>1 DEF MergedExact
  <2>2. CASE key = {}
    <3>1. Group(w)' = Group(w) /\ \A t : OfYear(w, t)' <=> OfYear(w, t)
      BY <1>4 DEF Group, OfYear, Year
    <3>2. ASSUME NEW t, OfYear(w, t)
          PROVE  t \notin DOMAIN acked
      <4>1. Working(w) /\ OwnEntries(w) /\ WriterType
        BY <1>2 DEF IInv, WriterOK, Working, Pc
      <4>2. t \in Time /\ Current(t)
        BY <1>5, <3>2, <4>1, NotBusy DEF QueryInv, YearsCurrent, OfYear
      <4>3. ASSUME NEW k \in DOMAIN chunkMetaMap, t \in DOMAIN chunkMap[k]
            PROVE  FALSE
        <5>1. k \in Time /\ OfYear(w, k)
          BY <3>2, <4>3, ChunkOfYear DEF IInv, MapsOK, OfYear, SameYear
        <5>2. YearOpen(w)'
          BY DEF IInv, WriterOK
        <5>. QED
          BY <1>2, <1>4, <2>2, <3>1, <5>1, <5>2 DEF YearOpen
      <4>. QED
        BY <4>2, <4>3 DEF Current
    <3>. QED
      BY <1>2, <1>4, <2>2, <3>1, <3>2 DEF MergedExact
  <2>. QED
    BY <2>1, <2>2
<1>. QED
  BY <1>1, <1>2, <1>5, <1>6, QuietStep

\* The chunk read has the acknowledged entries of the year; the new ones replace them.
LEMMA ReadQuery ==
  ASSUME YearsApart, IInv, IInv', QueryInv, NEW w \in Writer, Read(w)
  PROVE  QueryInv'
<1>1. \A v \in Writer \ {w} : writer'[v] = writer[v]
  BY OnlyWriter DEF IInv, WriterStep
<1>2. UNCHANGED <<chunkMetaMap, chunkMap, reader, acked>> /\ writer[w].pc = "read"
  BY DEF Read
<1>3. Working(w) /\ OwnEntries(w) /\ WriterType /\ WriterOK(w)
  BY <1>2 DEF IInv, WriterOK, Working, Pc
<1>4. PICK k \in DOMAIN chunkMetaMap : writer[w].key = {k} /\ OfYear(w, k)
  BY <1>2, <1>3 DEF WriterOK, KeyFound
<1>5. k \in DOMAIN chunkMap /\ k \in Time
  BY <1>4 DEF IInv, MapsOK
<1>. DEFINE c == Overwrite(chunkMap[k], Group(w))
            r == At("removeMeta", writer[w].entries, writer[w].key, c)
<1>6. writer'[w] = r
  <2>1. writer' = [writer EXCEPT ![w] = r] /\ w \in DOMAIN writer
    BY <1>4, <1>5 DEF Read, IInv, WriterType
  <2>. HIDE DEF r
  <2>. QED
    BY <2>1
<1>7. /\ DOMAIN c = DOMAIN chunkMap[k] \cup DOMAIN Group(w)
      /\ \A t \in DOMAIN Group(w) : c[t] = Group(w)[t]
      /\ \A t \in DOMAIN chunkMap[k] : t \notin DOMAIN Group(w) => c[t] = chunkMap[k][t]
  BY DEF Overwrite
<1>. HIDE DEF c
<1>8. writer'[w].pc = "removeMeta" /\ writer'[w].entries = writer[w].entries /\ writer'[w].merged = c
  BY <1>6 DEF At
<1>9. ~Exchanging(w) /\ ~Exchanging(w)'
  BY <1>2, <1>8 DEF Exchanging
<1>10. Group(w)' = Group(w) /\ \A t : OfYear(w, t)' <=> OfYear(w, t)
  BY <1>8 DEF Group, OfYear, Year
<1>11. ASSUME NEW t, OfYear(w, t)
       PROVE  /\ t \in DOMAIN acked <=> t \in DOMAIN chunkMap[k]
              /\ t \in DOMAIN acked => chunkMap[k][t] = acked[t]
  <2>1. t \in Time /\ Current(t)
    BY <1>3, <1>9, <1>11, NotBusy DEF QueryInv, YearsCurrent, OfYear
  <2>2. ASSUME NEW j \in DOMAIN chunkMetaMap, t \in DOMAIN chunkMap[j]
        PROVE  j = k
    <3>1. j \in DOMAIN chunkMap /\ j \in Time /\ SameYear(t, j)
      BY <2>2, ChunkOfYear DEF IInv, MapsOK
    <3>2. SameYear(j, k)
      BY <1>4, <1>11, <3>1 DEF OfYear, SameYear
    <3>. QED
      BY <3>2 DEF IInv, MapsOK
  <2>. QED
    BY <2>1, <2>2 DEF Current
<1>12. MergedExact(w)'
  BY <1>2, <1>7, <1>8, <1>10, <1>11 DEF MergedExact
<1>. QED
  BY <1>1, <1>2, <1>9, <1>12, QuietStep

\* With its metadata removed, with its chunk removed and with its new chunk put, a year is
\* being exchanged; what is merged stays merged.
LEMMA ExchangeQuery ==
  ASSUME YearsApart, IInv, IInv', QueryInv, NEW w \in Writer,
         RemoveMeta(w) \/ RemoveChunk(w) \/ PutChunk(w)
  PROVE  QueryInv'
<1>1. \A v \in Writer \ {w} : writer'[v] = writer[v]
  BY OnlyWriter DEF IInv, WriterStep
<1>2. /\ writer[w].pc \in {"removeMeta", "removeChunk", "putChunk"}
      /\ UNCHANGED acked /\ Touch(w)
      /\ \E pc \in Pc : /\ Goto(w, pc)
                        /\ \/ writer[w].pc = "removeMeta" /\ pc = "removeChunk"
                           \/ writer[w].pc = "removeChunk" /\ pc = "putChunk"
                           \/ writer[w].pc = "putChunk" /\ pc = "putMeta"
  BY DEF RemoveMeta, RemoveChunk, PutChunk, Pc
<1>3. /\ Working(w) /\ OwnEntries(w) /\ WriterType
      /\ KeyFound(w) /\ KeyOfYear(w) /\ MergedOfYear(w) /\ WriterOK(w)'
  BY <1>2 DEF IInv, WriterOK, Working, Pc
<1>4. PICK pc \in Pc : /\ Goto(w, pc)
                       /\ \/ writer[w].pc = "removeMeta" /\ pc = "removeChunk"
                          \/ writer[w].pc = "removeChunk" /\ pc = "putChunk"
                          \/ writer[w].pc = "putChunk" /\ pc = "putMeta"
  BY <1>2
<1>5. PICK r \in Record :
        /\ writer' = [writer EXCEPT ![w] = r]
        /\ writer'[w] = r
        /\ r.pc = pc
        /\ r.entries = writer[w].entries
        /\ r.key = writer[w].key
        /\ r.merged = writer[w].merged
        /\ \A t : OfYear(w, t)' <=> OfYear(w, t)
  BY <1>3, <1>4, GotoStep
<1>6. Year(w)' = Year(w) /\ Group(w)' = Group(w)
  BY <1>5 DEF Year, Group
<1>7. Exchanging(w)'
  BY <1>3, <1>4, <1>5 DEF Exchanging, KeyOfYear
<1>8. MergedExact(w)'
  BY <1>2, <1>5, <1>6 DEF QueryInv, MergedExact
<1>9. OtherYearsKept(w)
  <2>1. CASE RemoveMeta(w)
    <3>1. PICK k \in DOMAIN chunkMetaMap : writer[w].key = {k} /\ OfYear(w, k)
      BY <1>3, <2>1 DEF RemoveMeta, KeyFound
    <3>. QED
      BY <2>1, <3>1 DEF RemoveMeta, Restrict, OtherYearsKept
  <2>2. CASE RemoveChunk(w)
    <3>1. PICK k : writer[w].key = {k} /\ OfYear(w, k)
      BY <1>3, <2>2 DEF RemoveChunk, KeyOfYear
    <3>. QED
      BY <2>2, <3>1 DEF RemoveChunk, Restrict, OtherYearsKept
  <2>3. CASE PutChunk(w)
    <3>1. OfYear(w, First(writer[w].merged))
      BY <1>3, <2>3, FirstLast DEF PutChunk, MergedOfYear
    <3>. QED
      BY <2>3, <3>1 DEF PutChunk, Put, OtherYearsKept
  <2>. QED
    BY <2>1, <2>2, <2>3
<1>10. IsEntries(acked)'
  BY <1>2 DEF QueryInv
<1>. QED
  BY <1>1, <1>2, <1>3, <1>6, <1>7, <1>8, <1>9, <1>10, ExchangeStep

\* With its metadata put the year is current again: its one chunk is what was acknowledged
\* and the group that is acknowledged now.
LEMMA PutMetaQuery ==
  ASSUME YearsApart, IInv, IInv', QueryInv, NEW w \in Writer, PutMeta(w)
  PROVE  QueryInv'
<1>. DEFINE c == writer[w].merged
            g == Group(w)
            rest == Restrict(writer[w].entries, DOMAIN writer[w].entries \ DOMAIN g)
            r == At(IF rest = NoEntries THEN "commit" ELSE "find", rest, {}, NoEntries)
<1>1. \A v \in Writer \ {w} : writer'[v] = writer[v]
  BY OnlyWriter DEF IInv, WriterStep
<1>2. writer[w].pc = "putMeta" /\ Touch(w) /\ UNCHANGED chunkMap /\ acked' = Overwrite(acked, g)
  BY DEF PutMeta
<1>3. /\ Working(w) /\ OwnEntries(w) /\ WriterType /\ MergedOfYear(w) /\ ChunkIsPut(w) /\ YearOpen(w)
  BY <1>2 DEF IInv, WriterOK, Working, Pc
<1>4. /\ IsChunk(c) /\ (\A t \in DOMAIN c : OfYear(w, t))
      /\ First(c) \in DOMAIN chunkMap /\ chunkMap[First(c)] = c
      /\ \A k \in DOMAIN chunkMetaMap : ~OfYear(w, k)
  BY <1>2, <1>3 DEF MergedOfYear, ChunkIsPut, YearOpen
<1>5. OfYear(w, First(c))
  BY <1>4, FirstLast
<1>6. IsChunk(g) /\ \A t \in DOMAIN g : OfYear(w, t)
  BY <1>3, GroupOfYear
<1>7. writer'[w].pc \in {"commit", "find"}
  <2>1. writer' = [writer EXCEPT ![w] = r] /\ w \in DOMAIN writer
    BY DEF PutMeta, IInv, WriterType
  <2>2. r.pc \in {"commit", "find"}
    BY DEF At
  <2>. HIDE DEF r
  <2>. QED
    BY <2>1, <2>2
<1>8. ~Exchanging(w)' /\ MergedExact(w)'
  BY <1>7 DEF Exchanging, MergedExact
<1>. HIDE DEF r, rest
<1>9. /\ DOMAIN acked' = DOMAIN acked \cup DOMAIN g
      /\ \A t \in DOMAIN g : acked'[t] = g[t]
      /\ \A t \in DOMAIN acked : t \notin DOMAIN g => acked'[t] = acked[t]
      /\ acked' = [t \in DOMAIN acked \cup DOMAIN g |-> acked'[t]]
  BY <1>2 DEF Overwrite
<1>10. IsEntries(acked)'
  <2>1. /\ DOMAIN acked \subseteq Time /\ DOMAIN g \subseteq Time
        /\ \A t \in DOMAIN acked : acked[t] \in Value
        /\ \A t \in DOMAIN g : g[t] \in Value
    BY <1>6 DEF QueryInv, IsChunk, IsEntries
  <2>2. \A t \in DOMAIN acked \cup DOMAIN g : acked'[t] \in Value
    BY <1>9, <2>1
  <2>. HIDE DEF g
  <2>3. acked' \in [DOMAIN acked' -> Value] /\ DOMAIN acked' \subseteq Time
    BY <1>9, <2>1, <2>2
  <2>. QED
    BY <2>3 DEF IsEntries
<1>11. /\ DOMAIN chunkMetaMap' = DOMAIN chunkMetaMap \cup {First(c)}
       /\ \A j \in DOMAIN chunkMetaMap : j # First(c) => chunkMetaMap'[j] = chunkMetaMap[j]
  BY DEF PutMeta, Put
<1>12. OtherYearsKept(w)
  BY <1>2, <1>5, <1>6, <1>9, <1>11 DEF OtherYearsKept
<1>13. ASSUME NEW t, OfYear(w, t)
       PROVE  Current(t)'
  <2>1. /\ t \in DOMAIN c <=> t \in DOMAIN acked'
        /\ t \in DOMAIN c => c[t] = acked'[t]
    BY <1>2, <1>9, <1>13 DEF QueryInv, MergedExact
  <2>2. ASSUME NEW k \in DOMAIN chunkMetaMap, t \in DOMAIN chunkMap[k]
        PROVE  FALSE
    <3>1. OfYear(w, k)
      BY <1>13, <2>2, ChunkOfYear DEF IInv, MapsOK, OfYear, SameYear
    <3>. QED
      BY <1>4, <3>1
  <2>. QED
    BY <1>2, <1>4, <1>11, <2>1, <2>2 DEF Current
<1>. QED
  BY <1>1, <1>2, <1>3, <1>8, <1>10, <1>12, <1>13, ExchangeStep

-----------------------------------------------------------------------------
(* Steps of a query                                                        *)

\* The variables of a query after a step.
LEMMA ReaderFields ==
  ASSUME NEW pc, NEW min, NEW max, NEW lo, NEW hi, NEW metas, NEW delivered, NEW touched
  PROVE  LET q == ReaderAt(pc, min, max, lo, hi, metas, delivered, touched)
         IN  /\ q.pc = pc /\ q.min = min /\ q.max = max /\ q.lo = lo /\ q.hi = hi
             /\ q.metas = metas /\ q.delivered = delivered /\ q.touched = touched
             /\ q = ReaderAt(q.pc, q.min, q.max, q.lo, q.hi, q.metas, q.delivered, q.touched)
BY DEF ReaderAt

\* What begins now finds no year being exchanged that it does not know of.
LEMMA BusyOpen == Busy \subseteq Open
BY DEF Busy, Open, Exchanging

\* Which years are being exchanged depends on the writers only.
LEMMA BusyKept == UNCHANGED writer => Busy' = Busy
BY DEF Busy, Exchanging, Year

\* A query begins: the lower end of its window, and the years in work it knows of.
LEMMA QueryOK ==
  ASSUME IInv, QueryInv, NEW r \in Reader, Query(r)
  PROVE  QueryInv'
<1>1. PICK min \in Time, max \in Time :
        /\ min <= max
        /\ reader' = [reader EXCEPT ![r] =
             ReaderAt("max", min, max, getDataMinTimestamp(chunkMetaMap, min), 0, NoMap, {}, Open)]
  BY DEF Query
<1>. DEFINE lo == getDataMinTimestamp(chunkMetaMap, min)
            q == ReaderAt("max", min, max, lo, 0, NoMap, {}, Open)
<1>2. UNCHANGED <<chunkMetaMap, chunkMap, writer, acked>>
  BY DEF Query
<1>3. /\ lo \in Int /\ min <= lo
      /\ \A k \in DOMAIN chunkMetaMap : \A t \in DOMAIN chunkMap[k] : min <= t => lo <= t
  BY CutLower DEF IInv
<1>4. DOMAIN NoMap = {}
  BY DEF NoMap
<1>. HIDE DEF lo
<1>5. /\ q.pc = "max" /\ q.min = min /\ q.max = max /\ q.lo = lo
      /\ q.metas = NoMap /\ q.delivered = {} /\ q.touched = Open
      /\ q = ReaderAt(q.pc, q.min, q.max, q.lo, q.hi, q.metas, q.delivered, q.touched)
  BY ReaderFields
<1>. HIDE DEF q
<1>6. ASSUME reader'[r] = q
      PROVE  ReaderOK(r)'
  <2>1. ReaderType(r)'
    BY <1>5, <1>6 DEF ReaderType, ReaderPc
  <2>2. Busy' \subseteq reader'[r].touched
    BY <1>2, <1>5, <1>6, BusyOpen, BusyKept
  <2>3. LowerOK(r)'
    <3>1. ASSUME NEW t, Wanted(r, t)'
          PROVE  lo <= t
      <4>1. t \in DOMAIN acked /\ t \in Time /\ min <= t /\ roundLowerYear[t] \notin Open
        BY <1>2, <1>5, <1>6, <3>1 DEF Wanted, Quiet, InAsked
      <4>2. Current(t)
        BY <4>1, BusyOpen DEF QueryInv, YearsCurrent
      <4>. QED
        BY <1>3, <4>1, <4>2 DEF Current
    <3>. QED
      BY <1>3, <1>5, <1>6, <3>1 DEF LowerOK
  <2>4. UpperOK(r)' /\ DeliveredSound(r)' /\ NothingMissed(r)' /\ FailsIfTouched(r)'
    BY <1>5, <1>6 DEF UpperOK, DeliveredSound, NothingMissed, FailsIfTouched
  <2>5. MetasOK(r)'
    BY <1>4, <1>5, <1>6 DEF MetasOK, NoMap
  <2>. QED
    BY <2>1, <2>2, <2>3, <2>4, <2>5 DEF ReaderOK, Running
<1>. QED
  BY <1>1, <1>2, <1>6, OneReader DEF q, lo

\* A query that goes on with its window: what it asked for and has seen stays.
LEMMA GoesOn ==
  ASSUME QueryInv, NEW r \in Reader, reader[r].pc \in ReaderPc,
         NEW pc \in ReaderPc, NEW lo, NEW hi, NEW metas, NEW delivered,
         ReaderGoesOn(r, pc, lo, hi, metas, delivered),
         UNCHANGED <<chunkMetaMap, chunkMap, writer, acked>>
  PROVE  LET q == ReaderAt(pc, reader[r].min, reader[r].max, lo, hi, metas, delivered,
                           reader[r].touched)
         IN  /\ Running(r)
             /\ reader' = [reader EXCEPT ![r] = q]
             /\ reader'[r] = q
             /\ reader'[r].pc = pc /\ reader'[r].lo = lo /\ reader'[r].hi = hi
             /\ reader'[r].min = reader[r].min /\ reader'[r].max = reader[r].max
             /\ reader'[r].metas = metas /\ reader'[r].delivered = delivered
             /\ reader'[r].touched = reader[r].touched
             /\ ReaderType(r)'
             /\ Busy' \subseteq reader'[r].touched
             /\ \A t : /\ Quiet(r, t)' <=> Quiet(r, t)
                       /\ InAsked(r, t)' <=> InAsked(r, t)
                       /\ Wanted(r, t)' <=> Wanted(r, t)
             /\ \A t : Wanted(r, t) => Current(t) /\ t \in Time
<1>. DEFINE q == ReaderAt(pc, reader[r].min, reader[r].max, lo, hi, metas, delivered,
                          reader[r].touched)
<1>1. Running(r)
  BY DEF QueryInv, ReadersOK, ReaderOK, ReaderPc, IdleReader, ReaderAt
<1>2. reader' = [reader EXCEPT ![r] = q]
  BY DEF ReaderGoesOn
<1>3. /\ q.pc = pc /\ q.min = reader[r].min /\ q.max = reader[r].max
      /\ q.lo = lo /\ q.hi = hi /\ q.metas = metas
      /\ q.delivered = delivered /\ q.touched = reader[r].touched
      /\ q = ReaderAt(q.pc, q.min, q.max, q.lo, q.hi, q.metas, q.delivered, q.touched)
  BY ReaderFields
<1>. HIDE DEF q
<1>4. reader'[r] = q
  BY <1>2 DEF QueryInv, ReadersOK
<1>5. ReaderType(r)'
  BY <1>1, <1>3, <1>4 DEF ReaderType, Running
<1>6. Busy' \subseteq reader'[r].touched
  BY <1>1, <1>3, <1>4, BusyKept DEF Running
<1>7. \A t : /\ Quiet(r, t)' <=> Quiet(r, t)
             /\ InAsked(r, t)' <=> InAsked(r, t)
             /\ Wanted(r, t)' <=> Wanted(r, t)
  BY <1>3, <1>4 DEF Quiet, InAsked, Wanted
<1>8. \A t : Wanted(r, t) => Current(t) /\ t \in Time
  BY <1>1, QuietCurrent DEF Running, Wanted, Quiet
<1>. QED
  BY <1>1, <1>2, <1>3, <1>4, <1>5, <1>6, <1>7, <1>8 DEF q

\* The upper end, and the interval of both; if it is empty, nothing is wanted.
LEMMA QueryMaxOK ==
  ASSUME IInv, QueryInv, NEW r \in Reader, QueryMax(r)
  PROVE  QueryInv'
<1>. DEFINE max == reader[r].max
            lo == reader[r].lo
            hi == getDataMaxTimestamp(chunkMetaMap, max)
            i == QueryInterval(lo, hi)
<1>1. /\ reader[r].pc = "max" /\ ReaderGoesOn(r, "iterator", i[1], i[2], NoMap, {})
      /\ UNCHANGED <<chunkMetaMap, chunkMap, writer, acked>>
  BY DEF QueryMax
<1>2. PICK q : /\ Running(r)
               /\ reader' = [reader EXCEPT ![r] = q]
               /\ reader'[r].pc = "iterator" /\ reader'[r].lo = i[1] /\ reader'[r].hi = i[2]
               /\ reader'[r].metas = NoMap /\ reader'[r].delivered = {}
               /\ ReaderType(r)'
               /\ Busy' \subseteq reader'[r].touched
               /\ \A t : /\ Quiet(r, t)' <=> Quiet(r, t)
                         /\ InAsked(r, t)' <=> InAsked(r, t)
                         /\ Wanted(r, t)' <=> Wanted(r, t)
               /\ \A t : Wanted(r, t) => Current(t) /\ t \in Time
  <2>. HIDE DEF i
  <2>. QED
    BY <1>1, GoesOn DEF ReaderPc
<1>3. /\ max \in Time /\ lo \in Int /\ reader[r].min \in Time /\ reader[r].min <= lo
      /\ \A t : Wanted(r, t) => lo <= t
  BY <1>1, <1>2 DEF Running, ReaderType, LowerOK
<1>4. /\ hi \in Int /\ hi <= max
      /\ \A k \in DOMAIN chunkMetaMap : \A t \in DOMAIN chunkMap[k] : t <= max => t <= hi
  BY <1>3, CutUpper DEF IInv
<1>. HIDE DEF hi
<1>5. \A t : Wanted(r, t) => lo <= t /\ t <= hi
  <2>1. ASSUME NEW t, Wanted(r, t)
        PROVE  t <= hi
    BY <1>2, <1>4, <2>1 DEF Wanted, InAsked, Current
  <2>. QED
    BY <1>3, <2>1
<1>6. /\ i[1] \in Int /\ i[2] \in Int
      /\ \A t : Wanted(r, t) => i[1] <= t /\ t <= i[2]
      /\ \A t \in Time : i[1] <= t /\ t <= i[2] => InAsked(r, t)
  <2>1. CASE lo <= hi
    <3>1. i[1] = lo /\ i[2] = hi
      BY <2>1 DEF QueryInterval
    <3>. QED
      BY <1>3, <1>4, <1>5, <3>1 DEF InAsked, Time
  <2>2. CASE ~(lo <= hi)
    <3>1. i[1] = -1 /\ i[2] = -1
      BY <2>2 DEF QueryInterval
    <3>2. \A t : ~Wanted(r, t)
      BY <1>2, <1>3, <1>4, <1>5, <2>2 DEF Time
    <3>. QED
      BY <3>1, <3>2 DEF Time
  <2>. QED
    BY <2>1, <2>2
<1>. HIDE DEF i
<1>7. LowerOK(r)' /\ UpperOK(r)'
  BY <1>2, <1>6 DEF LowerOK, UpperOK
<1>8. MetasOK(r)' /\ DeliveredSound(r)' /\ NothingMissed(r)' /\ FailsIfTouched(r)'
  BY <1>2 DEF MetasOK, NoMap, DeliveredSound, NothingMissed, FailsIfTouched
<1>9. ReaderOK(r)'
  BY <1>2, <1>7, <1>8 DEF ReaderOK, Running
<1>. QED
  BY <1>1, <1>2, <1>9, OneReader

\* Everything that is wanted is in a chunk that the iterator has before it.
LEMMA CreateIteratorOK ==
  ASSUME IInv, QueryInv, NEW r \in Reader, CreateIterator(r)
  PROVE  QueryInv'
<1>. DEFINE keys == ChunkMetaIterator(chunkMetaMap, reader[r].min, reader[r].max)
            m == Restrict(chunkMetaMap, keys)
<1>1. /\ reader[r].pc = "iterator" /\ ReaderGoesOn(r, "chunks", reader[r].lo, reader[r].hi, m, {})
      /\ UNCHANGED <<chunkMetaMap, chunkMap, writer, acked>>
  BY DEF CreateIterator
<1>. HIDE DEF m
<1>2. PICK q : /\ Running(r)
               /\ reader' = [reader EXCEPT ![r] = q]
               /\ reader'[r].pc = "chunks"
               /\ reader'[r].lo = reader[r].lo /\ reader'[r].hi = reader[r].hi
               /\ reader'[r].metas = m /\ reader'[r].delivered = {}
               /\ ReaderType(r)'
               /\ Busy' \subseteq reader'[r].touched
               /\ \A t : /\ Quiet(r, t)' <=> Quiet(r, t)
                         /\ InAsked(r, t)' <=> InAsked(r, t)
                         /\ Wanted(r, t)' <=> Wanted(r, t)
               /\ \A t : Wanted(r, t) => Current(t) /\ t \in Time
  BY <1>1, GoesOn DEF ReaderPc
<1>3. /\ keys \subseteq DOMAIN chunkMetaMap
      /\ \A k \in DOMAIN chunkMetaMap : \A t \in DOMAIN chunkMap[k] : InAsked(r, t) => k \in keys
  BY <1>2, IteratorReaches DEF IInv, Running, ReaderType, InAsked
<1>. HIDE DEF keys
<1>4. /\ DOMAIN m = keys /\ m = [k \in keys |-> m[k]]
      /\ \A k \in keys : m[k] = chunkMetaMap[k]
  BY DEF m, Restrict
<1>5. DOMAIN chunkMetaMap \subseteq Time /\ DOMAIN chunkMetaMap \subseteq DOMAIN chunkMap
  BY DEF IInv, MapsOK
<1>6. MetasOK(r)'
  BY <1>1, <1>2, <1>3, <1>4, <1>5 DEF MetasOK
<1>7. LowerOK(r)' /\ UpperOK(r)'
  BY <1>1, <1>2 DEF Running, LowerOK, UpperOK
<1>8. DeliveredSound(r)' /\ FailsIfTouched(r)'
  BY <1>2 DEF DeliveredSound, FailsIfTouched
<1>9. NothingMissed(r)'
  <2>1. ASSUME NEW t, Wanted(r, t)
        PROVE  Coming(r, t)'
    <3>1. PICK k \in DOMAIN chunkMetaMap : t \in DOMAIN chunkMap[k]
      BY <1>2, <2>1 DEF Current, Wanted
    <3>2. k \in keys
      BY <1>3, <2>1, <3>1 DEF Wanted
    <3>. QED
      BY <1>1, <1>2, <1>4, <1>5, <3>1, <3>2 DEF Coming
  <2>. QED
    BY <1>2, <2>1 DEF NothingMissed
<1>10. ReaderOK(r)'
  BY <1>2, <1>6, <1>7, <1>8, <1>9 DEF ReaderOK, Running
<1>. QED
  BY <1>1, <1>2, <1>10, OneReader

\* A chunk that is gone is of a year that has changed.
LEMMA ChunkGone ==
  ASSUME IInv, NEW r, MetasOK(r), NEW k \in DOMAIN reader[r].metas, k \notin DOMAIN chunkMap
  PROVE  reader[r].touched # {}
<1>1. k \notin DOMAIN chunkMetaMap /\ k \in Time
  BY DEF IInv, MapsOK, MetasOK
<1>. QED
  BY <1>1 DEF MetasOK, Quiet

\* Of a chunk of a quiet year a query delivers what it wants of it; of others, whatever is there.
LEMMA ChunkDelivered ==
  ASSUME IInv, QueryInv, NEW r, Running(r), reader[r].pc = "chunks",
         NEW k \in DOMAIN reader[r].metas, k \in DOMAIN chunkMap
  PROVE  LET times == ChunkPart(reader[r].metas[k], chunkMap[k], reader[r].lo, reader[r].hi)
         IN  /\ \A t \in times : t \in Time /\ SameYear(t, k)
             /\ \A t \in times : Quiet(r, t) => Wanted(r, t) /\ chunkMap[k][t] = acked[t]
             /\ \A t \in DOMAIN chunkMap[k] : Wanted(r, t) => t \in times /\ chunkMap[k][t] = acked[t]
<1>. DEFINE lo == reader[r].lo
            hi == reader[r].hi
            c == chunkMap[k]
            times == ChunkPart(reader[r].metas[k], c, lo, hi)
<1>1. /\ IsChunk(c) /\ k \in Time
      /\ \A t \in DOMAIN c : t \in Time /\ SameYear(t, k)
  BY ChunkOfYear DEF IInv, MapsOK, IsChunk, IsEntries
<1>2. times \subseteq DOMAIN c
  BY DEF ChunkPart
<1>3. lo \in Int /\ hi \in Int
  BY DEF Running, LowerOK, UpperOK
<1>4. ASSUME Quiet(r, k)
      PROVE  /\ times = {t \in DOMAIN c : lo <= t /\ t <= hi}
             /\ k \in DOMAIN chunkMetaMap
  <2>1. k \in DOMAIN chunkMetaMap /\ reader[r].metas[k] = MetaOf(c)
    BY <1>4 DEF Running, MetasOK, IInv, MapsOK
  <2>. HIDE DEF lo, hi, c
  <2>. QED
    BY <1>1, <1>3, <2>1, PartOfChunk
<1>. HIDE DEF times
<1>5. ASSUME NEW t \in DOMAIN c, Quiet(r, t)
      PROVE  Quiet(r, k) /\ t \in DOMAIN acked /\ c[t] = acked[t]
  <2>1. Quiet(r, k)
    BY <1>1, <1>5 DEF Quiet, SameYear
  <2>2. Current(t)
    BY <1>5, QuietCurrent DEF Running
  <2>. QED
    BY <1>4, <2>1, <2>2 DEF Current
<1>6. ASSUME NEW t \in times, Quiet(r, t)
      PROVE  Wanted(r, t) /\ c[t] = acked[t]
  <2>1. t \in DOMAIN c /\ lo <= t /\ t <= hi /\ t \in Time
    BY <1>1, <1>2, <1>4, <1>5, <1>6
  <2>2. InAsked(r, t)
    BY <2>1 DEF Running, UpperOK
  <2>. QED
    BY <1>5, <1>6, <2>1, <2>2 DEF Wanted
<1>7. ASSUME NEW t \in DOMAIN c, Wanted(r, t)
      PROVE  t \in times /\ c[t] = acked[t]
  <2>1. lo <= t /\ t <= hi
    BY <1>7 DEF Running, LowerOK, UpperOK
  <2>. QED
    BY <1>4, <1>5, <1>7, <2>1 DEF Wanted
<1>. QED
  BY <1>1, <1>2, <1>6, <1>7 DEF times

\* A chunk is delivered, or it is gone and the query fails.
LEMMA NextChunkOK ==
  ASSUME IInv, QueryInv, NEW r \in Reader, NextChunk(r)
  PROVE  QueryInv'
<1>. DEFINE metas == reader[r].metas
            lo == reader[r].lo
            hi == reader[r].hi
            k == Min(DOMAIN metas)
            times == ChunkPart(metas[k], chunkMap[k], lo, hi)
            new == {<<t, chunkMap[k][t]>> : t \in times}
            rest == Restrict(metas, DOMAIN metas \ {k})
<1>1. /\ reader[r].pc = "chunks" /\ metas # NoMap
      /\ UNCHANGED <<chunkMetaMap, chunkMap, writer, acked>>
      /\ k \in DOMAIN chunkMap =>
           ReaderGoesOn(r, "chunks", lo, hi, rest, reader[r].delivered \cup new)
      /\ k \notin DOMAIN chunkMap => ReaderGoesOn(r, "failed", lo, hi, metas, reader[r].delivered)
  BY DEF NextChunk
<1>2. Running(r) /\ MetasOK(r) /\ DOMAIN metas \subseteq Time
  BY <1>1 DEF QueryInv, ReadersOK, ReaderOK, IdleReader, ReaderAt, Running, MetasOK
<1>3. DOMAIN metas # {}
  <2>1. DOMAIN metas = {} => metas = NoMap
    BY <1>2 DEF MetasOK, NoMap
  <2>. QED
    BY <1>1, <2>1
<1>4. k \in DOMAIN metas
  BY <1>2, <1>3, MinOfTime
<1>. HIDE DEF k
<1>5. CASE k \notin DOMAIN chunkMap
  <2>1. PICK q : /\ reader' = [reader EXCEPT ![r] = q]
                 /\ reader'[r].pc = "failed"
                 /\ reader'[r].metas = metas /\ reader'[r].delivered = reader[r].delivered
                 /\ reader'[r].touched = reader[r].touched
                 /\ ReaderType(r)'
                 /\ Busy' \subseteq reader'[r].touched
                 /\ \A t : /\ Quiet(r, t)' <=> Quiet(r, t)
                           /\ Wanted(r, t)' <=> Wanted(r, t)
    BY <1>1, <1>5, GoesOn DEF ReaderPc
  <2>2. LowerOK(r)' /\ UpperOK(r)' /\ NothingMissed(r)'
    BY <2>1 DEF LowerOK, UpperOK, NothingMissed
  <2>3. MetasOK(r)'
    BY <1>1, <1>2, <2>1 DEF MetasOK
  <2>4. DeliveredSound(r)'
    BY <1>1, <1>2, <2>1 DEF Running, DeliveredSound
  <2>5. FailsIfTouched(r)'
    BY <1>2, <1>4, <1>5, <2>1, ChunkGone DEF FailsIfTouched
  <2>6. ReaderOK(r)'
    BY <2>1, <2>2, <2>3, <2>4, <2>5 DEF ReaderOK, Running
  <2>. QED
    BY <1>1, <2>1, <2>6, OneReader
<1>6. CASE k \in DOMAIN chunkMap
  <2>. HIDE DEF rest, new
  <2>1. PICK q : /\ reader' = [reader EXCEPT ![r] = q]
                 /\ reader'[r].pc = "chunks"
                 /\ reader'[r].lo = lo /\ reader'[r].hi = hi
                 /\ reader'[r].metas = rest
                 /\ reader'[r].delivered = reader[r].delivered \cup new
                 /\ reader'[r].touched = reader[r].touched
                 /\ ReaderType(r)'
                 /\ Busy' \subseteq reader'[r].touched
                 /\ \A t : /\ Quiet(r, t)' <=> Quiet(r, t)
                           /\ InAsked(r, t)' <=> InAsked(r, t)
                           /\ Wanted(r, t)' <=> Wanted(r, t)
    BY <1>1, <1>6, GoesOn DEF ReaderPc
  <2>2. /\ \A t \in times : t \in Time /\ SameYear(t, k)
        /\ \A t \in times : Quiet(r, t) => Wanted(r, t) /\ chunkMap[k][t] = acked[t]
        /\ \A t \in DOMAIN chunkMap[k] : Wanted(r, t) => t \in times /\ chunkMap[k][t] = acked[t]
    BY <1>1, <1>2, <1>4, <1>6, ChunkDelivered
  <2>. HIDE DEF times
  <2>3. /\ DOMAIN rest = DOMAIN metas \ {k} /\ rest = [j \in DOMAIN metas \ {k} |-> rest[j]]
        /\ \A j \in DOMAIN rest : rest[j] = metas[j]
    BY DEF rest, Restrict
  <2>4. LowerOK(r)' /\ UpperOK(r)' /\ FailsIfTouched(r)'
    BY <1>1, <1>2, <2>1 DEF Running, LowerOK, UpperOK, FailsIfTouched
  <2>5. MetasOK(r)'
    BY <1>1, <1>2, <2>1, <2>3 DEF MetasOK
  <2>6. DeliveredSound(r)'
    <3>. SUFFICES ASSUME NEW e \in reader[r].delivered \cup new,
                         roundLowerYear[e[1]] \notin reader[r].touched
                  PROVE  \E t : Wanted(r, t) /\ e = <<t, acked[t]>>
      BY <1>1, <2>1 DEF DeliveredSound
    <3>1. CASE e \in reader[r].delivered
      BY <1>2, <3>1 DEF Running, DeliveredSound
    <3>2. CASE e \in new
      <4>1. PICK t \in times : e = <<t, chunkMap[k][t]>>
        BY <3>2 DEF new
      <4>2. Quiet(r, t)
        BY <2>2, <4>1 DEF Quiet
      <4>. QED
        BY <2>2, <4>1, <4>2
    <3>. QED
      BY <3>1, <3>2
  <2>7. NothingMissed(r)'
    <3>1. ASSUME NEW t, Wanted(r, t)
          PROVE  Delivered(r, t)' \/ Coming(r, t)'
      <4>1. CASE Delivered(r, t)
        BY <1>1, <2>1, <4>1 DEF Delivered
      <4>2. CASE Coming(r, t)
        <5>1. PICK j \in DOMAIN metas : j \in DOMAIN chunkMap /\ t \in DOMAIN chunkMap[j]
          BY <4>2 DEF Coming
        <5>2. CASE j = k
          <6>1. t \in times /\ chunkMap[k][t] = acked[t]
            BY <2>2, <3>1, <5>1, <5>2
          <6>. QED
            BY <1>1, <2>1, <6>1 DEF Delivered, new
        <5>3. CASE j # k
          BY <1>1, <2>1, <2>3, <5>1, <5>3 DEF Coming
        <5>. QED
          BY <5>2, <5>3
      <4>. QED
        BY <1>1, <1>2, <3>1, <4>1, <4>2 DEF Running, NothingMissed
    <3>. QED
      BY <2>1, <3>1 DEF NothingMissed
  <2>8. ReaderOK(r)'
    BY <2>1, <2>4, <2>5, <2>6, <2>7 DEF ReaderOK, Running
  <2>. QED
    BY <1>1, <2>1, <2>8, OneReader
<1>. QED
  BY <1>5, <1>6

\* With no chunk before it everything wanted is delivered.
LEMMA EndOfChunksOK ==
  ASSUME IInv, QueryInv, NEW r \in Reader, EndOfChunks(r)
  PROVE  QueryInv'
<1>1. /\ reader[r].pc = "chunks" /\ reader[r].metas = NoMap
      /\ ReaderGoesOn(r, "done", reader[r].lo, reader[r].hi, NoMap, reader[r].delivered)
      /\ UNCHANGED <<chunkMetaMap, chunkMap, writer, acked>>
  BY DEF EndOfChunks
<1>2. PICK q : /\ Running(r)
               /\ reader' = [reader EXCEPT ![r] = q]
               /\ reader'[r].pc = "done"
               /\ reader'[r].metas = NoMap /\ reader'[r].delivered = reader[r].delivered
               /\ reader'[r].touched = reader[r].touched
               /\ ReaderType(r)'
               /\ Busy' \subseteq reader'[r].touched
               /\ \A t : /\ Quiet(r, t)' <=> Quiet(r, t)
                         /\ Wanted(r, t)' <=> Wanted(r, t)
  BY <1>1, GoesOn DEF ReaderPc
<1>3. DOMAIN NoMap = {}
  BY DEF NoMap
<1>4. LowerOK(r)' /\ UpperOK(r)' /\ FailsIfTouched(r)'
  BY <1>2 DEF LowerOK, UpperOK, FailsIfTouched
<1>5. MetasOK(r)'
  BY <1>2, <1>3 DEF MetasOK, NoMap
<1>6. DeliveredSound(r)'
  BY <1>1, <1>2 DEF Running, DeliveredSound
<1>7. NothingMissed(r)'
  BY <1>1, <1>2, <1>3 DEF Running, NothingMissed, Delivered, Coming
<1>8. ReaderOK(r)'
  BY <1>2, <1>4, <1>5, <1>6, <1>7 DEF ReaderOK, Running
<1>. QED
  BY <1>1, <1>2, <1>8, OneReader

\* A query that is closed is as if it had never been.
LEMMA CloseOK ==
  ASSUME QueryInv, NEW r \in Reader, Close(r)
  PROVE  QueryInv'
BY OneReader DEF Close, ReaderOK

\* After a crash the acknowledged entries are those that queries find on disk.
LEMMA CrashQuery ==
  ASSUME IInv, Crash
  PROVE  QueryInv'
<1>. DEFINE metas == committed.metas
            chunks == committed.chunks
            c == Restrict(chunks, DOMAIN metas)
            f == Series(c)
<1>1. /\ chunkMetaMap' = metas /\ chunkMap' = chunks
      /\ \A w \in Writer : writer'[w] = IdleWriter
      /\ reader' = [r \in Reader |-> IdleReader]
  BY DEF Crash
<1>2. MapsOK(metas, chunks)
  BY DEF IInv
<1>3. DOMAIN metas \cap DOMAIN chunks = DOMAIN metas
  BY <1>2 DEF MapsOK
<1>4. acked' = f
  BY <1>3 DEF Crash, Visible
<1>5. Consistent(metas, c) /\ DOMAIN c = DOMAIN metas /\ \A k \in DOMAIN metas : c[k] = chunks[k]
  BY <1>2, VisibleConsistent
<1>. HIDE DEF metas, chunks, c
<1>6. /\ DOMAIN f = SeriesTimes(c) /\ IsEntries(f)
      /\ \A k \in DOMAIN metas : \A t \in DOMAIN chunks[k] : t \in SeriesTimes(c) /\ f[t] = chunks[k][t]
  BY <1>5, SeriesByChunk
<1>7. \A t : t \in SeriesTimes(c) => \E k \in DOMAIN metas : t \in DOMAIN chunks[k]
  BY <1>5 DEF SeriesTimes
<1>. HIDE DEF f
<1>8. YearsCurrent'
  BY <1>1, <1>4, <1>6, <1>7 DEF YearsCurrent, Current
<1>9. \A w \in Writer : MergedExact(w)'
  BY <1>1 DEF MergedExact, IdleWriter, At
<1>10. ReadersOK'
  BY <1>1 DEF ReadersOK, ReaderOK
<1>. QED
  BY <1>4, <1>6, <1>8, <1>9, <1>10 DEF QueryInv

\* Steps that change nothing a query or an insertion looks at.
LEMMA SameQuery ==
  ASSUME QueryInv, UNCHANGED <<chunkMetaMap, chunkMap, writer, reader, acked>>
  PROVE  QueryInv'
<1>1. Busy' = Busy
  BY BusyKept
<1>2. YearsCurrent'
  BY <1>1 DEF QueryInv, YearsCurrent, Current
<1>3. \A w \in Writer : MergedExact(w)'
  BY DEF QueryInv, MergedExact, OfYear, Year, Group
<1>4. ASSUME NEW r \in Reader
      PROVE  ReaderOK(r)'
  BY <1>1 DEF QueryInv, ReadersOK, ReaderOK, Running, ReaderType, LowerOK, UpperOK, MetasOK,
              DeliveredSound, NothingMissed, FailsIfTouched, Wanted, Quiet, InAsked, Delivered, Coming
<1>. QED
  BY <1>2, <1>3, <1>4 DEF QueryInv, ReadersOK

\* An empty stream is current.
LEMMA QueryInit == Init => QueryInv
<1>. SUFFICES ASSUME Init PROVE QueryInv
  OBVIOUS
<1>1. DOMAIN acked = {} /\ DOMAIN chunkMetaMap = {} /\ IsEntries(acked)
  BY DEF Init, NoEntries, NoMap, IsEntries
<1>2. YearsCurrent
  BY <1>1 DEF YearsCurrent, Current
<1>3. \A w \in Writer : MergedExact(w)
  BY DEF Init, MergedExact, IdleWriter, At
<1>4. ReadersOK
  BY DEF Init, ReadersOK, ReaderOK
<1>. QED
  BY <1>1, <1>2, <1>3, <1>4 DEF QueryInv

\* Every step keeps both invariants.
LEMMA QueryNext ==
  ASSUME YearsApart, IInv, QueryInv, [Next]_vars
  PROVE  QueryInv'
<1>1. IInv'
  BY NextOK
<1>2. ASSUME NEW w \in Writer, WriterStep(w)
      PROVE  QueryInv'
  BY <1>1, <1>2, BeginQuery, FindQuery, ReadQuery, ExchangeQuery, PutMetaQuery DEF WriterStep
<1>3. ASSUME NEW r \in Reader, ReaderStep(r)
      PROVE  QueryInv'
  BY <1>3, QueryOK, QueryMaxOK, CreateIteratorOK, NextChunkOK, EndOfChunksOK, CloseOK DEF ReaderStep
<1>4. CASE CommitOther
  BY <1>4, SameQuery DEF CommitOther
<1>5. CASE Crash
  BY <1>5, CrashQuery
<1>6. CASE UNCHANGED vars
  BY <1>6, SameQuery DEF vars
<1>. QED
  BY <1>2, <1>3, <1>4, <1>5, <1>6 DEF Next

\* What the invariant says of a query that has ended.
LEMMA QueryExact == QueryInv => UntouchedYearsExact
<1>. SUFFICES ASSUME QueryInv, NEW r \in Reader
              PROVE  LET q == reader[r]
                         quiet(t) == roundLowerYear[t] \notin q.touched
                     IN  /\ q.pc = "failed" => q.touched # {}
                         /\ q.pc = "done" =>
                              {e \in q.delivered : quiet(e[1])}
                                = {<<t, acked[t]>> :
                                     t \in {t \in DOMAIN acked : quiet(t) /\ q.min <= t /\ t <= q.max}}
  BY DEF UntouchedYearsExact
<1>1. CASE reader[r] = IdleReader
  BY <1>1 DEF IdleReader, ReaderAt
<1>2. CASE Running(r)
  <2>1. reader[r].pc = "failed" => reader[r].touched # {}
    BY <1>2 DEF Running, FailsIfTouched
  <2>2. \A t : Wanted(r, t) <=>
          /\ t \in DOMAIN acked /\ roundLowerYear[t] \notin reader[r].touched
          /\ reader[r].min <= t /\ t <= reader[r].max
    BY DEF Wanted, Quiet, InAsked, QueryInv, IsEntries
  <2>3. ASSUME reader[r].pc = "done"
        PROVE  \A t : Wanted(r, t) => <<t, acked[t]>> \in reader[r].delivered
    BY <1>2, <2>3 DEF Running, NothingMissed, Delivered
  <2>4. \A e \in reader[r].delivered : roundLowerYear[e[1]] \notin reader[r].touched =>
          \E t : Wanted(r, t) /\ e = <<t, acked[t]>>
    BY <1>2 DEF Running, DeliveredSound
  <2>. QED
    BY <2>1, <2>2, <2>3, <2>4
<1>. QED
  BY <1>1, <1>2 DEF QueryInv, ReadersOK, ReaderOK

\* A query beside any number of insertions delivers exactly the acknowledged entries of its
\* window in every year that no insertion changed under it, and fails only if one did.
THEOREM QuietYearsExact == YearsApart => (Spec => []UntouchedYearsExact)
<1>. SUFFICES ASSUME YearsApart PROVE Spec => []UntouchedYearsExact
  OBVIOUS
<1>1. Init => IInv /\ QueryInv
  BY InitOK, QueryInit
<1>2. IInv /\ QueryInv /\ [Next]_vars => (IInv /\ QueryInv)'
  BY NextOK, QueryNext
<1>3. IInv /\ QueryInv => UntouchedYearsExact
  BY QueryExact
<1>. QED
  BY <1>1, <1>2, <1>3, PTL DEF Spec
=============================================================================
