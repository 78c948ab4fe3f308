---------------------------- MODULE StreamDBConc ----------------------------
(***************************************************************************)
(* One stream of StreamDB as the threads of the server use it.  Nothing    *)
(* locks a stream: insertions and queries run on RMI and Jetty threads and *)
(* interleave between any two accesses to the tree maps.  A commit by any  *)
(* thread writes the maps to disk as they are at that moment, half-done    *)
(* work of other threads included.                                         *)
(*                                                                         *)
(* Each access to a MapDB tree map is atomic.  An iterator over the values *)
(* walks a leaf node of the tree that is not modified in place, so it sees *)
(* the map as it was when the iterator was made (a leaf holds 32 entries,  *)
(* more years than a stream has).                                          *)
(***************************************************************************)
EXTENDS Chunks

CONSTANTS
  Writer,       \* threads that insert
  Reader,       \* threads that query
  WriterTimes   \* the timestamps each writer has entries for

ASSUME WriterAssumption == WriterTimes \in [Writer -> SUBSET Time]

VARIABLES
  chunkMetaMap,
  chunkMap,
  committed,    \* both maps as of the last commit
  writer,       \* per writer: program counter and local variables
  reader,       \* per reader: program counter and local variables
  acked         \* history: entries whose chunk has been put, and not lost in a crash

vars == <<chunkMetaMap, chunkMap, committed, writer, reader, acked>>

NoMap == [k \in {} |-> 0]
Maps == [metas |-> chunkMetaMap, chunks |-> chunkMap]

At(pc, entries, key, merged) ==
  [pc |-> pc, entries |-> entries, key |-> key, merged |-> merged]

IdleWriter == At("idle", NoEntries, {}, NoEntries)

ReaderAt(pc, min, max, lo, hi, metas, delivered, touched) ==
  [pc |-> pc, min |-> min, max |-> max, lo |-> lo, hi |-> hi,
   metas |-> metas, delivered |-> delivered, touched |-> touched]

IdleReader == ReaderAt("idle", 0, 0, 0, 0, NoMap, {}, {})

Init ==
  /\ chunkMetaMap = NoMap
  /\ chunkMap = NoMap
  /\ committed = Maps
  /\ writer = [w \in Writer |-> IdleWriter]
  /\ reader = [r \in Reader |-> IdleReader]
  /\ acked = NoEntries

-----------------------------------------------------------------------------
(* insertSensorData, one map access per action                             *)

\* The entries of the year the writer is working on.
Group(w) == YearGroup(writer[w].entries, Min(DOMAIN writer[w].entries))
Year(w) == roundLowerYear[Min(DOMAIN writer[w].entries)]

Goto(w, pc) == writer' = [writer EXCEPT ![w].pc = pc]

\* Queries in progress see the year of w change under them.
Touch(w) ==
  reader' = [r \in Reader |->
               IF reader[r].pc = "idle" THEN reader[r]
                 ELSE [reader[r] EXCEPT !.touched = @ \cup {Year(w)}]]

Begin(w) ==
  /\ writer[w].pc = "idle"
  /\ \E times \in (SUBSET WriterTimes[w]) \ {{}} : \E e \in [times -> Value] :
       writer' = [writer EXCEPT ![w] = At("find", e, {}, NoEntries)]
  /\ UNCHANGED <<chunkMetaMap, chunkMap, committed, reader, acked>>

\* getChunkMeta: ceilingKey.
Find(w) ==
  /\ writer[w].pc = "find"
  /\ LET key == ceilingKeyOfYear(DOMAIN chunkMetaMap, First(Group(w)))
     IN  writer' = [writer EXCEPT ![w] =
                      IF key = {} THEN At("putChunk", @.entries, {}, Group(w))
                                  ELSE At("get", @.entries, key, NoEntries)]
  /\ UNCHANGED <<chunkMetaMap, chunkMap, committed, reader, acked>>

\* getChunkMeta: get, and its assertion throwNull(chunkMeta).
Get(w) ==
  /\ writer[w].pc = "get"
  /\ Goto(w, IF writer[w].key \subseteq DOMAIN chunkMetaMap THEN "read" ELSE "failed")
  /\ UNCHANGED <<chunkMetaMap, chunkMap, committed, reader, acked>>

\* insertIntoOneChunk reads the old chunk and merges.
Read(w) ==
  /\ writer[w].pc = "read"
  /\ IF writer[w].key \subseteq DOMAIN chunkMap
       THEN \E k \in writer[w].key :
              writer' = [writer EXCEPT ![w] =
                           At("removeMeta", @.entries, @.key, Overwrite(chunkMap[k], Group(w)))]
       ELSE Goto(w, "failed")
  /\ UNCHANGED <<chunkMetaMap, chunkMap, committed, reader, acked>>

\* Mutant: the metadata of the replaced chunk is kept.
RemoveMetaForgotten(w) ==
  /\ writer[w].pc = "removeMeta"
  /\ Goto(w, "removeChunk")
  /\ Touch(w)
  /\ UNCHANGED <<chunkMetaMap, chunkMap, committed, acked>>

RemoveMeta(w) ==
  /\ writer[w].pc = "removeMeta"
  /\ chunkMetaMap' = Restrict(chunkMetaMap, DOMAIN chunkMetaMap \ writer[w].key)
  /\ Goto(w, "removeChunk")
  /\ Touch(w)
  /\ UNCHANGED <<chunkMap, committed, acked>>

RemoveChunk(w) ==
  /\ writer[w].pc = "removeChunk"
  /\ chunkMap' = Restrict(chunkMap, DOMAIN chunkMap \ writer[w].key)
  /\ Goto(w, "putChunk")
  /\ Touch(w)
  /\ UNCHANGED <<chunkMetaMap, committed, acked>>

Put(map, k, v) == [j \in DOMAIN map \cup {k} |-> IF j = k THEN v ELSE map[j]]

PutChunk(w) ==
  /\ writer[w].pc = "putChunk"
  /\ chunkMap' = Put(chunkMap, First(writer[w].merged), writer[w].merged)
  /\ Goto(w, "putMeta")
  /\ Touch(w)
  /\ UNCHANGED <<chunkMetaMap, committed, acked>>

\* The last access for this year; on to the next one.
PutMeta(w) ==
  LET rest == Restrict(writer[w].entries, DOMAIN writer[w].entries \ DOMAIN Group(w))
  IN  /\ writer[w].pc = "putMeta"
      /\ chunkMetaMap' = Put(chunkMetaMap, First(writer[w].merged), MetaOf(writer[w].merged))
      /\ acked' = Overwrite(acked, Group(w))
      /\ writer' = [writer EXCEPT ![w] =
                      At(IF rest = NoEntries THEN "commit" ELSE "find", rest, {}, NoEntries)]
      /\ Touch(w)
      /\ UNCHANGED <<chunkMap, committed>>

\* The commit at the end of ServerTsDB.insertDataRows.
CommitWriter(w) ==
  /\ writer[w].pc = "commit"
  /\ committed' = Maps
  /\ writer' = [writer EXCEPT ![w] = IdleWriter]
  /\ UNCHANGED <<chunkMetaMap, chunkMap, reader, acked>>

\* An assertion failed, or an entry of the year being collected is out of order.
\* The exception reaches the client; nothing is undone, and the rest is dropped.
Fail(w) ==
  /\ writer[w].pc \in {"failed", "find"}
  /\ writer' = [writer EXCEPT ![w] = IdleWriter]
  /\ UNCHANGED <<chunkMetaMap, chunkMap, committed, reader, acked>>

WriterStep(w) ==
  \/ Begin(w)
  \/ Find(w)
  \/ Get(w)
  \/ Read(w)
  \/ RemoveMeta(w)
  \/ RemoveChunk(w)
  \/ PutChunk(w)
  \/ PutMeta(w)
  \/ CommitWriter(w)
  \/ Fail(w)

-----------------------------------------------------------------------------
(* StreamIterator                                                          *)

\* Years whose metadata is missing right now.
Open == {Year(w) : w \in {w \in Writer :
                            writer[w].pc \in {"removeChunk", "putChunk", "putMeta"}}}

\* The query goes on with its window.
ReaderGoesOn(r, pc, lo, hi, metas, delivered) ==
  reader' = [reader EXCEPT ![r] =
               ReaderAt(pc, @.min, @.max, lo, hi, metas, delivered, @.touched)]

\* getDataMinTimestamp reads the first metadata.
Query(r) ==
  /\ reader[r].pc = "idle"
  /\ \E min, max \in Time :
       /\ min <= max
       /\ reader' = [reader EXCEPT ![r] =
                       ReaderAt("max", min, max, getDataMinTimestamp(chunkMetaMap, min), 0,
                                NoMap, {}, Open)]
  /\ UNCHANGED <<chunkMetaMap, chunkMap, committed, writer, acked>>

\* getDataMaxTimestamp reads the last one.
QueryMax(r) ==
  /\ reader[r].pc = "max"
  /\ LET q == QueryInterval(reader[r].lo, getDataMaxTimestamp(chunkMetaMap, reader[r].max))
     IN  ReaderGoesOn(r, "iterator", q[1], q[2], NoMap, {})
  /\ UNCHANGED <<chunkMetaMap, chunkMap, committed, writer, acked>>

\* createIterator.
CreateIterator(r) ==
  /\ reader[r].pc = "iterator"
  /\ ReaderGoesOn(r, "chunks", reader[r].lo, reader[r].hi,
       Restrict(chunkMetaMap, ChunkMetaIterator(chunkMetaMap, reader[r].min, reader[r].max)), {})
  /\ UNCHANGED <<chunkMetaMap, chunkMap, committed, writer, acked>>

\* nextChunk: the chunk is looked up when the iterator gets there.
NextChunk(r) ==
  /\ reader[r].pc = "chunks"
  /\ reader[r].metas # NoMap
  /\ LET q == reader[r]
         k == Min(DOMAIN q.metas)
         times == ChunkPart(q.metas[k], chunkMap[k], q.lo, q.hi)
     IN  IF k \in DOMAIN chunkMap
           THEN ReaderGoesOn(r, "chunks", q.lo, q.hi, Restrict(q.metas, DOMAIN q.metas \ {k}),
                             q.delivered \cup {<<t, chunkMap[k][t]>> : t \in times})
           ELSE ReaderGoesOn(r, "failed", q.lo, q.hi, q.metas, q.delivered)
  /\ UNCHANGED <<chunkMetaMap, chunkMap, committed, writer, acked>>

EndOfChunks(r) ==
  /\ reader[r].pc = "chunks"
  /\ reader[r].metas = NoMap
  /\ ReaderGoesOn(r, "done", reader[r].lo, reader[r].hi, NoMap, reader[r].delivered)
  /\ UNCHANGED <<chunkMetaMap, chunkMap, committed, writer, acked>>

\* The client has its answer, or an exception.
Close(r) ==
  /\ reader[r].pc \in {"done", "failed"}
  /\ reader' = [reader EXCEPT ![r] = IdleReader]
  /\ UNCHANGED <<chunkMetaMap, chunkMap, committed, writer, acked>>

ReaderStep(r) ==
  \/ Query(r)
  \/ QueryMax(r)
  \/ CreateIterator(r)
  \/ NextChunk(r)
  \/ EndOfChunks(r)
  \/ Close(r)

-----------------------------------------------------------------------------

\* A commit for another station, for masks or for the catalog.
CommitOther ==
  /\ committed' = Maps
  /\ UNCHANGED <<chunkMetaMap, chunkMap, writer, reader, acked>>

\* The entries queries can reach: chunks without metadata are invisible.
Visible(m) == Series(Restrict(m.chunks, DOMAIN m.metas \cap DOMAIN m.chunks))

Crash ==
  /\ chunkMetaMap' = committed.metas
  /\ chunkMap' = committed.chunks
  /\ writer' = [w \in Writer |-> IdleWriter]
  /\ reader' = [r \in Reader |-> IdleReader]
  /\ acked' = Visible(committed)
  /\ UNCHANGED committed

Next ==
  \/ \E w \in Writer : WriterStep(w)
  \/ \E r \in Reader : ReaderStep(r)
  \/ CommitOther
  \/ Crash

Spec == Init /\ [][Next]_vars

-----------------------------------------------------------------------------
(* Properties of writers that work on different years                      *)

\* Metadata that is there is right: it has its chunk and describes it, between
\* any two map accesses and on disk after any commit.  This is what the order
\* remove metadata, remove chunk, put chunk, put metadata is for.
MetaNeverLies ==
  \A m \in {Maps, committed} : \A k \in DOMAIN m.metas :
    /\ k \in DOMAIN m.chunks
    /\ k = First(m.chunks[k])
    /\ m.metas[k] = MetaOf(m.chunks[k])

\* A query delivers years that did not change since it began exactly, whatever
\* happened to other years, and fails only if some year changed.
UntouchedYearsExact ==
  \A r \in Reader :
    LET q == reader[r]
        quiet(t) == roundLowerYear[t] \notin q.touched
    IN  /\ q.pc = "failed" => q.touched # {}
        /\ q.pc = "done" =>
             {e \in q.delivered : quiet(e[1])}
               = {<<t, acked[t]>> :
                    t \in {t \in DOMAIN acked : quiet(t) /\ q.min <= t /\ t <= q.max}}

\* What getChunkMeta and insertIntoOneChunk find in one map access is still
\* there in the next: their assertions hold.  Writers of the same year, which
\* nothing in the code excludes, break it.
NoInternalError == \A w \in Writer : writer[w].pc # "failed"
=============================================================================
