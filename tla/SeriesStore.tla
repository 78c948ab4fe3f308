----------------------------- MODULE SeriesStore -----------------------------
(***************************************************************************)
(* What TubeDB's storage promises, without chunks, keys or metadata: every *)
(* sensor of every station has one time series, a partial function from    *)
(* timestamps to values.  Inserting only adds or overwrites, removing an   *)
(* interval takes exactly that interval, and a crash returns to the series *)
(* as they were when the store last wrote everything to disk.              *)
(***************************************************************************)
EXTENDS Integers

CONSTANTS Station, Sensor, Value, MaxTime

VARIABLES
  series,     \* the series queries see now
  durable     \* the series a restart would find

vars == <<series, durable>>

Time == 0..MaxTime
Stream == Station \X Sensor

IsSeries(f) ==
  /\ DOMAIN f \subseteq Time
  /\ f \in [DOMAIN f -> Value]

Empty == [p \in Stream |-> [t \in {} |-> 0]]

Init == series = Empty /\ durable = Empty

\* The store may write everything to disk as part of any operation.
MayCommit == durable' = durable \/ durable' = series'

Insert(st) ==
  /\ DOMAIN series' = Stream
  /\ \A p \in Stream :
       /\ IsSeries(series'[p])
       /\ DOMAIN series[p] \subseteq DOMAIN series'[p]
       /\ p[1] # st => series'[p] = series[p]
  /\ MayCommit

Without(f, start, end) ==
  [t \in {t \in DOMAIN f : t < start \/ end < t} |-> f[t]]

Remove(st, start, end) ==
  /\ series' = [p \in Stream |->
                  IF p[1] = st THEN Without(series[p], start, end) ELSE series[p]]
  /\ UNCHANGED durable

Clear == series' = Empty /\ durable' = Empty

Commit == durable' = series /\ UNCHANGED series

Crash == series' = durable /\ UNCHANGED durable

Next ==
  \/ \E st \in Station : Insert(st)
  \/ \E st \in Station, start, end \in Time : Remove(st, start, end)
  \/ Clear
  \/ Commit
  \/ Crash

Spec == Init /\ [][Next]_vars
=============================================================================
