----------------------- MODULE ConsoleCommandsProofs ------------------------
(***************************************************************************)
(* Proofs about ConsoleCommands: for any number of clients, commands and   *)
(* lines, the output of a command reaches its client once, in order and    *)
(* completely.                                                             *)
(***************************************************************************)
EXTENDS ConsoleCommands, SequenceTheorems, TLAPS

Pcs == {"idle", "start", "put", "sleep", "alive", "lines", "answer", "done", "left"}

\* The client has started a command.
Active(c) == client[c].pc # "idle"

\* What holds of a client with a command: its thread has not started before "start"
\* and has started after; lines are on their way only until they are answered; a client
\* that was told that the thread is dead takes all there is.
ClientInv(c) ==
  /\ client[c].id < counter
  /\ client[c].pc = "start" => thread[client[c].id] = "none"
  /\ client[c].pc # "start" => thread[client[c].id] # "none"
  /\ client[c].pc # "answer" => client[c].lines = <<>>
  /\ client[c].pc \in {"lines", "answer"} /\ ~client[c].running =>
       thread[client[c].id] = "ended"
  /\ client[c].pc = "answer" /\ ~client[c].running => buffer[client[c].id] = <<>>
  /\ client[c].pc = "done" => thread[client[c].id] = "ended" /\ buffer[client[c].id] = <<>>
  /\ client[c].pc \in {"sleep", "alive", "lines", "answer"} => client[c].id \in threadMap
  /\ client[c].received \o client[c].lines \o buffer[client[c].id] = Upto(printed[client[c].id])

\* Clients have ids of their own.
DistinctIds ==
  \A c, d \in Client : Active(c) /\ Active(d) /\ client[c].id = client[d].id => c = d

\* The types of everything but the clients.
SharedTypeOK ==
  /\ counter \in 0..MaxCommands
  /\ thread \in [Id -> {"none", "alive", "ended"}]
  /\ printed \in [Id -> 0..MaxLines]
  /\ buffer \in [Id -> Seq(Nat)]
  /\ threadMap \subseteq Id

\* Ids that were not given out have no thread, and commands without thread no output.
SharedFresh ==
  /\ \A i \in Id : counter <= i => thread[i] = "none"
  /\ \A i \in Id : thread[i] = "none" => printed[i] = 0 /\ buffer[i] = <<>>
  /\ \A i \in threadMap : i < counter

\* The inductive invariant.
IInv ==
  /\ SharedTypeOK
  /\ SharedFresh
  /\ DistinctIds
  /\ client \in [Client -> ClientState]
  /\ \A c \in Client : Active(c) => ClientInv(c)

-----------------------------------------------------------------------------
(* Sequences of lines                                                      *)

LEMMA UptoType == \A n \in Nat : Upto(n) \in Seq(Nat) /\ Len(Upto(n)) = n
<1>1. SUFFICES ASSUME NEW n \in Nat PROVE Upto(n) \in Seq(Nat) /\ Len(Upto(n)) = n
  OBVIOUS
<1>2. Upto(n) \in [1..n -> Nat]
  BY DEF Upto
<1>3. Upto(n) \in Seq(Nat)
  BY <1>2
<1>4. DOMAIN Upto(n) = 1..n
  BY DEF Upto
<1> QED BY <1>3, <1>4, LenProperties

LEMMA UptoNext == \A n \in Nat : Upto(n + 1) = Append(Upto(n), n + 1)
<1>1. SUFFICES ASSUME NEW n \in Nat PROVE Upto(n + 1) = Append(Upto(n), n + 1)
  OBVIOUS
<1> DEFINE s == Upto(n + 1)
           t == Append(Upto(n), n + 1)
<1>2. s \in Seq(Nat) /\ Len(s) = n + 1 /\ Upto(n) \in Seq(Nat) /\ Len(Upto(n)) = n
  BY UptoType
<1>3. t \in Seq(Nat) /\ Len(t) = n + 1 /\ (\A i \in 1..n : t[i] = Upto(n)[i]) /\ t[n + 1] = n + 1
  BY <1>2, AppendProperties
<1>4. \A i \in 1..(n + 1) : s[i] = t[i]
  <2>1. SUFFICES ASSUME NEW i \in 1..(n + 1) PROVE s[i] = t[i]
    OBVIOUS
  <2>2. s[i] = i
    BY DEF Upto
  <2>3. CASE i = n + 1
    BY <2>2, <2>3, <1>3
  <2>4. CASE i \in 1..n
    <3>1. Upto(n)[i] = i
      BY <2>4 DEF Upto
    <3> QED BY <3>1, <2>2, <2>4, <1>3
  <2>5. i = n + 1 \/ i \in 1..n
    OBVIOUS
  <2> QED BY <2>3, <2>4, <2>5
<1> QED BY <1>2, <1>3, <1>4, SeqEqual

\* A line printed behind the buffer is a line behind everything.
LEMMA AppendToAll ==
  ASSUME NEW a \in Seq(Nat), NEW b \in Seq(Nat), NEW d \in Seq(Nat), NEW x \in Nat
  PROVE  a \o b \o Append(d, x) = Append(a \o b \o d, x)
<1>1. a \o b \in Seq(Nat) /\ (a \o b) \o d \in Seq(Nat) /\ <<x>> \in Seq(Nat)
  BY ConcatProperties
<1>2. Append(d, x) = d \o <<x>>
  BY AppendIsConcat
<1>3. (a \o b) \o (d \o <<x>>) = ((a \o b) \o d) \o <<x>>
  BY SMTT(30), <1>1, ConcatAssociative
<1>4. ((a \o b) \o d) \o <<x>> = Append((a \o b) \o d, x)
  BY <1>1, AppendIsConcat
<1> QED BY <1>2, <1>3, <1>4

-----------------------------------------------------------------------------
(* What the client's steps do to its record                                *)
LEMMA SetPc ==
  ASSUME NEW r \in ClientState, NEW pc \in Pcs
  PROVE  LET q == [r EXCEPT !.pc = pc]
         IN  q \in ClientState /\ q.pc = pc /\ q.id = r.id /\ q.running = r.running
             /\ q.lines = r.lines /\ q.received = r.received
BY DEF ClientState, Pcs

LEMMA SetLines ==
  ASSUME NEW r \in ClientState, NEW pc \in Pcs, NEW l \in Seq(Nat)
  PROVE  LET q == [r EXCEPT !.pc = pc, !.lines = l]
         IN  q \in ClientState /\ q.pc = pc /\ q.id = r.id /\ q.running = r.running
             /\ q.lines = l /\ q.received = r.received
BY DEF ClientState, Pcs

LEMMA NewCommand ==
  ASSUME NEW i \in Nat
  PROVE  LET q == [NoCommand EXCEPT !.pc = "start", !.id = i]
         IN  q \in ClientState /\ q.pc = "start" /\ q.id = i /\ q.lines = <<>> /\ q.received = <<>>
BY EmptySeq DEF ClientState, NoCommand

-----------------------------------------------------------------------------
LEMMA InitInv == Init => IInv
<1> SUFFICES ASSUME Init PROVE IInv
  OBVIOUS
<1> USE DEF Init, NoCommand, Id
<1>1. SharedTypeOK
  BY BoundsAssumption, EmptySeq DEF SharedTypeOK
<1>2. client \in [Client -> ClientState]
  BY EmptySeq DEF ClientState
<1>3. SharedFresh /\ DistinctIds
  BY DEF SharedFresh, DistinctIds, Active
<1>4. \A c \in Client : Active(c) => ClientInv(c)
  BY DEF Active
<1> QED BY <1>1, <1>2, <1>3, <1>4 DEF IInv

\* Ids of clients are ids of commands.
LEMMA ActiveId == ASSUME IInv, NEW c \in Client, Active(c)
                  PROVE  client[c].id \in Id /\ client[c].id < counter /\ client[c].id \in Nat
<1>1. client[c].id \in Nat /\ client[c].id < counter /\ counter \in 0..MaxCommands
  BY DEF IInv, ClientInv, SharedTypeOK, ClientState
<1> QED BY <1>1, BoundsAssumption DEF Id

\* A step of a client changes its record and what is stored under its id: the other
\* clients have other ids.
LEMMA ClientMoves ==
  ASSUME IInv, NEW c \in Client, NEW q, Active(c),
         client' = [client EXCEPT ![c] = q], q \in ClientState,
         q.id = client[c].id, q.pc # "idle",
         counter' = counter, printed' = printed,
         SharedTypeOK',
         thread'[q.id] # "none",
         \A i \in Id : i # q.id =>
           thread'[i] = thread[i] /\ buffer'[i] = buffer[i] /\ (i \in threadMap' <=> i \in threadMap),
         ClientInv(c)'
  PROVE  IInv'
<1>p. /\ SharedTypeOK /\ SharedFresh /\ DistinctIds /\ client \in [Client -> ClientState]
      /\ \A d \in Client : Active(d) => ClientInv(d)
  BY DEF IInv
<1>1. q.id \in Id /\ q.id < counter /\ q.id \in Nat
  BY ActiveId
<1>2. client'[c] = q /\ client' \in [Client -> ClientState]
  BY <1>p
<1>3. \A d \in Client : d # c => client'[d] = client[d]
  BY <1>p
<1>4. SharedFresh'
  <2>1. \A i \in Id : counter' <= i => thread'[i] = "none"
    BY <1>1, <1>p DEF SharedFresh, SharedTypeOK, Id
  <2>2. \A i \in Id : thread'[i] = "none" => printed'[i] = 0 /\ buffer'[i] = <<>>
    BY <1>1, <1>p DEF SharedFresh
  <2>3. \A i \in threadMap' : i < counter'
    BY <1>1, <1>p DEF SharedFresh, SharedTypeOK
  <2> QED BY <2>1, <2>2, <2>3 DEF SharedFresh
<1>5. DistinctIds'
  BY <1>2, <1>3, <1>p DEF DistinctIds, Active
<1>6. ASSUME NEW d \in Client, Active(d)', d # c PROVE ClientInv(d)'
  <2>1. client'[d] = client[d] /\ Active(d) /\ ClientInv(d)
    BY <1>3, <1>6, <1>p DEF Active
  <2>2. client[d].id \in Id
    BY <2>1, ActiveId
  <2>3. client[d].id # q.id
    BY <2>1, <1>6, <1>p DEF DistinctIds
  <2>4. /\ thread'[client[d].id] = thread[client[d].id]
        /\ buffer'[client[d].id] = buffer[client[d].id]
        /\ client[d].id \in threadMap' <=> client[d].id \in threadMap
    BY <2>2, <2>3
  <2> QED BY ZenonT(40), <2>1, <2>4 DEF ClientInv
<1>7. \A d \in Client : Active(d)' => ClientInv(d)'
  BY <1>6
<1> QED BY <1>2, <1>4, <1>5, <1>7 DEF IInv

-----------------------------------------------------------------------------
(* The steps of a client                                                   *)

LEMMA StartThreadInv == ASSUME IInv, NEW c \in Client, StartThread(c) PROVE IInv'
<1> DEFINE q == [client[c] EXCEPT !.pc = "put"]
<1>1. Active(c) /\ client[c] \in ClientState /\ ClientInv(c)
  BY DEF StartThread, Active, IInv
<1>2. q \in ClientState /\ q.pc = "put" /\ q.id = client[c].id /\ q.running = client[c].running
      /\ q.lines = client[c].lines /\ q.received = client[c].received
  BY <1>1, SetPc DEF Pcs
<1>3. client' = [client EXCEPT ![c] = q] /\ client'[c] = q
  BY DEF StartThread, IInv
<1>4. q.id \in Id
  BY <1>1, <1>2, ActiveId
<1>5. SharedTypeOK' /\ thread'[q.id] = "alive"
      /\ \A i \in Id : i # q.id => thread'[i] = thread[i]
  BY <1>2, <1>4 DEF StartThread, IInv, SharedTypeOK
<1>6. ClientInv(c)'
  BY ZenonT(40), <1>1, <1>2, <1>3, <1>5 DEF ClientInv, StartThread
<1> HIDE DEF q
<1>7. \A i \in Id : i # q.id =>
        thread'[i] = thread[i] /\ buffer'[i] = buffer[i] /\ (i \in threadMap' <=> i \in threadMap)
  BY <1>5 DEF StartThread
<1>8. thread'[q.id] # "none" /\ q.pc # "idle" /\ counter' = counter /\ printed' = printed
  BY <1>2, <1>5 DEF StartThread
<1> QED BY <1>1, <1>2, <1>3, <1>5, <1>6, <1>7, <1>8, ClientMoves

LEMMA PutThreadInv == ASSUME IInv, NEW c \in Client, PutThread(c) PROVE IInv'
<1> DEFINE q == [client[c] EXCEPT !.pc = "sleep"]
<1>1. Active(c) /\ client[c] \in ClientState /\ ClientInv(c)
  BY DEF PutThread, Active, IInv
<1>2. q \in ClientState /\ q.pc = "sleep" /\ q.id = client[c].id /\ q.running = client[c].running
      /\ q.lines = client[c].lines /\ q.received = client[c].received
  BY <1>1, SetPc DEF Pcs
<1>3. client' = [client EXCEPT ![c] = q] /\ client'[c] = q
  BY DEF PutThread, IInv
<1>4. q.id \in Id
  BY <1>1, <1>2, ActiveId
<1>5. SharedTypeOK' /\ \A i \in Id : i # q.id => (i \in threadMap' <=> i \in threadMap)
  BY <1>2, <1>4 DEF PutThread, IInv, SharedTypeOK
<1>6. ClientInv(c)'
  BY <1>1, <1>2, <1>3 DEF ClientInv, PutThread
<1>7. thread'[q.id] # "none"
  BY <1>1, <1>2 DEF ClientInv, PutThread
<1> HIDE DEF q
<1> QED BY <1>1, <1>2, <1>3, <1>5, <1>6, <1>7, ClientMoves DEF PutThread

LEMMA PollInv == ASSUME IInv, NEW c \in Client, Poll(c) PROVE IInv'
<1>1. Active(c) /\ client[c] \in ClientState /\ ClientInv(c) /\ client[c].id \in threadMap
  BY DEF Poll, Active, IInv, ClientInv
<1> DEFINE q == [client[c] EXCEPT !.pc = "alive"]
<1>2. q \in ClientState /\ q.pc = "alive" /\ q.id = client[c].id /\ q.running = client[c].running
      /\ q.lines = client[c].lines /\ q.received = client[c].received
  BY <1>1, SetPc DEF Pcs
<1>3. client' = [client EXCEPT ![c] = q] /\ client'[c] = q
  BY <1>1 DEF Poll, IInv
<1>4. SharedTypeOK'
  BY DEF Poll, IInv, SharedTypeOK
<1>5. ClientInv(c)'
  BY <1>1, <1>2, <1>3 DEF ClientInv, Poll
<1>6. thread'[q.id] # "none"
  BY <1>1, <1>2 DEF ClientInv, Poll
<1> HIDE DEF q
<1> QED BY <1>1, <1>2, <1>3, <1>4, <1>5, <1>6, ClientMoves DEF Poll

LEMMA IsAliveInv == ASSUME IInv, NEW c \in Client, IsAlive(c) PROVE IInv'
<1> DEFINE b == thread[client[c].id] = "alive"
           q == [client[c] EXCEPT !.pc = "lines", !.running = b]
<1>1. Active(c) /\ client[c] \in ClientState /\ ClientInv(c) /\ client[c].pc = "alive"
  BY DEF IsAlive, Active, IInv
<1>2. q \in ClientState /\ q.pc = "lines" /\ q.id = client[c].id /\ q.running = b
      /\ q.lines = client[c].lines /\ q.received = client[c].received
  <2>1. b \in BOOLEAN /\ "lines" \in Pcs
    BY DEF Pcs
  <2> HIDE DEF b
  <2> QED BY <1>1, <2>1 DEF ClientState, Pcs
<1>3. client' = [client EXCEPT ![c] = q] /\ client'[c] = q
  BY DEF IsAlive, IInv
<1>4. client[c].id \in Id /\ thread[client[c].id] \in {"none", "alive", "ended"}
  BY <1>1, ActiveId DEF IInv, SharedTypeOK
<1>5. SharedTypeOK'
  BY DEF IsAlive, IInv, SharedTypeOK
<1>6. thread[client[c].id] # "none"
  BY <1>1 DEF ClientInv
<1>7. ~q.running => thread[client[c].id] = "ended"
  BY <1>2, <1>4, <1>6
<1>8. ClientInv(c)'
  BY ZenonT(40), <1>1, <1>2, <1>3, <1>7 DEF ClientInv, IsAlive
<1>9. thread'[q.id] # "none"
  BY <1>6, <1>2 DEF IsAlive
<1> HIDE DEF q, b
<1> QED BY <1>1, <1>2, <1>3, <1>5, <1>8, <1>9, ClientMoves DEF IsAlive

LEMMA GetOutputLinesInv == ASSUME IInv, NEW c \in Client, GetOutputLines(c) PROVE IInv'
<1> DEFINE l == buffer[client[c].id]
           q == [client[c] EXCEPT !.pc = "answer", !.lines = l]
<1>1. Active(c) /\ client[c] \in ClientState /\ ClientInv(c) /\ client[c].pc = "lines"
  BY DEF GetOutputLines, Active, IInv
<1>2. client[c].id \in Id /\ l \in Seq(Nat)
  BY <1>1, ActiveId DEF IInv, SharedTypeOK
<1>3. q \in ClientState /\ q.pc = "answer" /\ q.id = client[c].id /\ q.running = client[c].running
      /\ q.lines = l /\ q.received = client[c].received
  <2>1. "answer" \in Pcs
    BY DEF Pcs
  <2> HIDE DEF l
  <2> QED BY <1>1, <1>2, <2>1, SetLines
<1>4. client' = [client EXCEPT ![c] = q] /\ client'[c] = q
  BY DEF GetOutputLines, IInv
<1>5. buffer' = [buffer EXCEPT ![q.id] = <<>>] /\ buffer \in [Id -> Seq(Nat)]
  BY <1>3 DEF GetOutputLines, IInv, SharedTypeOK
<1>6. buffer' \in [Id -> Seq(Nat)] /\ buffer'[q.id] = <<>>
      /\ \A i \in Id : i # q.id => buffer'[i] = buffer[i]
  BY <1>2, <1>3, <1>5, EmptySeq
<1>7. SharedTypeOK'
  BY <1>6 DEF GetOutputLines, IInv, SharedTypeOK
<1>8. ClientInv(c)'
  <2>1. client[c].lines = <<>> /\ client[c].received \in Seq(Nat)
    BY <1>1 DEF ClientInv, ClientState
  <2>2. client[c].received \o client[c].lines \o l = Upto(printed[q.id])
    BY <1>1, <1>3 DEF ClientInv
  <2>3. client[c].received \o <<>> = client[c].received
        /\ client[c].received \o l \in Seq(Nat)
        /\ (client[c].received \o l) \o <<>> = client[c].received \o l
    BY <2>1, <1>2, ConcatEmptySeq, ConcatProperties
  <2>4. q.received \o q.lines \o buffer'[q.id] = Upto(printed[q.id])
    BY <1>3, <1>6, <2>1, <2>2, <2>3
  <2>5. /\ q.id < counter
        /\ thread[q.id] # "none"
        /\ ~q.running => thread[q.id] = "ended"
        /\ q.id \in threadMap
    BY <1>1, <1>3 DEF ClientInv
  <2> HIDE DEF q, l
  <2> QED BY <1>3, <1>4, <1>6, <2>4, <2>5 DEF ClientInv, GetOutputLines
<1>9. thread'[q.id] # "none" /\ q.pc # "idle" /\ counter' = counter /\ printed' = printed
      /\ thread' = thread /\ threadMap' = threadMap
  BY <1>1, <1>3 DEF ClientInv, GetOutputLines
<1> HIDE DEF q, l
<1> QED BY <1>1, <1>3, <1>4, <1>6, <1>7, <1>8, <1>9, ClientMoves

LEMMA AnswerInv == ASSUME IInv, NEW c \in Client, Answer(c) PROVE IInv'
<1> DEFINE r == client[c]
           pc == IF r.running THEN "sleep" ELSE "done"
           v == r.received \o r.lines
           q == [r EXCEPT !.pc = pc, !.received = v, !.lines = <<>>]
<1>1. Active(c) /\ r \in ClientState /\ ClientInv(c) /\ r.pc = "answer"
  BY DEF Answer, Active, IInv
<1>2. r.id \in Id /\ r.received \in Seq(Nat) /\ r.lines \in Seq(Nat) /\ r.running \in BOOLEAN
  BY <1>1, ActiveId DEF ClientState
<1>3. v \in Seq(Nat) /\ pc \in Pcs /\ <<>> \in Seq(Nat) /\ v \o <<>> = v
  BY <1>2, ConcatProperties, ConcatEmptySeq, EmptySeq DEF Pcs
<1>4. q \in ClientState /\ q.pc = pc /\ q.id = r.id /\ q.running = r.running
      /\ q.lines = <<>> /\ q.received = v
  <2> HIDE DEF pc, v, r
  <2> QED BY <1>1, <1>3 DEF ClientState, Pcs
<1>5. client' = [client EXCEPT ![c] = q] /\ client'[c] = q
  BY DEF Answer, IInv
<1>6. threadMap' = IF r.running THEN threadMap ELSE threadMap \ {q.id}
  BY <1>4 DEF Answer
<1>7. \A i \in Id : i # q.id => (i \in threadMap' <=> i \in threadMap)
  BY <1>6
<1>8. SharedTypeOK'
  BY <1>6 DEF Answer, IInv, SharedTypeOK
<1>9. ClientInv(c)'
  <2>1. v \o buffer[q.id] = Upto(printed[q.id])
    BY <1>1, <1>4 DEF ClientInv
  <2>2. q.received \o q.lines \o buffer[q.id] = Upto(printed[q.id])
    BY <2>1, <1>3, <1>4
  <2>3. /\ q.id < counter
        /\ thread[q.id] # "none"
        /\ ~r.running => thread[q.id] = "ended" /\ buffer[q.id] = <<>>
        /\ r.running => q.id \in threadMap'
        /\ q.pc # "start" /\ q.pc # "answer" /\ q.pc # "lines"
        /\ q.pc = "done" => ~r.running
        /\ q.pc \in {"sleep", "alive", "lines", "answer"} => r.running
    BY <1>1, <1>4, <1>6 DEF ClientInv
  <2> HIDE DEF q, r, pc, v
  <2> QED BY <1>4, <1>5, <2>2, <2>3 DEF ClientInv, Answer
<1>10. thread'[q.id] # "none" /\ q.pc # "idle" /\ counter' = counter /\ printed' = printed
       /\ thread' = thread /\ buffer' = buffer
  BY <1>1, <1>4 DEF ClientInv, Answer
<1>11. q.id = client[c].id /\ q \in ClientState
  BY <1>4
<1> HIDE DEF q, v, pc, r
<1> QED BY <1>1, <1>11, <1>5, <1>7, <1>8, <1>9, <1>10, ClientMoves

LEMMA LeaveInv == ASSUME IInv, NEW c \in Client, Leave(c) PROVE IInv'
<1>1. Active(c) /\ client[c] \in ClientState /\ ClientInv(c) /\ client[c].pc = "sleep"
  BY DEF Leave, Active, IInv
<1> DEFINE q == [client[c] EXCEPT !.pc = "left"]
<1>2. q \in ClientState /\ q.pc = "left" /\ q.id = client[c].id /\ q.running = client[c].running
      /\ q.lines = client[c].lines /\ q.received = client[c].received
  BY <1>1, SetPc DEF Pcs
<1>3. client' = [client EXCEPT ![c] = q] /\ client'[c] = q
  BY <1>1 DEF Leave, IInv
<1>4. SharedTypeOK'
  BY DEF Leave, IInv, SharedTypeOK
<1>5. ClientInv(c)'
  BY <1>1, <1>2, <1>3 DEF ClientInv, Leave
<1>6. thread'[q.id] # "none"
  BY <1>1, <1>2 DEF ClientInv, Leave
<1> HIDE DEF q
<1> QED BY <1>1, <1>2, <1>3, <1>4, <1>5, <1>6, ClientMoves DEF Leave

\* The new id is nobody else's: every id in use is below the counter.
LEMMA CreateIdInv == ASSUME IInv, NEW c \in Client, CreateId(c) PROVE IInv'
<1> DEFINE q == [NoCommand EXCEPT !.pc = "start", !.id = counter]
<1>1. counter \in Id /\ counter \in Nat /\ counter' = counter + 1 /\ counter' \in 0..MaxCommands
      /\ counter' \in Nat
  BY BoundsAssumption DEF CreateId, IInv, SharedTypeOK, Id
<1>2. q \in ClientState /\ q.pc = "start" /\ q.id = counter /\ q.lines = <<>> /\ q.received = <<>>
  BY <1>1, NewCommand
<1>3. client' = [client EXCEPT ![c] = q] /\ client'[c] = q /\ client' \in [Client -> ClientState]
      /\ \A d \in Client : d # c => client'[d] = client[d]
  BY <1>2 DEF CreateId, IInv
<1>4. thread[counter] = "none" /\ printed[counter] = 0 /\ buffer[counter] = <<>>
  BY <1>1 DEF IInv, SharedFresh
<1>5. SharedTypeOK'
  BY <1>1 DEF IInv, SharedTypeOK, CreateId
<1>6. SharedFresh'
  <2>1. \A i \in Id : counter + 1 <= i => counter <= i
    BY <1>1, BoundsAssumption DEF Id
  <2>2. \A i \in threadMap : i \in Id /\ i < counter + 1
    BY <1>1, BoundsAssumption DEF IInv, SharedFresh, SharedTypeOK, Id
  <2> QED BY <1>1, <2>1, <2>2 DEF IInv, SharedFresh, CreateId
<1>7. DistinctIds'
  <2>1. ASSUME NEW d \in Client, d # c, Active(d) PROVE client[d].id # counter
    BY <2>1, ActiveId, <1>1
  <2> QED BY <1>2, <1>3, <2>1 DEF IInv, DistinctIds, Active
<1>8. ASSUME NEW d \in Client, Active(d)' PROVE ClientInv(d)'
  <2>1. CASE d = c
    <3>1. <<>> \o <<>> \o buffer[counter] = Upto(printed[counter])
      <4>1. <<>> \o <<>> = <<>> /\ <<>> \in Seq(Nat) /\ Upto(0) \in Seq(Nat) /\ Len(Upto(0)) = 0
        BY EmptySeq, ConcatEmptySeq, UptoType
      <4>2. Upto(0) = <<>>
        BY <4>1, EmptySeq
      <4> QED BY <4>1, <4>2, <1>4
    <3>2. counter < counter'
      BY <1>1
    <3>3. thread' = thread /\ buffer' = buffer /\ printed' = printed /\ threadMap' = threadMap
      BY DEF CreateId
    <3> HIDE DEF q
    <3> QED BY <2>1, <1>2, <1>3, <1>4, <3>1, <3>2, <3>3 DEF ClientInv
  <2>2. CASE d # c
    <3>1. client'[d] = client[d] /\ Active(d) /\ ClientInv(d)
      BY <2>2, <1>3, <1>8 DEF Active, IInv
    <3>2. client[d].id < counter'
      BY <3>1, ActiveId, <1>1
    <3>3. thread' = thread /\ buffer' = buffer /\ printed' = printed /\ threadMap' = threadMap
      BY DEF CreateId
    <3> HIDE DEF q
    <3> QED BY <3>1, <3>2, <3>3 DEF ClientInv
  <2> QED BY <2>1, <2>2
<1> QED BY <1>3, <1>5, <1>6, <1>7, <1>8 DEF IInv

-----------------------------------------------------------------------------
(* The steps of a command                                                  *)

LEMMA PrintlnInv == ASSUME IInv, NEW i \in Id, Println(i) PROVE IInv'
<1>1. printed[i] \in Nat /\ printed[i] + 1 \in 0..MaxLines /\ printed[i] + 1 \in Nat
      /\ buffer[i] \in Seq(Nat) /\ thread[i] = "alive"
  BY BoundsAssumption DEF IInv, SharedTypeOK, Println
<1>2. Append(buffer[i], printed[i] + 1) \in Seq(Nat)
  BY <1>1, AppendProperties
<1>3. /\ printed'[i] = printed[i] + 1
      /\ buffer'[i] = Append(buffer[i], printed[i] + 1)
      /\ \A j \in Id : j # i => printed'[j] = printed[j] /\ buffer'[j] = buffer[j]
  BY DEF IInv, SharedTypeOK, Println
<1>4. SharedTypeOK'
  BY <1>1, <1>2 DEF IInv, SharedTypeOK, Println
<1>5. SharedFresh'
  BY <1>1, <1>3 DEF IInv, SharedFresh, Println
<1>6. DistinctIds' /\ client' \in [Client -> ClientState]
  BY DEF IInv, DistinctIds, Active, Println
<1>7. ASSUME NEW c \in Client, Active(c)' PROVE ClientInv(c)'
  <2>1. Active(c) /\ ClientInv(c) /\ client[c] \in ClientState /\ client[c].id \in Id
    BY <1>7, ActiveId DEF Active, IInv, Println
  <2>2. client' = client /\ thread' = thread /\ threadMap' = threadMap /\ counter' = counter
    BY DEF Println
  <2>3. CASE client[c].id # i
    BY <1>3, <2>1, <2>2, <2>3 DEF ClientInv
  <2>4. CASE client[c].id = i
    <3>1. client[c].received \in Seq(Nat) /\ client[c].lines \in Seq(Nat)
      BY <2>1 DEF ClientState
    <3>2. client[c].received \o client[c].lines \o buffer[i] = Upto(printed[i])
      BY <2>1, <2>4 DEF ClientInv
    <3>3. client[c].received \o client[c].lines \o buffer'[i] = Upto(printed'[i])
      <4>1. client[c].received \o client[c].lines \o Append(buffer[i], printed[i] + 1)
            = Append(client[c].received \o client[c].lines \o buffer[i], printed[i] + 1)
        BY ZenonT(40), <3>1, <1>1, AppendToAll
      <4>2. Upto(printed[i] + 1) = Append(Upto(printed[i]), printed[i] + 1)
        BY <1>1, UptoNext
      <4> QED BY <4>1, <4>2, <3>2, <1>3
    <3> QED BY <1>1, <2>1, <2>2, <2>4, <3>3 DEF ClientInv
  <2> QED BY <2>3, <2>4
<1> QED BY <1>4, <1>5, <1>6, <1>7 DEF IInv

LEMMA EndInv == ASSUME IInv, NEW i \in Id, End(i) PROVE IInv'
<1>1. thread[i] = "alive" /\ thread'[i] = "ended" /\ \A j \in Id : j # i => thread'[j] = thread[j]
  BY DEF IInv, SharedTypeOK, End
<1>2. SharedTypeOK'
  BY DEF IInv, SharedTypeOK, End
<1>3. SharedFresh'
  BY <1>1 DEF IInv, SharedFresh, End
<1>4. DistinctIds' /\ client' \in [Client -> ClientState]
  BY DEF IInv, DistinctIds, Active, End
<1>5. ASSUME NEW c \in Client, Active(c)' PROVE ClientInv(c)'
  <2>1. Active(c) /\ ClientInv(c) /\ client[c].id \in Id
    BY <1>5, ActiveId DEF Active, IInv, End
  <2>2. client' = client /\ buffer' = buffer /\ printed' = printed /\ threadMap' = threadMap
        /\ counter' = counter
    BY DEF End
  <2>3. thread'[client[c].id] = thread[client[c].id]
        \/ (thread[client[c].id] = "alive" /\ thread'[client[c].id] = "ended")
    BY <1>1, <2>1
  <2> QED BY <2>1, <2>2, <2>3 DEF ClientInv
<1> QED BY <1>2, <1>3, <1>4, <1>5 DEF IInv

-----------------------------------------------------------------------------

LEMMA StepInv == IInv /\ [Next]_vars => IInv'
<1> SUFFICES ASSUME IInv, [Next]_vars PROVE IInv'
  OBVIOUS
<1>1. ASSUME NEW c \in Client, CreateId(c) \/ ClientStep(c) \/ Leave(c) PROVE IInv'
  BY <1>1, CreateIdInv, StartThreadInv, PutThreadInv, PollInv, IsAliveInv, GetOutputLinesInv,
     AnswerInv, LeaveInv DEF ClientStep
<1>2. ASSUME NEW i \in Id, Println(i) \/ End(i) PROVE IInv'
  BY <1>2, PrintlnInv, EndInv
<1>3. CASE UNCHANGED vars
  <2>1. SharedTypeOK' /\ SharedFresh' /\ DistinctIds'
    BY <1>3 DEF IInv, vars, SharedTypeOK, SharedFresh, DistinctIds, Active
  <2>2. client' = client /\ \A c \in Client : Active(c)' => ClientInv(c)'
    BY <1>3 DEF IInv, vars, Active, ClientInv
  <2> QED BY <2>1, <2>2 DEF IInv
<1> QED BY <1>1, <1>2, <1>3 DEF Next

\* What was proved by induction: ids are unique, entries and lines are where they have
\* to be.
THEOREM Inductive == Spec => []IInv
<1> QED BY InitInv, StepInv, PTL DEF Spec

\* The variables have their types, and no client has an id that was not given out.
THEOREM TypeCorrect == Spec => []TypeOK
<1>1. IInv => TypeOK
  BY DEF IInv, SharedTypeOK, ClientInv, Active, TypeOK
<1> QED BY <1>1, Inductive, PTL

\* No line of a command is lost, doubled or out of order on its way to the client,
\* whatever the command prints between the accesses of a poll.
THEOREM InOrderCorrect == Spec => []OutputInOrder
<1>1. IInv => OutputInOrder
  BY DEF IInv, ClientInv, Active, OutputInOrder
<1> QED BY <1>1, Inductive, PTL

\* A client that stops to poll has all of its command's output, and the command has ended.
THEOREM CompleteCorrect == Spec => []OutputComplete
<1>1. ASSUME IInv, NEW c \in Client, client[c].pc = "done"
      PROVE  thread[client[c].id] = "ended" /\ client[c].received = Upto(printed[client[c].id])
  <2>1. ClientInv(c) /\ client[c] \in ClientState
    BY <1>1 DEF IInv, Active
  <2>2. client[c].lines = <<>> /\ buffer[client[c].id] = <<>> /\ thread[client[c].id] = "ended"
    BY <1>1, <2>1 DEF ClientInv
  <2>3. client[c].received \in Seq(Nat)
    BY <2>1 DEF ClientState
  <2>4. client[c].received \o <<>> \o <<>> = client[c].received
    BY <2>3, ConcatEmptySeq
  <2>5. client[c].received \o client[c].lines \o buffer[client[c].id] = Upto(printed[client[c].id])
    BY <2>1 DEF ClientInv
  <2> QED BY <2>2, <2>4, <2>5
<1>2. IInv => OutputComplete
  BY <1>1 DEF OutputComplete
<1> QED BY <1>2, Inductive, PTL

\* A poll finds its command in the map.
THEOREM FoundCorrect == Spec => []CommandFound
<1>1. IInv => CommandFound
  BY DEF IInv, ClientInv, Active, CommandFound
<1> QED BY <1>1, Inductive, PTL
=============================================================================
