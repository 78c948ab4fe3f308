-------------------------- MODULE ConsoleCommands ---------------------------
(***************************************************************************)
(* Console commands: a client starts a command, which runs in a thread of  *)
(* its own, and polls its output until the command has ended.              *)
(*                                                                         *)
(* Threads, the buffer of each command and the map of commands are shared  *)
(* by all requests; ServerTsDB takes no lock over them.  The n-th line     *)
(* that a command prints is the number n.                                  *)
(***************************************************************************)
EXTENDS Naturals, Sequences

CONSTANTS
  Client,
  MaxCommands,    \* bound: commands started
  MaxLines        \* bound: lines printed by a command

ASSUME BoundsAssumption == MaxCommands \in Nat /\ MaxLines \in Nat

Id == 0..(MaxCommands - 1)

VARIABLES
  counter,     \* command_counter
  thread,      \* the state of each command's thread
  printed,     \* history: how many lines each command has printed
  buffer,      \* output_lines of each command
  threadMap,   \* keys of commandThreadMap
  client       \* the clients and their requests

vars == <<counter, thread, printed, buffer, threadMap, client>>

Upto(n) == [k \in 1..n |-> k]

NoCommand == [pc |-> "idle", id |-> 0, running |-> FALSE, lines |-> <<>>, received |-> <<>>]

Init ==
  /\ counter = 0
  /\ thread = [i \in Id |-> "none"]
  /\ printed = [i \in Id |-> 0]
  /\ buffer = [i \in Id |-> <<>>]
  /\ threadMap = {}
  /\ client = [c \in Client |-> NoCommand]

-----------------------------------------------------------------------------
(* execute_console_command                                                 *)

CreateId(c) ==
  /\ client[c].pc \in {"idle", "done"}
  /\ counter < MaxCommands
  /\ counter' = counter + 1
  /\ client' = [client EXCEPT ![c] = [NoCommand EXCEPT !.pc = "start", !.id = counter]]
  /\ UNCHANGED <<thread, printed, buffer, threadMap>>

StartThread(c) ==
  /\ client[c].pc = "start"
  /\ thread' = [thread EXCEPT ![client[c].id] = "alive"]
  /\ client' = [client EXCEPT ![c].pc = "put"]
  /\ UNCHANGED <<counter, printed, buffer, threadMap>>

\* The command may print and end before it is in the map.
PutThread(c) ==
  /\ client[c].pc = "put"
  /\ threadMap' = threadMap \cup {client[c].id}
  /\ client' = [client EXCEPT ![c].pc = "sleep"]
  /\ UNCHANGED <<counter, thread, printed, buffer>>

-----------------------------------------------------------------------------
(* console_comand_get_output                                               *)

\* No entry: the client takes the command to have ended.
Poll(c) ==
  /\ client[c].pc = "sleep"
  /\ client' = [client EXCEPT ![c].pc = IF client[c].id \in threadMap
                                         THEN "alive"
                                         ELSE "done"]
  /\ UNCHANGED <<counter, thread, printed, buffer, threadMap>>

\* Mutant: a command runs as long as it is in the map.
IsAliveByMap(c) ==
  /\ client[c].pc = "alive"
  /\ client' = [client EXCEPT ![c].pc = "lines",
                              ![c].running = client[c].id \in threadMap]
  /\ UNCHANGED <<counter, thread, printed, buffer, threadMap>>

IsAlive(c) ==
  /\ client[c].pc = "alive"
  /\ client' = [client EXCEPT ![c].pc = "lines",
                              ![c].running = thread[client[c].id] = "alive"]
  /\ UNCHANGED <<counter, thread, printed, buffer, threadMap>>

\* Mutant: the buffer is not cleared.
GetOutputLinesKept(c) ==
  /\ client[c].pc = "lines"
  /\ client' = [client EXCEPT ![c].pc = "answer", ![c].lines = buffer[client[c].id]]
  /\ UNCHANGED <<counter, thread, printed, buffer, threadMap>>

GetOutputLines(c) ==
  /\ client[c].pc = "lines"
  /\ client' = [client EXCEPT ![c].pc = "answer", ![c].lines = buffer[client[c].id]]
  /\ buffer' = [buffer EXCEPT ![client[c].id] = <<>>]
  /\ UNCHANGED <<counter, thread, printed, threadMap>>

\* Mutant: isAlive is asked after the lines were taken.
AnswerAliveLast(c) ==
  LET id == client[c].id
      running == thread[id] = "alive"
  IN  /\ client[c].pc = "answer"
      /\ threadMap' = IF running THEN threadMap ELSE threadMap \ {id}
      /\ client' = [client EXCEPT ![c].pc = IF running THEN "sleep" ELSE "done",
                                  ![c].received = @ \o client[c].lines,
                                  ![c].lines = <<>>]
      /\ UNCHANGED <<counter, thread, printed, buffer>>

\* A command that has ended leaves the map; the client prints the lines and
\* polls again or reads its next command.
Answer(c) ==
  LET id == client[c].id
      running == client[c].running
  IN  /\ client[c].pc = "answer"
      /\ threadMap' = IF running THEN threadMap ELSE threadMap \ {id}
      /\ client' = [client EXCEPT ![c].pc = IF running THEN "sleep" ELSE "done",
                                  ![c].received = @ \o client[c].lines,
                                  ![c].lines = <<>>]
      /\ UNCHANGED <<counter, thread, printed, buffer>>

\* A client of the web interface may not come back.
Leave(c) ==
  /\ client[c].pc = "sleep"
  /\ client' = [client EXCEPT ![c].pc = "left"]
  /\ UNCHANGED <<counter, thread, printed, buffer, threadMap>>

-----------------------------------------------------------------------------
(* ConsoleRunner                                                           *)

Println(i) ==
  /\ thread[i] = "alive"
  /\ printed[i] < MaxLines
  /\ printed' = [printed EXCEPT ![i] = @ + 1]
  /\ buffer' = [buffer EXCEPT ![i] = Append(@, printed[i] + 1)]
  /\ UNCHANGED <<counter, thread, threadMap, client>>

\* run returns or throws.
End(i) ==
  /\ thread[i] = "alive"
  /\ thread' = [thread EXCEPT ![i] = "ended"]
  /\ UNCHANGED <<counter, printed, buffer, threadMap, client>>

-----------------------------------------------------------------------------

ClientStep(c) ==
  \/ StartThread(c)
  \/ PutThread(c)
  \/ Poll(c)
  \/ IsAlive(c)
  \/ GetOutputLines(c)
  \/ Answer(c)

Next ==
  \/ \E c \in Client : CreateId(c) \/ ClientStep(c) \/ Leave(c)
  \/ \E i \in Id : Println(i) \/ End(i)

\* Threads are scheduled, and commands end: each prints finitely many lines.  Nobody
\* has to start a command or to leave.
Fairness ==
  /\ \A c \in Client : WF_vars(ClientStep(c))
  /\ \A i \in Id : WF_vars(Println(i) \/ End(i))

Spec == Init /\ [][Next]_vars
FairSpec == Spec /\ Fairness

-----------------------------------------------------------------------------

ClientState ==
  [pc : {"idle", "start", "put", "sleep", "alive", "lines", "answer", "done", "left"},
   id : Nat, running : BOOLEAN, lines : Seq(Nat), received : Seq(Nat)]

TypeOK ==
  /\ counter \in 0..MaxCommands
  /\ thread \in [Id -> {"none", "alive", "ended"}]
  /\ printed \in [Id -> 0..MaxLines]
  /\ buffer \in [Id -> Seq(Nat)]
  /\ threadMap \subseteq Id
  /\ client \in [Client -> ClientState]
  /\ \A c \in Client : client[c].pc # "idle" => client[c].id < counter

\* What a client has received, what is on its way and what is in the buffer are the
\* lines of its command in order: none is lost or doubled, whatever is printed
\* between the accesses of a poll.
OutputInOrder ==
  \A c \in Client : client[c].pc # "idle" =>
    client[c].received \o client[c].lines \o buffer[client[c].id] = Upto(printed[client[c].id])

\* When a client stops to poll, the command has ended and the client has all of its
\* output: isAlive is asked first and the lines are taken then.
OutputComplete ==
  \A c \in Client : client[c].pc = "done" =>
    /\ thread[client[c].id] = "ended"
    /\ client[c].received = Upto(printed[client[c].id])

\* A poll finds its command: no client is told that a command has ended by a missing
\* entry, and no other client's answer removes it.
CommandFound ==
  \A c \in Client : client[c].pc \in {"sleep", "alive", "lines", "answer"} =>
    client[c].id \in threadMap

\* Every command that was started is answered to the end, and its entry removed,
\* unless the client leaves.
CommandsEnd ==
  \A c \in Client :
    client[c].pc = "start" ~> (client[c].pc = "done" \/ client[c].pc = "left")
=============================================================================
