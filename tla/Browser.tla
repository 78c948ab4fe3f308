------------------------------ MODULE Browser ------------------------------
(***************************************************************************)
(* One tab of a browser.  It shows one page of one of TubeDB's web clients; *)
(* the page is a record with its name and what its script keeps.  A request *)
(* is a flight: it is sent by a handler and comes back with an answer, or   *)
(* fails, after any other flight.  The rest of the handler runs then.       *)
(*                                                                          *)
(* Handlers are operators that take the tab to the tab.                     *)
(***************************************************************************)
EXTENDS Naturals, Sequences, FiniteSets, SequencesExt, TLC

CONSTANTS
  None,        \* no value: undefined, null or nothing selected
  MaxClicks,   \* bound: actions of the user
  MaxFlights,  \* bound: flights when the user acts
  MaxFails     \* bound: requests that fail

VARIABLES
  tab,     \* [page, flights, tidy]
  clicks,  \* actions of the user so far
  fails    \* requests that failed so far

browser == <<tab, clicks, fails>>

TabOf(page) == [page |-> page, flights |-> <<>>, tidy |-> TRUE]

Pending(t, kinds) == {i \in DOMAIN t.flights : t.flights[i].kind \in kinds}

Send(t, kind, key) ==
  [t EXCEPT !.flights = Append(@, [kind |-> kind, key |-> key, pc |-> "sent", answer |-> None])]

\* History: two handlers that set the same state have overlapped.
UntidyIf(t, overlap) == [t EXCEPT !.tidy = @ /\ ~overlap]

\* Something is asked for or set while an older request for the same is under way.
Overtaking(t, kinds) == UntidyIf(t, Pending(t, kinds) # {})

\* The items of a list at some positions, and those that are in a set.
Those(list, at) ==
  LET those[n \in 0..Len(list)] ==
        IF n = 0 THEN <<>> ELSE IF n \in at THEN Append(those[n - 1], list[n]) ELSE those[n - 1]
  IN  those[Len(list)]
Among(list, set) == Those(list, {k \in DOMAIN list : list[k] \in set})

\* Another page is shown.  Nobody waits for the flights any more; those that change the
\* server (posts) may still reach it.
Leave(t, page, posts) ==
  LET left == Those(t.flights, {i \in Pending(t, posts) : t.flights[i].pc = "sent"})
  IN  [page |-> page,
       flights |-> Those(t.flights, Pending(t, {"orphan"}))
                   \o [k \in DOMAIN left |-> [left[k] EXCEPT !.kind = "orphan", !.key = left[k]]],
       tidy |-> t.tidy /\ left = <<>>]

Click ==
  /\ clicks < MaxClicks
  /\ Len(tab.flights) < MaxFlights
  /\ clicks' = clicks + 1
  /\ UNCHANGED fails

Fails == fails < MaxFails /\ fails' = fails + 1 /\ UNCHANGED clicks

Gone(i) == [tab EXCEPT !.flights = RemoveAt(@, i)]

\* History: flight i comes back while an older one for the same is still under way.
InOrder(i, rivals) == ~\E j \in Pending(tab, rivals) : j < i

\* A flight comes back and the rest of its handler runs.  The server's data do not change
\* meanwhile: its answer needs no step of its own.
LandWith(kinds, Answer(_), Continue(_, _)) ==
  /\ \E i \in Pending(tab, kinds) :
       LET f == tab.flights[i]
       IN  tab' = Continue(UntidyIf(Gone(i), ~InOrder(i, {f.kind})), [f EXCEPT !.answer = Answer(f)])
  /\ UNCHANGED <<clicks, fails>>

\* The same for a flight that the server has answered.
LandAnswered(kinds, Continue(_, _)) ==
  /\ \E i \in Pending(tab, kinds) :
       /\ tab.flights[i].pc = "answered"
       /\ tab' = Continue(UntidyIf(Gone(i), ~InOrder(i, {tab.flights[i].kind})), tab.flights[i])
  /\ UNCHANGED <<clicks, fails>>

\* A flight fails.  If others are under way the page may end up with parts of both.
FailWith(kinds, GiveUp(_, _)) ==
  /\ Fails
  /\ \E i \in Pending(tab, kinds) : tab' = GiveUp(UntidyIf(Gone(i), Len(tab.flights) > 1), tab.flights[i])
=============================================================================
