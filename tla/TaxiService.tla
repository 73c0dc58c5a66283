---------------------------- MODULE TaxiService ----------------------------
(***************************************************************************)
(* What the taxi bots promise the passengers: a line of the timetable is   *)
(* opened once, waits until a bot sits in every one of its vehicles and    *)
(* runs from then on, whoever gets on or off, until it is closed for good. *)
(* NpcTaxi is shown to keep the promise.                                   *)
(***************************************************************************)
EXTENDS Integers

CONSTANTS Lines, Bots

VARIABLES
  life,    \* what a line has come to
  size,    \* the bots a line needs to run
  aboard   \* the bots who sit in their vehicle

vars == <<life, size, aboard>>

Init == /\ life = [r \in Lines |-> "unborn"]
        /\ size = [r \in Lines |-> 0]
        /\ aboard = {}

Of(r) == {b \in aboard : b[1] = r}
Serves(b) == life[b[1]] \in {"waiting", "running"}

\* A change of the timetable: lines are opened and others closed, with all
\* their bots sent home.
Change(opened, closed) ==
  /\ \A r \in opened : life[r] = "unborn" /\ size'[r] \in Nat
  /\ life' = [r \in Lines |-> IF r \in opened THEN "waiting"
                              ELSE IF r \in closed /\ life[r] # "unborn" THEN "over"
                              ELSE life[r]]
  /\ DOMAIN size' = Lines
  /\ \A r \in Lines \ (opened \cup closed) : size'[r] = size[r]
  /\ aboard' = {b \in aboard : b[1] \notin closed}

\* A bot sits down in his vehicle, or leaves.
Board(b)  == Serves(b) /\ aboard' = aboard \cup {b} /\ UNCHANGED <<life, size>>
Alight(b) == b \in aboard /\ aboard' = aboard \ {b} /\ UNCHANGED <<life, size>>

\* Lines start which have all their bots.
Depart(started) ==
  /\ \A r \in started : /\ life[r] = "waiting"
                        /\ Of(r) = {<<r, i>> : i \in 0..(size[r] - 1)}
  /\ life' = [r \in Lines |-> IF r \in started THEN "running" ELSE life[r]]
  /\ UNCHANGED <<size, aboard>>

Next ==
  \/ \E opened, closed \in SUBSET Lines : Change(opened, closed)
  \/ \E b \in Bots : Board(b) \/ Alight(b)
  \/ \E started \in SUBSET Lines : Depart(started)

Spec == Init /\ [][Next]_vars
=============================================================================
