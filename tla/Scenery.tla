------------------------------ MODULE Scenery ------------------------------
(***************************************************************************)
(* What the streamer of objects promises the players, who know no keys:    *)
(* everybody sees what was nearest where he last looked around, without    *)
(* what has been taken away since and without anything put in its place.   *)
(* Streamed is shown to keep the promise.                                  *)
(***************************************************************************)
EXTENDS Integers, FiniteSets

CONSTANTS
  Players, Objects, Spots,
  Distance  \* Distance[i]: how far i is, from each spot where it is in reach

VARIABLES
  at,     \* where each player is who is online
  there,  \* the objects of the configuration
  most,   \* how many a player may see
  shown   \* what each player sees

vars == <<at, there, most, shown>>

Init == /\ at = [p \in {} |-> p]
        /\ there = {} /\ most = 0
        /\ shown = [p \in Players |-> {}]

\* Of what is in reach, the nearest and as many as allowed.
InReachOf(t) == {i \in there : t \in DOMAIN Distance[i]}
NearestTo(t) ==
  {S \in SUBSET InReachOf(t) :
     /\ Cardinality(S) <= most
     /\ Cardinality(S) = most \/ S = InReachOf(t)
     /\ \A i \in S, j \in InReachOf(t) \ S : Distance[i][t] <= Distance[j][t]}

\* A player comes, walks, or leaves and sees nothing.
Come(p, t) == /\ p \notin DOMAIN at
              /\ at' = [q \in DOMAIN at \cup {p} |-> IF q = p THEN t ELSE at[q]]
              /\ UNCHANGED <<there, most, shown>>
Walk(p, t) == /\ p \in DOMAIN at
              /\ at' = [at EXCEPT ![p] = t]
              /\ UNCHANGED <<there, most, shown>>
Leave(p)   == /\ p \in DOMAIN at
              /\ at' = [q \in DOMAIN at \ {p} |-> at[q]]
              /\ shown' = [shown EXCEPT ![p] = {}]
              /\ UNCHANGED <<there, most>>

\* Some of those online look around where they are.
LookAround ==
  /\ DOMAIN shown' = Players
  /\ \A p \in Players : \/ shown'[p] = shown[p]
                        \/ p \in DOMAIN at /\ shown'[p] \in NearestTo(at[p])
  /\ UNCHANGED <<at, there, most>>

\* Other objects are put up, in an instant.
Rebuild(O) == /\ there' = O /\ most' \in Nat
              /\ shown' = [p \in Players |-> shown[p] \cap O]
              /\ UNCHANGED at

Next ==
  \/ \E p \in Players : Leave(p) \/ \E t \in Spots : Come(p, t) \/ Walk(p, t)
  \/ LookAround
  \/ \E O \in SUBSET Objects : Rebuild(O)

Spec == Init /\ [][Next]_vars
=============================================================================
