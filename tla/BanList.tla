------------------------------ MODULE BanList ------------------------------
(***************************************************************************)
(* What server_guard promises of a ban: it is listed with its age, it is   *)
(* due once older than the ban time, and only what was found due leaves    *)
(* the list or is renewed.  A new ban time binds what is not yet due.      *)
(***************************************************************************)
EXTENDS Integers

CONSTANTS IPs, NoItem, MaxAge

VARIABLES
  since,    \* the age of the ban of each address, or NoItem
  banTime,
  due       \* bans found to be served

vars == <<since, banTime, due>>

Times == 0..(MaxAge - 1)

Init == /\ since = [ip \in IPs |-> NoItem]
        /\ banTime \in Times
        /\ due = {}

Ban(ip) == /\ since[ip] = NoItem
           /\ since' = [since EXCEPT ![ip] = 0]
           /\ UNCHANGED <<banTime, due>>

Settle(S) == /\ \A ip \in S : since[ip] # NoItem /\ since[ip] > banTime
             /\ due' = due \cup S
             /\ UNCHANGED <<since, banTime>>

Lift(ip) == /\ ip \in due
            /\ since' = [since EXCEPT ![ip] = NoItem]
            /\ due' = due \ {ip}
            /\ UNCHANGED banTime

Renew(ip) == /\ ip \in due
             /\ since' = [since EXCEPT ![ip] = 0]
             /\ due' = due \ {ip}
             /\ UNCHANGED banTime

NewTime(t) == banTime' = t /\ UNCHANGED <<since, due>>

Pass == /\ since' = [ip \in IPs |-> IF since[ip] # NoItem /\ since[ip] < MaxAge
                                    THEN since[ip] + 1 ELSE since[ip]]
        /\ UNCHANGED <<banTime, due>>

Next ==
  \/ \E ip \in IPs : Ban(ip) \/ Lift(ip) \/ Renew(ip)
  \/ \E S \in SUBSET IPs : Settle(S)
  \/ \E t \in Times : NewTime(t)
  \/ Pass

Spec == Init /\ [][Next]_vars
=============================================================================
