--------------------------- MODULE MCPlayerChat ---------------------------
(***************************************************************************)
(* Instances of PlayerChat for TLC.                                        *)
(***************************************************************************)
EXTENDS PlayerChat

UserAndAdmin == {"user", "admin"}
OnlyAdmin    == {"admin"}
OnlyUser     == {"user"}
Nobody       == {}
OneGroup     == {"group"}
JustOne      == {1}
OneTwo       == {1, 2}
MinusTwo     == -2

\* Two attempts within the interval cost a penalty, three a critical one.
Strict == [time_interval |-> 1, attemp_count |-> 1, critical_attemp_count |-> 3,
           penalty |-> 1, critical_penalty |-> 2]
\* The common chat waits longer than the rest.
Slow   == [time_interval |-> 2, attemp_count |-> 1, critical_attemp_count |-> 3,
           penalty |-> 0, critical_penalty |-> 1]
\* One message per unit of time.
Brisk  == [time_interval |-> 0, attemp_count |-> 1, critical_attemp_count |-> 1,
           penalty |-> 0, critical_penalty |-> 0]
=============================================================================
