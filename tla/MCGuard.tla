------------------------------ MODULE MCGuard ------------------------------
(* Model values for checking ServerGuard.  Ages stop at two and the longest  *)
(* ban lasts one unit, so bans of two lengths are served, renewed and swept. *)
EXTENDS ServerGuard

TwoAddresses == {"a", "b"}
OneAddress   == {"a"}

Counter(n) == [time_interval |-> 1, attemp_count |-> n,
               critical_attemp_count |-> n, penalty |-> 0, critical_penalty |-> 0]

Loose  == [banTimeOut |-> 1, counters |-> [o \in Counted |-> Counter(2)],
           banConnects |-> TRUE, whiteList |-> {}, autoban |-> FALSE]
Strict == [Loose EXCEPT !.banTimeOut = 0, !.autoban = TRUE, !.whiteList = IPs \cap {"b"}]

BothConfigs == {Loose, Strict}

Packet(ip, todo) == [ip |-> ip, todo |-> todo]

TwoSenders == {Packet("a", <<"autoban", "badrcon">>),
               Packet("b", <<"connect">>)}
OneSender  == {Packet("a", <<"connect", "autoban", "badrcon">>),
               Packet("a", <<"notparse">>)}
=============================================================================
