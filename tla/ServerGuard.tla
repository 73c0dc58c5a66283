---------------------------- MODULE ServerGuard ----------------------------
(***************************************************************************)
(* server_guard (server_guard.cpp): addresses that misbehave are banned    *)
(* for a time.  Two threads run it.  The network thread executes the hook  *)
(* of recvfrom (core/samp/samp_hook_events.cpp): a packet of an address in *)
(* network_activity_blocks is dropped, any other runs the handlers of what *)
(* it contains.  The main thread sweeps from on_timer15000 and, at start   *)
(* and whenever an expression of the configuration changes its value,      *)
(* configures in three rounds over all components.                         *)
(* hooked_events_mutex protects bans and counters, but nothing protects    *)
(* is_configured and the configured values.                                *)
(***************************************************************************)
EXTENDS TimeOuts, Sequences

CONSTANTS
  IPs,
  Configs,   \* what configure may load
  Default,   \* what configure_pre sets
  Packets,   \* of [ip : IPs, todo : Seq(Offences)], what arrives
  Nobody

\* What a packet makes the hook report: a new point of connection, an rcon
\* packet that does not parse, one with a command of autoban_rcon_cmds, one
\* with a wrong password.
Offences == {"connect", "notparse", "autoban", "badrcon"}
Counted  == Offences \ {"autoban"}

ConfigRec == [banTimeOut : 0..(MaxAge - 1), counters : [Counted -> Params],
              banConnects : BOOLEAN, whiteList : SUBSET IPs, autoban : BOOLEAN]

ASSUME GuardAssumption ==
  /\ Configs \subseteq ConfigRec /\ Default \in ConfigRec
  /\ Packets \subseteq [ip : IPs, todo : Seq(Offences)]
  /\ \A p \in Packets : p.todo # <<>>
  /\ Nobody \notin {"net", "main"} /\ Nobody \notin IPs

VARIABLES
  isConfigured,
  conf,       \* the configured values, but for the two below
  timeOut,    \* baned_ips.time_out, set by configure_post
  callsOn,    \* system_call_onban and system_call_onunban are enabled
  bans,       \* baned_ips, an item or NoItem for every address
  counters,   \* the three time_count_blockers
  blocked,    \* network_activity_blocks
  rules,      \* external: the addresses the called scripts shut out
  missed,     \* history: addresses for which a call was skipped
  mutex,      \* hooked_events_mutex
  net,        \* the network thread: [pc, ip, todo]
  main        \* the main thread: [pc, sweep, ip]

confVars == <<isConfigured, conf, timeOut, callsOn>>
banVars  == <<bans, blocked, rules, missed>>
vars     == <<confVars, banVars, counters, mutex, net, main>>

Idle == [pc |-> "recv", ip |-> Nobody, todo |-> <<>>]

\* Mutant of Timedout: served one unit early.
TimedoutEarly(ip) == bans[ip] # NoItem /\ bans[ip].age >= timeOut

Timedout(ip) == bans[ip] # NoItem /\ IsTimeout(bans[ip], timeOut)
IsBanned(ip) == IsExist(bans[ip], timeOut)

-----------------------------------------------------------------------------
Init ==
  /\ isConfigured = FALSE
  /\ conf = Default
  /\ timeOut = Default.banTimeOut
  /\ callsOn = FALSE
  /\ bans = [ip \in IPs |-> NoItem]
  /\ counters = [o \in Counted |-> [ip \in IPs |-> NoItem]]
  /\ blocked = {} /\ rules = {} /\ missed = {}
  /\ mutex = Nobody
  /\ net = Idle
  /\ main = [pc |-> "pre", sweep |-> {}, ip |-> Nobody]

-----------------------------------------------------------------------------
(* The calls of banip.sh and unbanip.sh.                                     *)

CallOnBan(ip) ==
  IF callsOn THEN rules' = rules \cup {ip} /\ UNCHANGED missed
  ELSE missed' = missed \cup {ip} /\ UNCHANGED rules

CallOnUnban(ip) ==
  IF callsOn THEN rules' = rules \ {ip} /\ UNCHANGED missed
  ELSE missed' = missed \cup {ip} /\ UNCHANGED rules

\* Mutants of Unban: the rule outside is forgotten, the packets are.
UnbanInside(ip)  == blocked' = blocked \ {ip} /\ UNCHANGED <<rules, missed>>
UnbanOutside(ip) == CallOnUnban(ip) /\ UNCHANGED blocked

\* unban_ip
Unban(ip) == blocked' = blocked \ {ip} /\ CallOnUnban(ip)

-----------------------------------------------------------------------------
(* The network thread.                                                       *)

Offence == Head(net.todo)

\* on_recvfrom, on_network_activity
Recv(p) ==
  /\ net.pc = "recv"
  /\ p.ip \notin blocked
  /\ net' = [pc |-> "enter", ip |-> p.ip, todo |-> p.todo]
  /\ UNCHANGED <<confVars, banVars, counters, mutex, main>>

\* The next handler for this packet, or the next packet.
NextOffence == net' = IF Tail(net.todo) = <<>> THEN Idle
                      ELSE [net EXCEPT !.pc = "enter", !.todo = Tail(@)]

\* What a handler does before it locks: is_configured, autoban_rcon_cmds.find.
Enter ==
  /\ net.pc = "enter"
  /\ IF isConfigured /\ (Offence = "autoban" => conf.autoban)
     THEN net' = [net EXCEPT !.pc = "lock"]
     ELSE NextOffence
  /\ UNCHANGED <<confVars, banVars, counters, mutex, main>>

NetLock ==
  /\ net.pc = "lock" /\ mutex = Nobody
  /\ mutex' = "net"
  /\ net' = [net EXCEPT !.pc = "decide"]
  /\ UNCHANGED <<confVars, banVars, counters, main>>

NetUnlock == mutex' = Nobody /\ NextOffence

\* ban_ip up to the first change: an address that is banned stays as it is, a
\* ban that timed out and was not swept yet is lifted before it is renewed.
BanIp == IF IsBanned(net.ip) THEN NetUnlock
         ELSE /\ net' = [net EXCEPT !.pc = IF bans[net.ip] = NoItem
                                           THEN "insert" ELSE "renew"]
              /\ UNCHANGED mutex

\* on_network_connect leaves these alone.
Excused == /\ Offence = "connect"
           /\ \/ IsBanned(net.ip)
              \/ ~conf.banConnects
              \/ net.ip \in conf.whiteList

Decide ==
  /\ net.pc = "decide"
  /\ \/ /\ Excused
        /\ NetUnlock
        /\ UNCHANGED counters
     \/ /\ Offence = "autoban"
        /\ BanIp
        /\ UNCHANGED counters
     \/ /\ Offence \in Counted /\ ~Excused
        /\ LET p == conf.counters[Offence]
               i == Increased(counters[Offence][net.ip], p)
           IN  /\ counters' = [counters EXCEPT ![Offence][net.ip] = i]
               /\ IF IsBlocked(i, p.time_interval, p) THEN BanIp ELSE NetUnlock
  /\ UNCHANGED <<confVars, banVars, main>>

\* insert calls the deleter for the item it replaces.
Renew ==
  /\ net.pc = "renew"
  /\ Unban(net.ip)
  /\ net' = [net EXCEPT !.pc = "insert"]
  /\ UNCHANGED <<confVars, bans, counters, mutex, main>>

Insert ==
  /\ net.pc = "insert"
  /\ bans' = [bans EXCEPT ![net.ip] = Inserted(1)]
  /\ net' = [net EXCEPT !.pc = "block"]
  /\ UNCHANGED <<confVars, blocked, rules, missed, counters, mutex, main>>

Block ==
  /\ net.pc = "block"
  /\ blocked' = blocked \cup {net.ip}
  /\ net' = [net EXCEPT !.pc = "call"]
  /\ UNCHANGED <<confVars, bans, rules, missed, counters, mutex, main>>

Call ==
  /\ net.pc = "call"
  /\ CallOnBan(net.ip)
  /\ NetUnlock
  /\ UNCHANGED <<confVars, bans, blocked, counters, main>>

NetStep == Enter \/ NetLock \/ Decide \/ Renew \/ Insert \/ Block \/ Call

-----------------------------------------------------------------------------
(* The main thread.                                                          *)

Goto(pc) == main' = [main EXCEPT !.pc = pc]

Timer15000 ==
  /\ main.pc = "idle" /\ isConfigured
  /\ Goto("lock")
  /\ UNCHANGED <<confVars, banVars, counters, mutex, net>>

\* Mutant of MainLock: the sweep does not wait for the mutex.
MainLockUnlocked ==
  /\ main.pc = "lock"
  /\ mutex' = "main"
  /\ main' = [main EXCEPT !.pc = "sweep", !.sweep = {ip \in IPs : Timedout(ip)}]
  /\ UNCHANGED <<confVars, banVars, counters, net>>

\* erase_timeouts reads the time once, before its loop.
MainLock ==
  /\ main.pc = "lock" /\ mutex = Nobody
  /\ mutex' = "main"
  /\ main' = [main EXCEPT !.pc = "sweep", !.sweep = {ip \in IPs : Timedout(ip)}]
  /\ UNCHANGED <<confVars, banVars, counters, net>>

\* The deleter and then the erasure of each item, in any order of items.
SweepUnban(ip) ==
  /\ main.pc = "sweep" /\ ip \in main.sweep /\ main.ip = Nobody
  /\ Unban(ip)
  /\ main' = [main EXCEPT !.ip = ip]
  /\ UNCHANGED <<confVars, bans, counters, mutex, net>>

SweepErase ==
  /\ main.pc = "sweep" /\ main.ip # Nobody
  /\ bans' = [bans EXCEPT ![main.ip] = NoItem]
  /\ main' = [main EXCEPT !.sweep = @ \ {main.ip}, !.ip = Nobody]
  /\ UNCHANGED <<confVars, blocked, rules, missed, counters, mutex, net>>

SweepEnd ==
  /\ main.pc = "sweep" /\ main.sweep = {}
  /\ counters' = [o \in Counted |-> [ip \in IPs |->
                    Kept(counters[o][ip], conf.counters[o].time_interval)]]
  /\ mutex' = Nobody
  /\ Goto("idle")
  /\ UNCHANGED <<confVars, banVars, net>>

Reload ==
  /\ main.pc = "idle"
  /\ Goto("pre")
  /\ UNCHANGED <<confVars, banVars, counters, mutex, net>>

ConfigurePre ==
  /\ main.pc = "pre"
  /\ isConfigured' = FALSE
  /\ conf' = Default
  /\ Goto("load")
  /\ UNCHANGED <<timeOut, callsOn, banVars, counters, mutex, net>>

\* configure; reading a system call first disables it
Configure(c) ==
  /\ main.pc = "load"
  /\ conf' = c
  /\ callsOn' = FALSE
  /\ Goto("calls")
  /\ UNCHANGED <<isConfigured, timeOut, banVars, counters, mutex, net>>

ConfigureCalls ==
  /\ main.pc = "calls"
  /\ callsOn' = TRUE
  /\ Goto("post")
  /\ UNCHANGED <<isConfigured, conf, timeOut, banVars, counters, mutex, net>>

ConfigurePost ==
  /\ main.pc = "post"
  /\ timeOut' = conf.banTimeOut
  /\ isConfigured' = TRUE
  /\ Goto("idle")
  /\ UNCHANGED <<conf, callsOn, banVars, counters, mutex, net>>

MainStep ==
  \/ MainLock \/ SweepErase \/ SweepEnd \/ ConfigurePre \/ ConfigureCalls \/ ConfigurePost
  \/ \E ip \in IPs : SweepUnban(ip)
  \/ \E c \in Configs : Configure(c)

-----------------------------------------------------------------------------
Tick ==
  /\ bans' = [ip \in IPs |-> Aged(bans[ip])]
  /\ counters' = [o \in Counted |-> [ip \in IPs |-> Aged(counters[o][ip])]]
  /\ UNCHANGED <<confVars, blocked, rules, missed, mutex, net, main>>

Next ==
  \/ \E p \in Packets : Recv(p)
  \/ NetStep
  \/ Timer15000 \/ Reload \/ MainStep
  \/ Tick

Spec == Init /\ [][Next]_vars

\* Time passes, the timer fires again and again, the threads run on, and the
\* mutex is given to a thread that keeps asking for it.
Fairness ==
  /\ WF_vars(Tick)
  /\ SF_vars(Timer15000)
  /\ WF_vars(NetStep) /\ SF_vars(NetLock)
  /\ WF_vars(MainStep) /\ SF_vars(MainLock)

FairSpec == Spec /\ Fairness

-----------------------------------------------------------------------------
TypeOK ==
  /\ isConfigured \in BOOLEAN /\ callsOn \in BOOLEAN
  /\ conf \in ConfigRec
  /\ timeOut \in 0..(MaxAge - 1)
  /\ bans \in [IPs -> Items]
  /\ counters \in [Counted -> [IPs -> Items]]
  /\ blocked \subseteq IPs /\ rules \subseteq IPs /\ missed \subseteq IPs
  /\ mutex \in {Nobody, "net", "main"}
  /\ net \in [pc : {"recv", "enter", "lock", "decide", "renew", "insert",
                    "block", "call"},
              ip : IPs \cup {Nobody}, todo : Seq(Offences)]
  /\ net.pc = "recv" <=> net.todo = <<>>
  /\ net.pc # "recv" => net.ip \in IPs
  /\ main \in [pc : {"idle", "lock", "sweep", "pre", "load", "calls", "post"},
               sweep : SUBSET IPs, ip : IPs \cup {Nobody}]

Listed == {ip \in IPs : bans[ip] # NoItem}

\* The two stores of bans tell the same: whenever no handler is in the middle
\* of its work, the packets dropped are those of the addresses on the list
\* with the times, though the timer removes while the hook adds (ban_ip,
\* unban_ip, erase_timeouts).
BlockMatchesBan == mutex = Nobody => blocked = Listed

\* So do the rules outside the process, for every address none of whose calls
\* fell into a reload, when system_call_t is disabled for a moment.
RulesMatchBan == mutex = Nobody => \A ip \in IPs \ missed : ip \in rules <=> ip \in Listed

\* A ban that is being lifted: found timed out and not yet off the list.
Due == main.sweep \cup
       (IF net.pc \in {"renew", "insert"} THEN {net.ip} \cap Listed ELSE {})

Since == [ip \in IPs |-> IF ip \in Listed THEN bans[ip].age ELSE NoItem]

\* server_guard keeps the promise of BanList.
B == INSTANCE BanList WITH since <- Since, banTime <- timeOut, due <- Due

BanListPromise == B!Spec

\* A banned address is let in again in the end, however often it is banned
\* anew and the server reconfigured (on_timer15000, unban_ip).
EveryBanIsLifted == \A ip \in IPs : ip \in blocked ~> ip \notin blocked

\* "To prevent code from running before the configuration" (the comment on
\* is_configured, server_guard.hpp:87): no handler counts or bans while the
\* values it goes by are being loaded.
ConfiguredWhenActing ==
  [][NetStep /\ (counters' # counters \/ bans' # bans) => isConfigured]_vars

\* A reload that waits until no handler is past its look at is_configured; to
\* lock the mutex would not be enough, for a handler looks before it locks.
QuietReload == ConfigurePre => net.pc \in {"recv", "enter"}

\* The rules outside the process are those of the list, for every address.
RulesMatchAll == mutex = Nobody => rules = Listed
=============================================================================
