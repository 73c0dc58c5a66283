------------------------- MODULE ServerGuardProofs -------------------------
(***************************************************************************)
(* Proofs about server_guard, for every set of addresses, every set of     *)
(* configurations and packets, and every bound on ages and counts: what    *)
(* holds always, and what a reload costs that does not wait for the hook.  *)
(***************************************************************************)
EXTENDS ServerGuard, TimeOutsProofs, SequenceTheorems, TLAPS

-----------------------------------------------------------------------------
(* The inductive invariant.                                                  *)

\* Who is past its lock and before its unlock holds hooked_events_mutex.
LockHeld ==
  /\ mutex = "net" <=> net.pc \in {"decide", "renew", "insert", "block", "call"}
  /\ mutex = "main" <=> main.pc = "sweep"

\* The sweep works on bans that are listed, and on one of them at a time.
SweepSound ==
  /\ main.sweep \subseteq Listed
  /\ main.pc # "sweep" => main.sweep = {} /\ main.ip = Nobody
  /\ main.ip # Nobody => main.ip \in main.sweep

\* The addresses for which the two stores of bans may differ now.
Midway == (IF net.pc \in {"insert", "block"} THEN {net.ip} ELSE {}) \cup {main.ip}

StoresAgree ==
  /\ blocked = Listed \ Midway
  /\ net.pc \in {"renew", "block", "call"} => net.ip \in Listed

\* The addresses for which list and rules may differ now.
CallPending ==
  (IF net.pc \in {"insert", "block", "call"} THEN {net.ip} ELSE {}) \cup {main.ip}

RulesAgree ==
  \A ip \in IPs \ missed : ip \in rules <=> ip \in Listed \ CallPending

IInv == TypeOK /\ LockHeld /\ SweepSound /\ StoresAgree /\ RulesAgree

-----------------------------------------------------------------------------
(* Every step keeps the state well formed.                                   *)

\* The handlers of a packet are worked off from the front until none is left.
LEMMA NextOffenceType ==
  ASSUME TypeOK, net.pc # "recv", NextOffence
  PROVE  /\ net' \in [pc : {"recv", "enter"}, ip : IPs \cup {Nobody}, todo : Seq(Offences)]
         /\ net'.pc = "recv" <=> net'.todo = <<>>
         /\ net'.pc # "recv" => net'.ip \in IPs
<1>1. net.todo \in Seq(Offences) /\ net.todo # <<>> /\ net.ip \in IPs
  BY DEF TypeOK
<1>2. Tail(net.todo) \in Seq(Offences)
  BY <1>1, HeadTailProperties
<1> QED BY <1>1, <1>2 DEF NextOffence, Idle, TypeOK

\* No step of either thread leaves the types.
LEMMA TypeStep ==
  ASSUME TypeOK, [Next]_vars
  PROVE  TypeOK'
<1> USE GuardAssumption, TimeOutsAssumption
<1>1. ASSUME NEW p \in Packets, Recv(p)
      PROVE  TypeOK'
  BY <1>1 DEF Recv, TypeOK, confVars, banVars
<1>2. CASE Enter
  <2>1. CASE net' = [net EXCEPT !.pc = "lock"]
    BY <1>2, <2>1 DEF Enter, TypeOK, confVars, banVars
  <2>2. CASE NextOffence
    BY <1>2, <2>2, NextOffenceType DEF Enter, TypeOK, confVars, banVars
  <2> QED BY <1>2, <2>1, <2>2 DEF Enter
<1>3. CASE NetLock
  BY <1>3 DEF NetLock, TypeOK, confVars, banVars
<1>4. CASE Decide
  <2>1. counters' \in [Counted -> [IPs -> Items]]
    <3>1. CASE UNCHANGED counters
      BY <3>1 DEF TypeOK
    <3>2. ASSUME Offence \in Counted, 
                 counters' = [counters EXCEPT ![Offence][net.ip] =
                   Increased(counters[Offence][net.ip], conf.counters[Offence])]
          PROVE  counters' \in [Counted -> [IPs -> Items]]
      <4>1. net.ip \in IPs /\ conf.counters[Offence] \in Params
        BY <1>4, <3>2 DEF Decide, TypeOK, ConfigRec
      <4>2. counters[Offence][net.ip] \in Items
        BY <3>2, <4>1 DEF TypeOK
      <4> QED BY <3>2, <4>1, <4>2, IncreasedIsItem DEF TypeOK
    <3> QED BY <1>4, <3>1, <3>2 DEF Decide
  <2>2. mutex' \in {Nobody, "net", "main"}
    BY <1>4 DEF Decide, NetUnlock, BanIp, TypeOK
  <2>3. CASE NetUnlock
    BY <1>4, <2>1, <2>2, <2>3, NextOffenceType DEF NetUnlock, Decide, TypeOK, confVars, banVars
  <2>4. CASE net' = [net EXCEPT !.pc = IF bans[net.ip] = NoItem
                                       THEN "insert" ELSE "renew"]
    BY <1>4, <2>1, <2>2, <2>4 DEF Decide, TypeOK, confVars, banVars
  <2> QED BY <1>4, <2>3, <2>4 DEF Decide, BanIp
<1>5. CASE Renew
  BY <1>5 DEF Renew, Unban, CallOnUnban, TypeOK, confVars
<1>6. CASE Insert
  BY <1>6, ItemsStayItems DEF Insert, TypeOK, confVars
<1>7. CASE Block
  BY <1>7 DEF Block, TypeOK, confVars
<1>8. CASE Call
  <2>1. rules' \subseteq IPs /\ missed' \subseteq IPs
    BY <1>8 DEF Call, CallOnBan, TypeOK
  <2> QED BY <1>8, <2>1, NextOffenceType DEF Call, NetUnlock, TypeOK, confVars
<1>9. CASE Timer15000 \/ Reload
  BY <1>9 DEF Timer15000, Reload, Goto, TypeOK, confVars, banVars
<1>10. CASE MainLock
  <2>1. {ip \in IPs : Timedout(ip)} \in SUBSET IPs
    OBVIOUS
  <2> QED BY <1>10, <2>1 DEF MainLock, TypeOK, confVars, banVars
<1>11. ASSUME NEW ip \in IPs, SweepUnban(ip)
       PROVE  TypeOK'
  BY <1>11 DEF SweepUnban, Unban, CallOnUnban, TypeOK, confVars
<1>12. CASE SweepErase
  BY <1>12 DEF SweepErase, TypeOK, confVars, Items
<1>13. CASE SweepEnd
  <2>1. \A o \in Counted : conf.counters[o].time_interval \in Int
    BY DEF TypeOK, ConfigRec, Params
  <2> QED BY <1>13, <2>1, ItemsStayItems DEF SweepEnd, Goto, TypeOK, confVars, banVars
<1>14. ASSUME NEW c \in Configs, Configure(c)
       PROVE  TypeOK'
  BY <1>14 DEF Configure, Goto, TypeOK, banVars
<1>15. CASE ConfigurePre \/ ConfigureCalls \/ ConfigurePost
  BY <1>15 DEF ConfigurePre, ConfigureCalls, ConfigurePost, Goto, TypeOK, banVars, ConfigRec
<1>16. CASE Tick
  BY <1>16, ItemsStayItems DEF Tick, TypeOK, confVars
<1>17. CASE UNCHANGED vars
  BY <1>17 DEF vars, TypeOK, confVars, banVars
<1> QED BY <1>1, <1>2, <1>3, <1>4, <1>5, <1>6, <1>7, <1>8, <1>9, <1>11, <1>12,
           <1>13, <1>14, <1>15, <1>16, <1>17, <1>10 DEF Next, NetStep, MainStep

-----------------------------------------------------------------------------
(* The mutex and the stores of bans.                                         *)

\* The mutex has one holder, who is between its lock and its unlock.
LEMMA LockStep ==
  ASSUME TypeOK, LockHeld, [Next]_vars
  PROVE  LockHeld'
<1> USE GuardAssumption DEF LockHeld
<1>1. ASSUME NEW p \in Packets, Recv(p)
      PROVE  LockHeld'
  BY <1>1 DEF Recv
<1>2. CASE Enter
  BY <1>2, NextOffenceType DEF Enter, TypeOK
<1>3. CASE NetLock
  BY <1>3 DEF NetLock, TypeOK
<1>4. CASE Decide
  <2>1. main' = main /\ net.pc = "decide" /\ mutex = "net"
    BY <1>4 DEF Decide
  <2>2. CASE NetUnlock
    BY <2>1, <2>2, NextOffenceType DEF NetUnlock
  <2>3. CASE /\ mutex' = mutex
             /\ net' = [net EXCEPT !.pc = IF bans[net.ip] = NoItem
                                          THEN "insert" ELSE "renew"]
    BY <2>1, <2>3 DEF TypeOK
  <2> QED BY <1>4, <2>2, <2>3 DEF Decide, BanIp
<1>5. CASE Renew \/ Insert \/ Block
  BY <1>5 DEF Renew, Insert, Block, TypeOK
<1>6. CASE Call
  BY <1>6, NextOffenceType DEF Call, NetUnlock
<1>7. CASE Timer15000 \/ MainLock \/ Reload
  BY <1>7 DEF Timer15000, MainLock, Reload, Goto, TypeOK
<1>8. ASSUME NEW ip \in IPs, SweepUnban(ip)
      PROVE  LockHeld'
  BY <1>8 DEF SweepUnban, TypeOK
<1>9. CASE SweepErase \/ SweepEnd
  BY <1>9 DEF SweepErase, SweepEnd, Goto, TypeOK
<1>10. ASSUME NEW c \in Configs, Configure(c)
       PROVE  LockHeld'
  BY <1>10 DEF Configure, Goto, TypeOK
<1>11. CASE ConfigurePre \/ ConfigureCalls \/ ConfigurePost
  BY <1>11 DEF ConfigurePre, ConfigureCalls, ConfigurePost, Goto, TypeOK
<1>12. CASE Tick \/ UNCHANGED vars
  BY <1>12 DEF Tick, vars
<1> QED BY <1>1, <1>2, <1>3, <1>4, <1>5, <1>6, <1>7, <1>8, <1>9, <1>10, <1>11,
           <1>12 DEF Next, NetStep, MainStep

\* Time leaves the list of bans as it is.
LEMMA TickKeepsListed ==
  ASSUME TypeOK, Tick
  PROVE  Listed' = Listed
<1>1. \A i \in Items : Aged(i) = NoItem <=> i = NoItem
  BY TimeOutsAssumption DEF Aged, Older, Items, Ages
<1> QED BY <1>1 DEF Tick, TypeOK, Listed

\* The list, the packets dropped and the rules agree but for the address a
\* handler or the sweep is just working on, and nobody else works on it.
LEMMA StoresStep ==
  ASSUME IInv, [Next]_vars
  PROVE  (SweepSound /\ StoresAgree /\ RulesAgree)'
<1> DEFINE Goal == SweepSound /\ StoresAgree /\ RulesAgree
<1> USE GuardAssumption, TimeOutsAssumption
<1>1. ASSUME NEW p \in Packets, Recv(p)
      PROVE  Goal'
  BY <1>1 DEF Recv, IInv, LockHeld, SweepSound, StoresAgree, RulesAgree, Listed,
              Midway, CallPending, confVars, banVars, TypeOK
<1>2. CASE Enter
  BY <1>2, NextOffenceType DEF Enter, IInv, SweepSound, StoresAgree, RulesAgree,
     Listed, Midway, CallPending, confVars, banVars, TypeOK
<1>3. CASE NetLock
  BY <1>3 DEF NetLock, IInv, SweepSound, StoresAgree, RulesAgree, Listed, Midway,
              CallPending, confVars, banVars, TypeOK
<1>4. CASE Decide
  <2>1. /\ net.pc = "decide" /\ mutex = "net"
        /\ main.sweep = {} /\ main.ip = Nobody /\ net.ip \in IPs
    BY <1>4 DEF Decide, IInv, LockHeld, SweepSound, TypeOK
  <2>2. UNCHANGED <<bans, blocked, rules, missed, main>>
    BY <1>4 DEF Decide, banVars
  <2>3. CASE NetUnlock
    BY <2>1, <2>2, <2>3, NextOffenceType DEF NetUnlock, IInv, SweepSound,
       StoresAgree, RulesAgree, Listed, Midway, CallPending
  <2>4. CASE net' = [net EXCEPT !.pc = IF bans[net.ip] = NoItem
                                       THEN "insert" ELSE "renew"]
    BY <2>1, <2>2, <2>4 DEF IInv, SweepSound, StoresAgree, RulesAgree, Listed,
       Midway, CallPending, TypeOK
  <2> QED BY <1>4, <2>3, <2>4 DEF Decide, BanIp
<1>5. CASE Renew
  BY <1>5 DEF Renew, Unban, CallOnUnban, IInv, LockHeld, SweepSound, StoresAgree,
     RulesAgree, Listed, Midway, CallPending, TypeOK
<1>6. CASE Insert
  BY <1>6 DEF Insert, Inserted, IInv, LockHeld, SweepSound, StoresAgree,
     RulesAgree, Listed, Midway, CallPending, TypeOK
<1>7. CASE Block
  BY <1>7 DEF Block, IInv, LockHeld, SweepSound, StoresAgree, RulesAgree, Listed,
     Midway, CallPending, TypeOK
<1>8. CASE Call
  BY <1>8, NextOffenceType DEF Call, CallOnBan, NetUnlock, IInv, LockHeld,
     SweepSound, StoresAgree, RulesAgree, Listed, Midway, CallPending, TypeOK
<1>9. CASE Timer15000 \/ Reload
  BY <1>9 DEF Timer15000, Reload, Goto, IInv, SweepSound, StoresAgree, RulesAgree,
     Listed, Midway, CallPending, confVars, banVars, TypeOK
<1>10. CASE MainLock
  <2>1. {ip \in IPs : Timedout(ip)} \subseteq Listed
    BY DEF Timedout, Listed
  <2> QED BY <1>10, <2>1 DEF MainLock, IInv, LockHeld, SweepSound, StoresAgree,
             RulesAgree, Listed, Midway, CallPending, confVars, banVars, TypeOK
<1>11. ASSUME NEW ip \in IPs, SweepUnban(ip)
       PROVE  Goal'
  BY <1>11 DEF SweepUnban, Unban, CallOnUnban, IInv, LockHeld, SweepSound,
     StoresAgree, RulesAgree, Listed, Midway, CallPending, TypeOK
<1>12. CASE SweepErase
  BY <1>12 DEF SweepErase, IInv, LockHeld, SweepSound, StoresAgree, RulesAgree,
     Listed, Midway, CallPending, TypeOK
<1>13. CASE SweepEnd
  BY <1>13 DEF SweepEnd, Goto, IInv, LockHeld, SweepSound, StoresAgree,
     RulesAgree, Listed, Midway, CallPending, confVars, banVars, TypeOK
<1>14. ASSUME NEW c \in Configs, Configure(c)
       PROVE  Goal'
  BY <1>14 DEF Configure, Goto, IInv, SweepSound, StoresAgree, RulesAgree,
     Listed, Midway, CallPending, banVars, TypeOK
<1>15. CASE ConfigurePre \/ ConfigureCalls \/ ConfigurePost
  BY <1>15 DEF ConfigurePre, ConfigureCalls, ConfigurePost, Goto, IInv, SweepSound,
     StoresAgree, RulesAgree, Listed, Midway, CallPending, banVars, TypeOK
<1>16. CASE Tick
  BY <1>16, TickKeepsListed DEF Tick, IInv, SweepSound, StoresAgree, RulesAgree,
     Midway, CallPending, confVars
<1>17. CASE UNCHANGED vars
  BY <1>17 DEF vars, IInv, SweepSound, StoresAgree, RulesAgree, Listed, Midway,
     CallPending, confVars, banVars
<1> QED BY <1>1, <1>2, <1>3, <1>4, <1>5, <1>6, <1>7, <1>8, <1>9, <1>10, <1>11,
           <1>12, <1>13, <1>14, <1>15, <1>16, <1>17 DEF Next, NetStep, MainStep

\* The invariant holds in every reachable state.
LEMMA Inductive == Spec => []IInv
<1>1. Init => IInv
  <2> SUFFICES ASSUME Init PROVE IInv
    OBVIOUS
  <2>1. TypeOK
    BY GuardAssumption, TimeOutsAssumption, EmptySeq
       DEF Init, TypeOK, Idle, ConfigRec, Items
  <2>2. LockHeld /\ SweepSound /\ StoresAgree /\ RulesAgree
    BY GuardAssumption DEF Init, Idle, LockHeld, SweepSound, StoresAgree,
       RulesAgree, Listed, Midway, CallPending
  <2> QED BY <2>1, <2>2 DEF IInv
<1>2. IInv /\ [Next]_vars => IInv'
  BY TypeStep, LockStep, StoresStep DEF IInv
<1> QED BY <1>1, <1>2, PTL DEF Spec

(* The state of the guard stays well formed.                                 *)
THEOREM TypeCorrect == Spec => []TypeOK
<1>1. IInv => TypeOK
  BY DEF IInv
<1> QED BY <1>1, Inductive, PTL

(* Whenever no handler is at work, the packets dropped are those of the      *)
(* addresses on the list of bans, and the rules outside agree with the list  *)
(* for every address none of whose calls was skipped.                        *)
THEOREM StoresMatch == Spec => [](BlockMatchesBan /\ RulesMatchBan)
<1>1. IInv => BlockMatchesBan /\ RulesMatchBan
  <2> SUFFICES ASSUME IInv, mutex = Nobody
               PROVE  blocked = Listed /\ \A ip \in IPs \ missed : ip \in rules <=> ip \in Listed
    BY DEF BlockMatchesBan, RulesMatchBan
  <2>1. net.pc \notin {"insert", "block", "call"} /\ main.ip = Nobody
    BY GuardAssumption DEF IInv, LockHeld, SweepSound
  <2>2. Midway = {Nobody} /\ CallPending = {Nobody}
    BY <2>1 DEF Midway, CallPending
  <2> QED BY <2>2, GuardAssumption DEF IInv, StoresAgree, RulesAgree, Listed
<1> QED BY <1>1, Inductive, PTL

(* A rule outside that nobody asked to be lifted belongs to a ban, and every *)
(* ban has its rule: the second half of StoresMatch, by its own name.        *)
THEOREM RulesFollow == Spec => []RulesMatchBan
<1>1. BlockMatchesBan /\ RulesMatchBan => RulesMatchBan
  OBVIOUS
<1> QED BY <1>1, StoresMatch, PTL

-----------------------------------------------------------------------------
(* The guard implements BanList.                                             *)

\* At the start nobody is banned.
LEMMA BanListInit == Init => B!Init
BY GuardAssumption, TimeOutsAssumption
   DEF Init, Idle, B!Init, B!Times, Since, Due, Listed, ConfigRec

\* A step that leaves the bans, the time-out and the bans being lifted alone
\* is invisible in BanList.
LEMMA BanListStutter ==
  ASSUME UNCHANGED <<bans, timeOut>>, Due' = Due
  PROVE  UNCHANGED B!vars
BY DEF B!vars, Since, Listed

\* Every step of either thread is one of BanList or changes nothing it sees.
LEMMA BanListStep ==
  ASSUME IInv, [Next]_vars
  PROVE  [B!Next]_(B!vars)
<1> USE GuardAssumption, TimeOutsAssumption
<1>0. TypeOK /\ LockHeld /\ SweepSound
  BY DEF IInv
<1>1. ASSUME NEW p \in Packets, Recv(p)
      PROVE  UNCHANGED B!vars
  BY <1>0, <1>1, BanListStutter DEF Recv, Due, Listed, confVars, banVars, TypeOK
<1>2. CASE Enter
  <2>1. UNCHANGED <<bans, timeOut, main>> /\ net'.pc \in {"recv", "enter", "lock"}
    BY <1>0, <1>2, NextOffenceType DEF Enter, confVars, banVars, TypeOK
  <2> QED BY <1>2, <2>1, BanListStutter DEF Enter, Due, Listed
<1>3. CASE NetLock
  BY <1>0, <1>3, BanListStutter DEF NetLock, Due, Listed, confVars, banVars, TypeOK
<1>4. CASE Decide
  <2>1. /\ net.pc = "decide" /\ main.sweep = {} /\ net.ip \in IPs
        /\ UNCHANGED <<bans, timeOut, main>>
    BY <1>0, <1>4 DEF Decide, LockHeld, SweepSound, confVars, banVars, TypeOK
  <2>2. CASE NetUnlock
    BY <1>0, <2>1, <2>2, NextOffenceType, BanListStutter DEF NetUnlock, Due
  <2>3. CASE /\ ~IsBanned(net.ip)
             /\ net' = [net EXCEPT !.pc = IF bans[net.ip] = NoItem
                                          THEN "insert" ELSE "renew"]
    <3>1. CASE bans[net.ip] = NoItem
      BY <1>0, <2>1, <2>3, <3>1, BanListStutter DEF Due, Listed, TypeOK
    <3>2. CASE bans[net.ip] # NoItem
      <4>1. net.ip \in Listed /\ bans[net.ip].age \in Int /\ bans[net.ip].age > timeOut
        BY <1>0, <2>1, <2>3, <3>2 DEF IsBanned, IsExist, IsTimeout, Listed, TypeOK,
           Items, Ages
      <4>2. Due = {} /\ Due' = {net.ip}
        BY <1>0, <2>1, <2>3, <3>2, <4>1 DEF Due, Listed, TypeOK
      <4>3. Since' = Since /\ Since[net.ip] = bans[net.ip].age
        BY <2>1, <4>1 DEF Since, Listed
      <4>4. B!Settle({net.ip})
        BY <2>1, <4>1, <4>2, <4>3 DEF B!Settle
      <4> QED BY <2>1, <4>4 DEF B!Next
    <3> QED BY <3>1, <3>2
  <2> QED BY <1>4, <2>2, <2>3 DEF Decide, BanIp
<1>5. CASE Renew
  BY <1>0, <1>5, BanListStutter DEF Renew, Due, Listed, confVars, TypeOK
<1>6. CASE Insert
  <2>1. /\ net.ip \in IPs /\ main.sweep = {} /\ Listed' = Listed \cup {net.ip}
        /\ timeOut' = timeOut
    BY <1>0, <1>6 DEF Insert, Inserted, LockHeld, SweepSound, Listed, confVars, TypeOK
  <2>2. Since' = [Since EXCEPT ![net.ip] = 0]
    BY <1>0, <1>6, <2>1 DEF Insert, Inserted, Since, Listed, TypeOK
  <2>3. Due' = {} /\ Due = {net.ip} \cap Listed
    BY <1>0, <1>6, <2>1 DEF Insert, Due, TypeOK
  <2>4. CASE net.ip \in Listed
    <3>1. B!Renew(net.ip)
      BY <2>1, <2>2, <2>3, <2>4 DEF B!Renew
    <3> QED BY <2>1, <3>1 DEF B!Next
  <2>5. CASE net.ip \notin Listed
    <3>1. B!Ban(net.ip)
      BY <2>1, <2>2, <2>3, <2>5 DEF B!Ban, Since
    <3> QED BY <2>1, <3>1 DEF B!Next
  <2> QED BY <2>4, <2>5
<1>7. CASE Block
  BY <1>0, <1>7, BanListStutter DEF Block, Due, Listed, confVars, TypeOK
<1>8. CASE Call
  <2>1. UNCHANGED <<bans, timeOut, main>> /\ net'.pc \in {"recv", "enter"}
    BY <1>0, <1>8, NextOffenceType DEF Call, NetUnlock, confVars
  <2> QED BY <1>8, <2>1, BanListStutter DEF Call, Due, Listed
<1>9. CASE Timer15000 \/ Reload
  BY <1>0, <1>9, BanListStutter DEF Timer15000, Reload, Goto, Due, Listed,
     confVars, banVars, TypeOK
<1>10. CASE MainLock
  <2> DEFINE S == {ip \in IPs : Timedout(ip)}
  <2>1. /\ main.sweep = {} /\ net.pc \notin {"renew", "insert"}
        /\ main'.sweep = S /\ UNCHANGED <<bans, timeOut, net>>
    BY <1>0, <1>10 DEF MainLock, LockHeld, SweepSound, confVars, banVars, TypeOK
  <2>2. \A ip \in S : /\ Since[ip] = bans[ip].age /\ bans[ip].age \in Int
                      /\ bans[ip].age > timeOut
    BY <1>0 DEF Timedout, IsTimeout, Since, Listed, TypeOK, Items, Ages
  <2>3. Due' = Due \cup S /\ Since' = Since
    BY <2>1 DEF Due, Since, Listed
  <2>4. B!Settle(S)
    BY <2>1, <2>2, <2>3 DEF B!Settle
  <2>5. S \in SUBSET IPs
    OBVIOUS
  <2> QED BY <2>4, <2>5 DEF B!Next
<1>11. ASSUME NEW ip \in IPs, SweepUnban(ip)
       PROVE  UNCHANGED B!vars
  BY <1>0, <1>11, BanListStutter DEF SweepUnban, Due, Listed, confVars, TypeOK
<1>12. CASE SweepErase
  <2>1. /\ main.ip \in main.sweep /\ main.ip \in IPs /\ UNCHANGED <<net, timeOut>>
        /\ net.pc \notin {"renew", "insert"}
        /\ bans' = [bans EXCEPT ![main.ip] = NoItem]
        /\ main'.sweep = main.sweep \ {main.ip}
    BY <1>0, <1>12 DEF SweepErase, LockHeld, SweepSound, confVars, TypeOK
  <2>2. Due' = Due \ {main.ip} /\ main.ip \in Due
    BY <2>1 DEF Due
  <2>3. Since' = [Since EXCEPT ![main.ip] = NoItem]
    BY <1>0, <2>1 DEF Since, Listed, TypeOK
  <2>4. B!Lift(main.ip)
    BY <2>1, <2>2, <2>3 DEF B!Lift
  <2> QED BY <2>1, <2>4 DEF B!Next
<1>13. CASE SweepEnd
  BY <1>0, <1>13, BanListStutter DEF SweepEnd, Goto, Due, Listed, confVars,
     banVars, TypeOK
<1>14. ASSUME NEW c \in Configs, Configure(c)
       PROVE  UNCHANGED B!vars
  BY <1>0, <1>14, BanListStutter DEF Configure, Goto, Due, Listed, banVars, TypeOK
<1>15. CASE ConfigurePre \/ ConfigureCalls
  BY <1>0, <1>15, BanListStutter DEF ConfigurePre, ConfigureCalls, Goto, Due,
     Listed, banVars, TypeOK
<1>16. CASE ConfigurePost
  <2>1. timeOut' \in B!Times
    BY <1>0, <1>16 DEF ConfigurePost, B!Times, TypeOK, ConfigRec
  <2>2. Since' = Since /\ Due' = Due
    BY <1>0, <1>16 DEF ConfigurePost, Goto, Since, Due, Listed, banVars, TypeOK
  <2>3. B!NewTime(timeOut')
    BY <2>2 DEF B!NewTime
  <2> QED BY <2>1, <2>3 DEF B!Next
<1>17. CASE Tick
  <2>1. Listed' = Listed /\ Due' = Due /\ timeOut' = timeOut
    BY <1>0, <1>17, TickKeepsListed DEF Tick, Due, confVars
  <2>2. ASSUME NEW ip \in IPs
        PROVE  Since'[ip] = IF Since[ip] # NoItem /\ Since[ip] < MaxAge
                            THEN Since[ip] + 1 ELSE Since[ip]
    <3>1. bans'[ip] = Aged(bans[ip]) /\ bans[ip] \in Items
      BY <1>0, <1>17 DEF Tick, TypeOK
    <3>2. CASE ip \in Listed
      <4>1. /\ bans[ip] \in [age : Ages, val : 1..MaxCount]
            /\ Since[ip] = bans[ip].age /\ Since'[ip] = bans'[ip].age
        BY <2>1, <3>1, <3>2 DEF Since, Listed, Items
      <4>2. bans'[ip].age = Older(bans[ip].age)
        BY <3>1, <3>2, <4>1 DEF Aged, Listed
      <4> QED BY <4>1, <4>2 DEF Older, Ages
    <3>3. CASE ip \notin Listed
      BY <2>1, <3>3 DEF Since
    <3> QED BY <3>2, <3>3
  <2>3. B!Pass
    BY <2>1, <2>2 DEF B!Pass, Since
  <2> QED BY <2>3 DEF B!Next
<1>18. CASE UNCHANGED vars
  BY <1>18, BanListStutter DEF vars, Due, Listed, confVars, banVars
<1> QED BY <1>1, <1>2, <1>3, <1>4, <1>5, <1>6, <1>7, <1>8, <1>9, <1>10, <1>11,
           <1>12, <1>13, <1>14, <1>15, <1>16, <1>17, <1>18
        DEF Next, NetStep, MainStep

(* server_guard implements BanList: a ban, once listed, is lifted or renewed *)
(* only after it was found older than the ban time.                          *)
THEOREM KeepsBanListPromise == Spec => BanListPromise
<1>1. IInv /\ [Next]_vars => [B!Next]_(B!vars)
  BY BanListStep
<1> QED BY <1>1, BanListInit, Inductive, PTL DEF Spec, BanListPromise, B!Spec

-----------------------------------------------------------------------------
(* What the missing lock of is_configured costs, and all that it costs.      *)

\* The system calls are disabled only while the server is not configured, and
\* it is configured whenever a sweep or a handler past its check is at work.
QuietInv ==
  /\ main.pc \in {"idle", "lock", "sweep"} => isConfigured
  /\ main.pc \in {"load", "calls", "post"} => ~isConfigured
  /\ main.pc = "post" => callsOn
  /\ isConfigured => callsOn
  /\ net.pc \notin {"recv", "enter"} => isConfigured
  /\ missed = {}

\* Quiet reloads keep it so.
LEMMA QuietStep ==
  ASSUME TypeOK, QuietInv, [Next /\ QuietReload]_vars
  PROVE  QuietInv'
<1> USE DEF QuietInv
<1>1. ASSUME NEW p \in Packets, Recv(p)
      PROVE  QuietInv'
  BY <1>1 DEF Recv, confVars, banVars
<1>2. CASE Enter
  <2>1. net'.pc \in {"recv", "enter"} \/ isConfigured
    BY <1>2, NextOffenceType DEF Enter
  <2> QED BY <1>2, <2>1 DEF Enter, confVars, banVars
<1>3. CASE NetLock
  BY <1>3 DEF NetLock, confVars, banVars
<1>4. CASE Decide \/ Insert \/ Block
  BY <1>4 DEF Decide, Insert, Block, confVars, banVars
<1>5. CASE Renew
  BY <1>5 DEF Renew, Unban, CallOnUnban, confVars
<1>6. CASE Call
  BY <1>6 DEF Call, CallOnBan, confVars
<1>7. CASE Timer15000 \/ Reload
  BY <1>7 DEF Timer15000, Reload, Goto, TypeOK, confVars, banVars
<1>8. CASE MainLock \/ SweepEnd
  BY <1>8 DEF MainLock, SweepEnd, Goto, TypeOK, confVars, banVars
<1>9. ASSUME NEW ip \in IPs, SweepUnban(ip)
      PROVE  QuietInv'
  BY <1>9 DEF SweepUnban, Unban, CallOnUnban, TypeOK, confVars
<1>10. CASE SweepErase
  BY <1>10 DEF SweepErase, TypeOK, confVars
<1>11. CASE ConfigurePre /\ QuietReload
  BY <1>11 DEF ConfigurePre, QuietReload, Goto, TypeOK, banVars
<1>12. ASSUME NEW c \in Configs, Configure(c)
       PROVE  QuietInv'
  BY <1>12 DEF Configure, Goto, TypeOK, banVars
<1>13. CASE ConfigureCalls \/ ConfigurePost
  BY <1>13 DEF ConfigureCalls, ConfigurePost, Goto, TypeOK, banVars
<1>14. CASE Tick
  BY <1>14 DEF Tick, confVars
<1>15. CASE UNCHANGED vars
  BY <1>15 DEF vars, confVars, banVars
<1> QED BY <1>1, <1>2, <1>3, <1>4, <1>5, <1>6, <1>7, <1>8, <1>9, <1>10, <1>11,
           <1>12, <1>13, <1>14, <1>15 DEF Next, NetStep, MainStep

\* It holds wherever reloads are quiet.
LEMMA Quiet == Spec /\ [][QuietReload]_vars => []QuietInv
<1>1. Init => QuietInv
  BY DEF Init, QuietInv, Idle
<1>2. TypeOK /\ QuietInv /\ [Next /\ QuietReload]_vars => QuietInv'
  BY QuietStep
<1>3. [Next]_vars /\ [QuietReload]_vars => [Next /\ QuietReload]_vars
  OBVIOUS
<1> QED BY <1>1, <1>2, <1>3, TypeCorrect, PTL DEF Spec

\* The reload that overtakes a handler is the only way to act unconfigured:
\* without it the comment on is_configured holds, see ConfiguredWhenActing.
THEOREM OnlyReloadOvertakes ==
  Spec /\ [][QuietReload]_vars => ConfiguredWhenActing
<1>1. TypeOK /\ QuietInv /\ [Next]_vars =>
        [NetStep /\ (counters' # counters \/ bans' # bans) => isConfigured]_vars
  <2> SUFFICES ASSUME QuietInv, NetStep, counters' # counters \/ bans' # bans
               PROVE  net.pc \notin {"recv", "enter"}
    BY DEF QuietInv
  <2>1. CASE Enter
    BY <2>1 DEF Enter, banVars
  <2> QED BY <2>1 DEF NetStep, NetLock, Decide, Renew, Insert, Block, Call
<1> QED BY <1>1, Quiet, TypeCorrect, PTL DEF Spec, ConfiguredWhenActing

\* Nor does any address fall out of the rules then: list and rules are one and
\* the same whenever no handler is in the middle of its work.
THEOREM QuietReloadsMissNothing ==
  Spec /\ [][QuietReload]_vars => []RulesMatchAll
<1>1. TypeOK /\ RulesMatchBan /\ QuietInv => RulesMatchAll
  BY DEF TypeOK, RulesMatchBan, QuietInv, RulesMatchAll, Listed
<1> QED BY <1>1, Quiet, TypeCorrect, RulesFollow, PTL
=============================================================================
