--------------------------- MODULE SpectateProofs ---------------------------
(***************************************************************************)
(* Proofs about Spectate, for any number of players and either order of    *)
(* the items in the container: the inductive invariant, the refinement of  *)
(* Watching and, as long as nobody saves a second time, of GameContext.    *)
(***************************************************************************)
EXTENDS Spectate, TLAPS, WellFoundedInduction

-----------------------------------------------------------------------------
(* What the functions on the player's record return.                       *)

Consistent(r) == IF r.active = None THEN r.gcOn = {} ELSE r.gcOn = {r.active}

\* game_context_activate_impl leaves exactly the new context flagged, and
\* touches nothing else.
LEMMA ActivateLemma ==
  ASSUME NEW r \in PlayerRec, NEW c \in Contexts, Consistent(r)
  PROVE  /\ Activate(r, c) \in PlayerRec
         /\ Activate(r, c).active = c
         /\ Activate(r, c).gcOn = {c}
         /\ Activate(r, c).waiting = r.waiting
         /\ Activate(r, c).state = r.state
         /\ Activate(r, c).blocked = r.blocked
<1>1. CASE c = r.active
  BY <1>1, SpectateAssumption DEF Activate, Consistent, Contexts
<1>2. CASE c # r.active
  BY <1>2, SpectateAssumption DEF Activate, Consistent, PlayerRec, Contexts
<1> QED BY <1>1, <1>2

\* game_context_process_wait settles the waiting context, if there is one.
LEMMA ProcessWaitLemma ==
  ASSUME NEW r \in PlayerRec, Consistent(r)
  PROVE  /\ ProcessWait(r) \in PlayerRec
         /\ ProcessWait(r).active =
              IF r.waiting = None THEN r.active ELSE r.waiting
         /\ Consistent(ProcessWait(r))
         /\ ProcessWait(r).waiting = None
         /\ ProcessWait(r).state = r.state
         /\ ProcessWait(r).blocked = r.blocked
<1>1. CASE r.waiting = None
  BY <1>1 DEF ProcessWait
<1>2. CASE r.waiting # None
  <2> DEFINE a == Activate(r, r.waiting)
  <2>1. r.waiting \in Contexts
    BY <1>2 DEF PlayerRec
  <2>2. /\ a \in PlayerRec /\ a.active = r.waiting /\ a.gcOn = {r.waiting}
        /\ a.state = r.state /\ a.blocked = r.blocked
    BY <2>1, ActivateLemma
  <2>3. ProcessWait(r) = [a EXCEPT !.waiting = None]
    BY <1>2 DEF ProcessWait
  <2> HIDE DEF a
  <2> QED BY <1>2, <2>1, <2>2, <2>3, SpectateAssumption
          DEF PlayerRec, Consistent, Contexts
<1> QED BY <1>1, <1>2

\* do_shift finds another known player, or nobody.
LEMMA ShiftToLemma ==
  ASSUME NEW w, NEW c, NEW isNext
  PROVE  ShiftTo(w, c, isNext) \in (holder \ {w, c}) \cup {None}
<1> DEFINE others  == holder \ {w, c}
           nearest == {q \in others : \A r \in others : Sooner(c, q, r, isNext)}
<1>1. ShiftTo(w, c, isNext) = IF c \notin holder \/ nearest = {} THEN None
                              ELSE CHOOSE q \in nearest : TRUE
  BY DEF ShiftTo
<1>2. CASE c \notin holder \/ nearest = {}
  BY <1>1, <1>2
<1>3. CASE ~(c \notin holder \/ nearest = {})
  <2>1. PICK q \in nearest : TRUE
    BY <1>3
  <2>2. (CHOOSE x \in nearest : TRUE) \in nearest
    BY <2>1
  <2> QED BY <1>1, <1>3, <2>2
<1> QED BY <1>2, <1>3

-----------------------------------------------------------------------------
(* The inductive invariant.                                                *)

\* The empty server satisfies the inductive invariant.
LEMMA InitIInv == Init => IInv
BY SpectateAssumption
   DEF Init, IInv, TypeOK, OneActiveContext, WatchedIsConnected,
       EndingUntilRestored, PendingSwitchAfterRestore, LifeFlagsAgree,
       EndlessHealthOnlyInSpectate, SnapshotUnderSpectate, IsSpectate,
       FreshPlayer, FreshSpectate, FreshHealth, FreshApi,
       PlayerRec, SpectateRec, HealthRec, ApiRec, Contexts, PlayerStates,
       ApiStates, Healths, Moneys, Views

\* A connecting player starts fresh with the free-for-all context active.
LEMMA ConnectStep ==
  ASSUME IInv, NEW p \in Players, Connect(p)
  PROVE  IInv'
<1>1. pl[p] = FreshPlayer /\ p \notin holder
  BY DEF Connect, IInv, OneActiveContext
<1>2. FreshPlayer \in PlayerRec /\ Consistent(FreshPlayer)
  BY DEF FreshPlayer, PlayerRec, Consistent, Contexts, PlayerStates
<1> DEFINE r == Activate(FreshPlayer, "ffa")
<1>3. /\ r \in PlayerRec /\ r.active = "ffa" /\ r.gcOn = {"ffa"}
      /\ r.waiting = None /\ r.state = "not_conected" /\ r.blocked = FALSE
  BY <1>2, ActivateLemma DEF FreshPlayer, Contexts
<1>4. /\ holder' = holder \cup {p} /\ pl' = [pl EXCEPT ![p] = r]
      /\ UNCHANGED <<sp, hp, api>>
  BY DEF Connect
<1> HIDE DEF r
<1>5. TypeOK'
  BY <1>3, <1>4 DEF IInv, TypeOK
<1>6. OneActiveContext'
  BY <1>3, <1>4 DEF IInv, TypeOK, OneActiveContext, Contexts
<1>7. WatchedIsConnected'
  BY <1>1, <1>3, <1>4 DEF IInv, TypeOK, WatchedIsConnected, IsSpectate
<1>8. EndingUntilRestored'
  BY <1>4 DEF IInv, EndingUntilRestored, IsSpectate
<1>9. PendingSwitchAfterRestore'
  BY <1>3, <1>4 DEF IInv, TypeOK, PendingSwitchAfterRestore, IsSpectate
<1>10. LifeFlagsAgree'
  BY <1>1, <1>3, <1>4 DEF IInv, TypeOK, LifeFlagsAgree, FreshPlayer
<1>11. EndlessHealthOnlyInSpectate' /\ SnapshotUnderSpectate'
  BY <1>1, <1>3, <1>4, SpectateAssumption
     DEF IInv, TypeOK, EndlessHealthOnlyInSpectate, SnapshotUnderSpectate,
         FreshPlayer
<1> QED
  BY <1>5, <1>6, <1>7, <1>8, <1>9, <1>10, <1>11 DEF IInv

\* The invariants follow from the seven facts below for each player: a step's
\* proof gives the facts for every player w.
PlayerInv(w) ==
  /\ IF w \in holder
     THEN pl[w].active \in Contexts /\ pl[w].gcOn = {pl[w].active}
     ELSE pl[w] = FreshPlayer
  /\ sp[w].target # None =>
       /\ w \in holder /\ sp[w].target \in holder \ {w}
       /\ pl[w].active = "spectate" /\ pl[w].waiting = None
       /\ sp[w].context # None
  /\ sp[w].ending <=> (sp[w].context # None /\ sp[w].target = None)
  /\ pl[w].waiting # None =>
       /\ w \in holder
       /\ pl[w].active = "spectate" /\ sp[w].target = None
       /\ sp[w].context = None
  /\ hp[w].spawned <=> pl[w].state = "in_game"
  /\ api[w].health = "inf" => pl[w].active = "spectate" /\ pl[w].waiting # "ffa"
  /\ sp[w].context # None => pl[w].active = "spectate"
  /\ sp[w].health = "inf" => sp[w].context = "spectate"

\* The inductive invariant, player by player.
LEMMA IInvIsPlayerInv == IInv <=> TypeOK /\ \A w \in Players : PlayerInv(w)
BY DEF IInv, PlayerInv, OneActiveContext, WatchedIsConnected,
       EndingUntilRestored, PendingSwitchAfterRestore, LifeFlagsAgree,
       EndlessHealthOnlyInSpectate, SnapshotUnderSpectate, IsSpectate

\* A view of a known player, or of nobody, is a view.
LEMMA ViewLemma ==
  ASSUME NEW a, NEW q \in Players \cup {None}
  PROVE  View(a, q) \in Views
BY DEF View, Views

\* The records of a slot without a player are of their types.
LEMMA FreshLemma ==
  /\ FreshPlayer \in PlayerRec /\ FreshSpectate \in SpectateRec
  /\ FreshHealth \in HealthRec /\ FreshApi \in ApiRec
BY DEF FreshPlayer, FreshSpectate, FreshHealth, FreshApi, PlayerRec,
       SpectateRec, HealthRec, ApiRec, Contexts, PlayerStates, ApiStates,
       Healths, Moneys, Views

\* A watcher turned to q keeps his snapshot; he gets endless health, or none
\* new when he stops.
LEMMA RetargetLemma ==
  ASSUME NEW s \in SpectateRec, NEW q \in Players \cup {None}
  PROVE  /\ Retarget(s, q) \in SpectateRec
         /\ Retarget(s, q).target = q
         /\ Retarget(s, q).ending <=> q = None
         /\ Retarget(s, q).context = s.context
         /\ Retarget(s, q).health = s.health
BY DEF Retarget, SpectateRec

\* What the server keeps of a watcher stays well typed when he is turned to q.
LEMMA RetargetApiLemma ==
  ASSUME NEW x \in ApiRec, NEW q \in Players \cup {None}
  PROVE  /\ RetargetApi(x, q) \in ApiRec
         /\ RetargetApi(x, q).health = IF q = None THEN x.health ELSE "inf"
<1>1. View(api, q) \in Views
  BY ViewLemma
<1> QED
  BY <1>1 DEF RetargetApi, ApiRec, Healths

\* A step keeps the invariant if it keeps the types and each player's facts.
LEMMA FromPlayerInv ==
  ASSUME TypeOK', \A w \in Players : PlayerInv(w)'
  PROVE  IInv'
<1>1. (IInv <=> TypeOK /\ \A w \in Players : PlayerInv(w))'
  BY IInvIsPlayerInv, PTL
<1> QED BY <1>1

\* A player's facts survive a step that moves only his API record and gives
\* endless health to none but watchers.
LEMMA FrameLemma ==
  ASSUME NEW w \in Players, PlayerInv(w), UNCHANGED holder,
         pl'[w] = pl[w], sp'[w] = sp[w],
         hp'[w].spawned <=> hp[w].spawned,
         \/ api'[w].health # "inf" \/ api'[w].health = api[w].health
         \/ IsSpectate(w)
  PROVE  PlayerInv(w)'
BY SpectateAssumption DEF PlayerInv, IsSpectate

\* When a player leaves, those who watched him watch another known player or stop.
LEMMA DisconnectStep ==
  ASSUME IInv, NEW p \in Players, Disconnect(p)
  PROVE  IInv'
<1> DEFINE to(w) == ShiftTo(w, p, TRUE)
<1>1. TypeOK /\ \A w \in Players : PlayerInv(w)
  BY IInvIsPlayerInv
<1>2. \A w \in Players : to(w) \in (holder \ {w, p}) \cup {None}
  BY ShiftToLemma
<1>3. \A w \in Players : to(w) \in Players \cup {None}
  BY <1>1, <1>2 DEF TypeOK
<1>4. /\ holder' = holder \ {p}
      /\ pl' = [pl EXCEPT ![p] = FreshPlayer]
      /\ hp' = [hp EXCEPT ![p] = FreshHealth]
      /\ sp' = [w \in Players |->
                  CASE w = p -> FreshSpectate
                    [] sp[w].target = p /\ w # p -> Retarget(sp[w], to(w))
                    [] OTHER -> sp[w]]
      /\ api' = [w \in Players |->
                  CASE w = p -> FreshApi
                    [] sp[w].target = p /\ w # p -> RetargetApi(api[w], to(w))
                    [] OTHER -> api[w]]
  BY DEF Disconnect, Watches
<1> HIDE DEF to
<1>5. \A w \in Players : sp'[w] \in SpectateRec /\ api'[w] \in ApiRec
  BY <1>1, <1>3, <1>4, FreshLemma, RetargetLemma, RetargetApiLemma DEF TypeOK
<1>6. TypeOK'
  BY <1>1, <1>4, <1>5, FreshLemma DEF TypeOK
<1>7. ASSUME NEW w \in Players PROVE PlayerInv(w)'
  <2>1. CASE w = p
    BY <1>1, <1>4, <2>1
       DEF PlayerInv, TypeOK, FreshPlayer, FreshSpectate, FreshHealth, FreshApi
  <2>2. CASE w # p /\ sp[w].target = p
    <3>1. /\ sp[w] \in SpectateRec /\ api[w] \in ApiRec
          /\ to(w) \in Players \cup {None}
      BY <1>1, <1>3 DEF TypeOK
    <3>2. sp'[w] = Retarget(sp[w], to(w)) /\ api'[w] = RetargetApi(api[w], to(w))
      BY <1>4, <2>2
    <3>3. /\ sp'[w].target = to(w) /\ (sp'[w].ending <=> to(w) = None)
          /\ sp'[w].context = sp[w].context /\ sp'[w].health = sp[w].health
      BY <3>1, <3>2, RetargetLemma
    <3>5. api'[w].health = IF to(w) = None THEN api[w].health ELSE "inf"
      BY <3>1, <3>2, RetargetApiLemma
    <3>4. pl'[w] = pl[w] /\ hp'[w] = hp[w]
      BY <1>1, <1>4, <2>2 DEF TypeOK
    <3> QED
      BY <1>1, <1>2, <1>4, <2>2, <3>3, <3>4, <3>5, SpectateAssumption
         DEF PlayerInv, TypeOK
  <2>3. CASE w # p /\ sp[w].target # p
    <3>1. /\ pl'[w] = pl[w] /\ hp'[w] = hp[w]
          /\ sp'[w] = sp[w] /\ api'[w] = api[w]
      BY <1>1, <1>4, <2>3 DEF TypeOK
    <3> QED
      BY <1>1, <1>4, <2>3, <3>1 DEF PlayerInv, TypeOK
  <2> QED BY <2>1, <2>2, <2>3
<1> QED BY <1>6, <1>7, FromPlayerInv

\* After the gamemode exit nobody is known and every record is fresh.
LEMMA GamemodeExitStep ==
  ASSUME IInv, GamemodeExit
  PROVE  IInv'
<1>1. TypeOK'
  BY FreshLemma DEF GamemodeExit, TypeOK
<1>2. \A w \in Players : PlayerInv(w)'
  BY SpectateAssumption
     DEF GamemodeExit, PlayerInv, FreshPlayer, FreshSpectate, FreshHealth,
         FreshApi
<1> QED BY <1>1, <1>2, FromPlayerInv

\* do_spectate of a watcher and do_stop_spec: q is the new target or None, x
\* the watcher's new API record.
LEMMA RetargetStep ==
  ASSUME IInv, NEW p \in Players, IsSpectate(p),
         NEW q \in (holder \ {p}) \cup {None}, NEW x \in ApiRec,
         q = None => x.health = api[p].health,
         sp' = [sp EXCEPT ![p] = Retarget(@, q)],
         api' = [api EXCEPT ![p] = x],
         UNCHANGED <<holder, pl, hp>>
  PROVE  IInv'
<1>1. TypeOK /\ \A w \in Players : PlayerInv(w)
  BY IInvIsPlayerInv
<1>2. /\ sp[p] \in SpectateRec /\ q \in Players \cup {None}
  BY <1>1 DEF TypeOK
<1>3. /\ Retarget(sp[p], q) \in SpectateRec
      /\ sp'[p].target = q /\ (sp'[p].ending <=> q = None)
      /\ sp'[p].context = sp[p].context /\ sp'[p].health = sp[p].health
  BY <1>1, <1>2, RetargetLemma DEF TypeOK
<1>4. TypeOK'
  BY <1>1, <1>3 DEF TypeOK
<1>5. ASSUME NEW w \in Players, w # p PROVE PlayerInv(w)'
  <2>1. pl'[w] = pl[w] /\ sp'[w] = sp[w] /\ hp'[w] = hp[w] /\ api'[w] = api[w]
    BY <1>1, <1>5 DEF TypeOK
  <2> QED BY <1>1, <1>5, <2>1, FrameLemma
<1>6. PlayerInv(p)'
  <2>1. pl'[p] = pl[p] /\ hp'[p] = hp[p] /\ api'[p] = x
    BY <1>1 DEF TypeOK
  <2>2. q = None => api'[p].health = api[p].health
    BY <2>1
  <2> QED BY <1>1, <1>3, <2>1, <2>2, SpectateAssumption
          DEF PlayerInv, IsSpectate
<1> QED BY <1>4, <1>5, <1>6, FromPlayerInv

\* Pressing F ends the spectating and opens the ending window.
LEMMA KeyStopStep ==
  ASSUME IInv, NEW p \in Players, KeyStop(p)
  PROVE  IInv'
<1>1. api[p] \in ApiRec
  BY DEF IInv, TypeOK
<1>2. /\ RetargetApi(api[p], None) \in ApiRec
      /\ RetargetApi(api[p], None).health = api[p].health
  BY <1>1, RetargetApiLemma
<1>3. /\ IsSpectate(p) /\ sp' = [sp EXCEPT ![p] = Retarget(@, None)]
      /\ api' = [api EXCEPT ![p] = RetargetApi(api[p], None)]
      /\ UNCHANGED <<holder, pl, hp>>
  BY DEF KeyStop
<1> QED BY <1>2, <1>3, RetargetStep

\* A mouse button turns the watcher to another known player, or stops him.
LEMMA KeyShiftStep ==
  ASSUME IInv, NEW p \in Players, NEW isNext \in BOOLEAN, KeyShift(p, isNext)
  PROVE  IInv'
<1> DEFINE q == ShiftTo(p, sp[p].target, isNext)
<1>1. api[p] \in ApiRec /\ holder \subseteq Players
  BY DEF IInv, TypeOK
<1>2. q \in (holder \ {p}) \cup {None}
  BY ShiftToLemma
<1>3. /\ IsSpectate(p) /\ sp' = [sp EXCEPT ![p] = Retarget(@, q)]
      /\ api' = [api EXCEPT ![p] = RetargetApi(api[p], q)]
      /\ UNCHANGED <<holder, pl, hp>>
  BY DEF KeyShift
<1> HIDE DEF q
<1>4. /\ RetargetApi(api[p], q) \in ApiRec
      /\ q = None => RetargetApi(api[p], q).health = api[p].health
  BY <1>1, <1>2, RetargetApiLemma
<1> QED BY <1>2, <1>3, <1>4, RetargetStep

\* A watcher turned to another player stays a watcher; anybody else has his
\* state saved and the spectate context made active.
LEMMA CmdSpectateStep ==
  ASSUME IInv, NEW p \in Players, NEW q \in Players, CmdSpectate(p, q)
  PROVE  IInv'
<1>1. TypeOK /\ \A w \in Players : PlayerInv(w)
  BY IInvIsPlayerInv
<1>2. /\ p \in holder /\ q \in holder \ {p} /\ q # None
      /\ UNCHANGED <<holder, hp>>
  BY SpectateAssumption DEF CmdSpectate
<1>3. View(api, q) \in Views
  BY ViewLemma
<1>4. /\ pl[p] \in PlayerRec /\ sp[p] \in SpectateRec /\ api[p] \in ApiRec
  BY <1>1 DEF TypeOK
<1>5. CASE IsSpectate(p)
  <2> DEFINE x == [api[p] EXCEPT !.view = View(api, q),
                     !.health = IF q = sp[p].target THEN @ ELSE "inf"]
  <2>1. x \in ApiRec
    BY <1>3, <1>4 DEF ApiRec, Healths
  <2>2. /\ sp' = [sp EXCEPT ![p] = Retarget(@, q)]
        /\ api' = [api EXCEPT ![p] = x] /\ UNCHANGED pl
    BY <1>1, <1>5 DEF CmdSpectate, TypeOK
  <2> HIDE DEF x
  <2> QED BY <1>2, <1>5, <2>1, <2>2, RetargetStep
<1>6. CASE ~IsSpectate(p)
  <2> DEFINE r == ProcessWait(pl[p])
             t == Activate(r, "spectate")
             s == [target |-> q, ending |-> FALSE, context |-> r.active,
                   health |-> api[p].health, money |-> api[p].money]
             x == RetargetApi(api[p], q)
  <2>1. /\ pl' = [pl EXCEPT ![p] = t] /\ sp' = [sp EXCEPT ![p] = s]
        /\ api' = [api EXCEPT ![p] = x]
    BY <1>6 DEF CmdSpectate
  <2>2. Consistent(pl[p]) /\ pl[p].active \in Contexts
    BY <1>1, <1>2, SpectateAssumption DEF PlayerInv, Consistent, Contexts
  <2>3. /\ r \in PlayerRec /\ Consistent(r) /\ r.waiting = None
        /\ r.state = pl[p].state /\ r.blocked = pl[p].blocked
        /\ r.active = IF pl[p].waiting = None THEN pl[p].active
                      ELSE pl[p].waiting
    BY <1>4, <2>2, ProcessWaitLemma
  <2>4. r.active \in Contexts
    BY <1>4, <2>2, <2>3 DEF PlayerRec
  <2>5. /\ t \in PlayerRec /\ t.active = "spectate" /\ t.gcOn = {"spectate"}
        /\ t.waiting = None /\ t.state = pl[p].state
    BY <2>3, ActivateLemma DEF Contexts
  <2>6. s \in SpectateRec
    BY <1>4, <2>4 DEF SpectateRec, ApiRec
  <2>7. x \in ApiRec
    BY <1>4, RetargetApiLemma
  <2>8. s.health = "inf" => r.active = "spectate"
    BY <1>1, <1>4, <2>3 DEF PlayerInv, PlayerRec, Contexts
  <2> HIDE DEF t, x
  <2>9. TypeOK'
    BY <1>1, <1>2, <2>1, <2>5, <2>6, <2>7 DEF TypeOK
  <2>10. ASSUME NEW w \in Players, w # p PROVE PlayerInv(w)'
    <3>1. pl'[w] = pl[w] /\ sp'[w] = sp[w] /\ hp'[w] = hp[w] /\ api'[w] = api[w]
      BY <1>1, <1>2, <2>1, <2>10 DEF TypeOK
    <3> QED BY <1>1, <1>2, <2>10, <3>1, FrameLemma
  <2>11. PlayerInv(p)'
    <3>1. /\ pl'[p] = t /\ sp'[p] = s /\ hp'[p] = hp[p]
      BY <1>1, <1>2, <2>1 DEF TypeOK
    <3> HIDE DEF r
    <3>2. /\ sp'[p].target = q /\ sp'[p].ending = FALSE
          /\ sp'[p].context = r.active /\ sp'[p].health = s.health
      BY <3>1
    <3> HIDE DEF s
    <3> QED BY <1>1, <1>2, <2>4, <2>5, <2>8, <3>1, <3>2, SpectateAssumption
            DEF PlayerInv, Contexts
  <2> QED BY <2>9, <2>10, <2>11, FromPlayerInv
<1> QED BY <1>5, <1>6

\* The on_spawn handlers keep the invariant: p gets the health of his snapshot,
\* or else spawns with a mortal health or the one he has.
LEMMA SpawnItemsStep ==
  ASSUME IInv, NEW p \in Players, p \in holder, SpawnItems(p),
         UNCHANGED holder, NEW h, h \in {"normal", api[p].health},
         \A w \in Players : api'[w] \in ApiRec,
         api' = [w \in Players |-> api'[w]],
         api'[p].health = IF Restores(p) THEN sp[p].health ELSE h,
         \A w \in Players \ {p} : api'[w].health = api[w].health
  PROVE  IInv'
<1> DEFINE r == [pl[p] EXCEPT !.state = "in_game"]
<1>1. TypeOK /\ \A w \in Players : PlayerInv(w)
  BY IInvIsPlayerInv
<1>2. /\ pl[p] \in PlayerRec /\ sp[p] \in SpectateRec /\ api[p] \in ApiRec
      /\ hp[p] \in HealthRec
  BY <1>1 DEF TypeOK
<1>3. /\ r \in PlayerRec /\ Consistent(r) /\ r.state = "in_game"
      /\ r.active = pl[p].active /\ r.waiting = pl[p].waiting
      /\ r.gcOn = pl[p].gcOn
  BY <1>1, <1>2, SpectateAssumption
     DEF PlayerInv, PlayerRec, PlayerStates, Consistent, Contexts
<1>4. /\ pl' = [pl EXCEPT ![p] = SpawnedPlayer(p)]
      /\ sp' = [sp EXCEPT ![p] = SpawnedSpectate(p)]
      /\ hp' = [hp EXCEPT ![p].spawned = TRUE]
  BY DEF SpawnItems
<1>5. ASSUME NEW w \in Players, w # p PROVE PlayerInv(w)'
  <2>1. pl'[w] = pl[w] /\ sp'[w] = sp[w] /\ hp'[w] = hp[w]
    BY <1>1, <1>4, <1>5 DEF TypeOK
  <2> QED BY <1>1, <1>5, <2>1, FrameLemma
<1>6. CASE Restores(p)
  <2>1. /\ pl[p].active = "spectate" /\ pl[p].waiting = None
        /\ sp[p].context \in Contexts /\ sp[p].target = None
        /\ sp[p].health = "inf" => sp[p].context = "spectate"
    BY <1>1, <1>2, <1>6, SpectateAssumption
       DEF PlayerInv, Restores, IsSpectate, SpectateRec
  <2>2. SpawnedPlayer(p) = [r EXCEPT !.waiting = sp[p].context]
    BY <1>3, <1>6, <2>1 DEF SpawnedPlayer, ActivateAsync, ProcessWait
  <2>3. /\ SpawnedPlayer(p) \in PlayerRec
        /\ SpawnedPlayer(p).active = "spectate"
        /\ SpawnedPlayer(p).gcOn = pl[p].gcOn
        /\ SpawnedPlayer(p).waiting = sp[p].context
        /\ SpawnedPlayer(p).state = "in_game"
    BY <1>3, <2>1, <2>2 DEF PlayerRec
  <2>4. SpawnedSpectate(p) = FreshSpectate
    BY <1>6 DEF SpawnedSpectate
  <2>5. TypeOK'
    BY <1>1, <1>4, <2>3, <2>4, FreshLemma DEF TypeOK, HealthRec
  <2>6. /\ pl'[p] = SpawnedPlayer(p) /\ sp'[p] = FreshSpectate
        /\ hp'[p].spawned = TRUE /\ api'[p].health = sp[p].health
    BY <1>1, <1>2, <1>4, <1>6, <2>4 DEF TypeOK, HealthRec
  <2>7. PlayerInv(p)'
    BY <1>1, <2>1, <2>3, <2>6, SpectateAssumption
       DEF PlayerInv, FreshSpectate, Contexts
  <2> QED BY <1>5, <2>5, <2>7, FromPlayerInv
<1>7. CASE ~Restores(p)
  <2>1. SpawnedPlayer(p) = r /\ SpawnedSpectate(p) = sp[p]
    BY <1>7 DEF SpawnedPlayer, SpawnedSpectate
  <2>2. TypeOK'
    BY <1>1, <1>2, <1>3, <1>4, <2>1 DEF TypeOK, HealthRec
  <2>3. /\ pl'[p] = r /\ sp'[p] = sp[p]
        /\ hp'[p].spawned = TRUE /\ api'[p].health = h
    BY <1>1, <1>2, <1>4, <1>7, <2>1 DEF TypeOK, HealthRec
  <2> HIDE DEF r
  <2>4. PlayerInv(p)'
    BY <1>1, <1>3, <2>3 DEF PlayerInv
  <2> QED BY <1>5, <2>2, <2>4, FromPlayerInv
<1> QED BY <1>6, <1>7

\* The record SpawnItems leaves in the API is of the right type, and gives p
\* the health of his snapshot or the one his client spawned with.
LEMMA SpawnedApiLemma ==
  ASSUME IInv, NEW p \in Players, NEW h \in Healths
  PROVE  /\ SpawnedApi(p, h) \in ApiRec
         /\ SpawnedApi(p, h).health = IF Restores(p) THEN sp[p].health ELSE h
         /\ SpawnedApi(p, h).state = api[p].state
<1>1. /\ api[p] \in ApiRec /\ sp[p] \in SpectateRec
  BY DEF IInv, TypeOK
<1>2. View(api, sp[p].target) \in Views
  BY <1>1, ViewLemma DEF SpectateRec
<1>3. /\ sp[p].health \in Healths /\ sp[p].money \in Moneys
      /\ "spawn" \in Moneys
  BY <1>1 DEF SpectateRec, Moneys
<1> QED
  BY <1>1, <1>2, <1>3 DEF SpawnedApi, ApiRec

\* A spawn, restoring or not, keeps the invariant.
LEMMA PlayerSpawnStep ==
  ASSUME IInv, NEW p \in Players, PlayerSpawn(p)
  PROVE  IInv'
<1>1. "normal" \in Healths
  BY DEF Healths
<1>2. /\ p \in holder /\ SpawnItems(p) /\ UNCHANGED holder
      /\ api' = [api EXCEPT ![p] = SpawnedApi(p, "normal")]
  BY DEF PlayerSpawn
<1>3. /\ SpawnedApi(p, "normal") \in ApiRec
      /\ SpawnedApi(p, "normal").health =
           IF Restores(p) THEN sp[p].health ELSE "normal"
  BY <1>1, SpawnedApiLemma
<1>4. api \in [Players -> ApiRec]
  BY DEF IInv, TypeOK
<1>5. /\ \A w \in Players : api'[w] \in ApiRec
      /\ api' = [w \in Players |-> api'[w]]
      /\ \A w \in Players \ {p} : api'[w].health = api[w].health
      /\ api'[p] = SpawnedApi(p, "normal")
  BY <1>2, <1>3, <1>4
<1> QED BY <1>2, <1>3, <1>5, SpawnItemsStep

\* Refreshing the watchers moves only what they see.
LEMMA RefreshedLemma ==
  ASSUME IInv, NEW a \in [Players -> ApiRec], NEW p \in Players
  PROVE  /\ Refreshed(a, p) \in [Players -> ApiRec]
         /\ \A w \in Players : Refreshed(a, p)[w].health = a[w].health
<1>1. View(a, p) \in Views
  BY ViewLemma
<1> QED BY <1>1 DEF Refreshed, ApiRec

\* Steps that move only the API records of some players: endless health may
\* only come to watchers.
LEMMA ApiStep ==
  ASSUME IInv, UNCHANGED <<holder, pl, sp>>, hp' \in [Players -> HealthRec],
         \A w \in Players : hp'[w].spawned <=> hp[w].spawned,
         api' \in [Players -> ApiRec],
         \A w \in Players :
           \/ api'[w].health # "inf" \/ api'[w].health = api[w].health
           \/ IsSpectate(w)
  PROVE  IInv'
<1>1. TypeOK /\ \A w \in Players : PlayerInv(w)
  BY IInvIsPlayerInv
<1>2. TypeOK'
  BY <1>1 DEF TypeOK
<1>3. \A w \in Players : PlayerInv(w)'
  BY <1>1, FrameLemma
<1> QED BY <1>2, <1>3, FromPlayerInv

\* A state change, with or without the fallback for a missed spawn.
LEMMA StateChangeStep ==
  ASSUME IInv, NEW p \in Players, NEW v \in ApiStates, StateChange(p, v)
  PROVE  IInv'
<1> DEFINE missed == v = "onfoot" /\ pl[p].state # "in_game"
           x == IF missed THEN SpawnedApi(p, api[p].health) ELSE api[p]
           y == [x EXCEPT !.state = v]
           a == [api EXCEPT ![p] = y]
<1>1. api \in [Players -> ApiRec] /\ hp \in [Players -> HealthRec]
  BY DEF IInv, TypeOK
<1>2. api[p] \in ApiRec /\ api[p].health \in Healths
  BY <1>1 DEF ApiRec
<1>3. SpawnedApi(p, api[p].health) \in ApiRec
  BY <1>2, SpawnedApiLemma
<1>4. /\ y \in ApiRec /\ y.health = x.health
  BY <1>2, <1>3 DEF ApiRec
<1>5. /\ p \in holder /\ UNCHANGED holder
      /\ IF missed THEN SpawnItems(p) ELSE UNCHANGED <<pl, sp, hp>>
      /\ api' = Refreshed(a, p)
  BY DEF StateChange
<1>6. /\ a \in [Players -> ApiRec] /\ a[p] = y
      /\ \A w \in Players \ {p} : a[w] = api[w]
  BY <1>1, <1>4
<1> HIDE DEF a, y
<1>7. /\ api' \in [Players -> ApiRec]
      /\ \A w \in Players : api'[w].health = a[w].health
  BY <1>5, <1>6, RefreshedLemma
<1>8. /\ api'[p].health = x.health
      /\ \A w \in Players \ {p} : api'[w].health = api[w].health
  BY <1>4, <1>6, <1>7
<1>9. CASE missed
  <2>1. api'[p].health = IF Restores(p) THEN sp[p].health ELSE api[p].health
    BY <1>2, <1>8, <1>9, SpawnedApiLemma
  <2>2. /\ \A w \in Players : api'[w] \in ApiRec
        /\ api' = [w \in Players |-> api'[w]]
    BY <1>7
  <2>3. SpawnItems(p)
    BY <1>5, <1>9
  <2> QED BY <1>5, <1>8, <2>1, <2>2, <2>3, SpawnItemsStep
<1>10. CASE ~missed
  <2>1. \A w \in Players : api'[w].health = api[w].health
    BY <1>8, <1>10
  <2>2. UNCHANGED <<holder, pl, sp, hp>>
    BY <1>5, <1>10
  <2> QED BY <1>1, <1>7, <2>1, <2>2, ApiStep
<1> QED BY <1>9, <1>10

\* The state change of a blocked player touches no object of the server.
LEMMA StateChangeBlockedStep ==
  ASSUME IInv, NEW p \in Players, NEW v \in ApiStates, StateChangeBlocked(p, v)
  PROVE  IInv'
<1>1. api \in [Players -> ApiRec] /\ hp \in [Players -> HealthRec]
  BY DEF IInv, TypeOK
<1>2. /\ UNCHANGED <<holder, pl, sp, hp>>
      /\ api' = [api EXCEPT ![p].state = v]
  BY DEF StateChangeBlocked
<1>3. /\ api' \in [Players -> ApiRec]
      /\ \A w \in Players : api'[w].health = api[w].health
  BY <1>1, <1>2 DEF ApiRec
<1> QED BY <1>1, <1>2, <1>3, ApiStep

\* A death clears is_spawned and the state together, or neither.
LEMMA PlayerDeathStep ==
  ASSUME IInv, NEW p \in Players, NEW k \in Players \cup {None},
         PlayerDeath(p, k)
  PROVE  IInv'
<1>1. TypeOK /\ \A w \in Players : PlayerInv(w)
  BY IInvIsPlayerInv
<1>2. p \in holder /\ UNCHANGED <<holder, sp>>
  BY DEF PlayerDeath
<1>3. /\ api' \in [Players -> ApiRec]
      /\ \A w \in Players : api'[w].health = api[w].health
  BY <1>1 DEF PlayerDeath, TypeOK, ApiRec, Moneys
<1>4. CASE ~DeathCounts(p)
  <2>1. UNCHANGED <<pl, hp>>
    BY <1>4 DEF PlayerDeath
  <2> QED BY <1>1, <1>2, <1>3, <2>1, ApiStep DEF TypeOK
<1>5. CASE DeathCounts(p)
  <2>1. /\ hp' = [hp EXCEPT ![p] = FreshHealth]
        /\ pl' = [pl EXCEPT ![p].state = "not_spawn"]
    BY <1>5 DEF PlayerDeath
  <2>2. /\ pl[p] \in PlayerRec /\ pl'[p] \in PlayerRec
        /\ pl'[p].active = pl[p].active /\ pl'[p].waiting = pl[p].waiting
        /\ pl'[p].gcOn = pl[p].gcOn /\ pl'[p].state = "not_spawn"
        /\ hp'[p] = FreshHealth /\ sp'[p] = sp[p]
    BY <1>1, <1>2, <2>1 DEF TypeOK, PlayerRec, PlayerStates
  <2>3. TypeOK'
    BY <1>1, <1>2, <1>3, <2>1, <2>2, FreshLemma DEF TypeOK
  <2>4. ASSUME NEW w \in Players, w # p PROVE PlayerInv(w)'
    <3>1. pl'[w] = pl[w] /\ sp'[w] = sp[w] /\ hp'[w] = hp[w]
      BY <1>1, <1>2, <2>1, <2>4 DEF TypeOK
    <3> QED BY <1>1, <1>2, <1>3, <3>1, FrameLemma
  <2>5. PlayerInv(p)'
    BY <1>1, <1>2, <1>3, <2>2 DEF PlayerInv, FreshHealth
  <2> QED BY <2>3, <2>4, <2>5, FromPlayerInv
<1> QED BY <1>4, <1>5

\* /suicide only marks the death to come and empties the health.
LEMMA SuicideStep ==
  ASSUME IInv, NEW p \in Players, Suicide(p)
  PROVE  IInv'
<1>1. api \in [Players -> ApiRec] /\ hp \in [Players -> HealthRec]
  BY DEF IInv, TypeOK
<1>2. /\ UNCHANGED <<holder, pl, sp>>
      /\ hp' = [hp EXCEPT ![p].byScript = TRUE]
      /\ api' = [api EXCEPT ![p].health = "zero"]
  BY DEF Suicide
<1>3. /\ hp' \in [Players -> HealthRec]
      /\ \A w \in Players : hp'[w].spawned <=> hp[w].spawned
  BY <1>1, <1>2 DEF HealthRec
<1>4. api' \in [Players -> ApiRec]
  BY <1>1, <1>2 DEF ApiRec, Healths
<1>5. \A w \in Players : api'[w].health \in {"zero", api[w].health}
  BY <1>1, <1>2 DEF ApiRec
<1> QED BY <1>2, <1>3, <1>4, <1>5, ApiStep

\* /check gives endless health to watchers only.
LEMMA CheckStep ==
  ASSUME IInv, NEW q \in Players, NEW explode \in BOOLEAN, Check(q, explode)
  PROVE  IInv'
<1>1. api \in [Players -> ApiRec] /\ hp \in [Players -> HealthRec]
  BY DEF IInv, TypeOK
<1>2. UNCHANGED <<holder, pl, sp, hp>>
  BY DEF Check
<1>3. PICK h \in {"normal", "zero", api[q].health} :
        api' = [w \in Players |->
                  CASE w = q -> [api[w] EXCEPT !.health = h]
                    [] explode /\ IsSpectate(w) /\ w # q ->
                                    [api[w] EXCEPT !.health = "inf"]
                    [] OTHER -> api[w]]
  <2> DEFINE H == IF api[q].state = "vehicle" THEN {api[q].health}
                  ELSE IF explode THEN {"normal"}
                  ELSE IF api[q].health = "normal" THEN {"normal", "zero"}
                  ELSE {api[q].health}
  <2>1. H \subseteq {"normal", "zero", api[q].health}
    OBVIOUS
  <2>2. \E h \in H :
          api' = [w \in Players |->
                    CASE w = q -> [api[w] EXCEPT !.health = h]
                      [] explode /\ IsSpectate(w) /\ w # q ->
                                      [api[w] EXCEPT !.health = "inf"]
                      [] OTHER -> api[w]]
    BY DEF Check
  <2> HIDE DEF H
  <2> QED BY <2>1, <2>2
<1>4. h \in Healths
  BY <1>1 DEF ApiRec, Healths
<1>5. api' \in [Players -> ApiRec]
  BY <1>1, <1>3, <1>4 DEF ApiRec, Healths
<1>6. \A w \in Players :
        \/ api'[w].health # "inf" \/ api'[w].health = api[w].health
        \/ IsSpectate(w)
  BY <1>1, <1>3 DEF ApiRec
<1> QED BY <1>1, <1>2, <1>5, <1>6, ApiStep

\* Sending money moves money only.
LEMMA MoneySendStep ==
  ASSUME IInv, NEW p \in Players, NEW q \in Players, MoneySend(p, q)
  PROVE  IInv'
<1>1. api \in [Players -> ApiRec] /\ hp \in [Players -> HealthRec]
  BY DEF IInv, TypeOK
<1>2. UNCHANGED <<holder, pl, sp, hp>>
  BY DEF MoneySend
<1>3. PICK left \in {"zero", "earned"} :
        api' = [api EXCEPT ![p].money = left, ![q].money = "earned"]
  BY DEF MoneySend
<1>4. /\ api' \in [Players -> ApiRec]
      /\ \A w \in Players : api'[w].health = api[w].health
  BY <1>1, <1>3 DEF ApiRec, Moneys
<1> QED BY <1>1, <1>2, <1>4, ApiStep

\* Settling the waiting context: a player who waits for one has no snapshot
\* left, and one who has endless health waits for the spectate context.
LEMMA Timer250Step ==
  ASSUME IInv, Timer250
  PROVE  IInv'
<1>1. TypeOK /\ \A w \in Players : PlayerInv(w)
  BY IInvIsPlayerInv
<1>2. /\ pl' = [p \in Players |-> ProcessWait(pl[p])]
      /\ sp' = [p \in Players |-> GcFini(sp[p], pl[p], ProcessWait(pl[p]))]
      /\ UNCHANGED <<holder, hp, api>>
  BY DEF Timer250
<1>3. ASSUME NEW w \in Players
      PROVE  /\ pl'[w] \in PlayerRec /\ sp'[w] \in SpectateRec
             /\ PlayerInv(w)'
  <2>1. /\ pl[w] \in PlayerRec /\ sp[w] \in SpectateRec /\ PlayerInv(w)
        /\ hp'[w] = hp[w] /\ api'[w] = api[w]
    BY <1>1, <1>2 DEF TypeOK
  <2>2. Consistent(pl[w])
    BY <2>1, SpectateAssumption
       DEF PlayerInv, Consistent, FreshPlayer, Contexts
  <2> DEFINE r == ProcessWait(pl[w])
             s == GcFini(sp[w], pl[w], r)
  <2>3. pl'[w] = r /\ sp'[w] = s
    BY <1>2
  <2>4. /\ r \in PlayerRec /\ Consistent(r) /\ r.waiting = None
        /\ r.state = pl[w].state
        /\ r.active = IF pl[w].waiting = None THEN pl[w].active
                      ELSE pl[w].waiting
    BY <2>1, <2>2, ProcessWaitLemma
  <2>5. CASE pl[w].waiting = None
    <3>1. r = pl[w]
      BY <2>5 DEF ProcessWait
    <3>2. s = sp[w]
      BY <3>1 DEF GcFini
    <3> QED BY <1>2, <2>1, <2>3, <3>1, <3>2, FrameLemma
  <2>6. CASE pl[w].waiting # None
    <3>1. /\ w \in holder /\ pl[w].active = "spectate"
          /\ sp[w].target = None /\ sp[w].context = None
          /\ sp[w].ending = FALSE /\ sp[w].health # "inf"
      BY <2>1, <2>6, SpectateAssumption DEF PlayerInv, SpectateRec
    <3>2. /\ s \in SpectateRec /\ s.target = None /\ s.context = None
          /\ s.ending = FALSE /\ s.health = sp[w].health
      BY <2>1, <3>1 DEF GcFini, SpectateRec
    <3>3. r.active \in Contexts /\ r.gcOn = {r.active}
      BY <2>1, <2>4, <2>6, SpectateAssumption
         DEF PlayerRec, Consistent, Contexts
    <3>4. api[w].health = "inf" => r.active = "spectate" /\ r.waiting # "ffa"
      BY <2>1, <2>4, <2>6, SpectateAssumption DEF PlayerInv, PlayerRec, Contexts
    <3>5. hp[w].spawned <=> r.state = "in_game"
      BY <2>1, <2>4 DEF PlayerInv
    <3> HIDE DEF r, s
    <3> QED BY <1>2, <2>1, <2>3, <2>4, <3>1, <3>2, <3>3, <3>4, <3>5
            DEF PlayerInv
  <2> QED BY <2>5, <2>6, <2>1, <2>3, <2>4
<1>4. TypeOK'
  BY <1>1, <1>2, <1>3 DEF TypeOK
<1> QED BY <1>3, <1>4, FromPlayerInv

\* The watchers made immune by the timer are under the spectate context.
LEMMA Timer5000Step ==
  ASSUME IInv, Timer5000
  PROVE  IInv'
<1>1. /\ api \in [Players -> ApiRec] /\ hp \in [Players -> HealthRec]
      /\ sp \in [Players -> SpectateRec]
  BY DEF IInv, TypeOK
<1>2. \A p \in Players : View(api, sp[p].target) \in Views
  BY <1>1, ViewLemma DEF SpectateRec
<1>3. UNCHANGED <<holder, pl, sp, hp>>
  BY DEF Timer5000
<1>4. PICK R \in SUBSET {p \in holder : IsSpectate(p)} :
        api' = [p \in Players |->
                  IF ~IsSpectate(p) THEN api[p]
                  ELSE [api[p] EXCEPT !.health = "inf",
                          !.view = IF p \in R THEN View(api, sp[p].target)
                                   ELSE @]]
  BY DEF Timer5000
<1>5. /\ api' \in [Players -> ApiRec]
      /\ \A w \in Players : api'[w].health = api[w].health \/ IsSpectate(w)
  BY <1>1, <1>2, <1>4 DEF ApiRec, Healths
<1> QED BY <1>1, <1>3, <1>5, ApiStep

\* An interior change only refreshes the watchers.
LEMMA InteriorChangeStep ==
  ASSUME IInv, NEW p \in Players, InteriorChange(p)
  PROVE  IInv'
<1>1. api \in [Players -> ApiRec] /\ hp \in [Players -> HealthRec]
  BY DEF IInv, TypeOK
<1>2. /\ UNCHANGED <<holder, pl, sp, hp>> /\ api' = Refreshed(api, p)
  BY DEF InteriorChange
<1> QED BY <1>1, <1>2, RefreshedLemma, ApiStep

\* A stream-out only refreshes the watcher.
LEMMA StreamOutStep ==
  ASSUME IInv, NEW p \in Players, StreamOut(p)
  PROVE  IInv'
<1>1. /\ api \in [Players -> ApiRec] /\ hp \in [Players -> HealthRec]
      /\ sp \in [Players -> SpectateRec]
  BY DEF IInv, TypeOK
<1>2. View(api, sp[p].target) \in Views
  BY <1>1, ViewLemma DEF SpectateRec
<1>3. /\ UNCHANGED <<holder, pl, sp, hp>>
      /\ api' = [api EXCEPT ![p].view = View(api, sp[p].target)]
  BY DEF StreamOut
<1>4. /\ api' \in [Players -> ApiRec]
      /\ \A w \in Players : api'[w].health = api[w].health
  BY <1>1, <1>2, <1>3 DEF ApiRec
<1> QED BY <1>1, <1>3, <1>4, ApiStep

\* Blocking a player leaves his contexts alone.
LEMMA BlockStep ==
  ASSUME IInv, NEW p \in Players, Block(p)
  PROVE  IInv'
<1>1. TypeOK /\ \A w \in Players : PlayerInv(w)
  BY IInvIsPlayerInv
<1>2. /\ p \in holder /\ UNCHANGED <<holder, sp, hp, api>>
      /\ pl' = [pl EXCEPT ![p].blocked = TRUE]
  BY DEF Block
<1>3. TypeOK'
  BY <1>1, <1>2 DEF TypeOK, PlayerRec
<1>4. ASSUME NEW w \in Players, w # p PROVE PlayerInv(w)'
  <2>1. pl'[w] = pl[w]
    BY <1>1, <1>2, <1>4 DEF TypeOK
  <2> QED BY <1>1, <1>2, <2>1, FrameLemma
<1>5. PlayerInv(p)'
  <2>1. /\ pl'[p].active = pl[p].active /\ pl'[p].waiting = pl[p].waiting
        /\ pl'[p].gcOn = pl[p].gcOn /\ pl'[p].state = pl[p].state
    BY <1>1, <1>2 DEF TypeOK, PlayerRec
  <2> QED BY <1>1, <1>2, <2>1 DEF PlayerInv
<1> QED BY <1>3, <1>4, <1>5, FromPlayerInv

\* Every step of the server, or none, preserves the inductive invariant.
LEMMA NextStep == IInv /\ [Next]_vars => IInv'
<1> SUFFICES ASSUME IInv, [Next]_vars PROVE IInv'
  OBVIOUS
<1>1. CASE UNCHANGED vars
  BY <1>1
     DEF vars, IInv, TypeOK, OneActiveContext, WatchedIsConnected,
         EndingUntilRestored, PendingSwitchAfterRestore, LifeFlagsAgree,
         EndlessHealthOnlyInSpectate, SnapshotUnderSpectate, IsSpectate
<1>2. CASE GamemodeExit
  BY <1>2, GamemodeExitStep
<1>3. CASE Timer250
  BY <1>3, Timer250Step
<1>4. CASE Timer5000
  BY <1>4, Timer5000Step
<1>5. ASSUME NEW p \in Players, Connect(p) \/ Disconnect(p) PROVE IInv'
  BY <1>5, ConnectStep, DisconnectStep
<1>6. ASSUME NEW p \in Players,
             KeyStop(p) \/ \E isNext \in BOOLEAN : KeyShift(p, isNext)
      PROVE  IInv'
  BY <1>6, KeyStopStep, KeyShiftStep
<1>7. ASSUME NEW p \in Players, NEW q \in Players,
             CmdSpectate(p, q) \/ MoneySend(p, q)
      PROVE  IInv'
  BY <1>7, CmdSpectateStep, MoneySendStep
<1>8. ASSUME NEW p \in Players, PlayerSpawn(p) PROVE IInv'
  BY <1>8, PlayerSpawnStep
<1>9. ASSUME NEW p \in Players, NEW v \in ApiStates,
             StateChange(p, v) \/ StateChangeBlocked(p, v)
      PROVE  IInv'
  BY <1>9, StateChangeStep, StateChangeBlockedStep
<1>10. ASSUME NEW p \in Players, NEW k \in Players \cup {None},
              PlayerDeath(p, k)
       PROVE  IInv'
  BY <1>10, PlayerDeathStep
<1>11. ASSUME NEW p \in Players,
              Suicide(p) \/ \E explode \in BOOLEAN : Check(p, explode)
       PROVE  IInv'
  BY <1>11, SuicideStep, CheckStep
<1>12. ASSUME NEW p \in Players,
              InteriorChange(p) \/ StreamOut(p) \/ Block(p)
       PROVE  IInv'
  BY <1>12, InteriorChangeStep, StreamOutStep, BlockStep
<1> QED
  BY <1>1, <1>2, <1>3, <1>4, <1>5, <1>6, <1>7, <1>8, <1>9, <1>10, <1>11, <1>12
     DEF Next

-----------------------------------------------------------------------------
(* The theorems.                                                           *)

\* Every reachable state satisfies the inductive invariant.
THEOREM InductiveInvariant == Spec => []IInv
BY InitIInv, NextStep, PTL DEF Spec

\* No handler leaves an object with a member outside its type.
THEOREM TypeCorrect == Spec => []TypeOK
<1>1. IInv => TypeOK
  BY DEF IInv
<1> QED BY <1>1, InductiveInvariant, PTL

\* However the switches of /spectate, the respawns and the 250 ms timer
\* interleave, a known player has one active context.
THEOREM OneContext == Spec => []OneActiveContext
<1>1. IInv => OneActiveContext
  BY DEF IInv
<1> QED BY <1>1, InductiveInvariant, PTL

\* For any number of players: in whatever order they leave and shift, a watcher
\* never keeps a pointer to a player who is gone, nor to himself.
THEOREM NoDanglingTarget == Spec => []WatchedIsConnected
<1>1. IInv => WatchedIsConnected
  BY DEF IInv
<1> QED BY <1>1, InductiveInvariant, PTL

\* The exemption from the anti-cheat checks lasts exactly until the respawn that
\* restores the player.
THEOREM ExemptionEnds == Spec => []EndingUntilRestored
<1>1. IInv => EndingUntilRestored
  BY DEF IInv
<1> QED BY <1>1, InductiveInvariant, PTL

\* The delayed switch never overtakes the snapshot.
THEOREM SwitchAfterRestore == Spec => []PendingSwitchAfterRestore
<1>1. IInv => PendingSwitchAfterRestore
  BY DEF IInv
<1> QED BY <1>1, InductiveInvariant, PTL

\* The two records of whether a player is alive agree.
THEOREM LifeAgreement == Spec => []LifeFlagsAgree
<1>1. IInv => LifeFlagsAgree
  BY DEF IInv
<1> QED BY <1>1, InductiveInvariant, PTL

\* Endless health never enters the game.
THEOREM NoEndlessFighter == Spec => []EndlessHealthOnlyInSpectate
<1>1. IInv => EndlessHealthOnlyInSpectate
  BY DEF IInv
<1> QED BY <1>1, InductiveInvariant, PTL

\* What a spawn that runs state_load gives the player is his snapshot: the
\* free-for-all item, before or after the spectate item, stays out of it.
LEMMA RestoringSpawn ==
  ASSUME IInv, NEW p \in Players, NEW h, Restores(p)
  PROVE  /\ SpawnedApi(p, h).money = sp[p].money
         /\ SpawnedApi(p, h).health = sp[p].health
<1>1. /\ pl[p] \in PlayerRec /\ api[p] \in ApiRec
      /\ sp[p].context # None /\ sp[p].target = None
  BY DEF IInv, TypeOK, Restores, IsSpectate
<1>2. /\ pl[p].active = "spectate" /\ pl[p].waiting = None
      /\ pl[p].gcOn = {"spectate"} \/ pl[p] = FreshPlayer
  BY <1>1 DEF IInv, SnapshotUnderSpectate, PendingSwitchAfterRestore,
              OneActiveContext
<1>3. pl[p].gcOn = {"spectate"}
  BY <1>2, SpectateAssumption DEF FreshPlayer
<1>4. SpawnedPlayer(p).gcOn = {"spectate"}
  BY <1>1, <1>2, <1>3
     DEF SpawnedPlayer, ActivateAsync, ProcessWait, PlayerRec
<1>5. ~FfaSpawns(p)
  BY <1>3, <1>4 DEF FfaSpawns
<1> QED BY <1>1, <1>5 DEF SpawnedApi, ApiRec

\* Only a spawn takes a connected player's snapshot away, and it takes it by
\* restoring him.
LEMMA RestoredBySpawn ==
  ASSUME IInv, Next, NEW p \in Players, Restored(p)
  PROVE  api'[p].money = sp[p].money /\ api'[p].health = sp[p].health
<1>1. /\ sp \in [Players -> SpectateRec] /\ api \in [Players -> ApiRec]
      /\ p \in holder' /\ sp[p].context # None /\ sp'[p].context = None
  BY DEF IInv, TypeOK, Restored
<1>2. /\ pl[p].active = "spectate" /\ pl[p].waiting = None /\ p \in holder
  BY <1>1, SpectateAssumption
     DEF IInv, SnapshotUnderSpectate, PendingSwitchAfterRestore,
         OneActiveContext, FreshPlayer
<1>3. ASSUME sp' = sp PROVE FALSE
  BY <1>1, <1>3
<1>4. ASSUME NEW c \in Players, c = p, SpawnItems(c), NEW h,
             api'[c].money = SpawnedApi(c, h).money,
             api'[c].health = SpawnedApi(c, h).health
      PROVE  api'[p].money = sp[p].money /\ api'[p].health = sp[p].health
  <2>1. sp'[p] = SpawnedSpectate(p)
    BY <1>1, <1>4 DEF SpawnItems
  <2>2. Restores(p)
    BY <1>1, <2>1 DEF SpawnedSpectate
  <2> QED BY <1>4, <2>2, RestoringSpawn
<1>5. ASSUME NEW c \in Players, c # p, SpawnItems(c) PROVE FALSE
  BY <1>1, <1>5 DEF SpawnItems
<1>6. ASSUME NEW c \in Players, PlayerSpawn(c)
      PROVE  api'[p].money = sp[p].money /\ api'[p].health = sp[p].health
  <2>1. /\ SpawnItems(c) /\ api' = [api EXCEPT ![c] = SpawnedApi(c, "normal")]
    BY <1>6 DEF PlayerSpawn
  <2>2. api'[c] = SpawnedApi(c, "normal")
    BY <1>1, <2>1
  <2> QED BY <1>4, <1>5, <2>1, <2>2
<1>7. ASSUME NEW c \in Players, NEW v \in ApiStates, StateChange(c, v)
      PROVE  api'[p].money = sp[p].money /\ api'[p].health = sp[p].health
  <2> DEFINE missed == v = "onfoot" /\ pl[c].state # "in_game"
  <2>1. missed
    BY <1>3, <1>7 DEF StateChange
  <2> DEFINE x == SpawnedApi(c, api[c].health)
             y == [x EXCEPT !.state = v]
  <2>2. /\ SpawnItems(c) /\ api' = Refreshed([api EXCEPT ![c] = y], c)
    BY <1>7, <2>1 DEF StateChange
  <2>3. c = p
    BY <1>5, <2>2
  <2>4. x \in ApiRec
    BY <1>1, SpawnedApiLemma DEF ApiRec
  <2>5. y.money = x.money /\ y.health = x.health
    BY <2>4 DEF ApiRec
  <2> DEFINE a == [api EXCEPT ![c] = y]
  <2>6. a[c] = y /\ y \in ApiRec
    BY <1>1, <1>7, <2>4 DEF ApiRec
  <2>7. api'[c].money = y.money /\ api'[c].health = y.health
    BY <2>2, <2>6 DEF Refreshed, ApiRec
  <2> QED BY <1>4, <2>2, <2>3, <2>5, <2>7
<1>8. ASSUME NEW c \in Players, Disconnect(c) PROVE FALSE
  <2>1. c # p
    BY <1>1, <1>8 DEF Disconnect
  <2>2. sp'[p] = sp[p] \/ \E q : sp'[p] = Retarget(sp[p], q)
    BY <1>8, <2>1 DEF Disconnect
  <2> QED BY <1>1, <2>2 DEF Retarget, SpectateRec
<1>9. GamemodeExit => FALSE
  BY <1>1 DEF GamemodeExit
<1>10. ASSUME NEW c \in Players,
              KeyStop(c) \/ \E isNext \in BOOLEAN : KeyShift(c, isNext)
       PROVE  FALSE
  <2>1. \E q : sp' = [sp EXCEPT ![c] = Retarget(@, q)]
    BY <1>10 DEF KeyStop, KeyShift
  <2> QED BY <1>1, <2>1 DEF Retarget, SpectateRec
<1>11. ASSUME NEW c \in Players, NEW q \in Players, CmdSpectate(c, q)
       PROVE  FALSE
  <2>1. CASE IsSpectate(c)
    <3>1. sp' = [sp EXCEPT ![c] = Retarget(@, q)]
      BY <1>11, <2>1 DEF CmdSpectate
    <3> QED BY <1>1, <3>1 DEF Retarget, SpectateRec
  <2>2. CASE ~IsSpectate(c) /\ c # p
    BY <1>1, <1>11, <2>2 DEF CmdSpectate
  <2>3. CASE ~IsSpectate(c) /\ c = p
    <3>1. ProcessWait(pl[p]) = pl[p]
      BY <1>2 DEF ProcessWait
    <3>2. sp'[p].context = pl[p].active
      BY <1>1, <1>11, <2>3, <3>1 DEF CmdSpectate
    <3> QED BY <1>1, <1>2, <3>2, SpectateAssumption
  <2> QED BY <2>1, <2>2, <2>3
<1>12. Timer250 => FALSE
  BY <1>1, <1>2 DEF Timer250, ProcessWait, GcFini
<1>13. ASSUME NEW c \in Players,
              \/ Connect(c) \/ Suicide(c) \/ InteriorChange(c) \/ StreamOut(c)
              \/ Block(c) \/ \E q \in Players : MoneySend(c, q)
              \/ \E v \in ApiStates : StateChangeBlocked(c, v)
              \/ \E k \in Players \cup {None} : PlayerDeath(c, k)
              \/ \E explode \in BOOLEAN : Check(c, explode)
       PROVE  FALSE
  BY <1>3, <1>13
     DEF Connect, Suicide, InteriorChange, StreamOut, Block, MoneySend,
         StateChangeBlocked, PlayerDeath, Check
<1>14. Timer5000 => FALSE
  BY <1>3 DEF Timer5000
<1> QED
  BY <1>6, <1>7, <1>8, <1>9, <1>10, <1>11, <1>12, <1>13, <1>14 DEF Next

\* A respawn out of spectating hands out the player's own money and health and
\* never the spawn money as well, whichever item comes first in the container.
THEOREM OneContextAnswers == Spec => OneContextPerSpawn
<1>1. IInv /\ [Next]_vars =>
        [\A p \in Players : Restored(p) =>
           /\ api'[p].money = sp[p].money
           /\ api'[p].health = sp[p].health]_vars
  <2> SUFFICES ASSUME IInv, [Next]_vars, ~UNCHANGED vars,
                      NEW p \in Players, Restored(p)
               PROVE  api'[p].money = sp[p].money /\ api'[p].health = sp[p].health
    OBVIOUS
  <2> QED BY RestoredBySpawn
<1> QED BY <1>1, InductiveInvariant, PTL DEF Spec, OneContextPerSpawn

-----------------------------------------------------------------------------
(* Spectating keeps what Watching promises.                                *)

\* A set of ids has a least one.
LEMMA LeastId ==
  ASSUME NEW T \in SUBSET Nat, T # {}
  PROVE  \E x \in T : \A y \in T : x <= y
<1> DEFINE R == {ss \in Nat \X Nat : ss[1] < ss[2]}
<1>1. IsWellFoundedOn(R, Nat)
  BY NatLessThanWellFounded, Zenon DEF OpToRel
<1> HIDE DEF R
<1>2. PICK x \in T : \A y \in T : ~(<<y, x>> \in R)
  BY <1>1, WFMin, Zenon
<1>3. \A y \in T : ~(y < x)
  BY <1>2 DEF R
<1> QED BY <1>3

\* do_shift gives up only when there is nobody else: the circle of ids is
\* walked to the next larger id, or round to the least one.
LEMMA ShiftFinds ==
  ASSUME holder \subseteq Players, NEW w, NEW c \in holder,
         holder \ {w, c} # {}
  PROVE  ShiftTo(w, c, TRUE) \in holder \ {w, c}
<1> DEFINE others  == holder \ {w, c}
           nearest == {q \in others : \A r \in others : Sooner(c, q, r, TRUE)}
           larger  == {q \in others : q > c}
<1>1. others \in SUBSET Nat /\ c \in Nat
  BY SpectateAssumption
<1>2. nearest # {}
  <2>1. CASE larger # {}
    <3>1. PICK x \in larger : \A y \in larger : x <= y
      BY <1>1, <2>1, LeastId
    <3>2. x \in nearest
      BY <1>1, <3>1 DEF Sooner
    <3> QED BY <3>2
  <2>2. CASE larger = {}
    <3>1. PICK x \in others : \A y \in others : x <= y
      BY <1>1, LeastId
    <3>2. x \in nearest
      BY <1>1, <2>2, <3>1 DEF Sooner
    <3> QED BY <3>2
  <2> QED BY <2>1, <2>2
<1>3. ShiftTo(w, c, TRUE) = CHOOSE q \in nearest : TRUE
  BY <1>2 DEF ShiftTo
<1>4. (CHOOSE q \in nearest : TRUE) \in nearest
  BY <1>2
<1> QED BY <1>3, <1>4

\* Whoever watched the leaving player is taken to another one.
LEMMA DisconnectWatch ==
  ASSUME IInv, NEW p \in Players, Disconnect(p)
  PROVE  W!Leave(p)
<1> DEFINE to(w) == ShiftTo(w, p, TRUE)
<1>1. /\ holder \subseteq Players /\ sp \in [Players -> SpectateRec]
      /\ WatchedIsConnected
  BY DEF IInv, TypeOK
<1>2. /\ p \in holder /\ holder' = holder \ {p}
      /\ sp' = [w \in Players |->
                  CASE w = p -> FreshSpectate
                    [] sp[w].target = p /\ w # p -> Retarget(sp[w], to(w))
                    [] OTHER -> sp[w]]
  BY DEF Disconnect, Watches
<1>3. \A w \in Players :
        /\ to(w) \in (holder \ {w, p}) \cup {None}
        /\ to(w) \in W!Heirs(w, p)
  BY <1>1, <1>2, ShiftToLemma, ShiftFinds DEF W!Heirs
<1> HIDE DEF to
<1>4. \A w \in Players :
        sp'[w].target = IF w = p THEN None
                        ELSE IF sp[w].target = p THEN to(w) ELSE sp[w].target
  <2> SUFFICES ASSUME NEW w \in Players
               PROVE  sp'[w].target
                        = IF w = p THEN None
                          ELSE IF sp[w].target = p THEN to(w) ELSE sp[w].target
    OBVIOUS
  <2>1. CASE w = p
    BY <1>2, <2>1 DEF FreshSpectate
  <2>2. CASE w # p /\ sp[w].target = p
    <3>1. sp'[w] = Retarget(sp[w], to(w)) /\ sp[w] \in SpectateRec
      BY <1>1, <1>2, <2>2
    <3>2. to(w) \in Players \cup {None}
      BY <1>1, <1>3
    <3> QED BY <2>2, <3>1, <3>2, RetargetLemma
  <2>3. CASE w # p /\ sp[w].target # p
    BY <1>2, <2>3
  <2> QED BY <2>1, <2>2, <2>3
<1>5. \A w \in Players : sp[w].target \in holder \cup {None}
  BY <1>1 DEF WatchedIsConnected, IsSpectate
<1>6. \A w \in Players : sp'[w].target \in holder' \cup {None}
  BY <1>2, <1>3, <1>4, <1>5
<1> QED BY <1>2, <1>3, <1>4, <1>6 DEF W!Leave

\* What a handler that moves one target does to all of them.
LEMMA OneTarget ==
  ASSUME NEW p \in Players, NEW q, sp'[p].target = q,
         \A w \in Players \ {p} : sp'[w] = sp[w]
  PROVE  [w \in Players |-> sp'[w].target]
           = [[w \in Players |-> sp[w].target] EXCEPT ![p] = q]
OBVIOUS

\* A player who is turned to q, or stops.
LEMMA RetargetWatch ==
  ASSUME IInv, NEW p \in Players, IsSpectate(p),
         NEW q \in (holder \ {p}) \cup {None},
         sp' = [sp EXCEPT ![p] = Retarget(@, q)], UNCHANGED holder
  PROVE  (\E r \in Players : W!Change(p, r)) \/ W!Stop(p) \/ UNCHANGED W!vars
<1>1. /\ sp \in [Players -> SpectateRec] /\ holder \subseteq Players
      /\ sp[p].target # None
  BY DEF IInv, TypeOK, IsSpectate
<1>2. sp'[p].target = q
  <2>1. sp[p] \in SpectateRec /\ q \in Players \cup {None}
    BY <1>1
  <2> QED BY <1>1, <2>1, RetargetLemma
<1>3. \A w \in Players \ {p} : sp'[w] = sp[w]
  BY <1>1
<1>4. [w \in Players |-> sp'[w].target]
        = [[w \in Players |-> sp[w].target] EXCEPT ![p] = q]
  BY <1>2, <1>3, OneTarget
<1>5. CASE q = sp[p].target
  <2>1. \A w \in Players : sp'[w].target = sp[w].target
    BY <1>2, <1>3, <1>5
  <2> QED BY <2>1 DEF W!vars
<1>6. CASE q # sp[p].target /\ q = None
  <2>1. [w \in Players |-> sp[w].target][p] # None
    BY <1>1
  <2> QED BY <1>4, <1>6, <2>1 DEF W!Stop
<1>7. CASE q # sp[p].target /\ q # None
  <2>1. q \in Players
    BY <1>1, <1>7
  <2> QED BY <1>1, <1>4, <1>7, <2>1 DEF W!Change
<1> QED BY <1>5, <1>6, <1>7

\* Handlers that leave everybody's target alone.
LEMMA SameTargets ==
  ASSUME UNCHANGED holder, \A w \in Players : sp'[w].target = sp[w].target
  PROVE  UNCHANGED W!vars
BY DEF W!vars

\* A respawn gives the player his state back, never another target.
LEMMA SpawnTargets ==
  ASSUME IInv, NEW p \in Players, SpawnItems(p)
  PROVE  \A w \in Players : sp'[w].target = sp[w].target
<1>1. sp \in [Players -> SpectateRec]
  BY DEF IInv, TypeOK
<1>2. sp' = [sp EXCEPT ![p] = SpawnedSpectate(p)]
  BY DEF SpawnItems
<1>3. SpawnedSpectate(p).target = sp[p].target
  BY DEF SpawnedSpectate, Restores, IsSpectate, FreshSpectate
<1> QED BY <1>1, <1>2, <1>3

LEMMA CmdSpectateWatch ==
  ASSUME IInv, NEW p \in Players, NEW q \in Players, CmdSpectate(p, q)
  PROVE  \/ W!Start(p, q) \/ UNCHANGED W!vars
         \/ (\E r \in Players : W!Change(p, r)) \/ W!Stop(p)
<1>1. /\ sp \in [Players -> SpectateRec] /\ p \in holder /\ q \in holder \ {p}
      /\ UNCHANGED holder
  BY DEF IInv, TypeOK, CmdSpectate
<1>2. CASE IsSpectate(p)
  <2>1. sp' = [sp EXCEPT ![p] = Retarget(@, q)]
    BY <1>2 DEF CmdSpectate
  <2> QED BY <1>1, <1>2, <2>1, RetargetWatch
<1>3. CASE ~IsSpectate(p)
  <2>1. sp'[p].target = q
    BY <1>1, <1>3 DEF CmdSpectate
  <2>2. \A w \in Players \ {p} : sp'[w] = sp[w]
    BY <1>1, <1>3 DEF CmdSpectate
  <2>3. [w \in Players |-> sp'[w].target]
          = [[w \in Players |-> sp[w].target] EXCEPT ![p] = q]
    BY <2>1, <2>2, OneTarget
  <2> QED BY <1>1, <1>3, <2>3 DEF W!Start, IsSpectate
<1> QED BY <1>2, <1>3
LEMMA WatchStep == IInv /\ [Next]_vars => [W!Next]_(W!vars)
<1> SUFFICES ASSUME IInv, [Next]_vars PROVE W!Next \/ UNCHANGED W!vars
  OBVIOUS
<1> DEFINE Kept == UNCHANGED holder
                   /\ \A w \in Players : sp'[w].target = sp[w].target
<1>1. Kept => UNCHANGED W!vars
  BY SameTargets
<1>2. sp \in [Players -> SpectateRec] /\ sp' = sp /\ holder' = holder => Kept
  OBVIOUS
<1>3. sp \in [Players -> SpectateRec] /\ holder \subseteq Players
  BY DEF IInv, TypeOK
<1>4. ASSUME NEW p \in Players, Connect(p) PROVE W!Next
  <2>1. W!Connect(p)
    BY <1>4 DEF Connect, W!Connect
  <2> QED BY <2>1 DEF W!Next
<1>5. ASSUME NEW p \in Players, Disconnect(p) PROVE W!Next
  BY <1>5, DisconnectWatch DEF W!Next
<1>6. ASSUME NEW p \in Players, NEW q \in (holder \ {p}) \cup {None},
             IsSpectate(p), UNCHANGED holder,
             sp' = [sp EXCEPT ![p] = Retarget(@, q)]
      PROVE  W!Next \/ UNCHANGED W!vars
  BY <1>6, RetargetWatch DEF W!Next
<1>7. ASSUME NEW p \in Players, KeyStop(p) PROVE W!Next \/ UNCHANGED W!vars
  BY <1>6, <1>7 DEF KeyStop
<1>8. ASSUME NEW p \in Players, NEW isNext \in BOOLEAN, KeyShift(p, isNext)
      PROVE  W!Next \/ UNCHANGED W!vars
  <2> DEFINE q == ShiftTo(p, sp[p].target, isNext)
  <2>1. q \in (holder \ {p}) \cup {None}
    BY ShiftToLemma
  <2>2. IsSpectate(p) /\ UNCHANGED holder /\ sp' = [sp EXCEPT ![p] = Retarget(@, q)]
    BY <1>8 DEF KeyShift
  <2> QED BY <1>6, <2>1, <2>2
<1>9. ASSUME NEW p \in Players, NEW q \in Players, CmdSpectate(p, q)
      PROVE  W!Next \/ UNCHANGED W!vars
  BY <1>9, CmdSpectateWatch DEF W!Next
<1>10. ASSUME NEW p \in Players, PlayerSpawn(p) PROVE Kept
  BY <1>10, SpawnTargets DEF PlayerSpawn
<1>11. ASSUME NEW p \in Players, NEW v \in ApiStates, StateChange(p, v) PROVE Kept
  BY <1>3, <1>11, SpawnTargets DEF StateChange
<1>12. CASE GamemodeExit
  <2>1. W!Close
    BY <1>12 DEF GamemodeExit, FreshSpectate, W!Close
  <2> QED BY <2>1 DEF W!Next
<1>13. ASSUME Timer250 PROVE Kept
  <2>1. \A w \in Players : \A r, t : GcFini(sp[w], r, t).target = sp[w].target
    BY <1>3 DEF GcFini, SpectateRec
  <2> QED BY <1>13, <2>1 DEF Timer250
<1>14. ASSUME Timer5000 PROVE Kept
  BY <1>2, <1>3, <1>14 DEF Timer5000
<1>15. ASSUME NEW c \in Players,
              \/ Suicide(c) \/ InteriorChange(c) \/ StreamOut(c)
              \/ Block(c) \/ \E q \in Players : MoneySend(c, q)
              \/ \E v \in ApiStates : StateChangeBlocked(c, v)
              \/ \E k \in Players \cup {None} : PlayerDeath(c, k)
              \/ \E explode \in BOOLEAN : Check(c, explode)
       PROVE  Kept
  BY <1>2, <1>3, <1>15
     DEF Suicide, InteriorChange, StreamOut, Block, MoneySend,
         StateChangeBlocked, PlayerDeath, Check
<1>16. ASSUME UNCHANGED vars PROVE Kept
  BY <1>2, <1>3, <1>16 DEF vars
<1> HIDE DEF Kept
<1> QED
  BY <1>1, <1>4, <1>5, <1>7, <1>8, <1>9, <1>10, <1>11, <1>12, <1>13, <1>14,
     <1>15, <1>16 DEF Next

\* For any number of players, spectating implements what Watching promises the
\* panel and the keys, and the next id is found in every circle of ids.
THEOREM KeepsPromise == Spec => WatchingPromise
<1>1. Init => W!Init
  BY DEF Init, W!Init, FreshSpectate
<1> QED
  BY <1>1, WatchStep, InductiveInvariant, PTL DEF Spec, WatchingPromise, W!Spec
-----------------------------------------------------------------------------
(* The clients of the watchers.                                            *)

LEMMA ViewSame ==
  ASSUME NEW a, NEW b, NEW q, q # None => a[q].state = b[q].state
  PROVE  View(a, q) = View(b, q)
BY DEF View

\* A watcher's client is told again whom to follow, or nothing changed that it
\* would have to be told of.
ViewKept(w) ==
  \/ api'[w].view = View(api', sp'[w].target)
  \/ /\ sp'[w].target = sp[w].target /\ api'[w].view = api[w].view
     /\ sp[w].target # None /\ ~pl'[sp[w].target].blocked =>
          /\ ~pl[sp[w].target].blocked
          /\ api'[sp[w].target].state = api[sp[w].target].state

LEMMA ViewMoves ==
  ASSUME ViewFollowsTarget, \A w \in Players : ViewKept(w)
  PROVE  ViewFollowsTarget'
<1> SUFFICES ASSUME NEW w \in Players
             PROVE  /\ sp'[w].target = None => api'[w].view = None
                    /\ sp'[w].target # None /\ ~pl'[sp'[w].target].blocked
                         => api'[w].view = View(api', sp'[w].target)
  BY DEF ViewFollowsTarget, IsSpectate
<1>1. View(api', None) = None
  BY DEF View
<1>2. CASE api'[w].view = View(api', sp'[w].target)
  BY <1>1, <1>2
<1>3. CASE ~(api'[w].view = View(api', sp'[w].target))
  <2> DEFINE t == sp[w].target
  <2>1. /\ sp'[w].target = t /\ api'[w].view = api[w].view
        /\ t # None /\ ~pl'[t].blocked =>
             ~pl[t].blocked /\ api'[t].state = api[t].state
    BY <1>3 DEF ViewKept
  <2>2. /\ t = None => api[w].view = None
        /\ t # None /\ ~pl[t].blocked => api[w].view = View(api, t)
    BY DEF ViewFollowsTarget, IsSpectate
  <2> HIDE DEF t
  <2>3. CASE t # None /\ ~pl'[t].blocked
    <3>1. View(api, t) = View(api', t)
      BY <2>1, <2>3, ViewSame
    <3> QED BY <2>1, <2>2, <2>3, <3>1
  <2> QED BY <2>1, <2>2, <2>3
<1> QED BY <1>2, <1>3

\* Handlers that move no target and no player; they may refresh watchers.
LEMMA RefreshStep ==
  ASSUME ViewFollowsTarget,
         \A w \in Players : sp'[w].target = sp[w].target,
         \A w \in Players : pl[w].blocked => pl'[w].blocked,
         \A w \in Players : api'[w].state = api[w].state \/ pl'[w].blocked,
         \A w \in Players : \/ api'[w].view = api[w].view
                            \/ api'[w].view = View(api', sp[w].target),
         \A w \in Players : sp[w].target \in Players \cup {None}
  PROVE  ViewFollowsTarget'
<1>1. \A w \in Players : ViewKept(w)
  BY DEF ViewKept
<1> QED BY <1>1, ViewMoves

\* A watcher who is turned to q.
LEMMA RetargetView ==
  ASSUME ViewFollowsTarget, IInv, NEW p \in Players, NEW q \in Players \cup {None},
         sp'[p].target = q, api'[p].view = View(api, q),
         \A w \in Players \ {p} : sp'[w] = sp[w] /\ api'[w].view = api[w].view,
         \A w \in Players : api'[w].state = api[w].state,
         \A w \in Players : pl'[w].blocked <=> pl[w].blocked
  PROVE  ViewFollowsTarget'
<1>1. \A w \in Players : sp[w].target \in Players \cup {None}
  BY DEF IInv, TypeOK, SpectateRec
<1>2. View(api, q) = View(api', q)
  BY ViewSame
<1>3. ViewKept(p)
  BY <1>2 DEF ViewKept
<1>4. \A w \in Players \ {p} : ViewKept(w)
  BY <1>1 DEF ViewKept
<1> QED BY <1>3, <1>4, ViewMoves

LEMMA RetargetApiView ==
  ASSUME NEW x \in ApiRec, NEW q \in Players \cup {None}
  PROVE  RetargetApi(x, q).view = View(api, q) /\ RetargetApi(x, q).state = x.state
BY DEF RetargetApi, ApiRec

LEMMA RefreshedView ==
  ASSUME NEW a \in [Players -> ApiRec], NEW p \in Players
  PROVE  \A w \in Players :
           /\ Refreshed(a, p)[w].state = a[w].state
           /\ Refreshed(a, p)[w].view = IF sp[w].target = p THEN View(a, p)
                                        ELSE a[w].view
BY DEF Refreshed, ApiRec, Watches

LEMMA ConnectView ==
  ASSUME IInv, ViewFollowsTarget, NEW p \in Players, Connect(p)
  PROVE  ViewFollowsTarget'
<1>1. \A w \in Players : sp[w].target # None => sp[w].target \in holder
  BY DEF IInv, WatchedIsConnected, IsSpectate
<1>2. /\ p \notin holder /\ UNCHANGED <<sp, api>>
      /\ \A w \in holder : pl'[w] = pl[w]
  BY DEF Connect, IInv, TypeOK
<1>3. \A w \in Players : ViewKept(w)
  BY <1>1, <1>2 DEF ViewKept
<1> QED BY <1>3, ViewMoves

LEMMA DisconnectView ==
  ASSUME IInv, ViewFollowsTarget, NEW p \in Players, Disconnect(p)
  PROVE  ViewFollowsTarget'
<1> DEFINE to(w) == ShiftTo(w, p, TRUE)
<1>1. /\ holder \subseteq Players /\ sp \in [Players -> SpectateRec]
      /\ api \in [Players -> ApiRec] /\ pl \in [Players -> PlayerRec]
      /\ \A w \in Players : sp[w].target # None => sp[w].target \in Players
  BY DEF IInv, TypeOK, SpectateRec
<1>2. /\ pl' = [pl EXCEPT ![p] = FreshPlayer]
      /\ sp' = [w \in Players |->
                  CASE w = p -> FreshSpectate
                    [] sp[w].target = p /\ w # p -> Retarget(sp[w], to(w))
                    [] OTHER -> sp[w]]
      /\ api' = [w \in Players |->
                  CASE w = p -> FreshApi
                    [] sp[w].target = p /\ w # p -> RetargetApi(api[w], to(w))
                    [] OTHER -> api[w]]
  BY DEF Disconnect, Watches
<1>3. \A w \in Players : to(w) \in (Players \ {p}) \cup {None}
  BY <1>1, ShiftToLemma
<1> HIDE DEF to
<1>4. \A w \in Players \ {p} : api'[w].state = api[w].state
  BY <1>1, <1>2, <1>3, RetargetApiView
<1>5. ASSUME NEW w \in Players PROVE ViewKept(w)
  <2>1. CASE w = p
    <3>1. sp'[w].target = None /\ api'[w].view = None
      BY <1>2, <2>1 DEF FreshSpectate, FreshApi
    <3> QED BY <3>1 DEF ViewKept, View
  <2>2. CASE w # p /\ sp[w].target = p
    <3>1. /\ sp'[w] = Retarget(sp[w], to(w)) /\ api'[w] = RetargetApi(api[w], to(w))
          /\ to(w) \in Players \cup {None}
          /\ sp[w] \in SpectateRec /\ api[w] \in ApiRec
      BY <1>1, <1>2, <1>3, <2>2
    <3>2. sp'[w].target = to(w) /\ api'[w].view = View(api, to(w))
      BY <3>1, RetargetLemma, RetargetApiView
    <3>3. View(api, to(w)) = View(api', to(w))
      BY <1>3, <1>4, ViewSame
    <3> QED BY <3>2, <3>3 DEF ViewKept
  <2>3. CASE w # p /\ sp[w].target # p
    <3>1. sp'[w] = sp[w] /\ api'[w] = api[w]
      BY <1>2, <2>3
    <3>2. \A x \in Players \ {p} : pl'[x] = pl[x]
      BY <1>1, <1>2
    <3> QED BY <1>1, <1>4, <2>3, <3>1, <3>2 DEF ViewKept
  <2> QED BY <2>1, <2>2, <2>3
<1> QED BY <1>5, ViewMoves

LEMMA GamemodeExitView ==
  ASSUME ViewFollowsTarget, GamemodeExit
  PROVE  ViewFollowsTarget'
<1>1. \A w \in Players : ViewKept(w)
  BY DEF GamemodeExit, ViewKept, View, FreshSpectate, FreshApi
<1> QED BY <1>1, ViewMoves

LEMMA KeysView ==
  ASSUME IInv, ViewFollowsTarget, NEW p \in Players,
         KeyStop(p) \/ \E isNext \in BOOLEAN : KeyShift(p, isNext)
  PROVE  ViewFollowsTarget'
<1>1. /\ holder \subseteq Players /\ sp \in [Players -> SpectateRec]
      /\ api \in [Players -> ApiRec]
  BY DEF IInv, TypeOK
<1>2. PICK q \in Players \cup {None} :
        /\ sp' = [sp EXCEPT ![p] = Retarget(@, q)]
        /\ api' = [api EXCEPT ![p] = RetargetApi(@, q)]
        /\ UNCHANGED <<holder, pl, hp>>
  <2>1. CASE KeyStop(p)
    BY <2>1 DEF KeyStop
  <2>2. ASSUME NEW isNext \in BOOLEAN, KeyShift(p, isNext)
        PROVE  \E q \in Players \cup {None} :
                 /\ sp' = [sp EXCEPT ![p] = Retarget(@, q)]
                 /\ api' = [api EXCEPT ![p] = RetargetApi(@, q)]
                 /\ UNCHANGED <<holder, pl, hp>>
    <3>1. ShiftTo(p, sp[p].target, isNext) \in Players \cup {None}
      BY <1>1, ShiftToLemma
    <3> QED BY <2>2, <3>1 DEF KeyShift
  <2> QED BY <2>1, <2>2
<1>3. sp[p] \in SpectateRec /\ api[p] \in ApiRec
  BY <1>1
<1>4. sp'[p].target = q /\ api'[p].view = View(api, q) /\ api'[p].state = api[p].state
  BY <1>1, <1>2, <1>3, RetargetLemma, RetargetApiView
<1>5. \A w \in Players \ {p} : sp'[w] = sp[w] /\ api'[w] = api[w]
  BY <1>1, <1>2
<1> QED BY <1>2, <1>4, <1>5, RetargetView

LEMMA CmdSpectateView ==
  ASSUME IInv, ViewFollowsTarget, NEW p \in Players, NEW q \in Players,
         CmdSpectate(p, q)
  PROVE  ViewFollowsTarget'
<1>1. /\ sp \in [Players -> SpectateRec] /\ api \in [Players -> ApiRec]
      /\ pl \in [Players -> PlayerRec] /\ sp[p] \in SpectateRec
      /\ api[p] \in ApiRec /\ pl[p] \in PlayerRec
  BY DEF IInv, TypeOK
<1>2. sp'[p].target = q
  <2>1. CASE IsSpectate(p)
    <3>1. sp' = [sp EXCEPT ![p] = Retarget(@, q)]
      BY <2>1 DEF CmdSpectate
    <3> QED BY <1>1, <3>1, RetargetLemma
  <2>2. CASE ~IsSpectate(p)
    BY <1>1, <2>2 DEF CmdSpectate
  <2> QED BY <2>1, <2>2
<1>3. api'[p].view = View(api, q) /\ api'[p].state = api[p].state
  <2>1. CASE IsSpectate(p)
    <3>1. api' = [api EXCEPT ![p].view = View(api, q),
                    ![p].health = IF q = sp[p].target THEN @ ELSE "inf"]
      BY <2>1 DEF CmdSpectate
    <3> QED BY <1>1, <3>1 DEF ApiRec
  <2>2. CASE ~IsSpectate(p)
    <3>1. api' = [api EXCEPT ![p] = RetargetApi(@, q)]
      BY <2>2 DEF CmdSpectate
    <3> QED BY <1>1, <3>1, RetargetApiView
  <2> QED BY <2>1, <2>2
<1>4. \A w \in Players \ {p} : sp'[w] = sp[w] /\ api'[w] = api[w]
  BY <1>1 DEF CmdSpectate
<1>5. \A w \in Players : pl'[w].blocked <=> pl[w].blocked
  <2>1. CASE IsSpectate(p)
    BY <2>1 DEF CmdSpectate
  <2>2. CASE ~IsSpectate(p)
    <3>1. Consistent(pl[p])
      BY SpectateAssumption
      DEF IInv, OneActiveContext, Consistent, FreshPlayer, Contexts
    <3> DEFINE r == ProcessWait(pl[p])
    <3>2. r \in PlayerRec /\ r.blocked = pl[p].blocked /\ Consistent(r)
      BY <1>1, <3>1, ProcessWaitLemma
    <3>3. pl' = [pl EXCEPT ![p] = Activate(r, "spectate")]
      BY <2>2 DEF CmdSpectate
    <3> HIDE DEF r
    <3>4. Activate(r, "spectate").blocked = pl[p].blocked
      BY <3>2, ActivateLemma DEF Contexts
    <3> QED BY <1>1, <3>3, <3>4
  <2> QED BY <2>1, <2>2
<1> QED BY <1>2, <1>3, <1>4, <1>5, RetargetView
LEMMA SpawnedApiView ==
  ASSUME IInv, NEW p \in Players, NEW h \in Healths
  PROVE  /\ SpawnedApi(p, h).view = View(api, sp[p].target)
         /\ SpawnedApi(p, h).state = api[p].state
<1>1. api[p] \in ApiRec
  BY DEF IInv, TypeOK
<1> QED BY <1>1, SpawnedApiLemma DEF SpawnedApi, ApiRec

LEMMA PlayerSpawnView ==
  ASSUME IInv, ViewFollowsTarget, NEW p \in Players, PlayerSpawn(p)
  PROVE  ViewFollowsTarget'
<1>1. /\ sp \in [Players -> SpectateRec] /\ api \in [Players -> ApiRec]
      /\ pl \in [Players -> PlayerRec]
      /\ \A w \in Players : sp[w].target \in Players \cup {None}
  BY DEF IInv, TypeOK, SpectateRec
<1>2. /\ SpawnItems(p) /\ ~pl[p].blocked
      /\ api' = [api EXCEPT ![p] = SpawnedApi(p, "normal")]
  BY DEF PlayerSpawn
<1>3. \A w \in Players : sp'[w].target = sp[w].target
  BY <1>2, SpawnTargets
<1>4. \A w \in Players : pl[w].blocked => pl'[w].blocked
  BY <1>1, <1>2 DEF SpawnItems
<1>5. /\ SpawnedApi(p, "normal").view = View(api, sp[p].target)
      /\ SpawnedApi(p, "normal").state = api[p].state
  BY SpawnedApiView DEF Healths
<1>6. \A w \in Players : api'[w].state = api[w].state
  BY <1>1, <1>2, <1>5
<1>7. View(api, sp[p].target) = View(api', sp[p].target)
  BY <1>1, <1>6, ViewSame
<1>8. \A w \in Players : \/ api'[w].view = api[w].view
                         \/ api'[w].view = View(api', sp[w].target)
  BY <1>1, <1>2, <1>5, <1>7
<1> QED BY <1>1, <1>3, <1>4, <1>6, <1>8, RefreshStep

LEMMA StateChangeView ==
  ASSUME IInv, ViewFollowsTarget, NEW p \in Players, NEW v \in ApiStates,
         StateChange(p, v)
  PROVE  ViewFollowsTarget'
<1> DEFINE missed == v = "onfoot" /\ pl[p].state # "in_game"
           x == IF missed THEN SpawnedApi(p, api[p].health) ELSE api[p]
           y == [x EXCEPT !.state = v]
           a == [api EXCEPT ![p] = y]
<1>1. /\ sp \in [Players -> SpectateRec] /\ api \in [Players -> ApiRec]
      /\ pl \in [Players -> PlayerRec]
      /\ \A w \in Players : sp[w].target \in Players \cup {None}
      /\ sp[p].target # p
  BY SpectateAssumption
  DEF IInv, TypeOK, SpectateRec, WatchedIsConnected, IsSpectate
<1>2. /\ ~pl[p].blocked
      /\ IF missed THEN SpawnItems(p) ELSE UNCHANGED <<pl, sp, hp>>
      /\ api' = Refreshed(a, p)
  BY DEF StateChange
<1>3. \A w \in Players : sp'[w].target = sp[w].target
  BY <1>2, SpawnTargets
<1>4. \A w \in Players : pl[w].blocked => pl'[w].blocked
  BY <1>1, <1>2 DEF SpawnItems
<1>5. x \in ApiRec /\ (x.view = View(api, sp[p].target) \/ x.view = api[p].view)
  <2>1. CASE missed
    <3>1. api[p].health \in Healths
      BY <1>1 DEF ApiRec
    <3>2. x = SpawnedApi(p, api[p].health)
      BY <2>1
    <3>3. x \in ApiRec
      BY <3>1, <3>2, SpawnedApiLemma
    <3>4. x.view = View(api, sp[p].target)
      BY <3>1, <3>2, SpawnedApiView
    <3> QED BY <3>3, <3>4
  <2>2. CASE ~missed
    BY <1>1, <2>2
  <2> QED BY <2>1, <2>2
<1> HIDE DEF x, missed
<1>6. y \in ApiRec /\ y.view = x.view /\ y.state = v
  BY <1>5 DEF ApiRec
<1> HIDE DEF y
<1>7. /\ a \in [Players -> ApiRec] /\ a[p] = y
      /\ \A w \in Players \ {p} : a[w] = api[w]
  BY <1>1, <1>6
<1> HIDE DEF a
<1>8. \A w \in Players :
        /\ api'[w].state = a[w].state
        /\ api'[w].view = IF sp[w].target = p THEN View(a, p) ELSE a[w].view
  BY <1>2, <1>7, RefreshedView
<1>9. View(a, p) = View(api', p)
  BY <1>8, ViewSame
<1>10. ASSUME NEW w \in Players PROVE ViewKept(w)
  <2>1. CASE sp[w].target = p
    BY <1>3, <1>8, <1>9, <2>1 DEF ViewKept
  <2>2. CASE sp[w].target # p
    <3>1. sp[w].target # None => api'[sp[w].target].state = api[sp[w].target].state
      BY <1>1, <1>7, <1>8, <2>2
    <3>2. View(api, sp[w].target) = View(api', sp[w].target)
      BY <3>1, ViewSame
    <3>3. api'[w].view = api[w].view \/ api'[w].view = View(api', sp[w].target)
      BY <1>5, <1>6, <1>7, <1>8, <2>2, <3>2
    <3>4. sp[w].target # None /\ ~pl'[sp[w].target].blocked
            => ~pl[sp[w].target].blocked
      BY <1>1, <1>4
    <3> QED BY <1>3, <3>1, <3>3, <3>4 DEF ViewKept
  <2> QED BY <2>1, <2>2
<1> QED BY <1>10, ViewMoves
\* Handlers that tell nobody to look elsewhere, or only watchers to look at
\* whom they watch.
LEMMA OthersView ==
  ASSUME IInv, ViewFollowsTarget, NEW p \in Players,
         \/ Suicide(p) \/ InteriorChange(p) \/ StreamOut(p) \/ Block(p)
         \/ \E q \in Players : MoneySend(p, q)
         \/ \E v \in ApiStates : StateChangeBlocked(p, v)
         \/ \E k \in Players \cup {None} : PlayerDeath(p, k)
         \/ \E explode \in BOOLEAN : Check(p, explode)
  PROVE  ViewFollowsTarget'
<1>1. /\ api \in [Players -> ApiRec] /\ pl \in [Players -> PlayerRec]
      /\ \A w \in Players : sp[w].target \in Players \cup {None}
  BY DEF IInv, TypeOK, SpectateRec
<1>2. sp' = sp
  BY DEF Suicide, InteriorChange, StreamOut, Block, MoneySend,
         StateChangeBlocked, PlayerDeath, Check
<1>3. \A w \in Players : pl[w].blocked => pl'[w].blocked
  BY <1>1 DEF Suicide, InteriorChange, StreamOut, Block, MoneySend,
              StateChangeBlocked, PlayerDeath, Check, PlayerRec
<1>4. ASSUME InteriorChange(p) \/ StreamOut(p) PROVE ViewFollowsTarget'
  <2>1. CASE InteriorChange(p)
    <3>1. api' = Refreshed(api, p)
      BY <2>1 DEF InteriorChange
    <3>2. \A w \in Players :
            /\ api'[w].state = api[w].state
            /\ api'[w].view = IF sp[w].target = p THEN View(api, p)
                              ELSE api[w].view
      BY <1>1, <3>1, RefreshedView
    <3>3. View(api, p) = View(api', p)
      BY <3>2, ViewSame
    <3> QED BY <1>1, <1>2, <1>3, <3>2, <3>3, RefreshStep
  <2>2. CASE StreamOut(p)
    <3>1. api' = [api EXCEPT ![p].view = View(api, sp[p].target)]
      BY <2>2 DEF StreamOut
    <3>2. /\ \A w \in Players : api'[w].state = api[w].state
          /\ api'[p].view = View(api, sp[p].target)
          /\ \A w \in Players \ {p} : api'[w].view = api[w].view
      BY <1>1, <3>1 DEF ApiRec
    <3>3. View(api, sp[p].target) = View(api', sp[p].target)
      BY <1>1, <3>2, ViewSame
    <3> QED BY <1>1, <1>2, <1>3, <3>2, <3>3, RefreshStep
  <2> QED BY <1>4, <2>1, <2>2
<1>5. ASSUME NEW v \in ApiStates, StateChangeBlocked(p, v)
      PROVE  ViewFollowsTarget'
  <2>1. /\ pl[p].blocked /\ pl' = pl
        /\ api' = [api EXCEPT ![p].state = v]
    BY <1>5 DEF StateChangeBlocked
  <2>2. \A w \in Players : /\ api'[w].state = api[w].state \/ w = p
                           /\ api'[w].view = api[w].view
    BY <1>1, <2>1 DEF ApiRec
  <2> QED BY <1>1, <1>2, <2>1, <2>2, RefreshStep
<1>6. ASSUME \A w \in Players : /\ api'[w].state = api[w].state
                                /\ api'[w].view = api[w].view
      PROVE  ViewFollowsTarget'
  BY <1>1, <1>2, <1>3, <1>6, RefreshStep
<1>7. CASE Suicide(p)
  BY <1>1, <1>6, <1>7 DEF Suicide, ApiRec
<1>8. CASE Block(p)
  BY <1>6, <1>8 DEF Block
<1>9. ASSUME NEW q \in Players, MoneySend(p, q) PROVE ViewFollowsTarget'
  <2>1. PICK left \in {"zero", "earned"} :
          api' = [api EXCEPT ![p].money = left, ![q].money = "earned"]
    BY <1>9 DEF MoneySend
  <2> QED BY <1>1, <1>6, <2>1 DEF ApiRec
<1>10. ASSUME NEW k \in Players \cup {None}, PlayerDeath(p, k)
       PROVE  ViewFollowsTarget'
  <2> DEFINE paid == /\ DeathCounts(p) /\ ~hp[p].byScript
                     /\ k \notin {None, p} /\ api[p].money # "zero"
  <2>1. api' = [w \in Players |->
                 CASE w = p          -> [api[w] EXCEPT !.money = "zero"]
                   [] w = k /\ paid  -> [api[w] EXCEPT !.money = "earned"]
                   [] OTHER          -> api[w]]
    BY <1>10 DEF PlayerDeath
  <2> HIDE DEF paid
  <2>2. \A w \in Players : /\ api'[w].state = api[w].state
                           /\ api'[w].view = api[w].view
    BY <1>1, <2>1 DEF ApiRec
  <2> QED BY <1>6, <2>2
<1>11. ASSUME NEW explode \in BOOLEAN, Check(p, explode)
       PROVE  ViewFollowsTarget'
  <2>1. PICK h : api' = [w \in Players |->
                 CASE w = p                      -> [api[w] EXCEPT !.health = h]
                   [] explode /\ IsSpectate(w) /\ w # p ->
                                           [api[w] EXCEPT !.health = "inf"]
                   [] OTHER                      -> api[w]]
    BY <1>11 DEF Check
  <2>2. \A w \in Players : /\ api'[w].state = api[w].state
                           /\ api'[w].view = api[w].view
    BY <1>1, <2>1 DEF ApiRec
  <2> QED BY <1>6, <2>2
<1> QED BY <1>4, <1>5, <1>7, <1>8, <1>9, <1>10, <1>11

LEMMA TimersView ==
  ASSUME IInv, ViewFollowsTarget, Timer250 \/ Timer5000
  PROVE  ViewFollowsTarget'
<1>1. /\ sp \in [Players -> SpectateRec] /\ api \in [Players -> ApiRec]
      /\ pl \in [Players -> PlayerRec]
      /\ \A w \in Players : sp[w].target \in Players \cup {None}
  BY DEF IInv, TypeOK, SpectateRec
<1>2. CASE Timer250
  <2>1. \A w \in Players : \A r, t : GcFini(sp[w], r, t).target = sp[w].target
    BY <1>1 DEF GcFini, SpectateRec
  <2>2. \A w \in Players : sp'[w].target = sp[w].target /\ api'[w] = api[w]
    BY <1>2, <2>1 DEF Timer250
  <2>3. \A w \in Players : Consistent(pl[w])
    BY SpectateAssumption
    DEF IInv, OneActiveContext, Consistent, FreshPlayer, Contexts
  <2>4. \A w \in Players : pl'[w].blocked = pl[w].blocked
    BY <1>1, <1>2, <2>3, ProcessWaitLemma DEF Timer250
  <2> QED BY <1>1, <2>2, <2>4, RefreshStep
<1>3. CASE Timer5000
  <2>1. PICK R : api' = [p \in Players |->
                 IF ~IsSpectate(p) THEN api[p]
                 ELSE [api[p] EXCEPT !.health = "inf",
                         !.view = IF p \in R THEN View(api, sp[p].target)
                                  ELSE @]]
    BY <1>3 DEF Timer5000
  <2>2. \A w \in Players : /\ api'[w].state = api[w].state
                           /\ \/ api'[w].view = api[w].view
                              \/ api'[w].view = View(api, sp[w].target)
    BY <1>1, <2>1 DEF ApiRec
  <2>3. \A w \in Players : View(api, sp[w].target) = View(api', sp[w].target)
    BY <1>1, <2>2, ViewSame
  <2>4. sp' = sp /\ pl' = pl
    BY <1>3 DEF Timer5000
  <2> QED BY <1>1, <2>2, <2>3, <2>4, RefreshStep
<1> QED BY <1>2, <1>3

LEMMA ViewStep == IInv /\ ViewFollowsTarget /\ [Next]_vars => ViewFollowsTarget'
<1> SUFFICES ASSUME IInv, ViewFollowsTarget, [Next]_vars
             PROVE  ViewFollowsTarget'
  OBVIOUS
<1>1. ASSUME NEW p \in Players, Connect(p) PROVE ViewFollowsTarget'
  BY <1>1, ConnectView
<1>2. ASSUME NEW p \in Players, Disconnect(p) PROVE ViewFollowsTarget'
  BY <1>2, DisconnectView
<1>3. ASSUME NEW p \in Players,
             KeyStop(p) \/ \E isNext \in BOOLEAN : KeyShift(p, isNext)
      PROVE  ViewFollowsTarget'
  BY <1>3, KeysView
<1>4. ASSUME NEW p \in Players, NEW q \in Players, CmdSpectate(p, q)
      PROVE  ViewFollowsTarget'
  BY <1>4, CmdSpectateView
<1>5. ASSUME NEW p \in Players, PlayerSpawn(p) PROVE ViewFollowsTarget'
  BY <1>5, PlayerSpawnView
<1>6. ASSUME NEW p \in Players, NEW v \in ApiStates, StateChange(p, v)
      PROVE  ViewFollowsTarget'
  BY <1>6, StateChangeView
<1>7. ASSUME NEW p \in Players,
             \/ Suicide(p) \/ InteriorChange(p) \/ StreamOut(p) \/ Block(p)
             \/ \E q \in Players : MoneySend(p, q)
             \/ \E v \in ApiStates : StateChangeBlocked(p, v)
             \/ \E k \in Players \cup {None} : PlayerDeath(p, k)
             \/ \E explode \in BOOLEAN : Check(p, explode)
      PROVE  ViewFollowsTarget'
  BY <1>7, OthersView
<1>8. CASE Timer250 \/ Timer5000
  BY <1>8, TimersView
<1>9. CASE GamemodeExit
  BY <1>9, GamemodeExitView
<1>10. CASE UNCHANGED vars
  <2>1. \A w \in Players : ViewKept(w)
    BY <1>10 DEF vars, ViewKept
  <2> QED BY <2>1, ViewMoves
<1> QED
  BY <1>1, <1>2, <1>3, <1>4, <1>5, <1>6, <1>7, <1>8, <1>9, <1>10 DEF Next

\* A watcher's client is always told to follow the player he watches as that
\* player is now, unless the player is blocked.
THEOREM ClientsFollow == Spec => []ViewFollowsTarget
<1>1. Init => ViewFollowsTarget
  <2> SUFFICES ASSUME Init PROVE ViewFollowsTarget
    OBVIOUS
  <2>1. \A p \in Players : sp[p].target = None /\ api[p].view = None
    BY DEF Init, FreshSpectate, FreshApi
  <2> QED BY <2>1 DEF ViewFollowsTarget, IsSpectate
<1> QED BY <1>1, ViewStep, InductiveInvariant, PTL DEF Spec
-----------------------------------------------------------------------------
(* The circle of ids.                                                      *)

\* The player met first on the way round is only one.
LEMMA NearestIsOne ==
  ASSUME NEW S \in SUBSET Nat, NEW c \in Nat, NEW isNext \in BOOLEAN,
         NEW x \in S, NEW y \in S, x # c, y # c,
         Sooner(c, x, y, isNext), Sooner(c, y, x, isNext)
  PROVE  x = y
<1>1. x \in Nat /\ y \in Nat
  OBVIOUS
<1> QED BY <1>1 DEF Sooner

LEMMA ShiftBack ==
  ASSUME holder \subseteq Players, NEW w \in holder, NEW c \in holder \ {w},
         ShiftTo(w, c, TRUE) # None
  PROVE  ShiftTo(w, ShiftTo(w, c, TRUE), FALSE) = c
<1> DEFINE q     == ShiftTo(w, c, TRUE)
           ahead == {x \in holder \ {w, c} :
                       \A r \in holder \ {w, c} : Sooner(c, x, r, TRUE)}
<1>1. holder \in SUBSET Nat /\ c \in Nat /\ c # w
  BY SpectateAssumption
<1>2. q \in ahead
  <2>1. ahead # {} /\ q = CHOOSE x \in ahead : TRUE
    BY DEF ShiftTo
  <2> HIDE DEF q, ahead
  <2> QED BY <2>1
<1>3. /\ q \in holder \ {w, c} /\ q \in Nat
      /\ \A r \in holder \ {w, c} : Sooner(c, q, r, TRUE)
  BY <1>1, <1>2
<1> HIDE DEF q, ahead
<1> DEFINE behind == {x \in holder \ {w, q} :
                        \A r \in holder \ {w, q} : Sooner(q, x, r, FALSE)}
<1>4. ASSUME NEW r \in holder \ {w, q} PROVE Sooner(q, c, r, FALSE)
  <2>1. r \in Nat /\ (r = c \/ Sooner(c, q, r, TRUE))
    BY <1>1, <1>3
  <2> QED BY <1>1, <1>3, <2>1 DEF Sooner
<1>5. c \in behind
  BY <1>1, <1>3, <1>4
<1>6. \A x \in behind : x = c
  <2> SUFFICES ASSUME NEW x \in behind PROVE x = c
    OBVIOUS
  <2>1. /\ x \in holder /\ x # q /\ c # q
        /\ Sooner(q, x, c, FALSE) /\ Sooner(q, c, x, FALSE)
    BY <1>3, <1>4, <1>5
  <2> QED BY <1>1, <1>3, <2>1, NearestIsOne
<1>7. ShiftTo(w, q, FALSE) = CHOOSE x \in behind : TRUE
  BY <1>3, <1>5 DEF ShiftTo
<1> HIDE DEF behind
<1>8. (CHOOSE x \in behind : TRUE) = c
  BY <1>5, <1>6
<1> QED BY <1>7, <1>8 DEF q

\* The mouse buttons are each other's inverse and skip nobody, for any ids.
THEOREM ButtonsInverse == Spec => []ShiftsAreInverse
<1>1. IInv => ShiftsAreInverse
  <2> SUFFICES ASSUME IInv, NEW w \in holder, NEW c \in holder \ {w}
               PROVE  LET q == ShiftTo(w, c, TRUE)
                      IN  /\ q = None <=> holder = {w, c}
                          /\ q # None => ShiftTo(w, q, FALSE) = c
    BY DEF ShiftsAreInverse
  <2>1. holder \subseteq Players /\ None \notin holder
    BY SpectateAssumption DEF IInv, TypeOK
  <2>2. ShiftTo(w, c, TRUE) = None <=> holder = {w, c}
    <3>1. CASE holder = {w, c}
      BY <3>1, ShiftToLemma
    <3>2. CASE holder # {w, c}
      <4>1. holder \ {w, c} # {}
        BY <3>2
      <4> QED BY <2>1, <3>2, <4>1, ShiftFinds
    <3> QED BY <3>1, <3>2
  <2>3. ShiftTo(w, c, TRUE) # None => ShiftTo(w, ShiftTo(w, c, TRUE), FALSE) = c
    BY <2>1, ShiftBack
  <2> QED BY <2>2, <2>3
<1> QED BY <1>1, InductiveInvariant, PTL

-----------------------------------------------------------------------------
(* Who does not spectate again before his respawn is given back what is his. *)

\* The one way to leave the game is from the free-for-all context, and the one
\* way back leads there.
GameInv(w) ==
  /\ sp[w].context \in {None, "ffa"}
  /\ pl[w].waiting \in {None, "ffa"}
  /\ w \in holder /\ pl[w].active # "ffa" /\ sp[w].context = None
       => pl[w].waiting = "ffa"

\* The step GameContext allows a player, in terms of the phases.
Move(w) ==
  \/ Phase(w)' = "out" /\ Had(w)' = None
  \/ Phase(w) = "out" /\ Phase(w)' = "game" /\ Had(w)' = None
  \/ Phase(w) \in {"game", "given"} /\ Phase(w)' = "away" /\ Had(w)' = Has(w)
  \/ Phase(w) = "away" /\ Phase(w)' = "owed" /\ Had(w)' = Had(w)
  \/ /\ Phase(w) = "owed" /\ Phase(w)' = "given"
     /\ Has(w)' = Had(w) /\ Had(w)' = None
  \/ Phase(w) = "given" /\ Phase(w)' = "game" /\ Had(w)' = None
  \/ Phase(w)' = Phase(w) /\ Had(w)' = Had(w)

Moved(w) == GameInv(w)' /\ Move(w)

GInv == IInv /\ \A w \in Players : GameInv(w)

\* Nobody but who watches, or waits for the respawn after it, is endless.
LEMMA Mortal ==
  GInv => \A w \in Players : Phase(w) \notin {"away", "owed"}
                               => Has(w).health # "inf"
BY IInvIsPlayerInv, SpectateAssumption
   DEF GInv, PlayerInv, GameInv, Phase, Has, IsSpectate, FreshPlayer

\* A player whose contexts and snapshot a step leaves alone stays where he is.
LEMMA StayMove ==
  ASSUME NEW w \in Players, GameInv(w), w \in holder' <=> w \in holder,
         pl'[w].active = pl[w].active, pl'[w].waiting = pl[w].waiting,
         sp'[w] = sp[w]
  PROVE  Moved(w)
BY DEF Moved, Move, GameInv, Phase, Had, IsSpectate

\* A watcher who is turned to another player, or stops, keeps his snapshot.
LEMMA RetargetMove ==
  ASSUME IInv, NEW w \in Players, GameInv(w), IsSpectate(w),
         NEW q \in Players \cup {None}, w \in holder' <=> w \in holder,
         pl'[w] = pl[w], sp'[w] = Retarget(sp[w], q)
  PROVE  Moved(w)
<1>1. PlayerInv(w) /\ sp[w] \in SpectateRec
  BY IInvIsPlayerInv DEF TypeOK
<1>2. /\ sp'[w].target = q /\ (sp'[w].ending <=> q = None)
      /\ sp'[w].context = sp[w].context /\ sp'[w].health = sp[w].health
      /\ sp'[w].money = sp[w].money
  BY <1>1 DEF Retarget, SpectateRec
<1>3. /\ w \in holder /\ pl[w].active = "spectate" /\ Phase(w) = "away"
  BY <1>1 DEF PlayerInv, IsSpectate, Phase
<1>4. Had(w)' = Had(w) /\ GameInv(w)'
  BY <1>2 DEF Had, GameInv
<1>5. Phase(w)' = IF q = None THEN "owed" ELSE "away"
  BY <1>2, <1>3 DEF Phase, IsSpectate
<1> QED BY <1>3, <1>4, <1>5 DEF Moved, Move

\* A spawn gives the player who is owed it his state, and nobody else any.
LEMMA SpawnMove ==
  ASSUME IInv, Next, NEW p \in Players, p \in holder, SpawnItems(p),
         UNCHANGED holder, NEW w \in Players, GameInv(w)
  PROVE  Moved(w)
<1>1. /\ sp \in [Players -> SpectateRec] /\ pl \in [Players -> PlayerRec]
      /\ PlayerInv(w)
  BY IInvIsPlayerInv DEF TypeOK
<1>2. /\ pl' = [pl EXCEPT ![p] = SpawnedPlayer(p)]
      /\ sp' = [sp EXCEPT ![p] = SpawnedSpectate(p)]
  BY DEF SpawnItems
<1>3. CASE w # p
  BY <1>1, <1>2, <1>3, StayMove
<1>4. CASE w = p /\ ~Restores(p)
  <2>1. sp'[w] = sp[w] /\ pl'[w] = [pl[w] EXCEPT !.state = "in_game"]
    BY <1>1, <1>2, <1>4 DEF SpawnedPlayer, SpawnedSpectate
  <2>2. pl'[w].active = pl[w].active /\ pl'[w].waiting = pl[w].waiting
    BY <1>1, <2>1 DEF PlayerRec
  <2> QED BY <2>1, <2>2, StayMove
<1>5. CASE w = p /\ Restores(p)
  <2>1. /\ sp[w].context = "ffa" /\ sp[w].target = None /\ sp[w].ending
        /\ pl[w].active = "spectate" /\ pl[w].waiting = None
    BY <1>1, <1>5, SpectateAssumption
       DEF PlayerInv, GameInv, Restores, IsSpectate
  <2>2. sp'[w] = FreshSpectate
    BY <1>1, <1>2, <1>5 DEF SpawnedSpectate
  <2>3. pl'[w].active = "spectate" /\ pl'[w].waiting = "ffa"
    BY <1>1, <1>2, <1>5, <2>1
       DEF SpawnedPlayer, ActivateAsync, ProcessWait, PlayerRec
  <2>4. Phase(w) = "owed" /\ Phase(w)' = "given"
    BY <1>5, <2>1, <2>2, <2>3, SpectateAssumption
       DEF Phase, IsSpectate, FreshSpectate
  <2>5. Had(w)' = None /\ GameInv(w)'
    BY <2>2, <2>3 DEF Had, GameInv, FreshSpectate
  <2>6. Has(w)' = Had(w)
    <3>1. Restored(w)
      BY <1>5, <2>1, <2>2, SpectateAssumption DEF Restored, FreshSpectate
    <3>2. api'[w].money = sp[w].money /\ api'[w].health = sp[w].health
      BY <3>1, RestoredBySpawn
    <3>3. Had(w) = [health |-> sp[w].health, money |-> sp[w].money]
      BY <2>1, SpectateAssumption DEF Had
    <3> QED BY <3>2, <3>3 DEF Has
  <2> QED BY <2>4, <2>5, <2>6 DEF Moved, Move
<1> QED BY <1>3, <1>4, <1>5

\* Whoever leaves the game to watch takes with him what he has.
LEMMA CmdSpectateMove ==
  ASSUME IInv, NEW p \in Players, NEW q \in Players, CmdSpectate(p, q),
         ~sp[p].ending, NEW w \in Players, GameInv(w)
  PROVE  Moved(w)
<1>1. /\ sp \in [Players -> SpectateRec] /\ pl \in [Players -> PlayerRec]
      /\ PlayerInv(p)
  BY IInvIsPlayerInv DEF TypeOK
<1>2. p \in holder /\ q # None /\ UNCHANGED holder
  BY SpectateAssumption DEF CmdSpectate
<1>3. CASE IsSpectate(p)
  <2>1. sp' = [sp EXCEPT ![p] = Retarget(@, q)] /\ UNCHANGED pl
    BY <1>3 DEF CmdSpectate
  <2>2. CASE w = p
    BY <1>1, <1>2, <1>3, <2>1, <2>2, RetargetMove
  <2>3. CASE w # p
    BY <1>1, <1>2, <2>1, <2>3, StayMove
  <2> QED BY <2>2, <2>3
<1>4. CASE ~IsSpectate(p)
  <2> DEFINE r == ProcessWait(pl[p])
             s == [target |-> q, ending |-> FALSE, context |-> r.active,
                   health |-> api[p].health, money |-> api[p].money]
  <2>1. /\ pl' = [pl EXCEPT ![p] = Activate(r, "spectate")]
        /\ sp' = [sp EXCEPT ![p] = s]
    BY <1>4 DEF CmdSpectate
  <2>2. CASE w # p
    BY <1>1, <1>2, <2>1, <2>2, StayMove
  <2>3. CASE w = p
    <3>1. sp[p].context = None /\ sp[p].target = None /\ sp[p].ending = FALSE
      BY <1>1, <1>4 DEF PlayerInv, IsSpectate, SpectateRec
    <3>2. Phase(w) \in {"game", "given"}
      BY <1>2, <2>3, <3>1 DEF Phase, GameInv, IsSpectate
    <3>3. Consistent(pl[p])
      BY <1>1, <1>2, SpectateAssumption DEF PlayerInv, Consistent, Contexts
    <3>4. /\ r \in PlayerRec /\ Consistent(r) /\ r.waiting = None
          /\ r.active = "ffa"
      <4>1. /\ r \in PlayerRec /\ Consistent(r) /\ r.waiting = None
            /\ r.active = IF pl[p].waiting = None THEN pl[p].active
                          ELSE pl[p].waiting
        BY <1>1, <3>3, ProcessWaitLemma
      <4>2. pl[p].waiting = None => pl[p].active = "ffa"
        BY <1>2, <2>3, <3>1, SpectateAssumption DEF GameInv
      <4> QED BY <2>3, <4>1, <4>2 DEF GameInv
    <3>5. pl'[p].active = "spectate" /\ pl'[p].waiting = None
      BY <1>1, <2>1, <3>4, ActivateLemma DEF Contexts
    <3>6. sp'[p] = s
      BY <1>1, <2>1
    <3>7. /\ sp'[p].target = q /\ sp'[p].context = "ffa"
          /\ sp'[p].health = api[p].health /\ sp'[p].money = api[p].money
      BY <3>4, <3>6
    <3>8. Phase(w)' = "away"
      BY <1>2, <2>3, <3>5, <3>7 DEF Phase, IsSpectate
    <3>9. Had(w)' = Has(w) /\ GameInv(w)'
      BY <2>3, <3>5, <3>7, SpectateAssumption DEF Had, Has, GameInv
    <3> QED BY <3>2, <3>8, <3>9 DEF Moved, Move
  <2> QED BY <2>2, <2>3
<1> QED BY <1>3, <1>4

\* The timer takes those who were given back their state into the game.
LEMMA Timer250Move ==
  ASSUME IInv, Timer250, NEW w \in Players, GameInv(w)
  PROVE  Moved(w)
<1>1. /\ pl[w] \in PlayerRec /\ sp[w] \in SpectateRec /\ PlayerInv(w)
      /\ UNCHANGED holder
      /\ pl'[w] = ProcessWait(pl[w])
      /\ sp'[w] = GcFini(sp[w], pl[w], ProcessWait(pl[w]))
  BY IInvIsPlayerInv DEF TypeOK, Timer250
<1>2. CASE pl[w].waiting = None
  BY <1>1, <1>2, StayMove DEF ProcessWait, GcFini
<1>3. CASE pl[w].waiting # None
  <2>1. /\ w \in holder /\ pl[w].active = "spectate" /\ pl[w].waiting = "ffa"
        /\ sp[w].target = None /\ sp[w].context = None /\ ~sp[w].ending
    BY <1>1, <1>3 DEF PlayerInv, GameInv
  <2>2. Consistent(pl[w])
    BY <1>1, <2>1, SpectateAssumption DEF PlayerInv, Consistent
  <2>3. pl'[w].active = "ffa" /\ pl'[w].waiting = None
    BY <1>1, <1>3, <2>1, <2>2, ProcessWaitLemma
  <2>4. sp'[w].context = None
    BY <1>1, <2>1 DEF GcFini, SpectateRec
  <2>5. Phase(w) = "given" /\ Phase(w)' = "game"
    BY <1>1, <2>1, <2>3 DEF Phase, IsSpectate
  <2>6. Had(w)' = None /\ GameInv(w)'
    BY <2>3, <2>4 DEF Had, GameInv
  <2> QED BY <2>5, <2>6 DEF Moved, Move
<1> QED BY <1>2, <1>3

\* Who connects enters the game; he holds no snapshot yet.
LEMMA ConnectMove ==
  ASSUME IInv, NEW p \in Players, Connect(p), NEW w \in Players, GameInv(w)
  PROVE  Moved(w)
<1>1. /\ pl \in [Players -> PlayerRec] /\ PlayerInv(p)
      /\ p \notin holder /\ holder' = holder \cup {p} /\ sp' = sp
      /\ pl' = [pl EXCEPT ![p] = Activate(FreshPlayer, "ffa")]
  BY IInvIsPlayerInv DEF TypeOK, Connect
<1>2. CASE w # p
  BY <1>1, <1>2, StayMove
<1>3. CASE w = p
  <2>1. FreshPlayer \in PlayerRec /\ Consistent(FreshPlayer)
    BY FreshLemma DEF FreshPlayer, Consistent
  <2>2. pl'[p].active = "ffa" /\ pl'[p].waiting = None
    BY <1>1, <2>1, ActivateLemma DEF FreshPlayer, Contexts
  <2>3. sp[p].context = None
    BY <1>1, SpectateAssumption DEF PlayerInv, FreshPlayer
  <2>4. Phase(w) = "out" /\ Phase(w)' = "game"
    BY <1>1, <1>3, <2>2 DEF Phase
  <2>5. Had(w)' = None /\ GameInv(w)'
    BY <1>1, <1>3, <2>2, <2>3 DEF Had, GameInv
  <2> QED BY <2>4, <2>5 DEF Moved, Move
<1> QED BY <1>2, <1>3

\* Who leaves the server takes nothing with him; those who watched him stay
\* away or stop.
LEMMA DisconnectMove ==
  ASSUME IInv, NEW p \in Players, Disconnect(p), NEW w \in Players, GameInv(w)
  PROVE  Moved(w)
<1> DEFINE q == ShiftTo(w, p, TRUE)
<1>1. /\ pl \in [Players -> PlayerRec] /\ holder \subseteq Players
  BY DEF IInv, TypeOK
<1>2. /\ holder' = holder \ {p} /\ pl' = [pl EXCEPT ![p] = FreshPlayer]
      /\ sp'[w] = CASE w = p -> FreshSpectate
                    [] Watches(w, p) /\ w # p -> Retarget(sp[w], q)
                    [] OTHER -> sp[w]
  BY DEF Disconnect
<1>3. q \in Players \cup {None}
  BY <1>1, ShiftToLemma
<1> HIDE DEF q
<1>4. CASE w = p
  <2>1. sp'[w] = FreshSpectate /\ pl'[w] = FreshPlayer /\ w \notin holder'
    BY <1>1, <1>2, <1>4
  <2> QED BY <2>1
          DEF Moved, Move, Phase, Had, GameInv, FreshSpectate, FreshPlayer
<1>5. CASE w # p /\ Watches(w, p)
  <2>1. sp'[w] = Retarget(sp[w], q) /\ pl'[w] = pl[w] /\ IsSpectate(w)
    BY <1>1, <1>2, <1>5, SpectateAssumption DEF Watches, IsSpectate
  <2> QED BY <1>2, <1>3, <1>5, <2>1, RetargetMove
<1>6. CASE w # p /\ ~Watches(w, p)
  <2>1. sp'[w] = sp[w] /\ pl'[w] = pl[w]
    BY <1>1, <1>2, <1>6
  <2> QED BY <1>2, <1>6, <2>1, StayMove
<1> QED BY <1>4, <1>5, <1>6

\* Every step, or none, is one GameContext allows, for every player.
LEMMA MoveStep ==
  ASSUME IInv, \A w \in Players : GameInv(w), [Next /\ NoSecondSave]_vars,
         NEW w \in Players
  PROVE  Moved(w)
<1>1. /\ pl \in [Players -> PlayerRec] /\ sp \in [Players -> SpectateRec]
      /\ GameInv(w)
  BY DEF IInv, TypeOK
<1> USE <1>1
<1>s. ASSUME holder' = holder, pl' = pl, sp' = sp PROVE Moved(w)
  BY <1>s, StayMove
<1>2. CASE UNCHANGED vars
  BY <1>2, <1>s DEF vars
<1>3. CASE GamemodeExit
  BY <1>3 DEF GamemodeExit, Moved, Move, Phase, Had, GameInv, FreshSpectate,
              FreshPlayer
<1>4. CASE Timer250
  BY <1>4, Timer250Move
<1>5. CASE Timer5000
  BY <1>5, <1>s DEF Timer5000
<1>6. ASSUME NEW p \in Players, Connect(p) \/ Disconnect(p) PROVE Moved(w)
  BY <1>6, ConnectMove, DisconnectMove
<1>7. ASSUME NEW p \in Players, IsSpectate(p), UNCHANGED <<holder, pl>>,
             NEW q \in Players \cup {None},
             sp' = [sp EXCEPT ![p] = Retarget(@, q)]
      PROVE  Moved(w)
  <2>1. CASE w = p
    BY <1>7, <2>1, RetargetMove
  <2>2. CASE w # p
    BY <1>7, <2>2, StayMove
  <2> QED BY <2>1, <2>2
<1>8. ASSUME NEW p \in Players, KeyStop(p) PROVE Moved(w)
  BY <1>7, <1>8 DEF KeyStop
<1>9. ASSUME NEW p \in Players, NEW isNext \in BOOLEAN, KeyShift(p, isNext)
      PROVE  Moved(w)
  <2> DEFINE q == ShiftTo(p, sp[p].target, isNext)
  <2>1. q \in Players \cup {None}
    BY ShiftToLemma DEF IInv, TypeOK
  <2>2. /\ IsSpectate(p) /\ UNCHANGED <<holder, pl>>
        /\ sp' = [sp EXCEPT ![p] = Retarget(@, q)]
    BY <1>9 DEF KeyShift
  <2> HIDE DEF q
  <2> QED BY <1>7, <2>1, <2>2
<1>10. ASSUME NEW p \in Players, NEW q \in Players, CmdSpectate(p, q),
              NoSecondSave
       PROVE  Moved(w)
  BY <1>10, CmdSpectateMove DEF NoSecondSave
<1>11. ASSUME Next, NEW p \in Players, PlayerSpawn(p) PROVE Moved(w)
  BY <1>11, SpawnMove DEF PlayerSpawn
<1>12. ASSUME Next, NEW p \in Players, NEW v \in ApiStates, StateChange(p, v)
       PROVE  Moved(w)
  <2>1. CASE v = "onfoot" /\ pl[p].state # "in_game"
    BY <1>12, <2>1, SpawnMove DEF StateChange
  <2>2. CASE ~(v = "onfoot" /\ pl[p].state # "in_game")
    BY <1>12, <1>s, <2>2 DEF StateChange
  <2> QED BY <2>1, <2>2
<1>13. ASSUME NEW p \in Players, NEW k \in Players \cup {None}, PlayerDeath(p, k)
       PROVE  Moved(w)
  <2>1. /\ holder' = holder /\ sp' = sp
        /\ pl'[w].active = pl[w].active /\ pl'[w].waiting = pl[w].waiting
    BY <1>13 DEF PlayerDeath, PlayerRec
  <2> QED BY <2>1, StayMove
<1>14. ASSUME NEW p \in Players, Block(p) PROVE Moved(w)
  <2>1. /\ holder' = holder /\ sp' = sp
        /\ pl'[w].active = pl[w].active /\ pl'[w].waiting = pl[w].waiting
    BY <1>14 DEF Block, PlayerRec
  <2> QED BY <2>1, StayMove
<1>15. ASSUME NEW c \in Players,
              \/ Suicide(c) \/ InteriorChange(c) \/ StreamOut(c)
              \/ \E q \in Players : MoneySend(c, q)
              \/ \E v \in ApiStates : StateChangeBlocked(c, v)
              \/ \E explode \in BOOLEAN : Check(c, explode)
       PROVE  Moved(w)
  BY <1>s, <1>15
     DEF Suicide, InteriorChange, StreamOut, MoneySend, StateChangeBlocked, Check
<1> QED
  BY <1>2, <1>3, <1>4, <1>5, <1>6, <1>8, <1>9, <1>10, <1>11, <1>12, <1>13,
     <1>14, <1>15 DEF Next

\* The moves of all players, none of whom comes back endless, are a step of
\* GameContext.
LEMMA MovesAreAStep ==
  ASSUME \A w \in Players : Move(w),
         \A w \in Players : Phase(w)' \notin {"away", "owed"}
                              => Has(w)'.health # "inf"
  PROVE  G!Next
BY DEF Move, G!Next, G!Enter, G!Leave, G!GoAway, G!Stop, G!GiveBack, G!Settle,
       G!Stay, G!From

\* What a step does to all players where nobody saves his state twice.
LEMMA GameStep ==
  ASSUME GInv, [Next /\ NoSecondSave]_vars
  PROVE  /\ GInv'
         /\ \A w \in Players : Move(w)
         /\ \A w \in Players : Phase(w)' \notin {"away", "owed"}
                                 => Has(w)'.health # "inf"
<1>1. \A w \in Players : Moved(w)
  BY MoveStep DEF GInv
<1>2. IInv' /\ GInv'
  BY <1>1, NextStep DEF GInv, Moved
<1>3. (GInv => \A w \in Players : Phase(w) \notin {"away", "owed"}
                                   => Has(w).health # "inf")'
  BY Mortal, PTL
<1> QED BY <1>1, <1>2, <1>3 DEF Moved

\* In the empty server nobody has left anything behind.
LEMMA InitGInv == Init => GInv
<1>1. Init => \A w \in Players : GameInv(w)
  BY DEF Init, GameInv, FreshSpectate, FreshPlayer
<1> QED BY <1>1, InitIInv DEF GInv

\* Where nobody starts to watch again before his respawn, a player who watched
\* is given back exactly the health and the money he left the game with, and
\* nobody enters the game with a watcher's endless health (state_save and
\* state_load against do_spectate, on_spawn and the timer).
THEOREM StateIsGivenBack == Spec /\ [][NoSecondSave]_vars => GamePromise
<1>1. Init => G!Init
  BY SpectateAssumption
     DEF Init, G!Init, Phase, Had, Has, FreshSpectate, FreshApi
<1>2. GInv /\ [Next /\ NoSecondSave]_vars => [G!Next]_(G!vars)
  BY GameStep, MovesAreAStep
<1>3. GInv /\ [Next /\ NoSecondSave]_vars => GInv'
  BY GameStep
<1>4. [Next]_vars /\ [NoSecondSave]_vars => [Next /\ NoSecondSave]_vars
  OBVIOUS
<1> QED BY <1>1, <1>2, <1>3, <1>4, InitGInv, PTL DEF Spec, GamePromise, G!Spec

\* Saving the state twice is the only way to lose it: without it the comment
\* of state_save holds, see RestoresOwnState.
THEOREM OnlySecondSaveLoses == Spec /\ [][NoSecondSave]_vars => RestoresOwnState
<1> DEFINE R == \A p \in Players : Restored(p) =>
                  pl'[p].waiting = "ffa" /\ api'[p].health # "inf"
<1>1. GInv /\ [Next /\ NoSecondSave]_vars => [R]_vars
  <2> SUFFICES ASSUME GInv, [Next /\ NoSecondSave]_vars,
                      NEW p \in Players, Restored(p)
               PROVE  pl'[p].waiting = "ffa" /\ api'[p].health # "inf"
    OBVIOUS
  <2>1. /\ GInv' /\ Move(p)
        /\ Phase(p)' \notin {"away", "owed"} => Has(p)'.health # "inf"
    BY GameStep
  <2>2. PlayerInv(p) /\ PlayerInv(p)'
    <3>1. (IInv => \A w \in Players : PlayerInv(w))'
      BY IInvIsPlayerInv, PTL
    <3> QED BY <2>1, <3>1, IInvIsPlayerInv DEF GInv
  <2>3. Phase(p) \in {"away", "owed"}
    BY <2>2, SpectateAssumption
       DEF Restored, PlayerInv, Phase, IsSpectate, FreshPlayer
  <2>4. Phase(p)' \notin {"away", "owed", "out"}
    BY <2>2 DEF Restored, PlayerInv, Phase, IsSpectate
  <2>5. Phase(p)' = "given"
    BY <2>1, <2>3, <2>4 DEF Move
  <2>6. pl'[p].waiting = "ffa"
    BY <2>5 DEF Phase
  <2> QED BY <2>1, <2>4, <2>6 DEF Has
<1>2. GInv /\ [Next /\ NoSecondSave]_vars => GInv'
  BY GameStep
<1>3. [Next]_vars /\ [NoSecondSave]_vars => [Next /\ NoSecondSave]_vars
  OBVIOUS
<1> QED BY <1>1, <1>2, <1>3, InitGInv, PTL DEF Spec, RestoresOwnState
=============================================================================
