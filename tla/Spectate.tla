------------------------------ MODULE Spectate ------------------------------
(***************************************************************************)
(* The life of a player between game contexts: the players registry        *)
(* (core/players.cpp), the context switch of class player                  *)
(* (core/player/player.cpp), the free-for-all context                      *)
(* (player_free_for_all.cpp), spectating (player_spectate.cpp) and the     *)
(* accounting of deaths (player_health.cpp).                               *)
(*                                                                         *)
(* Every handler runs on the server's main thread, so one handler is one   *)
(* step; the order of the handlers is the clients' choice.  A record       *)
(* variable is one C++ object per player, its fields are the members.      *)
(* Money is kept as where it comes from, health as dead, ordinary or       *)
(* without end (FLT_MAX), which is all the properties tell apart.          *)
(***************************************************************************)
EXTENDS Naturals

CONSTANTS
  Players,    \* ids of the server's slots; players_holder is ordered by id
  Admins,     \* players who may run /spectate and /check
  Cheaters,   \* players whom an anti-cheat check may block
  Fighters,   \* players who die, are checked and send money
  Drivers,    \* players who change their state (on foot, vehicle, other)
  None,       \* the empty pointer
  FfaFirst    \* does the free-for-all item precede the spectate item in the
              \* player's container (link order of REGISTER_IN_APPLICATION)

ASSUME SpectateAssumption ==
  /\ Players \subseteq Nat
  /\ Admins \subseteq Players
  /\ Cheaters \subseteq Players
  /\ Fighters \subseteq Players
  /\ Drivers \subseteq Players
  /\ None \notin Players /\ None \notin {"ffa", "spectate"}
  /\ FfaFirst \in BOOLEAN

VARIABLES
  holder,   \* players::players_holder, the ids of the known players
  pl,       \* class player
  sp,       \* class player_spectate_item
  hp,       \* class player_health_item
  api       \* what the SA-MP server keeps about the slot

vars == <<holder, pl, sp, hp, api>>

Contexts     == {"ffa", "spectate"}
PlayerStates == {"not_conected", "not_spawn", "in_game"}
ApiStates    == {"none", "onfoot", "vehicle"}
Healths      == {"zero", "normal", "inf"}
Moneys       == {"zero", "spawn", "earned"}
Views        == {None} \cup [player : Players, vehicle : BOOLEAN]

PlayerRec == [blocked : BOOLEAN, state : PlayerStates,
              active : Contexts \cup {None}, waiting : Contexts \cup {None},
              gcOn : SUBSET Contexts]
SpectateRec == [target : Players \cup {None}, ending : BOOLEAN,
                context : Contexts \cup {None}, health : Healths,
                money : Moneys]
HealthRec == [spawned : BOOLEAN, byScript : BOOLEAN]
ApiRec == [state : ApiStates, health : Healths, money : Moneys, view : Views]

FreshPlayer   == [blocked |-> FALSE, state |-> "not_conected",
                  active |-> None, waiting |-> None, gcOn |-> {}]
FreshSpectate == [target |-> None, ending |-> FALSE, context |-> None,
                  health |-> "zero", money |-> "zero"]
FreshHealth   == [spawned |-> FALSE, byScript |-> FALSE]
FreshApi      == [state |-> "none", health |-> "zero", money |-> "zero",
                  view |-> None]

Init ==
  /\ holder = {}
  /\ pl  = [p \in Players |-> FreshPlayer]
  /\ sp  = [p \in Players |-> FreshSpectate]
  /\ hp  = [p \in Players |-> FreshHealth]
  /\ api = [p \in Players |-> FreshApi]

-----------------------------------------------------------------------------
(* Game contexts: functions of the player's record.                        *)

\* Mutants of Activate: the old context keeps its flag; the flags are swapped.
ActivateKeepsFlag(r, c) ==
  IF c = r.active THEN r ELSE [r EXCEPT !.active = c, !.gcOn = @ \cup {c}]
ActivateSwapsFlags(r, c) ==
  IF c = r.active THEN r
  ELSE [r EXCEPT !.active = c, !.gcOn = (@ \ {c}) \cup {r.active}]

\* game_context_activate_impl: the flag moves with the pointer.
Activate(r, c) ==
  IF c = r.active THEN r
  ELSE [r EXCEPT !.active = c, !.gcOn = (@ \ {r.active}) \cup {c}]

\* Mutant of ProcessWait: the waiting pointer is not reset.
ProcessWaitKeeps(r) ==
  IF r.waiting = None THEN r ELSE Activate(r, r.waiting)

\* game_context_process_wait
ProcessWait(r) ==
  IF r.waiting = None THEN r
  ELSE [Activate(r, r.waiting) EXCEPT !.waiting = None]

\* Mutants of ActivateAsync: the switch happens at once; it is forgotten.
ActivateAtOnce(r, c) == Activate(ProcessWait(r), c)
ActivateNever(r, c) == ProcessWait(r)

\* game_context_activate_async: what waited before is settled first.
ActivateAsync(r, c) == [ProcessWait(r) EXCEPT !.waiting = c]

\* player_spectate_item::on_gc_fini, run when spectating stops being active.
GcFini(s, before, after) ==
  IF before.active = "spectate" /\ after.active # "spectate"
  THEN [s EXCEPT !.ending = FALSE]
  ELSE s

-----------------------------------------------------------------------------
(* Spectating.                                                             *)

Watches(p, q) == sp[p].target = q        \* is_spectate_to, for q # None
IsSpectate(p) == sp[p].target # None     \* is_spectate

\* player::spectate_do: the client is told to follow q, or q's vehicle.
View(a, q) == IF q = None THEN None
              ELSE [player |-> q, vehicle |-> a[q].state = "vehicle"]

\* Mutant of Sooner: walking back does not wrap round the first player.
SoonerNoWrap(c, q, r, isNext) ==
  IF isNext THEN IF (q > c) <=> (r > c) THEN q <= r ELSE q > c
  ELSE r <= q

\* shift_it: is q met no later than r, walking the id order round from c?
Sooner(c, q, r, isNext) ==
  IF isNext
  THEN IF (q > c) <=> (r > c) THEN q <= r ELSE q > c
  ELSE IF (q < c) <=> (r < c) THEN r <= q ELSE q < c

\* Mutant of ShiftTo: the circle does not stop at the player it started from.
ShiftToSame(w, c, isNext) ==
  LET others  == holder \ {w}
      nearest == {q \in others : \A r \in others : Sooner(c, q, r, isNext)}
  IN  IF c \notin holder \/ nearest = {} THEN None
      ELSE CHOOSE q \in nearest : TRUE

\* do_shift: the player w turns to from c, None when there is nobody else.
ShiftTo(w, c, isNext) ==
  LET others  == holder \ {w, c}
      nearest == {q \in others : \A r \in others : Sooner(c, q, r, isNext)}
  IN  IF c \notin holder \/ nearest = {} THEN None
      ELSE CHOOSE q \in nearest : TRUE

\* do_spectate of a watcher who already watches somebody, or do_stop_spec
\* when q is None.
Retarget(s, q) == [s EXCEPT !.target = q, !.ending = (q = None)]
RetargetApi(x, q) ==
  [x EXCEPT !.view = View(api, q), !.health = IF q = None THEN @ ELSE "inf"]

-----------------------------------------------------------------------------
(* on_player_connect; a rejected player leaves no trace but the kick.      *)
Connect(p) ==
  /\ p \notin holder
  /\ holder' = holder \cup {p}
  /\ pl' = [pl EXCEPT ![p] = Activate(FreshPlayer, "ffa")]
  /\ UNCHANGED <<sp, hp, api>>

\* on_player_disconnect: the items of the leaving player go first, then those
\* who watch him turn to somebody else, then he is erased.
Disconnect(p) ==
  /\ p \in holder
  /\ holder' = holder \ {p}
  /\ pl' = [pl EXCEPT ![p] = FreshPlayer]
  /\ hp' = [hp EXCEPT ![p] = FreshHealth]
  /\ sp' = [w \in Players |->
              CASE w = p        -> FreshSpectate
                [] Watches(w, p) /\ w # p -> Retarget(sp[w], ShiftTo(w, p, TRUE))
                [] OTHER        -> sp[w]]
  /\ api' = [w \in Players |->
               CASE w = p        -> FreshApi
                 [] Watches(w, p) /\ w # p ->
                      RetargetApi(api[w], ShiftTo(w, p, TRUE))
                 [] OTHER        -> api[w]]

\* on_post_gamemode_exit disconnects everybody.
GamemodeExit ==
  /\ holder # {}
  /\ holder' = {}
  /\ pl'  = [p \in Players |-> FreshPlayer]
  /\ sp'  = [p \in Players |-> FreshSpectate]
  /\ hp'  = [p \in Players |-> FreshHealth]
  /\ api' = [p \in Players |-> FreshApi]

\* cmd_spectate and on_click_player, then do_spectate.  The first target
\* makes the item save the player's state (state_save).
CmdSpectate(p, q) ==
  /\ p \in holder \cap Admins
  /\ q \in holder \ {p}
  /\ api[p].state # "vehicle"
  /\ IF IsSpectate(p)
     THEN /\ sp' = [sp EXCEPT ![p] = Retarget(@, q)]
          /\ api' = [api EXCEPT ![p].view = View(api, q),
                       ![p].health = IF q = sp[p].target THEN @ ELSE "inf"]
          /\ UNCHANGED pl
     ELSE LET r == ProcessWait(pl[p])
          IN  /\ pl' = [pl EXCEPT ![p] = Activate(r, "spectate")]
              /\ sp' = [sp EXCEPT ![p] =
                          [target |-> q, ending |-> FALSE,
                           context |-> r.active, health |-> api[p].health,
                           money |-> api[p].money]]
              /\ api' = [api EXCEPT ![p] = RetargetApi(@, q)]
  /\ UNCHANGED <<holder, hp>>

\* on_keystate_change: F ends the spectating, the mouse buttons shift it.
KeyStop(p) ==
  /\ IsSpectate(p)
  /\ sp' = [sp EXCEPT ![p] = Retarget(@, None)]
  /\ api' = [api EXCEPT ![p] = RetargetApi(@, None)]
  /\ UNCHANGED <<holder, pl, hp>>

KeyShift(p, isNext) ==
  /\ IsSpectate(p)
  /\ LET q == ShiftTo(p, sp[p].target, isNext)
     IN  /\ sp' = [sp EXCEPT ![p] = Retarget(@, q)]
         /\ api' = [api EXCEPT ![p] = RetargetApi(@, q)]
  /\ UNCHANGED <<holder, pl, hp>>

-----------------------------------------------------------------------------
(* Spawns, state changes and deaths.                                       *)

\* The branch of player_spectate_item::on_spawn that runs state_load.
Restores(p) == /\ "spectate" \in pl[p].gcOn
               /\ sp[p].context # None
               /\ ~IsSpectate(p)

\* Mutants of the operators below: the state is not set on the restoring path;
\* is_ending is not cleared.
SpawnedPlayerNoState(p) ==
  IF Restores(p) THEN ActivateAsync(pl[p], sp[p].context)
  ELSE [pl[p] EXCEPT !.state = "in_game"]
SpawnedSpectateKeepsEnding(p) ==
  IF Restores(p) THEN [FreshSpectate EXCEPT !.ending = sp[p].ending] ELSE sp[p]

\* What the on_spawn handlers leave in each object.  The snapshot is dead
\* after state_load, the model clears it.
SpawnedPlayer(p) ==
  LET r == [pl[p] EXCEPT !.state = "in_game"]
  IN  IF Restores(p) THEN ActivateAsync(r, sp[p].context) ELSE r

SpawnedSpectate(p) == IF Restores(p) THEN FreshSpectate ELSE sp[p]

\* player_free_for_all_item::on_spawn runs if its flag is on at its turn.
FfaSpawns(p) ==
  "ffa" \in (IF FfaFirst THEN pl[p] ELSE SpawnedPlayer(p)).gcOn

\* Mutant of SpawnedApi: the saved health is not given back.
SpawnedApiKeepsHealth(p, h) ==
  [api[p] EXCEPT
     !.health = IF Restores(p) THEN @ ELSE h,
     !.money  = IF FfaSpawns(p) THEN "spawn"
                ELSE IF Restores(p) THEN sp[p].money ELSE @,
     !.view   = View(api, sp[p].target)]

\* h is the health the client spawns with.
SpawnedApi(p, h) ==
  [api[p] EXCEPT
     !.health = IF Restores(p) THEN sp[p].health ELSE h,
     !.money  = IF FfaSpawns(p) /\ ~(FfaFirst /\ Restores(p)) THEN "spawn"
                ELSE IF Restores(p) THEN sp[p].money ELSE @,
     !.view   = View(api, sp[p].target)]

SpawnItems(p) ==
  /\ pl' = [pl EXCEPT ![p] = SpawnedPlayer(p)]
  /\ sp' = [sp EXCEPT ![p] = SpawnedSpectate(p)]
  /\ hp' = [hp EXCEPT ![p].spawned = TRUE]

\* on_player_spawn
PlayerSpawn(p) ==
  /\ p \in holder /\ ~pl[p].blocked
  /\ SpawnItems(p)
  /\ api' = [api EXCEPT ![p] = SpawnedApi(p, "normal")]
  /\ UNCHANGED holder

\* Mutant of Refreshed: the watchers are not refreshed.
RefreshedNobody(a, p) == a

\* The API's record of everybody once p moved to state v: those who watch p
\* are refreshed (refresh_spectate_by_dest).
Refreshed(a, p) ==
  [w \in Players |-> IF Watches(w, p) THEN [a[w] EXCEPT !.view = View(a, p)]
                     ELSE a[w]]

\* on_player_state_change: a player on foot who never spawned is spawned now.
StateChange(p, v) ==
  LET missed == v = "onfoot" /\ pl[p].state # "in_game"
      x == IF missed THEN SpawnedApi(p, api[p].health) ELSE api[p]
  IN  /\ p \in holder \cap Drivers /\ ~pl[p].blocked
      /\ v # api[p].state
      /\ IF missed THEN SpawnItems(p) ELSE UNCHANGED <<pl, sp, hp>>
      /\ api' = Refreshed([api EXCEPT ![p] = [x EXCEPT !.state = v]], p)
      /\ UNCHANGED holder

\* The same event for a blocked player: the handler returns at once.
StateChangeBlocked(p, v) ==
  /\ p \in holder \cap Drivers /\ pl[p].blocked
  /\ v # api[p].state
  /\ api' = [api EXCEPT ![p].state = v]
  /\ UNCHANGED <<holder, pl, sp, hp>>

\* player_health_item::on_death: deaths that count.
DeathCounts(p) == hp[p].spawned /\ ~IsSpectate(p)

\* on_player_death, k is the killer or None.  The killer gets the victim's
\* money (player_free_for_all_item::on_health_kill), then on_death_post
\* empties the victim's purse, whether the death counted or not.
PlayerDeath(p, k) ==
  /\ p \in holder \cap Fighters /\ ~pl[p].blocked
  /\ k \in holder \cup {None}
  /\ IF DeathCounts(p)
     THEN /\ hp' = [hp EXCEPT ![p] = FreshHealth]
          /\ pl' = [pl EXCEPT ![p].state = "not_spawn"]
     ELSE UNCHANGED <<hp, pl>>
  /\ LET paid == /\ DeathCounts(p) /\ ~hp[p].byScript
                 /\ k \notin {None, p} /\ api[p].money # "zero"
     IN  api' = [w \in Players |->
                   CASE w = p          -> [api[w] EXCEPT !.money = "zero"]
                     [] w = k /\ paid  -> [api[w] EXCEPT !.money = "earned"]
                     [] OTHER          -> api[w]]
  /\ UNCHANGED <<holder, sp>>

\* cmd_suicide
Suicide(p) ==
  /\ p \in holder \cap Fighters
  /\ hp' = [hp EXCEPT ![p].byScript = TRUE]
  /\ api' = [api EXCEPT ![p].health = "zero"]
  /\ UNCHANGED <<holder, pl, sp>>

\* cmd_check_impl on player q: an explosion first makes every watcher immune
\* (on_pre_explode).  Refusals by the counter or by preloading change nothing.
Check(q, explode) ==
  /\ q \in holder \cap Fighters /\ holder \cap Admins # {}
  /\ pl[q].state = "in_game" /\ ~IsSpectate(q)
  /\ \E h \in IF api[q].state = "vehicle" THEN {api[q].health}
              ELSE IF explode THEN {"normal"}
              ELSE IF api[q].health = "normal" THEN {"normal", "zero"}
              ELSE {api[q].health} :
       api' = [w \in Players |->
                 CASE w = q                      -> [api[w] EXCEPT !.health = h]
                   [] explode /\ IsSpectate(w) /\ w # q ->
                                           [api[w] EXCEPT !.health = "inf"]
                   [] OTHER                      -> api[w]]
  /\ UNCHANGED <<holder, pl, sp, hp>>

\* cmd_money_send from p to q.
MoneySend(p, q) ==
  /\ p \in holder \cap Fighters /\ q \in holder \ {p}
  /\ pl[q].state = "in_game"
  /\ api[p].money # "zero"
  /\ ~IsSpectate(p) /\ ~IsSpectate(q)
  /\ \E left \in {"zero", "earned"} :
       api' = [api EXCEPT ![p].money = left, ![q].money = "earned"]
  /\ UNCHANGED <<holder, pl, sp, hp>>

-----------------------------------------------------------------------------
(* Timers and the events that only refresh.                                *)

\* player::on_timer250 of every player.
Timer250 ==
  /\ pl' = [p \in Players |-> ProcessWait(pl[p])]
  /\ sp' = [p \in Players |-> GcFini(sp[p], pl[p], ProcessWait(pl[p]))]
  /\ UNCHANGED <<holder, hp, api>>

\* on_timer5000 of the spectate items: watchers standing at check_pos, any set
\* of them, are refreshed.
Timer5000 ==
  /\ \E R \in SUBSET {p \in holder : IsSpectate(p)} :
       api' = [p \in Players |->
                 IF ~IsSpectate(p) THEN api[p]
                 ELSE [api[p] EXCEPT !.health = "inf",
                         !.view = IF p \in R THEN View(api, sp[p].target)
                                  ELSE @]]
  /\ UNCHANGED <<holder, pl, sp, hp>>

\* on_interior_change of p: those who watch him are refreshed.
InteriorChange(p) ==
  /\ p \in holder
  /\ api' = Refreshed(api, p)
  /\ UNCHANGED <<holder, pl, sp, hp>>

\* on_player_stream_out of the watched player for the watcher p.
StreamOut(p) ==
  /\ IsSpectate(p)
  /\ api' = [api EXCEPT ![p].view = View(api, sp[p].target)]
  /\ UNCHANGED <<holder, pl, sp, hp>>

\* player::block, called by the anti-cheat checks.
Block(p) ==
  /\ p \in holder \cap Cheaters
  /\ ~pl[p].blocked
  /\ pl' = [pl EXCEPT ![p].blocked = TRUE]
  /\ UNCHANGED <<holder, sp, hp, api>>

-----------------------------------------------------------------------------
Next ==
  \/ \E p \in Players :
       \/ Connect(p) \/ Disconnect(p)
       \/ KeyStop(p)
       \/ \E isNext \in BOOLEAN : KeyShift(p, isNext)
       \/ \E q \in Players : CmdSpectate(p, q) \/ MoneySend(p, q)
       \/ PlayerSpawn(p)
       \/ \E v \in ApiStates : StateChange(p, v) \/ StateChangeBlocked(p, v)
       \/ \E k \in Players \cup {None} : PlayerDeath(p, k)
       \/ Suicide(p)
       \/ \E explode \in BOOLEAN : Check(p, explode)
       \/ InteriorChange(p) \/ StreamOut(p) \/ Block(p)
  \/ GamemodeExit
  \/ Timer250
  \/ Timer5000

Spec == Init /\ [][Next]_vars

\* The 250 ms timer keeps firing, and a client released from spectating does
\* spawn (the server answers toggle_player_spectating(false) with a spawn).
Respawn(p) == sp[p].ending /\ PlayerSpawn(p)
Fairness == WF_vars(Timer250) /\ \A p \in Players : WF_vars(Respawn(p))
FairSpec == Spec /\ Fairness

-----------------------------------------------------------------------------
(* Properties.                                                             *)

TypeOK ==
  /\ holder \subseteq Players
  /\ pl  \in [Players -> PlayerRec]
  /\ sp  \in [Players -> SpectateRec]
  /\ hp  \in [Players -> HealthRec]
  /\ api \in [Players -> ApiRec]

\* Exactly one game context of a known player is active, and it is the one
\* player::game_context_active_ptr points to: otherwise two contexts, or none,
\* would answer the next spawn.
OneActiveContext ==
  \A p \in Players :
    IF p \in holder
    THEN pl[p].active \in Contexts /\ pl[p].gcOn = {pl[p].active}
    ELSE pl[p] = FreshPlayer

\* Nobody watches himself or a player who left, in whatever order players
\* leave, shift and are shifted; and a watcher is in the spectate context with
\* a context to go back to.
WatchedIsConnected ==
  \A p \in Players : IsSpectate(p) =>
    /\ p \in holder /\ sp[p].target \in holder \ {p}
    /\ pl[p].active = "spectate" /\ pl[p].waiting = None
    /\ sp[p].context # None

\* is_spectate_ending, which exempts a player from the money and the on-foot
\* checks, covers exactly the time between the end of the spectating and the
\* respawn that gives the player's state back.
EndingUntilRestored ==
  \A p \in Players :
    sp[p].ending <=> (sp[p].context # None /\ ~IsSpectate(p))

\* A context switch is left to the timer only once the player's state was
\* given back, so the switch can not overtake the snapshot.
PendingSwitchAfterRestore ==
  \A p \in Players : pl[p].waiting # None =>
    /\ p \in holder
    /\ pl[p].active = "spectate" /\ ~IsSpectate(p) /\ sp[p].context = None

\* player_health_item::is_spawned and player::state, kept by different handlers
\* that each have their own early returns, never disagree.
LifeFlagsAgree ==
  \A p \in Players : hp[p].spawned <=> pl[p].state = "in_game"

\* The endless health handed to watchers never reaches a player whom the
\* free-for-all context owns or is about to own.
EndlessHealthOnlyInSpectate ==
  \A p \in Players : api[p].health = "inf" =>
    pl[p].active = "spectate" /\ pl[p].waiting # "ffa"

\* What makes the above inductive: a snapshot exists only under the spectate
\* context, and only one taken from the spectate context holds endless health.
SnapshotUnderSpectate ==
  \A p \in Players :
    /\ sp[p].context # None => pl[p].active = "spectate"
    /\ sp[p].health = "inf" => sp[p].context = "spectate"

IInv == /\ TypeOK
        /\ OneActiveContext
        /\ WatchedIsConnected
        /\ EndingUntilRestored
        /\ PendingSwitchAfterRestore
        /\ LifeFlagsAgree
        /\ EndlessHealthOnlyInSpectate
        /\ SnapshotUnderSpectate

\* The client of a watcher follows the player the item names, on foot or in
\* his vehicle as he is now.  A blocked player's moves are not dispatched.
ViewFollowsTarget ==
  \A p \in Players :
    /\ ~IsSpectate(p) => api[p].view = None
    /\ IsSpectate(p) /\ ~pl[sp[p].target].blocked
         => api[p].view = View(api, sp[p].target)

\* The left button takes a watcher back to where the right button took him
\* from: do_shift walks the same circle both ways and skips nobody.
ShiftsAreInverse ==
  \A w \in holder : \A c \in holder \ {w} :
    LET q == ShiftTo(w, c, TRUE)
    IN  /\ q = None <=> holder = {w, c}
        /\ q # None => ShiftTo(w, q, FALSE) = c

\* The step in which state_load gives p's state back.
Restored(p) == /\ p \in holder'
               /\ sp[p].context # None /\ sp'[p].context = None

\* One spawn is answered by one context: the step that gives the player's
\* money back does not also hand out the free-for-all spawn money, whichever
\* item comes first in the container.
OneContextPerSpawn ==
  [][\A p \in Players : Restored(p) =>
       /\ api'[p].money = sp[p].money
       /\ api'[p].health = sp[p].health]_vars

\* Spectating keeps the promise other items rely on: whoever watches somebody
\* who leaves is taken to another player in the same step, if there is one,
\* and nothing else but the watcher's own doing changes whom he watches.
W == INSTANCE Watching WITH NoOne <- None, present <- holder,
                            watch <- [p \in Players |-> sp[p].target]
WatchingPromise == W!Spec

\* A player who ended his spectating gets back to the context he came from
\* unless he leaves, is blocked, spectates again, or had saved the spectate
\* context itself.
ReturnsToGame ==
  \A p \in Players :
    (sp[p].ending /\ sp[p].context = "ffa") ~>
      \/ pl[p].active = "ffa" \/ p \notin holder \/ pl[p].blocked
      \/ IsSpectate(p)

\* What the comment of state_save promises: the respawn after spectating gives
\* the player his own state back, a context of the game and a mortal health.
RestoresOwnState ==
  [][\A p \in Players : Restored(p) =>
       pl'[p].waiting = "ffa" /\ api'[p].health # "inf"]_vars

\* The steps of a server where nobody starts to watch again before the respawn
\* gave him back what he is owed.  The code does not refuse that.
NoSecondSave ==
  \A p, q \in Players : CmdSpectate(p, q) => ~sp[p].ending

\* Where a player is on his way out of the game and back.
Phase(p) ==
  IF p \notin holder             THEN "out"
  ELSE IF pl[p].active = "ffa"   THEN "game"
  ELSE IF IsSpectate(p)          THEN "away"
  ELSE IF sp[p].ending           THEN "owed"
  ELSE IF pl[p].waiting = "ffa"  THEN "given"
  ELSE "lost"

\* The promise of state_save in full: what a player gets back is what he had
\* when he left the game.  Kept wherever NoSecondSave is.
Had(p) == IF sp[p].context = None THEN None
          ELSE [health |-> sp[p].health, money |-> sp[p].money]
Has(p) == [health |-> api[p].health, money |-> api[p].money]

G == INSTANCE GameContext WITH Nothing <- None, Endless <- "inf",
                               phase <- [p \in Players |-> Phase(p)],
                               had   <- [p \in Players |-> Had(p)],
                               has   <- [p \in Players |-> Has(p)]
GamePromise == G!Spec
=============================================================================
