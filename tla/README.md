# Freezone: a verification project

TLA+ models, model-checking runs and machine-checked proofs for the *Freezone* game mode, a C++
plugin for the SA-MP server (`src/src/cplusplus/freezone-samp/src`, below written without that
prefix) and the script of its bots (`src/src/pawn/npcmodes/freezone.pwn`).

Seven parts are modelled: the life of a player between game contexts (with spectating), the counter
of attempts and its time-outs, the guard that bans addresses, the taxi bots, the chat with its flood
control and mutes, the texts on players' screens with the panel and the preloading that show them, and
the things that lie in the world (objects, pickups, the weapons shop) with the streamer under them.

## 1. The system

### Parts, their state and their operations

| Part (files) | State | Operations | What makes it correct |
|---|---|---|---|
| application, containers (`core/application.cpp`, `core/container/*`) | items registered at load time; a cache of handlers for every event | walk the handlers of an event; add and remove items | every item sees every event once, in registration order, also while items come and go |
| registry of players (`core/players.cpp`) | `players_holder` by id | connect, disconnect, spawn, death, state change, timers; dispatch to the player's items | nobody is dispatched to before connecting or after leaving |
| `class player` (`core/player/player.cpp`, `core/game_context.hpp`) | state, `is_block`, active and waiting context | switch the context at once or from the 250 ms timer; block | one active context; a waiting switch is neither lost nor early |
| spectating (`player_spectate.cpp`) | target, `is_ending`, snapshot of the player's state | `/spectate`, keys, shift round the players, save, load | no dangling target; the snapshot comes back once; no endless health in the game |
| health, money, free-for-all (`player_health.cpp`, `player_money.cpp`, `player_free_for_all.cpp`) | life flags, money, kill bonus | spawn, death, `/suicide`, `/check`, `/money send` | a death counts once; one context answers a spawn |
| time-outs (`core/time_outs.hpp`) | two maps: key to item, time to key | insert, refresh, erase, sweep | an item exists until its time-out has passed, swept or not |
| attempt counter (`core/time_count_blocker.hpp`) | parameters, items, a copy of the interval | increase, is_blocked, sweep, set | a block has its cause; a flood is bounded; a quiet key is freed |
| server guard (`server_guard.cpp`) | bans, three counters, configuration flag and values | handlers of the network thread; timer; configuration | list, dropped packets and external rules agree; every ban ends |
| network hook (`core/samp/samp_hook_events*.cpp`) | set of blocked addresses, statistics | `recvfrom` and `sendto` of the server | a blocked address is dropped, another one never |
| external commands (`system_call.cpp`) | enabled or not | configure, call | no call is lost unnoticed |
| registry of bots (`core/npcs.cpp`, `core/npc.cpp`) | queue of bots to connect, connected bots, delayed kick | timer launches; connect, events, disconnect | a bot ends up with the place it was started for |
| taxi bots (`npc_taxi.cpp`) | routes, places, vehicles, `ready_count`, playback state | configure, connect, ready, start, playback, disconnect | places, bots and vehicles agree; a route starts complete; state follows the playback |
| bot script (`freezone.pwn`) | its recording | obey messages, send events | orders take effect in order |
| dynamic items (`core/dynamic_items.hpp`) | configured items with the keys they got | update_begin, update_get_data, update_end, delete events | what stays is kept, what goes is deleted once |
| streamer (`core/streamer.hpp`, `core/streamer_grid.hpp`) | items under keys that are given again, a grid | add, delete, search at one place or around several | a key stands for one thing; a search returns the nearest, up to the API's limit |
| objects, map icons, pickups (`objects.cpp`, `map_icons.cpp`, `pickups.cpp`) | what each client, or the world, shows under which key | configure, timers, delete events | nobody shows what a key stood for before; everybody sees what is near |
| weapons shop (`weapons.cpp`) | things for sale with a pickup each; the offer a player stands at | configure, 250 ms timer, look-behind key | key, nearness and text agree; an offer of something gone ends |
| chat (`player_chat.cpp`, `player_chat_automute_meaningless.cpp`) | two flood counters; mute, pending mute, ignore list, partner, group of each player | every way to speak, mute and unmute, ignore, groups, timers | mutes hold and end; no way round the flood control; nobody refers to a player who left |
| text draws (`text_draw.cpp`) | texts of several pages, the server's text draws, who sees which | show (for a time), hide, update, timer | no text draw is lost or shared; screens show what they should |
| panel, preloading, time stamp (`player_info.cpp`, `player_position.cpp`, `server.cpp`) | source of the panel; a frozen player and when he is freed | follow, timers, teleport, death | the panel reads somebody who is there; texts fit the state; a frozen player is unfrozen |
| commands, game pause, connections, names, authorization, pager, vehicles | per-player flags and timers | dispatch, sleep, wake, limit, page | not modelled, see 5 |
| configuration (`server_configuration.cpp`) | files, cached expressions | pre, configure, post over all parts | a reload leaves no part half configured |
| geo data base, logger, buffer, serialization, loaders, announcers, developer tools | none that matters here | I/O and text | not modelled |

### How they interact

SA-MP calls the plugin on its main thread, one callback at a time. `samp_api` passes the callback to
the containers of the application; `players` and `npcs` pass it on to the items of the player or the
bot concerned. An item may call other items on the spot (spectating calls the watchers of whoever
leaves), switch the game context of its player, or tell the client something over the SA-MP API and
get the answer as a callback much later, or not at all. A second thread enters through the hook of
`recvfrom`; it shares the bans, the counters and, unprotected, the configured values with the main
thread. Bots are processes of their own that talk to the server in ordered messages. A reconfiguration
runs *pre*, *configure* and *post* over all parts in the middle of everything else.

### What is hard about it

* Handlers of several items run for one event in an order the link order decides, each with its own
  early returns, and keep redundant flags that have to agree.
* What the server tells a client takes effect later; further commands and events arrive in between
  (ending a spectating takes a respawn and then a timer).
* Two threads and a reload meet in the guard, with three stores that are updated one after the other.
* Time-outs are looked at by several parties: a sweep that may come late or never, the handlers that
  meet an old item first, and a configuration that changes the interval under them.
* Bots connect seconds after they were asked for, when their route may be gone, may leave at any
  moment, and never acknowledge an order.
* Keys and text draws are given again as soon as they are free, while clients still show what they
  stood for and handlers still hold them.
* Many handlers must keep one rule between them (every way to speak counts its own attempt; whoever
  puts a text on a screen must take it off in every way the state can end).

`PROJECT.json` lists the hazards one by one, at their lines, with the properties that cover them.

## 2. Modules

| Module | Models | Composition |
|---|---|---|
| `Spectate` | registry of players, `class player`, game contexts, free-for-all, spectating, deaths, the source of money | one module, for one event runs through all of these parts |
| `TimeOuts` | `time_outs` and `time_count_blocker`, as operators on one item | used by the next two |
| `TimeCountBlocker` | one counter in use by its owner | extends `TimeOuts` |
| `BanList` | abstract: what the guard promises of a ban | implemented by `ServerGuard` |
| `ServerGuard` | guard, hook, block set, external calls, configuration rounds; two threads | extends `TimeOuts`, instantiates `BanList` |
| `Watching` | abstract: whom a watcher watches, and what happens when somebody leaves | implemented by `Spectate` |
| `GameContext` | abstract: what a player who leaves the game to watch is given back | implemented by `Spectate` while nobody saves twice |
| `NpcTaxi` | taxi bots, registry of bots, bot script, update of the configured routes | server and bots with their message queues |
| `TaxiService` | abstract: how a line of the timetable opens, waits, runs and closes | implemented by `NpcTaxi` |
| `PlayerChat` | chat, flood control, mutes, ignore lists, partners, groups | extends `TimeOuts` for the two flood counters |
| `TextDraw` | the server's text draws and the texts on them, as operators on one record | used by the next |
| `PlayerScreens` | keys of the spectating, panel, preloading and time stamp, as they show texts | extends `TextDraw` |
| `Streamer` | stores with keys that are given again, searches, `update_end`, as operators | used by the next |
| `Streamed` | objects, pickups, shop, their configuration and timers | extends `Streamer`; two parts share the store of pickups |
| `Scenery` | abstract: which objects players see, without keys | implemented by `Streamed` |
| `*Proofs` | theorems about the module they extend | |
| `MCSpectate`, `MCBlocker`, `MCGuard`, `MCNpcTaxi`, `MCPlayerChat`, `MCPlayerScreens`, `MCStreamed` | model values; `MCBlocker` also an observer who remembers attempts | |

### Spectate

A variable is a family of C++ objects, one per slot: `pl` is `class player`, `sp` the spectate item,
`hp` the health item, `api` what the SA-MP server itself keeps (state, health, money, the target the
client follows). One action is one callback, with everything all items do in it: `PlayerSpawn` runs
`player::on_spawn`, the free-for-all item and the spectate item, in the order of the constant
`FfaFirst`, because that order is only the link order of the object files. `Activate`, `ProcessWait`
and `ActivateAsync` are the context switch; `ShiftTo` is `do_shift` (the next player on the circle of
ids, without the watcher); `Disconnect` includes that all watchers of the leaving player are shifted.
Money is kept as where it comes from (`spawn`, `earned`, `zero`) and health as `zero`, `normal` or
`inf` (`FLT_MAX`): that is what distinguishes a restored player from a fresh or an immortal one.
Position, weapons and weather of the snapshot take the same path and are left out. The sets
`Fighters`, `Drivers`, `Cheaters` and `Admins` say which players do what; the theorems hold for all
of them.

### TimeOuts and TimeCountBlocker

The code stores times but only ever looks at differences to the present, so an item carries its
*age*. Ages stop at `MaxAge`, above all intervals; they are negative after a penalty, which moves the
last update into the future. `timeOut` is the copy of the interval inside `items`, which `increase`
and `erase_timeouts` refresh and `is_blocked` uses: after a reload the two differ, and the model keeps
that.

### ServerGuard and BanList

`net` and `main` are the two threads with program counters. The steps between two locks follow the
lines of the code: the test of `is_configured` (`Enter`), the lock, the decision with its counter,
then the changes of `ban_ip` one by one (`Renew`, `Insert`, `Block`, `Call`); the timer locks, finds
what timed out once, and for every such ban calls the deleter and then erases. A configuration runs
`ConfigurePre`, `Configure`, `ConfigureCalls`, `ConfigurePost` without the mutex, as the code does.
`rules` stands for what the called scripts do to the machine's firewall, `missed` remembers addresses
for which a call was skipped because `system_call_t` was disabled in the middle of a reload.

### NpcTaxi

A bot's name holds a number that is never reused, which stands for a route id and an index: a bot *is*
that pair. `seat` is the place on the server's side, `npc` the bot's object and taxi item, `client`
the process with its recording and the two message queues. `Configure` is `update_end` with
`route_destroy` and `route_create`; `Timer500` launches what is queued; `Connect` may come after the
route is gone; `Disconnect` may come any time, for a kick as for a crash. `Timer250`,
`OnPlaybackEnd` and `Timer1000` are the playback machine. Assumptions: the timetable
(`get_time_on_route`) may answer anything; a recording lasts longer than the delivery of the pause that
was sent right after its start; a route has a section; vehicles are created; the clock is not 0 when a
route starts.

### Watching

Spectating as a user sees it: a function from watchers to the watched. A watcher starts, stops or goes
on as he likes; the promise is in what happens when a player leaves: each of his watchers goes on to
another player who is there, neither himself nor the one who leaves (`Heirs`), or stops if there is
none, and no other watch changes. `Spectate` maps its items onto it
(`W == INSTANCE Watching`), and also a reload of the mode, which disconnects everybody in one step.

### GameContext

What saving and loading a player's state is for. A player goes from the game (`game`) to watching
(`away`), stops (`owed`: he waits for the respawn), has his state back (`given`) and is in the game
again when the timer switches his context; what he had when he left is kept until then. `Spectate`
maps the active and the waiting context and `is_spectate_ending` onto the phase, the snapshot onto
what is kept, the server's health and money onto what he has. It does so only where no `/spectate`
falls into the ending of a spectating (`NoSecondSave`): `spectate_restore` shows what happens then.

### TaxiService

The bots as a passenger sees them, without numbers, queues, kicks and recordings: lines, the number of
bots they need, and who sits in his vehicle. A line starts only when all its bots do and is never
started or opened again. `NpcTaxi` maps a route id that was never given out to an unborn line, a
removed one to a line that is over, and a place whose item is ready, with its vehicle, to a bot on board.

### Scenery

The objects as a player sees them: of those that are there, the nearest to where he last looked
around, as many as allowed then, without what was removed since. `Streamed` maps what is shown under
the keys of a client onto the set of things shown (`Sight`); keys, their renewal and the delete events
disappear. Looking at the origin, at which the code takes a player for one who did not move, is a
round in which he does not look.

### PlayerChat

One action per handler: `Text` (the common chat and the messages made of it), `CloseChat`, `Report`, `GroupChat`,
`Pm`, `PmDestinationChat`, `AdminSay`, each with its own order of tests and counting, as these differ in the
code. A text is its number of lines and what the automatic rules may find in it, which is anything in
`Penalties`. `flood` and `shared` are the two counters, items of `TimeOuts`; `left` and `delay` count
down the mute and the announced mute. `pace` is a history variable: the shortest time between two
messages of a player that passed. The three bounds `Writers`, `Social` and `Oldest` say who writes, who
uses lists and groups, and how far penalties may move a counter.

### TextDraw and PlayerScreens

`TextDraw` works on one record: which text is on which id of the server, with which look, who is
shown it until when, and what each client has been sent. A text has up to as many pages as the server
has ids, and a page that gets no id is tried again when its text is next updated. `PlayerScreens` has
the owners of the texts: the panel (`CmdInfo`, `CmdInfoStop`), the keys of the spectating and the
panel that follows it (`SpectateStart`, `SpectateChange`, `SpectateStop`), the preloading (`Preload`,
`Death`, `Timer500`), the departures that rewrite other players' panels (`Disconnect`), the timers and a
reconfiguration. Of spectating it takes what `Watching` promises (`Watch!Start` and the rest are its
conjuncts), which `Spectate` is shown to implement; of words only which of them differ.

### Streamer and Streamed

A store is a function from the keys in use to things; `NewKeys` allows every order in which
`update_end` may insert, with the lowest free keys, as `get_unused_key` finds them. `Nearest` cuts the
tail of the search off and leaves ties open, `Collated` keeps one of the pickups that look the same.
Coordinates, grid cells and spheres become a table: from which places a thing is in reach, and how far
it is. `Streamed` follows the three rounds of a configuration over objects, shop and pickups in one
step (nothing is dispatched between them); `PickupsFirst` is their order, given by the link order.
Clients show what they were told (`seen`, `world`), with the thing as it was then. `Stay` and `Rest`
are the renewal of the shop when the definitions of the weapons changed. The shop tells nobody of a
deletion: its delete event is assigned in the destructor.

## 3. Runs

| Run | Shows | Bounds |
|---|---|---|
| `spectate_watch` | nobody watches a player who is gone or himself, the client's view follows the target and his vehicle, the two buttons walk one circle both ways; `Spectate` implements `Watching` | four slots (a real choice of two targets after one left), two watchers, one driver who may be blocked |
| `spectate_life` | one context answers a spawn, the anti-cheat exemption covers just the ending, life flags agree, endless health stays out of the game, who ended his spectating gets back to the game | two players who both die, trade and drive, one may watch; `FfaFirst = FALSE`, the order in which an early switch would do harm |
| `spectate_restore` | **violation** of the comment at `player_spectate.cpp:206` | two players |
| `attempt_counter` | a block has its cause, at most two rounds of attempts pass in an interval, sweeping is invisible, a quiet key is freed | two keys, three parameter sets of the shipped shapes, intervals of 1 and 2, ages down to `MinAge = -2`; the observer follows one key (keys do not interact but by `timeOut`), ages him to `HistMax`, remembers `MadeCap` attempts, as many as block, and `PassCap` that passed, one more than two rounds |
| `guard_bans` | list, block set and external rules agree whenever the mutex is free; `ServerGuard` implements `BanList`; every ban is lifted | two addresses, one banned by what it sends (two offences in one packet), one by how often it connects; two configurations with ban times 0 and 1, `MaxAge = 2` |
| `guard_unguarded` | **violation** of the comment at `server_guard.hpp:87` | one address |
| `taxi_routes` | places, bots and vehicles agree; a route starts complete; server and bot agree on the playback | routes of two bots and of one; two route ids, so a route is removed and another, or the same, created while the bots of the first are still there; three vehicles, so ids are reused; `Reborn`: one index of bots spawns again and again, the others once |
| `taxi_events` | **violation** of `assert(false)` at `npc_taxi.cpp:307` | no bot spawns twice |
| `chat_mute` | two messages of a player lie more than the interval apart, mutes neither move nor end early, announced mutes come and mutes end | a user who writes and an administrator who mutes; two different counters with penalties, mutes of 1 and 2, delays of 1 |
| `chat_people` | no list and no partner names a player who left | the same two, both with lists, partners and a group, one of them writing; time kept as short as the counters allow |
| `screens` | no text draw is lost or shared, screens show what they should, the panel reads somebody who is there, texts fit the state and go away | three players in three roles; two text draws on the server for texts of up to two pages each, so that every shortage happens; every time-out is 1 |
| `streamed` | stores hold what is configured, clients show what keys stand for now, players see what is near, an offer agrees with what is shown and ends when its thing is gone | two players, four places (two of them close to each other, one the origin), two objects with a limit of 2 or 1, two things for sale, a pickup that looks like another; three configurations, one with other definitions, so every key is given again to something else |

Deadlock is checked in the runs of the guard, the counter, the chat and the screens. In `Spectate` an
empty server idles; in `NpcTaxi` the ids of routes run out, which the code's counter does not; in
`Streamed` a server whose timers change nothing and whose players stay where they are would be taken
for one that stops.

Type invariants are proved, not run, except that of `Spectate`; each was an invariant of the runs while
its proof was written. `spectate_watch` has no blocked watchers (`Cheaters` is empty):
`ClientsFollow` proves the view of clients for them as well.

Bounds are enough because the relations concern at most a player, his target and one more; an item,
its interval and one reload; a route, its successor and the bots of both. Symmetry is used in
`taxi_routes` only, on route ids and vehicles, which nothing compares but for equality, and no liveness
is checked there.

### What the violations say

* **`spectate_restore`** (`player_spectate.cpp:208`). Between the end of the spectating and the respawn
  the player is still in the spectate context with endless health. A second `/spectate` in that window
  saves *that* as his own state. After the last respawn he is an immortal player without a game
  context until he reconnects. The proved invariant says exactly how far it goes: endless health in a
  snapshot means that the snapshot was taken from the spectate context.
* **`guard_unguarded`** (`server_guard.cpp:125`). `is_configured` is read before the lock and cleared
  without it, so a handler acts while the values are being reset, against the flag's comment.
* **`taxi_events`** (`npc_taxi.cpp:307`). A reconfiguration only marks the bots of a removed route as
  kicked; their events are still dispatched until the timer runs, and fail the assertions of a debug
  build.

### Fairness

* `Spectate`: weak fairness of the 250 ms timer (SA-MP's timer keeps firing) and of the respawn of a
  player whose spectating ended (the server answers `toggle_player_spectating(false)` with a spawn; a
  player may instead leave or be blocked, and the property says so).
* `MCBlocker`: time passes.
* `ServerGuard`: time passes; both threads run on (weak); the mutex is given to a thread that keeps
  asking, and the timer fires between reloads (strong: both are disabled again and again by the other
  party). No fairness on packets or reloads.
* `NpcTaxi` is checked for safety only.
* `PlayerChat`: time passes, and the 1 s and 5 s timers of every player fire. Nothing is assumed of
  what players do.
* `PlayerScreens`: time passes, the 250 ms timer of the texts fires when a text has run out, and the
  500 ms timer when a preloading is due. Nobody has to stay for it.
* `Streamed`: the 250 ms timer fires. Players need not move, and the server may be configured anew for
  ever.

## 4. Proofs

All theorems hold for every value of the constants that satisfies the module's named assumption
(`SpectateAssumption`, `TimeOutsAssumption`, `BlockerAssumption`, `GuardAssumption`, `NpcTaxiAssumption`,
`PlayerChatAssumption`, `TextDrawAssumption`, `PlayerScreensAssumption`, `StreamerAssumption`,
`StreamedAssumption`), which say what the constants are (sets of ids, parameters within the caps, a null
that is not a value) and which TLC evaluates in the runs.

* **`SpectateProofs`**: `Spec => []IInv`, where `IInv` is `TypeOK` with the six invariants of the runs and
  `SnapshotUnderSpectate`. The last is what makes it inductive: without it a state with a snapshot outside
  the spectate context could answer a spawn with both contexts, and one with endless health in a snapshot
  of the free-for-all context would give it back. One lemma per action; as nearly all of it speaks of one
  player, the steps go through `PlayerInv` of a single player. `OneContextAnswers` proves the action
  property: only a spawn gives a snapshot back, and in either order of the items. `KeepsPromise` proves
  the refinement `Spectate` => `Watching`; the step that needs thought is `Disconnect`, where the loop of
  shifts has to be seen to end at somebody who stays. `ClientsFollow` (the client's view) and
  `ButtonsInverse` (the two buttons) need the order of the ids: in any set of integers between two bounds
  there is a next one (`ViewFollowsTarget` and `ShiftsAreInverse` rest on lemmas about `min` and `max` of
  finite sets of them). `StateIsGivenBack` proves, under `[][NoSecondSave]_vars`, the refinement
  `Spectate` => `GameContext`; its invariant `GInv` adds that a snapshot is only taken of the free-for-all
  context, and that whoever is in no context or the other one and is owed nothing waits to be back in it.
  `OnlySecondSaveLoses` reads off it that the property refuted by `spectate_restore` holds in every
  behaviour without a second save: the run shows the only way to lose a state.
* **`TimeOutsProofs`, `TimeCountBlockerProofs`**: what `increase`, the sweep and ageing return; type
  correctness; `SweepingIsInvisible`. `BlocksAreEarned` is about the observer of `MCBlocker`
  (`ObserverAssumption`: he remembers at least one round): an item is never older, penalties apart, than
  the attempts it counts (`Cause`), so a block has them behind it. `PassesAreBounded` is about what he let
  through: the attempts that passed and are younger than the interval belong to at most two rounds, the
  present item's and the one before it (`Rounds`): no sum over the memory is needed, for it says from
  which place on all that was let through is as old as the item, and from which place on it is out of the
  interval.
* **`ServerGuardProofs`**: `IInv` is `TypeOK`, `LockHeld` (who is inside holds the mutex), `SweepSound`
  (what is being swept is listed and timed out), `StoresAgree` and `RulesAgree` (how list, block set and
  rules differ at each program counter). `StoresMatch` reads the two store invariants off it.
  `KeepsBanListPromise` proves the refinement: `Enter`, locks and configuration stutter, `MainLock` and
  the decision to renew settle a ban, `SweepErase` and `Insert` lift, renew or add one. Two theorems are
  about the reloads that `guard_unguarded` shows to be unsafe. Under `[][QuietReload]_vars` (none begins
  while a handler is past its look at `is_configured`) `OnlyReloadOvertakes` gives the property that the
  run refutes, and `QuietReloadsMissNothing` that no call of the scripts is skipped, so that the rules are
  those of the list without exception.
* **`NpcTaxiProofs`**: `IInv` is `TypeOK`, `IdsUsed`, `BindingsAgree`, `VehiclesOwned`. `IdsUsed` (only
  ids that were given out leave traces) is what makes a new route start from empty places; and `TypeOK`
  alone is not inductive, for a bot that leaves counts in its route's data, which exist only by
  `BindingsAgree`. On top of it stand two more. `PlayInv` is the script that an item's state, the orders
  on their way and the bot's recording follow together: nine situations, each of which an order, a timer
  or the end of a recording turns into another one; it gives `EndsAreExpected` and `PlaybackFollows`.
  `CountInv` says that a route counts no more ready bots than it has, and that all of them have a place in
  it; with the pigeonholes of `FiniteSetTheorems` it gives `StartsAreComplete`. `KicksMarkLostRoutes`
  makes the marks of `route_destroy` exact: of the bots with an item those are kicked whose route is gone.
  So `OnlyDroppedRoutesSurprise`: unless a reconfiguration drops a route with connected bots,
  `EventsFindTheirRoute`, which `taxi_events` refutes, holds. `ServiceIsKept` is the refinement `NpcTaxi`
  => `TaxiService`; the steps that matter are the update of the configuration, which opens, closes and
  sends home at once, and the start, which needs `CountInv`.
* **`PlayerChatProofs`**: who refers to a player who is gone (`GhostsForgotten`), mutes (`MutesStand`, an
  action property, with `NonePending`: who is muted by hand has no announced mute left) and the flood
  control (`MessagesApart`). The last needs that the counter's item remembers the last message: as long as
  it is younger than the interval there is an item, no older than that message. `MutesStand` excludes
  administrators, and `OnlyAdminSayMovesMutes` says why: if no muted administrator uses `/admin say`
  (which does not ask), `EveryMuteHolds`, the same promise to everybody. `AutomutesOnlyGrow` is the other
  half of a mute's life, before it begins: announced, it comes no later and gets no shorter.
* **`PlayerScreensProofs`**: `DrawKeepsOrder` says of the operator all steps go through that a drawing
  keeps every text draw owned once and every screen true, whatever changed and whichever ids the server
  had left; each action then only shows that it calls it on well-formed texts (`PoolKept`, `ScreensTrue`).
  `PanelSourceKept` and `TextsKept` go over the actions. `TimesOnlyRunDown` says that no handler prolongs
  a time that runs (a text shown anew keeps the time it has), which is what `KeysGoAway` and `PreloadEnds` rest on
  beside fairness.
* **`StreamedProofs`**: `Inv` is `TypeOK`, `StoresOwned`, `Absent` (who is away has nothing on his
  screen), `ShownAreCurrent`, `SeesWhatIsNear` and `OfferIsSeen`. All about keys comes from one lemma on
  `update_end` (`UpdateKeeps`): keys of others keep what they stand for, those of what goes may be given
  again at once. What a client shows is right again after a configuration because the deleted keys are
  taken from his screen before new ones are shown; `OneOffer` (a search for one thing finds at most one)
  is why the offer is unique. `SceneryIsShown` is the refinement `Streamed` => `Scenery`, from those
  invariants: they make what is under the keys of a client a set of things, of the right size.
  `OffersAreRenewed` gives the steps behind `StaleOfferEnds`.

The conditional theorems assume of a behaviour only that one thing the code does not prevent does not
happen; the runs without the condition (`spectate_restore`, `guard_unguarded`, `taxi_events`) show that it
does, and the ordinary runs contain behaviours of both kinds. They are not promises of the code but say
how far the violations reach.

Model-checked only: all liveness, `ReturnsToGame`, `QuietKeyIsFreed`, `EveryBanIsLifted`,
`MutesComeAndGo`, `KeysGoAway`, `PreloadEnds`, `StaleOfferEnds`, for the prover does not reach liveness
under fairness (`ENABLED`). Every other property of a passing run is a theorem. The promises
`GamePromise`, `ServicePromise` and `SceneryPromise` and the properties of the conditional theorems are
proved and not among the runs' properties; TLC agreed with each on the instances of the runs (the taxis
with `Reborn` empty) before it was proved.

## 5. What is not modelled, and the plan

Not modelled because nothing is left after abstracting text and I/O: buffers, serialization, geo data
base, logger, map loaders, news, announcements, master list, developer tools, wrappers of the API. Two
thirds of the repository's lines are of that kind: the tables and the library of the geo data base
(vendored), benchmarks and tests of the utilities, the SA-MP SDK, marshalling of Pawn parameters, the
texts of commands and their parsing. That is why the map covers a small share of all lines, and why
that share will stay small.

Abstracted in what is modelled: the wrap of the millisecond clock (ages are exact here), amounts of
money, traffic statistics, the imitation of a full server, the tokens of connecting addresses, check
points, skins and nitro of the taxis, a failing vehicle creation, coordinates and the grid's cells, the
words of texts, which text the automatic mute finds meaningless.

Seen while modelling but promised otherwise by nobody in the repository, hence no finding:

* a bot that connects after its route was removed stays without an item and is never kicked;
* `is_killed_by_script` survives a death that does not count;
* money sent or lost between the end of a spectating and the respawn is overwritten by the snapshot
  (`player_spectate.cpp:231`);
* a key of the shop that is given to another thing by a reconfiguration still stands in the offer of a
  player until the next 250 ms timer: he then buys something else than was announced, and if the key is
  free the assertion of `streamer.hpp:122` meets it (`StaleOfferEnds` is how long that can last);
* a reconfiguration makes everybody look around again by pretending that he was at the origin, so a
  player who stands near the origin sees what is left of the old objects until he moves
  (`SeesWhatIsNear` says for whom it holds);
* pickups with one look at one place of two worlds count as the same (`pickups_t.hpp:33`);
* `objects.cpp:71-78` cuts the list of objects of the static part off one too late, and
  `max_objects_dynamic` is computed from data that `update_end` has already consumed;
* a death in the middle of preloading leaves the player frozen with the notice on the screen until he
  leaves or travels again (`player_position.cpp:171`; `stuck` in `PlayerScreens`).

Next, in this order:

1. `TaxiTimetable`: `get_time_on_route` as a function on the sections, against a reference definition,
   and with the 32-bit clock at its wrap.
2. `Container`: the cache of handlers while items are added and removed in the middle of a walk.
3. `ServerFull`: the imitation of a full server, on the absolute clock.
4. `Money` (amounts through spectating and deaths), `GamePause`, connections and names, vehicles, check
   points and map icons (the remaining users of the streamer), the pager and the expression calculator.

## 6. Running it

    tlc -workers 2 -config MCWatch.cfg MCSpectate          # likewise MCLife, MCRestore
    tlc -workers 2 -config MCBlocker.cfg MCBlocker
    tlc -workers 2 -config MCBans.cfg MCGuard              # likewise MCUnguarded
    tlc -workers 2 -config MCTaxi.cfg MCNpcTaxi            # likewise MCTaxiEvents
    tlc -workers 2 -config MCChatMute.cfg MCPlayerChat     # likewise MCChatPeople
    tlc -workers 2 -config MCScreens.cfg MCPlayerScreens
    tlc -workers 2 -config MCStreamed.cfg MCStreamed
    tlapm SpectateProofs.tla                               # likewise the other *Proofs modules

The longest run takes about two and a half minutes, the longest proof two or three. Definitions named in
comments as mutants are deliberate errors, one for each property, which the runs must detect in place
of the definition below them; nothing else refers to them. `PROJECT.json` maps every
definition to its lines of the code.
