------------------------------ MODULE NpcTaxi ------------------------------
(***************************************************************************)
(* Taxi bots: the routes of the configuration (npc_taxi.cpp on top of      *)
(* core/dynamic_items.hpp), the registry of bots with its queue of those   *)
(* to connect and its delayed kick (core/npcs.cpp, core/npc.cpp), and the  *)
(* bot's own script (pawn/npcmodes/freezone.pwn).                          *)
(*                                                                         *)
(* Server and bots exchange messages in order: the server runs one handler *)
(* at a time, a bot is a process of its own.  A bot's name holds a number  *)
(* that is never used again and stands for one place of one route, so a    *)
(* bot is the pair of its route's id and its index there.  The clock shows *)
(* only in the answer of get_time_on_route, which may be anything.         *)
(***************************************************************************)
EXTENDS Integers, Sequences, FiniteSets

CONSTANTS
  RouteIds,   \* values of route_last_id
  Routes,     \* route descriptions a configuration may hold
  Count,      \* how many bots a route description asks for
  MaxCount,   \* no description asks for more
  VehicleIds, \* ids of the server's vehicles
  Reborn,     \* bound: indices of the bots that spawn more than once
  None        \* no route, no vehicle

ASSUME NpcTaxiAssumption ==
  /\ MaxCount \in Nat
  /\ Count \in [Routes -> 0..MaxCount]
  /\ None \notin RouteIds /\ None \notin VehicleIds
  /\ None \notin [route : Routes, ready_count : Int, started : BOOLEAN]

Bots      == RouteIds \X (0..(MaxCount - 1))
BotsOf(r) == {b \in Bots : b[1] = r}

VARIABLES
  keys,      \* npc_taxi::routes, the id of every configured description
  used,      \* the ids given out so far (route_last_id)
  data,      \* npc_taxi::route_datas
  seat,      \* route_npcs: is the bot bound (npc_ptr), and its vehicle
  vehicles,  \* the taxi vehicles that exist on the server
  queue,     \* npcs::connect_queue
  launched,  \* bot processes on their way
  holder,    \* npcs::npcs_holder
  npc,       \* class npc and its npc_taxi_item
  client     \* the bot: its recording and the messages both ways

world == <<keys, used, data, seat, vehicles>>
links == <<queue, launched, holder>>
vars  == <<world, links, npc, client>>

RouteData == [route : Routes, ready_count : Int, started : BOOLEAN]
Seat      == [bound : BOOLEAN, vehicle : VehicleIds \cup {None}]
States    == {"oninit", "onstop", "onroute", "onroute_end"}
NpcRec    == [kicked : BOOLEAN, spawned : BOOLEAN, item : BOOLEAN,
              ready : BOOLEAN, state : States]
Orders    == {"put", "start", "pause"}
Events    == {"vehicle_enter", "playback_end"}
ClientRec == [recording : {"idle", "playing", "paused"},
              inbox : Seq(Orders), outbox : Seq(Events)]

NoSeat      == [bound |-> FALSE, vehicle |-> None]
FreshNpc    == [kicked |-> FALSE, spawned |-> FALSE, item |-> FALSE,
                ready |-> FALSE, state |-> "oninit"]
FreshClient == [recording |-> "idle", inbox |-> <<>>, outbox |-> <<>>]

TypeOK ==
  /\ keys \in [Routes -> RouteIds \cup {None}]
  /\ used \subseteq RouteIds
  /\ data \in [RouteIds -> RouteData \cup {None}]
  /\ seat \in [Bots -> Seat]
  /\ vehicles \subseteq VehicleIds
  /\ queue \subseteq Bots /\ launched \subseteq Bots
  /\ holder \subseteq Bots
  /\ npc \in [Bots -> NpcRec]
  /\ client \in [Bots -> ClientRec]

Init ==
  /\ keys = [d \in Routes |-> None]
  /\ used = {}
  /\ data = [r \in RouteIds |-> None]
  /\ seat = [b \in Bots |-> NoSeat]
  /\ vehicles = {}
  /\ queue = {} /\ launched = {} /\ holder = {}
  /\ npc = [b \in Bots |-> FreshNpc]
  /\ client = [b \in Bots |-> FreshClient]

Live(r) == data[r] # None

\* get_root()->is_valid() and is_valid_data() of the bot's item.
Valid(b) == ~npc[b].kicked /\ Live(b[1])

-----------------------------------------------------------------------------
(* Configuration: update_end deletes what is gone and creates what is new. *)

OneToOne(f) == \A x, y \in DOMAIN f : f[x] = f[y] => x = y

\* Mutant of KickedBy: only bots in their vehicles are kicked.
KickedByReady(gone) ==
  {b \in Bots : b[1] \in gone /\ seat[b].bound /\ npc[b].ready}

\* Bots that route_destroy of the routes gone kicks, and vehicles it destroys.
KickedBy(gone) == {b \in Bots : b[1] \in gone /\ seat[b].bound}
FreedBy(gone)  == {seat[b].vehicle : b \in {c \in Bots : c[1] \in gone}}

\* Places of the routes being created, f giving them their ids.
Places(f) == {b \in Bots : \E d \in DOMAIN f : b[1] = f[d] /\ b[2] < Count[d]}

Created(f, r) ==
  [route |-> CHOOSE d \in DOMAIN f : f[d] = r, ready_count |-> 0,
   started |-> FALSE]

Added(new) == {d \in new : keys[d] = None}
Gone(new)  == {keys[d] : d \in {e \in Routes \ new : keys[e] # None}}

\* route_destroy for the routes gone, then route_create for the descriptions f
\* gives an id, with vehicles v.
Update(gone, f, v) ==
  LET born == {f[d] : d \in DOMAIN f}
  IN  /\ keys' = [d \in Routes |-> IF d \in DOMAIN f THEN f[d]
                                   ELSE IF keys[d] \in gone THEN None
                                   ELSE keys[d]]
      /\ used' = used \cup born
      /\ data' = [r \in RouteIds |-> IF r \in born THEN Created(f, r)
                                     ELSE IF r \in gone THEN None
                                     ELSE data[r]]
      /\ seat' = [b \in Bots |-> IF b \in Places(f)
                                 THEN [bound |-> FALSE, vehicle |-> v[b]]
                                 ELSE IF b[1] \in gone THEN NoSeat
                                 ELSE seat[b]]
      /\ vehicles' = (vehicles \ FreedBy(gone)) \cup {v[b] : b \in Places(f)}
      /\ queue' = queue \cup Places(f)
      /\ npc' = [b \in Bots |-> IF b \in KickedBy(gone)
                                THEN [npc[b] EXCEPT !.kicked = TRUE]
                                ELSE npc[b]]
      /\ UNCHANGED <<launched, holder, client>>

\* A vehicle id is free again as soon as its vehicle is destroyed.
Configure(new) ==
  \E f \in [Added(new) -> RouteIds \ used] :
    \E v \in [Places(f) -> VehicleIds \ (vehicles \ FreedBy(Gone(new)))] :
      /\ Added(new) # {} \/ Gone(new) # {}
      /\ OneToOne(f) /\ OneToOne(v)
      /\ Update(Gone(new), f, v)

-----------------------------------------------------------------------------
(* The registry of bots.                                                   *)

\* npcs::on_timer500 launches the bots of the queue.  It also closes the
\* connection of who was kicked: he leaves by Disconnect, as anybody may.
Timer500 ==
  /\ queue # {}
  /\ launched' = launched \cup queue
  /\ queue' = {}
  /\ UNCHANGED <<world, holder, npc, client>>

\* npcs::on_player_connect and npc_taxi::on_npc_connect.  A bot whose route is
\* gone by now gets no taxi item.
Connect(b) ==
  /\ b \in launched
  /\ launched' = launched \ {b}
  /\ holder' = holder \cup {b}
  /\ npc' = [npc EXCEPT ![b] = [FreshNpc EXCEPT !.item = Live(b[1])]]
  /\ seat' = [seat EXCEPT ![b].bound = Live(b[1])]
  /\ UNCHANGED <<keys, used, data, vehicles, queue, client>>

\* The process never gets to the server, or comes from a wrong address and is
\* turned away unregistered.
ConnectFails(b) ==
  /\ b \in launched
  /\ launched' = launched \ {b}
  /\ UNCHANGED <<world, queue, holder, npc, client>>

\* Mutant of SeatLeft: the place keeps the id of the destroyed vehicle.
SeatKeepsVehicle(s) == [s EXCEPT !.bound = FALSE]

SeatLeft(s) == NoSeat

\* Mutant of ReadyLess: the route goes on counting the bot.
ReadyKept(n) == n

ReadyLess(n) == n - 1

\* npcs::on_player_disconnect and npc_taxi::on_npc_disconnect, for whatever
\* reason the bot leaves.
Disconnect(b) ==
  /\ b \in holder
  /\ holder' = holder \ {b}
  /\ IF seat[b].bound
     THEN /\ data' = [data EXCEPT ![b[1]].ready_count = ReadyLess(@)]
          /\ vehicles' = vehicles \ {seat[b].vehicle}
          /\ seat' = [seat EXCEPT ![b] = SeatLeft(@)]
     ELSE UNCHANGED <<data, vehicles, seat>>
  /\ npc' = [npc EXCEPT ![b] = FreshNpc]
  /\ client' = [client EXCEPT ![b] = FreshClient]
  /\ UNCHANGED <<keys, used, queue, launched>>

-----------------------------------------------------------------------------
(* The taxi item.  A message of the server goes to the end of the inbox, an  *)
(* event of the bot is handled when it is the first of the outbox.           *)

Sent(b, orders) == [client[b] EXCEPT !.inbox = @ \o orders]
First(b, e)     == b \in holder /\ client[b].outbox # <<>>
                   /\ Head(client[b].outbox) = e
Handled(c)      == [c EXCEPT !.outbox = Tail(@)]

\* Mutant of StopOrders: the recording is not paused.
StopOrdersRunning == <<"start">>

\* start_stop: the bot stands at the beginning of the section's recording.
StopOrders == <<"start", "pause">>

\* npcs::on_player_spawn: npc::on_spawn, then the item's on_spawn.  A bot
\* spawns again when its vehicle was destroyed under it, and not before it has
\* settled in what it was told.
OnSpawn(b) ==
  /\ b \in holder
  /\ npc[b].spawned => b[2] \in Reborn
  /\ client[b].inbox = <<>> /\ client[b].outbox = <<>>
  /\ npc' = [npc EXCEPT ![b].spawned = TRUE]
  /\ client' = IF npc[b].item /\ Valid(b)
               THEN [client EXCEPT ![b] = Sent(b, <<"put">>)]
               ELSE client
  /\ UNCHANGED <<world, links>>

\* npcs::on_player_commandtext, then the item's on_enter_vehicle.
OnEnterVehicle(b) ==
  /\ First(b, "vehicle_enter")
  /\ client' = [client EXCEPT ![b] = Handled(@)]
  /\ IF npc[b].item /\ Valid(b) /\ ~npc[b].ready
     THEN /\ npc' = [npc EXCEPT ![b].ready = TRUE]
          /\ data' = [data EXCEPT ![b[1]].ready_count = @ + 1]
     ELSE UNCHANGED <<npc, data>>
  /\ UNCHANGED <<keys, used, seat, vehicles, links>>

Active(b) == npc[b].item /\ Valid(b) /\ npc[b].ready /\ data[b[1]].started

\* on_playback_end: is_stop is the timetable's answer.
OnPlaybackEnd(b, is_stop) ==
  /\ First(b, "playback_end")
  /\ client' = [client EXCEPT ![b] =
                  Handled(IF Active(b) /\ is_stop THEN Sent(b, StopOrders)
                          ELSE client[b])]
  /\ npc' = IF ~Active(b) THEN npc
            ELSE [npc EXCEPT ![b].state =
                    IF is_stop THEN "onstop" ELSE "onroute_end"]
  /\ UNCHANGED <<world, links>>

\* Mutant of MayStop: a bot that is late is called to the stop.
MayStopOnRoute(s) == s \in {"oninit", "onroute_end", "onroute"}

MayStop(s) == s \in {"oninit", "onroute_end"}

\* The item's on_timer250.  Items share nothing in it, so one at a time.
Timer250(b, is_stop) ==
  /\ b \in holder /\ Active(b)
  /\ IF is_stop
     THEN /\ MayStop(npc[b].state)
          /\ npc' = [npc EXCEPT ![b].state = "onstop"]
          /\ client' = [client EXCEPT ![b] = Sent(b, StopOrders)]
     ELSE /\ npc[b].state = "onstop"
          /\ npc' = [npc EXCEPT ![b].state = "onroute"]
          /\ client' = [client EXCEPT ![b] = Sent(b, <<"start">>)]
  /\ UNCHANGED <<world, links>>

Complete(d) == d.ready_count = Count[d.route]

\* npc_taxi::on_timer1000: start_time is set, the clock is not 0 then.
Timer1000 ==
  /\ data' = [r \in RouteIds |->
                IF Live(r) /\ Complete(data[r])
                THEN [data[r] EXCEPT !.started = TRUE]
                ELSE data[r]]
  /\ UNCHANGED <<keys, used, seat, vehicles, links, npc, client>>

-----------------------------------------------------------------------------
(* The bot's script.                                                       *)

Tells(c, e) == [c EXCEPT !.outbox = Append(@, e)]

\* OnClientMessage and OnNPCEnterVehicle.
Obeys(c) ==
  LET o == Head(c.inbox)
      d == [c EXCEPT !.inbox = Tail(@)]
  IN  CASE o = "put"   -> Tells(d, "vehicle_enter")
        [] o = "start" -> [d EXCEPT !.recording = "playing"]
        [] o = "pause" -> [d EXCEPT !.recording =
                             IF @ = "playing" THEN "paused" ELSE @]

BotObeys(b) ==
  /\ b \in holder /\ client[b].inbox # <<>>
  /\ client' = [client EXCEPT ![b] = Obeys(@)]
  /\ UNCHANGED <<world, links, npc>>

\* OnRecordingPlaybackEnd.  A recording lasts longer than the pause that was
\* sent right after its start takes to arrive.
PlaybackEnds(b) ==
  /\ b \in holder /\ client[b].recording = "playing"
  /\ \A i \in 1..Len(client[b].inbox) : client[b].inbox[i] # "pause"
  /\ client' = [client EXCEPT ![b] =
                  Tells([@ EXCEPT !.recording = "idle"], "playback_end")]
  /\ UNCHANGED <<world, links, npc>>

-----------------------------------------------------------------------------
Bot(b) ==
  \/ Connect(b) \/ ConnectFails(b) \/ Disconnect(b)
  \/ OnSpawn(b) \/ OnEnterVehicle(b)
  \/ \E is_stop \in BOOLEAN : OnPlaybackEnd(b, is_stop) \/ Timer250(b, is_stop)
  \/ BotObeys(b) \/ PlaybackEnds(b)

Next ==
  \/ \E new \in SUBSET Routes : Configure(new)
  \/ Timer500 \/ Timer1000
  \/ \E b \in Bots : Bot(b)

Spec == Init /\ [][Next]_vars

-----------------------------------------------------------------------------
\* A bot's place and its item find each other: the registry's bots with an
\* item that nobody kicked are exactly the bound ones, and their route lives
\* (on_npc_connect, on_npc_disconnect, route_destroy).
BindingsAgree ==
  \A b \in Bots :
    /\ seat[b].bound <=> b \in holder /\ npc[b].item /\ ~npc[b].kicked
    /\ seat[b].bound => Live(b[1])

\* No vehicle outlives its bot or its route, none is destroyed twice and so
\* taken from whoever has its id by then.
VehiclesOwned ==
  /\ vehicles = {seat[b].vehicle : b \in Bots} \ {None}
  /\ \A b, c \in Bots :
       seat[b].vehicle = seat[c].vehicle /\ seat[b].vehicle # None => b = c

\* A route starts only when every one of its bots is connected and sits in its
\* vehicle, for a place left out of it would drive alone (on_timer1000).
StartsComplete ==
  [][\A r \in RouteIds :
       Live(r) /\ ~data[r].started /\ data'[r] # None /\ data'[r].started =>
         \A i \in 0..(Count[data[r].route] - 1) :
           seat[<<r, i>>].bound /\ npc[<<r, i>>].ready]_vars

Awaits(b, e) == \E i \in 1..Len(client[b].outbox) : client[b].outbox[i] = e

\* The end of a recording arrives only while its bot drives, as the assertions
\* of on_playback_end demand of a bot that is valid.
EndFindsItsRide ==
  \A b \in holder :
    npc[b].item /\ Valid(b) /\ Awaits(b, "playback_end")
      => Active(b) /\ npc[b].state = "onroute"

\* The item knows what its bot does without ever being told: once the orders
\* are carried out, the recording plays exactly on route.
StateMatchesPlayback ==
  \A b \in holder :
    npc[b].item /\ Valid(b) /\ client[b].inbox = <<>>
                /\ ~Awaits(b, "playback_end")
      => client[b].recording = CASE npc[b].state = "onstop"  -> "paused"
                                 [] npc[b].state = "onroute" -> "playing"
                                 [] OTHER                    -> "idle"

\* assert(false) where on_spawn, on_enter_vehicle and on_playback_end find that
\* their bot or their route is not valid.
EventsFindTheirRoute ==
  [][\A b \in Bots :
       npc[b].item /\ (\/ OnSpawn(b) \/ OnEnterVehicle(b)
                       \/ \E is_stop \in BOOLEAN : OnPlaybackEnd(b, is_stop))
         => Valid(b)]_vars

-----------------------------------------------------------------------------
\* To the passengers a route is waiting or running while it has data.
Life(r) == CASE r \notin used                    -> "unborn"
             [] r \in used /\ ~Live(r)           -> "over"
             [] r \in used /\ Live(r)            -> IF data[r].started THEN "running"
                                                    ELSE "waiting"
Size(r) == IF Live(r) THEN Count[data[r].route] ELSE 0
Aboard  == {b \in Bots : seat[b].bound /\ npc[b].ready}

TS == INSTANCE TaxiService WITH
        Lines  <- RouteIds,
        life   <- [r \in RouteIds |-> Life(r)],
        size   <- [r \in RouteIds |-> Size(r)],
        aboard <- Aboard

\* The bots keep the timetable's promise: a route is opened once under its id,
\* waits until each of its vehicles has its bot, and runs until the
\* configuration drops it (route_create, on_timer1000, route_destroy).
ServicePromise == TS!Spec

\* A bot of the registry with an item is kicked if its route is gone, and only
\* then: route_destroy forgets nobody and takes nobody else's bot.
KickedIffRouteGone ==
  \A b \in holder : npc[b].item => (npc[b].kicked <=> ~Live(b[1]))

\* Nobody's route is dropped while its bots are connected.
NobodySentHome == \A new \in SUBSET Routes : Configure(new) => KickedBy(Gone(new)) = {}
=============================================================================
