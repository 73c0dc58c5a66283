--------------------------- MODULE NpcTaxiProofs ---------------------------
(***************************************************************************)
(* Proofs about NpcTaxi.  Places, bots and vehicles agree because an id of *)
(* a route is never given out twice: IdsUsed, with the three invariants    *)
(* the runs check, is inductive.  On top of it stand two more: PlayInv,    *)
(* the script that an item, the orders on their way and the bot follow     *)
(* together, and CountInv, that a route never counts more ready bots than  *)
(* there are.                                                              *)
(*                                                                         *)
(* Last, bots are kicked exactly when their route is dropped, so events    *)
(* lose their route only by a route dropped under connected bots, and the  *)
(* routes keep the promise of TaxiService.                                 *)
(***************************************************************************)
EXTENDS NpcTaxi, SequenceTheorems, FiniteSetTheorems, TLAPS

-----------------------------------------------------------------------------
(* Types.                                                                  *)

\* A bot is a route id and an index.
LEMMA BotFields == \A b \in Bots : b[1] \in RouteIds /\ b[2] \in 0..(MaxCount - 1)
BY DEF Bots

\* Empty places, bots without an item and new clients are well formed.
LEMMA FreshTypes ==
  /\ NoSeat \in Seat
  /\ FreshNpc \in NpcRec
  /\ FreshClient \in ClientRec
BY DEF NoSeat, Seat, FreshNpc, NpcRec, States, FreshClient, ClientRec

\* No route's data is mistaken for its absence.
LEMMA NoneIsNoData == None \notin RouteData
BY NpcTaxiAssumption DEF RouteData

\* A route lives exactly when it has data.
LEMMA LiveIsData ==
  ASSUME TypeOK, NEW r \in RouteIds
  PROVE  Live(r) <=> data[r] \in RouteData
BY NoneIsNoData DEF TypeOK, Live

\* The data of a route that is created is well formed.
LEMMA CreatedIsData ==
  ASSUME NEW S \in SUBSET Routes, NEW f \in [S -> RouteIds], NEW d \in S
  PROVE  Created(f, f[d]) \in RouteData
<1> DEFINE e == CHOOSE x \in DOMAIN f : f[x] = f[d]
<1>1. e \in S
  OBVIOUS
<1> QED
  BY <1>1 DEF Created, RouteData

\* A recording that starts, pauses or ends leaves a client.
LEMMA RecordingType ==
  ASSUME NEW c \in ClientRec, NEW r \in {"idle", "playing", "paused"}
  PROVE  [c EXCEPT !.recording = r] \in ClientRec
BY DEF ClientRec

\* So does an event sent to the server.
LEMMA TellsType ==
  ASSUME NEW c \in ClientRec, NEW e \in Events
  PROVE  Tells(c, e) \in ClientRec
<1>1. Append(c.outbox, e) \in Seq(Events)
  BY DEF ClientRec
<1> QED
  BY <1>1 DEF ClientRec, Tells

\* What a client does with an order, and the server with an event.
LEMMA ClientTypes ==
  ASSUME NEW c \in ClientRec
  PROVE  /\ \A orders \in Seq(Orders) : [c EXCEPT !.inbox = @ \o orders] \in ClientRec
         /\ c.outbox # <<>> => Handled(c) \in ClientRec
         /\ c.inbox # <<>> => Obeys(c) \in ClientRec
<1>1. c.inbox \in Seq(Orders) /\ c.outbox \in Seq(Events)
  BY DEF ClientRec
<1>2. \A orders \in Seq(Orders) : c.inbox \o orders \in Seq(Orders)
  BY <1>1
<1>3. c.outbox # <<>> => Tail(c.outbox) \in Seq(Events)
  BY <1>1, HeadTailProperties
<1>5. c.inbox # <<>> => Head(c.inbox) \in Orders /\ Tail(c.inbox) \in Seq(Orders)
  BY <1>1, HeadTailProperties
<1>6. c.inbox # <<>> => Obeys(c) \in ClientRec
  <2> SUFFICES ASSUME c.inbox # <<>> PROVE Obeys(c) \in ClientRec
    OBVIOUS
  <2> DEFINE d == [c EXCEPT !.inbox = Tail(@)]
  <2>1. d \in ClientRec
    BY <1>5 DEF ClientRec
  <2>2. Tells(d, "vehicle_enter") \in ClientRec
    BY <2>1, TellsType DEF Events
  <2> DEFINE kept == IF d.recording = "playing" THEN "paused" ELSE d.recording
  <2>3. \A r \in {"idle", "playing", "paused"} : [d EXCEPT !.recording = r] \in ClientRec
    BY <2>1, RecordingType
  <2>4. kept \in {"idle", "playing", "paused"}
    BY <2>1 DEF ClientRec
  <2>5. [d EXCEPT !.recording = kept] \in ClientRec
    BY <2>3, <2>4
  <2> QED
    BY <1>5, <2>2, <2>3, <2>5 DEF Obeys, Orders
<1> QED
  BY <1>1, <1>2, <1>3, <1>6 DEF ClientRec, Handled

\* Orders sent to a bot leave it a client.
LEMMA SentType ==
  ASSUME TypeOK, NEW b \in Bots
  PROVE  /\ Sent(b, StopOrders) \in ClientRec
         /\ Sent(b, <<"put">>) \in ClientRec
         /\ Sent(b, <<"start">>) \in ClientRec
<1>1. StopOrders \in Seq(Orders) /\ <<"put">> \in Seq(Orders) /\ <<"start">> \in Seq(Orders)
  BY DEF StopOrders, Orders
<1>2. client[b] \in ClientRec
  BY DEF TypeOK
<1> QED
  BY <1>1, <1>2, ClientTypes DEF Sent

\* The server starts well formed.
LEMMA InitType == Init => TypeOK
BY FreshTypes DEF Init, TypeOK

\* A reconfiguration leaves places, bots and vehicles well formed.
LEMMA UpdateType ==
  ASSUME TypeOK, NEW new \in SUBSET Routes,
         NEW f \in [Added(new) -> RouteIds \ used],
         NEW v \in [Places(f) -> VehicleIds \ (vehicles \ FreedBy(Gone(new)))],
         Update(Gone(new), f, v)
  PROVE  TypeOK'
<1> DEFINE gone == Gone(new)
<1>1. Added(new) \in SUBSET Routes /\ DOMAIN f = Added(new)
  BY DEF Added
<1>2. Places(f) \subseteq Bots
  BY DEF Places
<1>3. keys' \in [Routes -> RouteIds \cup {None}]
  BY <1>1 DEF Update, TypeOK
<1>4. used' \subseteq RouteIds
  BY <1>1 DEF Update, TypeOK
<1>5. data' \in [RouteIds -> RouteData \cup {None}]
  BY <1>1, CreatedIsData DEF Update, TypeOK
<1>6. seat' \in [Bots -> Seat]
  BY <1>2, FreshTypes DEF Update, TypeOK, Seat
<1>7. vehicles' \subseteq VehicleIds
  BY DEF Update, TypeOK
<1>8. npc' \in [Bots -> NpcRec]
  BY DEF Update, TypeOK, NpcRec
<1>9. /\ queue' \subseteq Bots /\ launched' \subseteq Bots /\ holder' \subseteq Bots
      /\ client' \in [Bots -> ClientRec]
  BY <1>2 DEF Update, TypeOK
<1> QED
  BY <1>3, <1>4, <1>5, <1>6, <1>7, <1>8, <1>9 DEF TypeOK

\* The guard of on_npc_disconnect is not enough: that the route of a bound bot
\* lives is part of the invariant.
LEMMA TypeStep ==
  ASSUME TypeOK, BindingsAgree, [Next]_vars
  PROVE  TypeOK'
<1> USE BotFields, FreshTypes DEF TypeOK, world, links
<1>1. ASSUME NEW new \in SUBSET Routes, Configure(new)
      PROVE  TypeOK'
  BY <1>1, UpdateType DEF Configure
<1>2. CASE Timer500
  BY <1>2 DEF Timer500
<1>3. CASE Timer1000
  BY <1>3, LiveIsData DEF Timer1000, RouteData
<1>4. ASSUME NEW b \in Bots, Connect(b)
      PROVE  TypeOK'
  BY <1>4 DEF Connect, NpcRec, Seat, Live, FreshNpc
<1>5. ASSUME NEW b \in Bots, ConnectFails(b)
      PROVE  TypeOK'
  BY <1>5 DEF ConnectFails
<1>6. ASSUME NEW b \in Bots, Disconnect(b)
      PROVE  TypeOK'
  <2>1. data' \in [RouteIds -> RouteData \cup {None}]
    <3>1. CASE ~seat[b].bound
      BY <1>6, <3>1 DEF Disconnect
    <3>2. CASE seat[b].bound
      <4>1. data[b[1]] \in RouteData
        BY <3>2, LiveIsData DEF BindingsAgree
      <4>2. [data[b[1]] EXCEPT !.ready_count = @ - 1] \in RouteData
        BY <4>1 DEF RouteData
      <4> QED
        BY <1>6, <3>2, <4>2 DEF Disconnect, ReadyLess
    <3> QED
      BY <3>1, <3>2
  <2> QED
    BY <1>6, <2>1 DEF Disconnect, SeatLeft
<1>7. ASSUME NEW b \in Bots, OnSpawn(b)
      PROVE  TypeOK'
  BY <1>7, SentType DEF OnSpawn, NpcRec
<1>8. ASSUME NEW b \in Bots, OnEnterVehicle(b)
      PROVE  TypeOK'
  <2>1. client' \in [Bots -> ClientRec]
    BY <1>8, ClientTypes DEF OnEnterVehicle, First
  <2>2. Valid(b) => [data[b[1]] EXCEPT !.ready_count = @ + 1] \in RouteData
    BY LiveIsData DEF Valid, RouteData
  <2>3. npc' \in [Bots -> NpcRec]
    <3>1. [npc[b] EXCEPT !.ready = TRUE] \in NpcRec
      BY DEF NpcRec
    <3>2. CASE UNCHANGED npc
      BY <3>2
    <3>3. CASE npc' = [npc EXCEPT ![b].ready = TRUE]
      BY <3>1, <3>3
    <3> QED
      BY <1>8, <3>2, <3>3 DEF OnEnterVehicle
  <2>4. data' \in [RouteIds -> RouteData \cup {None}]
    <3>1. CASE UNCHANGED data
      BY <3>1
    <3>2. CASE Valid(b) /\ data' = [data EXCEPT ![b[1]].ready_count = @ + 1]
      BY <3>2, <2>2
    <3> QED
      BY <1>8, <3>1, <3>2 DEF OnEnterVehicle
  <2> QED
    BY <1>8, <2>1, <2>3, <2>4 DEF OnEnterVehicle
<1>9. ASSUME NEW b \in Bots, NEW is_stop \in BOOLEAN, OnPlaybackEnd(b, is_stop)
      PROVE  TypeOK'
  <2> DEFINE sent == [client[b] EXCEPT !.inbox = @ \o StopOrders]
  <2>1. client[b] \in ClientRec /\ client[b].outbox # <<>>
    BY <1>9 DEF OnPlaybackEnd, First
  <2>2. sent \in ClientRec /\ sent.outbox = client[b].outbox
    BY <2>1, SentType DEF Sent, ClientRec
  <2>3. Handled(sent) \in ClientRec /\ Handled(client[b]) \in ClientRec
    BY <2>1, <2>2, ClientTypes
  <2>4. client' \in [Bots -> ClientRec]
    BY <1>9, <2>3 DEF OnPlaybackEnd, Sent
  <2>5. npc' \in [Bots -> NpcRec]
    BY <1>9 DEF OnPlaybackEnd, NpcRec, States
  <2> QED
    BY <1>9, <2>4, <2>5 DEF OnPlaybackEnd
<1>10. ASSUME NEW b \in Bots, NEW is_stop \in BOOLEAN, Timer250(b, is_stop)
       PROVE  TypeOK'
  <2>1. \A s \in States : [npc[b] EXCEPT !.state = s] \in NpcRec
    BY DEF NpcRec
  <2>2. npc' \in [Bots -> NpcRec]
    BY <1>10, <2>1 DEF Timer250, States
  <2>3. client' \in [Bots -> ClientRec]
    BY <1>10, SentType DEF Timer250
  <2> QED
    BY <1>10, <2>2, <2>3 DEF Timer250
<1>11. ASSUME NEW b \in Bots, BotObeys(b)
       PROVE  TypeOK'
  BY <1>11, ClientTypes DEF BotObeys
<1>12. ASSUME NEW b \in Bots, PlaybackEnds(b)
       PROVE  TypeOK'
  <2>1. [client[b] EXCEPT !.recording = "idle"] \in ClientRec
    BY DEF ClientRec
  <2> QED
    BY <1>12, <2>1, TellsType DEF PlaybackEnds, Events
<1>13. CASE UNCHANGED vars
  BY <1>13 DEF vars
<1> QED
  BY <1>1, <1>2, <1>3, <1>4, <1>5, <1>6, <1>7, <1>8, <1>9, <1>10, <1>11, <1>12, <1>13
     DEF Next, Bot

-----------------------------------------------------------------------------
(* The inductive invariant of places, bots and vehicles.                     *)

\* An id that was never given out has left no trace: a new route finds neither
\* seats nor bots under its id.
IdsUsed ==
  /\ \A r \in RouteIds : Live(r) => r \in used
  /\ \A b \in queue \cup launched \cup holder : b[1] \in used
  /\ \A b \in Bots : seat[b] # NoSeat => b[1] \in used

IInv == TypeOK /\ IdsUsed /\ BindingsAgree /\ VehiclesOwned

\* Nothing is configured at the start, so everything agrees.
LEMMA InitIInv == Init => IInv
<1> SUFFICES ASSUME Init PROVE IInv
  OBVIOUS
<1>1. TypeOK
  BY InitType
<1>2. IdsUsed /\ BindingsAgree /\ VehiclesOwned
  BY DEF Init, IdsUsed, BindingsAgree, VehiclesOwned, Live, NoSeat, FreshNpc
<1> QED
  BY <1>1, <1>2 DEF IInv

\* Steps of one bot's item touch nothing the invariant looks at.
LEMMA ItemStep ==
  ASSUME IInv, seat' = seat, vehicles' = vehicles, used' = used,
         launched' \cup queue' \subseteq launched \cup queue, holder' = holder,
         \A b \in Bots : npc'[b].item = npc[b].item /\ npc'[b].kicked = npc[b].kicked,
         \A r \in RouteIds : Live(r)' <=> Live(r)
  PROVE  IdsUsed' /\ BindingsAgree' /\ VehiclesOwned'
<1>1. IdsUsed'
  BY DEF IInv, IdsUsed
<1>2. BindingsAgree'
  BY BotFields DEF IInv, BindingsAgree
<1>3. VehiclesOwned'
  BY DEF IInv, VehiclesOwned
<1> QED
  BY <1>1, <1>2, <1>3

\* The routes that live after a reconfiguration are the new ones and those that
\* it leaves alone; a new one has no id of old.
LEMMA UpdateLives ==
  ASSUME IInv, NEW new \in SUBSET Routes,
         NEW f \in [Added(new) -> RouteIds \ used], NEW v,
         Update(Gone(new), f, v)
  PROVE  /\ \A r \in {f[d] : d \in DOMAIN f} :
              r \in RouteIds \ used /\ data'[r] = Created(f, r) /\ data'[r] \in RouteData
         /\ \A r \in RouteIds :
              Live(r)' <=> r \in {f[d] : d \in DOMAIN f} \/ (Live(r) /\ r \notin Gone(new))
<1> DEFINE gone == Gone(new)
           born == {f[d] : d \in DOMAIN f}
<1>1. TypeOK /\ Added(new) \in SUBSET Routes /\ DOMAIN f = Added(new)
  BY DEF IInv, Added
<1>3. \A r \in born : r \in RouteIds \ used /\ data'[r] = Created(f, r) /\ data'[r] \in RouteData
  <2> TAKE r \in born
  <2>1. PICK d \in Added(new) : r = f[d]
    BY <1>1
  <2>2. Created(f, f[d]) \in RouteData
    BY <1>1, CreatedIsData
  <2> QED
    BY <2>1, <2>2, <1>1 DEF Update
<1>4. \A r \in RouteIds : Live(r)' <=> r \in born \/ (Live(r) /\ r \notin gone)
  BY <1>3, NoneIsNoData DEF Update, Live
<1> QED
  BY <1>3, <1>4

\* A reconfiguration frees what it removes, and its new ids and vehicles are
\* nobody's: route_destroy and route_create keep the invariant.
LEMMA UpdateStep ==
  ASSUME IInv, NEW new \in SUBSET Routes,
         NEW f \in [Added(new) -> RouteIds \ used],
         NEW v \in [Places(f) -> VehicleIds \ (vehicles \ FreedBy(Gone(new)))],
         OneToOne(v),
         Update(Gone(new), f, v)
  PROVE  IdsUsed' /\ BindingsAgree' /\ VehiclesOwned'
<1> DEFINE gone == Gone(new)
           born == {f[d] : d \in DOMAIN f}
<1>1. /\ TypeOK /\ IdsUsed /\ BindingsAgree /\ VehiclesOwned
      /\ Added(new) \in SUBSET Routes /\ DOMAIN f = Added(new)
  BY DEF IInv, Added
<1>2. Places(f) \subseteq Bots /\ \A b \in Places(f) : b[1] \in born /\ b[1] \notin used
  BY DEF Places
<1>4. \A r \in RouteIds : Live(r)' <=> r \in born \/ (Live(r) /\ r \notin gone)
  BY UpdateLives
<1>5. \A b \in Bots :
        /\ b \in Places(f) =>
             seat'[b].bound = FALSE /\ seat'[b].vehicle = v[b]
        /\ b \notin Places(f) /\ b[1] \in gone =>
             /\ seat'[b] = NoSeat
             /\ seat'[b].bound = FALSE /\ seat'[b].vehicle = None
        /\ b \notin Places(f) /\ b[1] \notin gone => seat'[b] = seat[b]
  <2> TAKE b \in Bots
  <2>1. CASE b \in Places(f)
    <3>1. seat'[b] = [bound |-> FALSE, vehicle |-> v[b]]
      BY <2>1 DEF Update
    <3> QED
      BY <2>1, <3>1
  <2>2. CASE b \notin Places(f) /\ b[1] \in gone
    BY <2>2 DEF Update, NoSeat
  <2>3. CASE b \notin Places(f) /\ b[1] \notin gone
    BY <2>3 DEF Update
  <2> QED
    BY <2>1, <2>2, <2>3
<1>6. IdsUsed'
  BY <1>1, <1>2, <1>4, <1>5 DEF IdsUsed, Update
<1>7. BindingsAgree'
  <2> SUFFICES ASSUME NEW b \in Bots
      PROVE /\ seat'[b].bound <=> b \in holder' /\ npc'[b].item /\ ~npc'[b].kicked
            /\ seat'[b].bound => Live(b[1])'
    BY DEF BindingsAgree
  <2>0. /\ holder' = holder
        /\ npc'[b].item = npc[b].item
        /\ npc'[b].kicked = (npc[b].kicked \/ b \in KickedBy(gone))
    BY <1>1 DEF Update, TypeOK, NpcRec
  <2>1. CASE b \in Places(f)
    <3>1. b \notin holder
      BY <1>1, <1>2, <2>1 DEF IdsUsed
    <3>2. seat'[b].bound = FALSE
      BY <1>5, <2>1
    <3> QED
      BY <2>0, <3>1, <3>2
  <2>2. CASE b \notin Places(f) /\ b[1] \in gone
    <3>1. seat'[b].bound = FALSE
      BY <1>5, <2>2
    <3>2. seat[b].bound => b \in KickedBy(gone)
      BY <2>2 DEF KickedBy
    <3>3. ~seat[b].bound => ~(b \in holder /\ npc[b].item /\ ~npc[b].kicked)
      BY <1>1 DEF BindingsAgree
    <3> QED
      BY <2>0, <3>1, <3>2, <3>3
  <2>3. CASE b \notin Places(f) /\ b[1] \notin gone
    BY <1>1, <1>4, <1>5, <2>0, <2>3, BotFields DEF BindingsAgree, KickedBy
  <2> QED
    BY <2>1, <2>2, <2>3
<1>8. VehiclesOwned'
  <2>1. \A b \in Bots : \/ seat[b].vehicle = None
                        \/ seat[b].vehicle \in vehicles /\ b[1] \in used
    BY <1>1 DEF VehiclesOwned, IdsUsed, NoSeat
  <2>2. \A b \in Bots \ Places(f) :
          /\ b[1] \in gone => seat'[b].vehicle = None
          /\ b[1] \notin gone => /\ seat'[b].vehicle = seat[b].vehicle
                                 /\ \/ seat[b].vehicle \notin FreedBy(gone)
                                    \/ seat[b].vehicle = None
    <3> TAKE b \in Bots \ Places(f)
    <3>1. b[1] \in gone => seat'[b].vehicle = None
      BY <1>5
    <3>2. b[1] \notin gone => seat'[b] = seat[b]
      BY <1>5
    <3>3. ASSUME b[1] \notin gone, seat[b].vehicle \in FreedBy(gone)
          PROVE  seat[b].vehicle = None
      <4>1. PICK c \in Bots : c[1] \in gone /\ seat[b].vehicle = seat[c].vehicle
        BY <3>3 DEF FreedBy
      <4> QED
        BY <1>1, <3>3, <4>1 DEF VehiclesOwned
    <3> QED
      BY <3>1, <3>2, <3>3
  <2>3. \A b \in Places(f) : /\ seat'[b].vehicle = v[b]
                             /\ v[b] \in VehicleIds
                             /\ v[b] \notin vehicles \ FreedBy(gone)
                             /\ v[b] # None
                             /\ seat[b].vehicle = None
    <3> TAKE b \in Places(f)
    <3>1. v[b] \in VehicleIds \ (vehicles \ FreedBy(gone))
      OBVIOUS
    <3>2. seat'[b].vehicle = v[b]
      BY <1>2, <1>5
    <3>3. seat[b].vehicle = None
      BY <1>2, <2>1
    <3> QED
      BY <3>1, <3>2, <3>3, NpcTaxiAssumption
  <2>4. vehicles' = (vehicles \ FreedBy(gone)) \cup {v[b] : b \in Places(f)}
    BY DEF Update
  <2>5. vehicles' = {seat'[b].vehicle : b \in Bots} \ {None}
    <3>1. ASSUME NEW x \in vehicles' PROVE x \in {seat'[b].vehicle : b \in Bots} \ {None}
      <4>1. CASE x \in vehicles \ FreedBy(gone)
        <5>1. PICK b \in Bots : x = seat[b].vehicle /\ x # None
          BY <1>1, <4>1 DEF VehiclesOwned
        <5>2. b[1] \notin gone
          BY <4>1, <5>1 DEF FreedBy
        <5>3. b \notin Places(f)
          BY <5>1, <2>3
        <5> QED
          BY <5>1, <5>2, <5>3, <2>2
      <4>2. CASE x \in {v[b] : b \in Places(f)}
        BY <4>2, <2>3, <1>2
      <4> QED
        BY <3>1, <2>4, <4>1, <4>2
    <3>2. ASSUME NEW b \in Bots, seat'[b].vehicle # None PROVE seat'[b].vehicle \in vehicles'
      BY <3>2, <2>1, <2>2, <2>3, <2>4
    <3> QED
      BY <3>1, <3>2
  <2>6. ASSUME NEW b \in Bots, NEW c \in Bots,
               seat'[b].vehicle = seat'[c].vehicle, seat'[b].vehicle # None
        PROVE  b = c
    <3>1. CASE b \in Places(f) /\ c \in Places(f)
      BY <2>3, <2>6, <3>1 DEF OneToOne
    <3>2. CASE b \notin Places(f) /\ c \notin Places(f)
      BY <1>1, <2>2, <2>6, <3>2 DEF VehiclesOwned
    <3>3. CASE b \in Places(f) /\ c \notin Places(f)
      BY <2>1, <2>2, <2>3, <2>6, <3>3
    <3>4. CASE b \notin Places(f) /\ c \in Places(f)
      BY <2>1, <2>2, <2>3, <2>6, <3>4
    <3> QED
      BY <3>1, <3>2, <3>3, <3>4
  <2> QED
    BY <2>5, <2>6 DEF VehiclesOwned
<1> QED
  BY <1>6, <1>7, <1>8

\* A bot that connects was launched for a place of an id once given out.
LEMMA ConnectStep ==
  ASSUME IInv, NEW b \in Bots, Connect(b)
  PROVE  IdsUsed' /\ BindingsAgree' /\ VehiclesOwned'
<1>1. /\ TypeOK /\ IdsUsed /\ BindingsAgree /\ VehiclesOwned
  BY DEF IInv
<1>2. /\ seat' = [seat EXCEPT ![b].bound = Live(b[1])]
      /\ npc' = [npc EXCEPT ![b] = [FreshNpc EXCEPT !.item = Live(b[1])]]
      /\ holder' = holder \cup {b} /\ b \in launched
      /\ launched' \subseteq launched /\ queue' = queue
      /\ used' = used /\ vehicles' = vehicles /\ data' = data
  BY DEF Connect
<1>3. \A c \in Bots : /\ seat'[c].vehicle = seat[c].vehicle
                      /\ c # b => seat'[c] = seat[c] /\ npc'[c] = npc[c]
  BY <1>1, <1>2 DEF TypeOK, Seat
<1>4. /\ seat'[b].bound = Live(b[1])
      /\ npc'[b].item = Live(b[1]) /\ npc'[b].kicked = FALSE
  BY <1>1, <1>2 DEF TypeOK, Seat, FreshNpc
<1>5. \A r \in RouteIds : Live(r)' <=> Live(r)
  BY <1>2 DEF Live
<1>6. IdsUsed'
  BY <1>1, <1>2, <1>3, <1>5 DEF IdsUsed
<1>7. BindingsAgree'
  BY <1>1, <1>2, <1>3, <1>4, <1>5, BotFields DEF BindingsAgree
<1>8. VehiclesOwned'
  BY <1>1, <1>2, <1>3 DEF VehiclesOwned
<1> QED
  BY <1>6, <1>7, <1>8

\* A bot that leaves gives up its place and its vehicle, unless its route did
\* so before.
LEMMA DisconnectStep ==
  ASSUME IInv, NEW b \in Bots, Disconnect(b)
  PROVE  IdsUsed' /\ BindingsAgree' /\ VehiclesOwned'
<1>1. /\ TypeOK /\ IdsUsed /\ BindingsAgree /\ VehiclesOwned
  BY DEF IInv
<1>2. /\ holder' = holder \ {b} /\ npc' = [npc EXCEPT ![b] = FreshNpc]
      /\ launched' = launched /\ queue' = queue /\ used' = used
  BY DEF Disconnect
<1>3. \A r \in RouteIds : Live(r)' <=> Live(r)
  <2>1. CASE ~seat[b].bound
    BY <2>1 DEF Disconnect, Live
  <2>2. CASE seat[b].bound
    <3>1. data[b[1]] \in RouteData
      BY <1>1, <2>2, LiveIsData, BotFields DEF BindingsAgree
    <3>2. [data[b[1]] EXCEPT !.ready_count = @ - 1] \in RouteData
      BY <3>1 DEF RouteData
    <3>3. data' = [data EXCEPT ![b[1]].ready_count = @ - 1]
      BY <2>2 DEF Disconnect, ReadyLess
    <3> QED
      BY <1>1, <3>1, <3>2, <3>3, NoneIsNoData, BotFields DEF Live, TypeOK
  <2> QED
    BY <2>1, <2>2
<1>4. \/ seat' = seat /\ vehicles' = vehicles /\ ~seat[b].bound
      \/ /\ seat' = [seat EXCEPT ![b] = NoSeat]
         /\ vehicles' = vehicles \ {seat[b].vehicle}
  BY DEF Disconnect, SeatLeft
<1>5. IdsUsed'
  BY <1>1, <1>2, <1>3, <1>4 DEF IdsUsed, TypeOK
<1>6. BindingsAgree'
  BY <1>1, <1>2, <1>3, <1>4, BotFields DEF BindingsAgree, TypeOK, NoSeat
<1>7. VehiclesOwned'
  BY <1>1, <1>4 DEF VehiclesOwned, TypeOK, NoSeat
<1> QED
  BY <1>5, <1>6, <1>7

\* Replacing the data of a living route by data keeps the same routes alive.
LEMMA SameLive ==
  ASSUME TypeOK,
         \A r \in RouteIds : data'[r] = data[r] \/ (Live(r) /\ data'[r] \in RouteData)
  PROVE  \A r \in RouteIds : Live(r)' <=> Live(r)
BY NoneIsNoData DEF Live

\* One step per handler; those below Timer500 change no seat and no vehicle.
LEMMA IInvStep == IInv /\ [Next]_vars => IInv'
<1> SUFFICES ASSUME IInv, [Next]_vars PROVE IInv'
  OBVIOUS
<1>0. TypeOK /\ IdsUsed /\ BindingsAgree /\ VehiclesOwned
  BY DEF IInv
<1>1. TypeOK'
  BY <1>0, TypeStep
<1>2. IdsUsed' /\ BindingsAgree' /\ VehiclesOwned'
  <2> DEFINE Same == /\ seat' = seat /\ vehicles' = vehicles /\ used' = used
                     /\ launched' \cup queue' \subseteq launched \cup queue
                     /\ holder' = holder
             Flags == \A b \in Bots : /\ npc'[b].item = npc[b].item
                                      /\ npc'[b].kicked = npc[b].kicked
             Lives == \A r \in RouteIds : Live(r)' <=> Live(r)
  <2>0. Same /\ Flags /\ Lives => IdsUsed' /\ BindingsAgree' /\ VehiclesOwned'
    BY ItemStep
  <2> HIDE DEF Same, Flags, Lives
  <2>a. npc' = npc => Flags
    BY DEF Flags
  <2>b. data' = data => Lives
    BY DEF Lives, Live
  <2>c. ASSUME NEW b \in Bots, NEW s \in States, npc' = [npc EXCEPT ![b].state = s]
        PROVE  Flags
    BY <1>0, <2>c DEF Flags, TypeOK, NpcRec
  <2>1. ASSUME NEW new \in SUBSET Routes, Configure(new)
        PROVE  IdsUsed' /\ BindingsAgree' /\ VehiclesOwned'
    BY <2>1, UpdateStep DEF Configure
  <2>2. CASE Timer500
    <3>1. Same
      BY <2>2 DEF Timer500, Same, world
    <3> QED
      BY <2>2, <3>1, <2>0, <2>a, <2>b DEF Timer500, world
  <2>3. CASE Timer1000
    <3>1. Same
      BY <2>3 DEF Timer1000, Same, links
    <3>2. \A r \in RouteIds : data'[r] = data[r] \/ (Live(r) /\ data'[r] \in RouteData)
      <4> TAKE r \in RouteIds
      <4>1. Live(r) => [data[r] EXCEPT !.started = TRUE] \in RouteData
        BY <1>0, LiveIsData DEF RouteData
      <4>2. CASE Live(r) /\ Complete(data[r])
        BY <2>3, <4>1, <4>2 DEF Timer1000
      <4>3. CASE ~(Live(r) /\ Complete(data[r]))
        BY <2>3, <4>3 DEF Timer1000
      <4> QED
        BY <4>2, <4>3
    <3>3. Lives
      BY <1>0, <3>2, SameLive DEF Lives
    <3> QED
      BY <2>3, <3>1, <3>3, <2>0, <2>a DEF Timer1000
  <2>4. ASSUME NEW b \in Bots, Connect(b)
        PROVE  IdsUsed' /\ BindingsAgree' /\ VehiclesOwned'
    BY <2>4, ConnectStep
  <2>5. ASSUME NEW b \in Bots, ConnectFails(b)
        PROVE  IdsUsed' /\ BindingsAgree' /\ VehiclesOwned'
    <3>1. Same
      BY <2>5 DEF ConnectFails, Same, world
    <3> QED
      BY <2>5, <3>1, <2>0, <2>a, <2>b DEF ConnectFails, world
  <2>6. ASSUME NEW b \in Bots, Disconnect(b)
        PROVE  IdsUsed' /\ BindingsAgree' /\ VehiclesOwned'
    BY <2>6, DisconnectStep
  <2>7. ASSUME NEW b \in Bots, OnSpawn(b)
        PROVE  IdsUsed' /\ BindingsAgree' /\ VehiclesOwned'
    <3>1. Same
      BY <2>7 DEF OnSpawn, Same, world, links
    <3>2. Flags
      BY <1>0, <2>7 DEF OnSpawn, Flags, TypeOK, NpcRec
    <3> QED
      BY <2>7, <3>1, <3>2, <2>0, <2>b DEF OnSpawn, world
  <2>8. ASSUME NEW b \in Bots, OnEnterVehicle(b)
        PROVE  IdsUsed' /\ BindingsAgree' /\ VehiclesOwned'
    <3>1. Same
      BY <2>8 DEF OnEnterVehicle, Same, links
    <3>2. CASE UNCHANGED <<npc, data>>
      BY <3>1, <3>2, <2>0, <2>a, <2>b
    <3>3. CASE /\ Valid(b)
               /\ npc' = [npc EXCEPT ![b].ready = TRUE]
               /\ data' = [data EXCEPT ![b[1]].ready_count = @ + 1]
      <4>1. Flags
        BY <1>0, <3>3 DEF Flags, TypeOK, NpcRec
      <4>2. data[b[1]] \in RouteData /\ Live(b[1]) /\ b[1] \in RouteIds
        BY <1>0, <3>3, LiveIsData, BotFields DEF Valid
      <4>3. [data[b[1]] EXCEPT !.ready_count = @ + 1] \in RouteData
        BY <4>2 DEF RouteData
      <4>4. \A r \in RouteIds : data'[r] = data[r] \/ (Live(r) /\ data'[r] \in RouteData)
        BY <1>0, <3>3, <4>2, <4>3 DEF TypeOK
      <4>5. Lives
        BY <1>0, <4>4, SameLive DEF Lives
      <4> QED
        BY <3>1, <4>1, <4>5, <2>0
    <3> QED
      BY <2>8, <3>2, <3>3 DEF OnEnterVehicle
  <2>9. ASSUME NEW b \in Bots, NEW is_stop \in BOOLEAN, OnPlaybackEnd(b, is_stop)
        PROVE  IdsUsed' /\ BindingsAgree' /\ VehiclesOwned'
    <3>1. Same
      BY <2>9 DEF OnPlaybackEnd, Same, world, links
    <3>2. Flags
      <4>1. \/ npc' = npc
            \/ \E s \in States : npc' = [npc EXCEPT ![b].state = s]
        BY <2>9 DEF OnPlaybackEnd, States
      <4> QED
        BY <4>1, <2>a, <2>c
    <3> QED
      BY <2>9, <3>1, <3>2, <2>0, <2>b DEF OnPlaybackEnd, world
  <2>10. ASSUME NEW b \in Bots, NEW is_stop \in BOOLEAN, Timer250(b, is_stop)
         PROVE  IdsUsed' /\ BindingsAgree' /\ VehiclesOwned'
    <3>1. Same
      BY <2>10 DEF Timer250, Same, world, links
    <3>2. \E s \in States : npc' = [npc EXCEPT ![b].state = s]
      BY <2>10 DEF Timer250, States
    <3>3. Flags
      BY <3>2, <2>c
    <3> QED
      BY <2>10, <3>1, <3>3, <2>0, <2>b DEF Timer250, world
  <2>11. ASSUME NEW b \in Bots, BotObeys(b) \/ PlaybackEnds(b)
         PROVE  IdsUsed' /\ BindingsAgree' /\ VehiclesOwned'
    <3>1. Same
      BY <2>11 DEF BotObeys, PlaybackEnds, Same, world, links
    <3> QED
      BY <2>11, <3>1, <2>0, <2>a, <2>b DEF BotObeys, PlaybackEnds, world
  <2>12. CASE UNCHANGED vars
    <3>1. Same
      BY <2>12 DEF vars, Same, world, links
    <3> QED
      BY <2>12, <3>1, <2>0, <2>a, <2>b DEF vars, world
  <2> QED
    BY <2>1, <2>2, <2>3, <2>4, <2>5, <2>6, <2>7, <2>8, <2>9, <2>10, <2>11, <2>12
       DEF Next, Bot
<1> QED
  BY <1>1, <1>2 DEF IInv

\* No step of the server, of a bot or of the network leads out of the invariant.
THEOREM Inductive == Spec => []IInv
<1>1. Init => IInv
  BY InitIInv
<1>2. IInv /\ [Next]_vars => IInv'
  BY IInvStep
<1> QED
  BY <1>1, <1>2, PTL DEF Spec

\* Every variable keeps its type, whatever configurations are read and however
\* bots come and go: in particular the data a bound bot counts in is a route's.
THEOREM TypeCorrect == Spec => []TypeOK
<1>1. IInv => TypeOK
  BY DEF IInv
<1> QED
  BY <1>1, Inductive, PTL

\* The place of a bot and its taxi item find each other through every order of
\* connecting, leaving, being kicked and the route being deleted.
THEOREM BindingsKept == Spec => []BindingsAgree
<1>1. IInv => BindingsAgree
  BY DEF IInv
<1> QED
  BY <1>1, Inductive, PTL

\* The vehicles on the server are exactly the places' ones, one each, so that
\* destroying a route or losing a bot never destroys somebody else's vehicle.
THEOREM VehiclesKept == Spec => []VehiclesOwned
<1>1. IInv => VehiclesOwned
  BY DEF IInv
<1> QED
  BY <1>1, Inductive, PTL
-----------------------------------------------------------------------------
(* Orders and the recording.                                                 *)

\* The orders of an inbox that are about the recording begin after those that
\* put the bot into its vehicle, of which there is at most one, in front.
Skip(q) == IF Len(q) > 0 /\ q[1] = "put" THEN 1 ELSE 0
Left(q) == Len(q) - Skip(q)

\* How the state of an item, the recording of its bot and the orders q on
\* their way hang together; ended: the bot has told that its recording ended.
Script(state, recording, q, ended) ==
  LET k == Skip(q)
      m == Left(q)
  IN  /\ \A i \in 1..Len(q) : q[i] = "put" => i = 1
      /\ ended => state = "onroute" /\ m = 0 /\ recording = "idle"
      /\ \/ state \in {"oninit", "onroute_end"} /\ m = 0 /\ recording = "idle"
         \/ /\ state = "onstop"
            /\ \/ m = 0 /\ recording = "paused"
               \/ m = 1 /\ recording = "playing" /\ q[k + 1] = "pause"
               \/ /\ m = 2 /\ recording = "idle"
                  /\ q[k + 1] = "start" /\ q[k + 2] = "pause"
         \/ /\ state = "onroute"
            /\ \/ m = 0 /\ recording = "playing"
               \/ m = 0 /\ recording = "idle" /\ ended
               \/ m = 1 /\ recording = "paused" /\ q[k + 1] = "start"
               \/ /\ m = 2 /\ recording = "playing"
                  /\ q[k + 1] = "pause" /\ q[k + 2] = "start"
               \/ /\ m = 3 /\ recording = "idle"
                  /\ q[k + 1] = "start" /\ q[k + 2] = "pause" /\ q[k + 3] = "start"

\* What a bot's recording does when it obeys the order o.
Turned(recording, o) ==
  CASE o = "put"   -> recording
    [] o = "start" -> "playing"
    [] o = "pause" -> IF recording = "playing" THEN "paused" ELSE recording

\* A bot that obeys follows the script.
LEMMA ScriptObeyed ==
  ASSUME NEW s, NEW r, NEW q \in Seq(Orders), NEW e \in BOOLEAN,
         Script(s, r, q, e), q # <<>>
  PROVE  Script(s, Turned(r, Head(q)), Tail(q), e)
<1> DEFINE t == Tail(q)
<1>1. /\ Len(q) \in Nat /\ Len(q) > 0 /\ Head(q) = q[1] /\ q[1] \in Orders
      /\ t \in Seq(Orders) /\ Len(t) = Len(q) - 1
      /\ \A i \in 1..Len(t) : t[i] = q[i + 1]
  BY HeadTailProperties
<1> HIDE DEF t
<1>2. CASE q[1] = "put"
  <2>1. /\ Skip(q) = 1 /\ Skip(t) = 0 /\ Left(t) = Left(q)
        /\ Turned(r, Head(q)) = r
    BY <1>1, <1>2 DEF Script, Skip, Left, Turned
  <2>2. \A i \in 1..Len(t) : t[i] = "put" => i = 1
    BY <1>1, <1>2 DEF Script
  <2>3. /\ Left(t) >= 1 => t[1] = q[2]
        /\ Left(t) >= 2 => t[2] = q[3]
        /\ Left(t) >= 3 => t[3] = q[4]
    BY <1>1, <2>1 DEF Left
  <2>4. Script(s, r, t, e)
    BY <2>1, <2>2, <2>3 DEF Script
  <2> QED BY <2>1, <2>4 DEF t
<1>3. CASE q[1] # "put"
  <2>1. /\ Skip(q) = 0 /\ Left(q) = Len(q)
        /\ \A i \in 1..Len(q) : q[i] # "put"
    BY <1>1, <1>3 DEF Script, Skip, Left
  <2>2. \A i \in 1..Len(t) : t[i] # "put"
    BY <1>1, <2>1
  <2>3. Skip(t) = 0 /\ Left(t) = Len(q) - 1
    BY <1>1, <2>2 DEF Skip, Left
  <2>4. q[1] = "start" \/ q[1] = "pause"
    BY <1>1, <1>3 DEF Orders
  <2>5. CASE q[1] = "start"
    <3>1. Turned(r, Head(q)) = "playing" /\ ~e
      BY <1>1, <2>1, <2>5 DEF Turned, Script
    <3>2. \/ /\ s = "onstop" /\ Len(t) = 1 /\ t[1] = "pause"
          \/ s = "onroute" /\ Len(t) = 0
          \/ s = "onroute" /\ Len(t) = 2 /\ t[1] = "pause" /\ t[2] = "start"
      BY <1>1, <2>1, <2>5 DEF Script
    <3>3. Script(s, "playing", t, e)
      BY <2>2, <2>3, <3>1, <3>2, <1>1, <2>1 DEF Script
    <3> QED BY <3>1, <3>3 DEF t
  <2>6. CASE q[1] = "pause"
    <3>1. Turned(r, Head(q)) = "paused" /\ ~e
      BY <1>1, <2>1, <2>6 DEF Turned, Script
    <3>2. \/ s = "onstop" /\ Len(t) = 0
          \/ s = "onroute" /\ Len(t) = 1 /\ t[1] = "start"
      BY <1>1, <2>1, <2>6 DEF Script
    <3>3. Script(s, "paused", t, e)
      BY <2>2, <2>3, <3>1, <3>2, <1>1, <2>1 DEF Script
    <3> QED BY <3>1, <3>3 DEF t
  <2> QED BY <2>4, <2>5, <2>6
<1> QED BY <1>2, <1>3

\* So does a server that sends orders o to a bot that has done with the others
\* in the way the state of its item says.
LEMMA ScriptSent ==
  ASSUME NEW s, NEW r, NEW q \in Seq(Orders), NEW e \in BOOLEAN,
         Script(s, r, q, e)
  PROVE  /\ s \in {"oninit", "onroute_end"} \/ (s = "onroute" /\ e)
              => Script("onstop", r, q \o <<"start", "pause">>, FALSE)
         /\ s = "onstop" => Script("onroute", r, q \o <<"start">>, FALSE)
         /\ q = <<>> => Script(s, r, q \o <<"put">>, e)
<1>1. Len(q) \in Nat
  OBVIOUS
<1>2. ASSUME NEW o \in Seq(Orders), Len(o) > 0, o[1] # "put"
      PROVE  /\ Len(q \o o) = Len(q) + Len(o)
             /\ \A i \in 1..Len(q) : (q \o o)[i] = q[i]
             /\ \A i \in 1..Len(o) : (q \o o)[Len(q) + i] = o[i]
             /\ Skip(q \o o) = Skip(q)
             /\ Left(q \o o) = Left(q) + Len(o)
  <2>1. /\ Len(q \o o) = Len(q) + Len(o)
        /\ \A i \in 1..Len(q) : (q \o o)[i] = q[i]
        /\ \A i \in 1..Len(o) : (q \o o)[Len(q) + i] = o[i]
    OBVIOUS
  <2>2. Skip(q \o o) = Skip(q)
    <3>1. CASE Len(q) = 0
      BY <1>2, <2>1, <3>1 DEF Skip
    <3>2. CASE Len(q) > 0
      BY <2>1, <3>2 DEF Skip
    <3> QED BY <3>1, <3>2, <1>1
  <2> QED BY <2>1, <2>2, <1>1 DEF Left, Skip
<1>3. ASSUME s \in {"oninit", "onroute_end"} \/ (s = "onroute" /\ e)
      PROVE  Script("onstop", r, q \o <<"start", "pause">>, FALSE)
  <2> DEFINE o == <<"start", "pause">>
             t == q \o o
  <2>1. o \in Seq(Orders) /\ Len(o) = 2 /\ o[1] = "start" /\ o[2] = "pause"
    BY DEF Orders
  <2>2. Left(q) = 0 /\ r = "idle"
    BY <1>3 DEF Script
  <2>3. Len(q) = Skip(q)
    BY <1>1, <2>2 DEF Left, Skip
  <2> HIDE DEF o
  <2>4. /\ Len(t) = Len(q) + 2 /\ Skip(t) = Skip(q) /\ Left(t) = 2
        /\ \A i \in 1..Len(q) : t[i] = q[i]
        /\ t[Len(q) + 1] = "start" /\ t[Len(q) + 2] = "pause"
    <3>1. /\ Len(t) = Len(q) + Len(o) /\ Skip(t) = Skip(q)
          /\ Left(t) = Left(q) + Len(o)
          /\ \A i \in 1..Len(q) : t[i] = q[i]
          /\ \A i \in 1..Len(o) : t[Len(q) + i] = o[i]
      <4>1. Len(o) > 0 /\ o[1] # "put"
        BY <2>1
      <4> QED BY <1>2, <2>1, <4>1, Zenon
    <3>2. 1 \in 1..Len(o) /\ 2 \in 1..Len(o)
      BY <2>1
    <3>3. t[Len(q) + 1] = o[1] /\ t[Len(q) + 2] = o[2]
      BY <3>1, <3>2
    <3> HIDE DEF t
    <3> QED BY <2>1, <2>2, <3>1, <3>3
  <2> HIDE DEF t
  <2>5. \A i \in 1..Len(t) : t[i] = "put" => i = 1
    <3>1. \A i \in 1..Len(t) : i \in 1..Len(q) \/ i = Len(q) + 1 \/ i = Len(q) + 2
      BY <1>1, <2>4
    <3> QED BY <2>4, <3>1 DEF Script
  <2>6. Script("onstop", r, t, FALSE)
    BY <2>2, <2>3, <2>4, <2>5 DEF Script
  <2> QED BY <2>6 DEF t, o
<1>4. ASSUME s = "onstop"
      PROVE  Script("onroute", r, q \o <<"start">>, FALSE)
  <2> DEFINE o == <<"start">>
             t == q \o o
  <2>1. o \in Seq(Orders) /\ Len(o) = 1 /\ o[1] = "start"
    BY DEF Orders
  <2> HIDE DEF o
  <2>2. /\ Len(t) = Len(q) + 1 /\ Skip(t) = Skip(q) /\ Left(t) = Left(q) + 1
        /\ \A i \in 1..Len(q) : t[i] = q[i]
        /\ t[Len(q) + 1] = "start"
    BY <1>2, <2>1
  <2> HIDE DEF t
  <2>3. \A i \in 1..Len(t) : t[i] = "put" => i = 1
    BY <1>1, <2>2 DEF Script
  <2>4. Len(q) = Left(q) + Skip(q) /\ Skip(q) \in {0, 1}
    BY <1>1 DEF Left, Skip
  <2>5. /\ ~e
        /\ \/ Left(q) = 0 /\ r = "paused"
           \/ Left(q) = 1 /\ r = "playing" /\ q[Skip(q) + 1] = "pause"
           \/ /\ Left(q) = 2 /\ r = "idle"
              /\ q[Skip(q) + 1] = "start" /\ q[Skip(q) + 2] = "pause"
    BY <1>4 DEF Script
  <2>6. \/ Left(t) = 1 /\ r = "paused" /\ t[Skip(t) + 1] = "start"
        \/ /\ Left(t) = 2 /\ r = "playing"
           /\ t[Skip(t) + 1] = "pause" /\ t[Skip(t) + 2] = "start"
        \/ /\ Left(t) = 3 /\ r = "idle"
           /\ t[Skip(t) + 1] = "start" /\ t[Skip(t) + 2] = "pause"
           /\ t[Skip(t) + 3] = "start"
    BY <1>1, <2>2, <2>4, <2>5
  <2>7. Script("onroute", r, t, FALSE)
    BY <2>3, <2>6 DEF Script
  <2> QED BY <2>7 DEF t, o
<1>5. ASSUME q = <<>>
      PROVE  Script(s, r, q \o <<"put">>, e)
  <2> DEFINE t == q \o <<"put">>
  <2>1. Len(t) = 1 /\ t[1] = "put"
    BY <1>5
  <2> HIDE DEF t
  <2>2. Skip(q) = 0 /\ Left(q) = 0 /\ Skip(t) = 1 /\ Left(t) = 0
    BY <1>5, <2>1 DEF Skip, Left
  <2>3. Script(s, r, t, e)
    BY <2>1, <2>2 DEF Script
  <2> QED BY <2>3 DEF t
<1> QED BY <1>3, <1>4, <1>5

\* And a bot whose recording ends, and a server that hears of it.
LEMMA ScriptEnds ==
  ASSUME NEW s, NEW r, NEW q \in Seq(Orders), NEW e \in BOOLEAN,
         Script(s, r, q, e)
  PROVE  /\ r = "playing" /\ (\A i \in 1..Len(q) : q[i] # "pause")
              => ~e /\ Script(s, "idle", q, TRUE)
         /\ e => s = "onroute" /\ Script("onroute_end", r, q, FALSE)
<1>1. Len(q) \in Nat /\ Len(q) = Left(q) + Skip(q) /\ Skip(q) \in {0, 1}
  BY DEF Left, Skip
<1>2. ASSUME r = "playing", \A i \in 1..Len(q) : q[i] # "pause"
      PROVE  ~e /\ s = "onroute" /\ Left(q) = 0
  BY <1>1, <1>2 DEF Script
<1> QED BY <1>1, <1>2 DEF Script

-----------------------------------------------------------------------------
(* Bots and their items.                                                     *)

\* A bot is in one place at a time, and a process that is not connected has
\* heard and told nothing.
LinksApart ==
  /\ queue \cap launched = {} /\ holder \cap (queue \cup launched) = {}
  /\ \A b \in Bots \ holder : client[b] = FreshClient

Ended(c) == \E i \in 1..Len(c.outbox) : c.outbox[i] = "playback_end"
Once(c)  == \A i, j \in 1..Len(c.outbox) :
              c.outbox[i] = "playback_end" /\ c.outbox[j] = "playback_end" => i = j

\* A bound bot follows its item, and the item acts for a route that started.
Ride(n, c, d) ==
  /\ n.state # "oninit" => n.ready /\ d.started
  /\ Once(c)
  /\ Script(n.state, c.recording, c.inbox, Ended(c))

Rides == \A b \in Bots : seat[b].bound => Ride(npc[b], client[b], data[b[1]])

\* What is sent last and handled first.
LEMMA EventsQueue ==
  ASSUME NEW c \in ClientRec, Once(c)
  PROVE  /\ Once(Tells(c, "vehicle_enter"))
         /\ Ended(Tells(c, "vehicle_enter")) <=> Ended(c)
         /\ ~Ended(c) => /\ Once(Tells(c, "playback_end"))
                         /\ Ended(Tells(c, "playback_end"))
         /\ c.outbox # <<>> =>
              /\ Once(Handled(c))
              /\ Head(c.outbox) = "vehicle_enter" => (Ended(Handled(c)) <=> Ended(c))
              /\ Head(c.outbox) = "playback_end" => Ended(c) /\ ~Ended(Handled(c))
<1> DEFINE o == c.outbox
<1>1. o \in Seq(Events) /\ Len(o) \in Nat
  BY DEF ClientRec
<1>2. ASSUME NEW e \in Events
      PROVE  /\ Tells(c, e).outbox = Append(o, e)
             /\ Len(Append(o, e)) = Len(o) + 1
             /\ \A i \in 1..Len(o) : Append(o, e)[i] = o[i]
             /\ Append(o, e)[Len(o) + 1] = e
  BY <1>1 DEF Tells, ClientRec
<1>3. /\ Once(Tells(c, "vehicle_enter"))
      /\ Ended(Tells(c, "vehicle_enter")) <=> Ended(c)
  <2> DEFINE t == Append(o, "vehicle_enter")
  <2>1. /\ Tells(c, "vehicle_enter").outbox = t
        /\ Len(t) = Len(o) + 1
        /\ \A i \in 1..Len(o) : t[i] = o[i]
        /\ t[Len(o) + 1] # "playback_end"
    BY <1>2 DEF Events
  <2> HIDE DEF t
  <2>2. \A i \in 1..Len(t) : i \in 1..Len(o) \/ i = Len(o) + 1
    BY <1>1, <2>1
  <2>3. \A i \in 1..Len(o) : i \in 1..Len(t)
    BY <1>1, <2>1
  <2> QED BY <2>1, <2>2, <2>3 DEF Once, Ended
<1>4. ASSUME ~Ended(c)
      PROVE  Once(Tells(c, "playback_end")) /\ Ended(Tells(c, "playback_end"))
  <2> DEFINE t == Append(o, "playback_end")
  <2>1. /\ Tells(c, "playback_end").outbox = t
        /\ Len(t) = Len(o) + 1
        /\ \A i \in 1..Len(o) : t[i] = o[i]
        /\ t[Len(o) + 1] = "playback_end"
    BY <1>2 DEF Events
  <2> HIDE DEF t
  <2>2. \A i \in 1..Len(t) : i \in 1..Len(o) \/ i = Len(o) + 1
    BY <1>1, <2>1
  <2>3. \A i \in 1..Len(t) : t[i] = "playback_end" => i = Len(o) + 1
    BY <1>4, <2>1, <2>2 DEF Ended
  <2>4. Len(o) + 1 \in 1..Len(t)
    BY <1>1, <2>1
  <2> QED BY <2>1, <2>3, <2>4 DEF Once, Ended
<1>5. ASSUME o # <<>>
      PROVE  /\ Once(Handled(c))
             /\ Head(o) = "vehicle_enter" => (Ended(Handled(c)) <=> Ended(c))
             /\ Head(o) = "playback_end" => Ended(c) /\ ~Ended(Handled(c))
  <2> DEFINE t == Tail(o)
  <2>1. /\ Handled(c).outbox = t /\ Head(o) = o[1]
        /\ Len(o) > 0 /\ Len(t) = Len(o) - 1
        /\ \A i \in 1..Len(t) : t[i] = o[i + 1]
    BY <1>1, <1>5, HeadTailProperties DEF Handled, ClientRec
  <2> HIDE DEF t
  <2>2. \A i \in 1..Len(t) : i + 1 \in 1..Len(o)
    BY <1>1, <2>1
  <2>3. Once(Handled(c))
    <3> SUFFICES ASSUME NEW i \in 1..Len(t), NEW j \in 1..Len(t),
                        t[i] = "playback_end", t[j] = "playback_end"
                 PROVE  i = j
      BY <2>1 DEF Once
    <3>1. o[i + 1] = "playback_end" /\ o[j + 1] = "playback_end"
      BY <2>1
    <3>2. i + 1 = j + 1
      BY <2>2, <3>1 DEF Once
    <3> QED BY <3>2, <1>1, <2>1
  <2>4. ASSUME Head(o) = "vehicle_enter"
        PROVE  Ended(Handled(c)) <=> Ended(c)
    <3>1. ASSUME NEW i \in 1..Len(o), o[i] = "playback_end"
          PROVE  i - 1 \in 1..Len(t) /\ t[i - 1] = "playback_end"
      <4>1. i # 1 /\ i \in Nat
        BY <2>1, <2>4, <3>1
      <4>2. i - 1 \in 1..Len(t)
        BY <1>1, <2>1, <4>1
      <4>3. t[i - 1] = o[(i - 1) + 1]
        BY <2>1, <4>2
      <4> QED BY <3>1, <4>1, <4>2, <4>3
    <3> QED BY <2>1, <2>2, <3>1 DEF Ended
  <2>5. ASSUME Head(o) = "playback_end"
        PROVE  Ended(c) /\ ~Ended(Handled(c))
    <3>1. 1 \in 1..Len(o) /\ o[1] = "playback_end"
      BY <1>1, <2>1, <2>5
    <3>2. ASSUME NEW i \in 1..Len(t), t[i] = "playback_end"
          PROVE  FALSE
      <4>1. o[i + 1] = "playback_end" /\ i + 1 \in 1..Len(o)
        BY <2>1, <2>2, <3>2
      <4>2. i + 1 = 1
        BY <3>1, <4>1 DEF Once
      <4> QED BY <4>2, <1>1, <2>1
    <3> QED BY <3>1, <3>2, <2>1 DEF Ended
  <2> QED BY <2>3, <2>4, <2>5
<1> QED BY <1>3, <1>4, <1>5

\* Nothing changes but a client's inbox or recording.
LEMMA SameEvents ==
  ASSUME NEW c, NEW d, d.outbox = c.outbox
  PROVE  (Ended(d) <=> Ended(c)) /\ (Once(d) <=> Once(c))
BY DEF Ended, Once

\* A route that stays goes on: its description is the same and it does not
\* stop.  A bot gets its place when it connects.
LEMMA RouteStays ==
  ASSUME IInv, [Next]_vars
  PROVE  /\ \A r \in RouteIds : Live(r) /\ Live(r)' =>
              /\ data'[r].route = data[r].route
              /\ data[r].started => data'[r].started
         /\ \A b \in Bots : seat'[b].bound => seat[b].bound \/ Connect(b)
<1> DEFINE G1(r) == Live(r) /\ Live(r)' =>
              /\ data'[r].route = data[r].route
              /\ data[r].started => data'[r].started
           G2(b) == seat'[b].bound => seat[b].bound \/ Connect(b)
<1>0. TypeOK /\ IdsUsed /\ BindingsAgree
  BY DEF IInv
<1>a. data' = data => \A r \in RouteIds : G1(r)
  OBVIOUS
<1>b. seat' = seat => \A b \in Bots : G2(b)
  OBVIOUS
<1>1. ASSUME NEW new \in SUBSET Routes, Configure(new)
      PROVE  (\A r \in RouteIds : G1(r)) /\ (\A b \in Bots : G2(b))
  <2>1. PICK f \in [Added(new) -> RouteIds \ used] :
          \E v \in [Places(f) -> VehicleIds \ (vehicles \ FreedBy(Gone(new)))] :
            Update(Gone(new), f, v)
    BY <1>1 DEF Configure
  <2>2. ASSUME NEW r \in RouteIds, Live(r), Live(r)'
        PROVE  data'[r] = data[r]
    <3>1. r \in used
      BY <1>0, <2>2 DEF IdsUsed
    <3>2. r \notin {f[d] : d \in DOMAIN f}
      BY <3>1
    <3> QED BY <2>1, <2>2, <3>2 DEF Update, Live
  <2>3. \A b \in Bots : seat'[b].bound => seat[b].bound
    BY <2>1 DEF Update, NoSeat
  <2> QED BY <2>2, <2>3
<1>2. CASE Timer500
  BY <1>2, <1>a, <1>b DEF Timer500, world
<1>3. CASE Timer1000
  <2>1. ASSUME NEW r \in RouteIds, Live(r)
        PROVE  data'[r] \in {data[r], [data[r] EXCEPT !.started = TRUE]}
    BY <1>3, <2>1 DEF Timer1000
  <2>2. \A r \in RouteIds : Live(r) => data[r] \in RouteData
    BY <1>0, LiveIsData
  <2>3. \A r \in RouteIds : G1(r)
    BY <2>1, <2>2 DEF RouteData
  <2> QED BY <1>3, <1>b, <2>3 DEF Timer1000
<1>4. ASSUME NEW b \in Bots, Connect(b)
      PROVE  (\A r \in RouteIds : G1(r)) /\ (\A c \in Bots : G2(c))
  BY <1>0, <1>4, <1>a DEF Connect, TypeOK, Seat
<1>5. ASSUME NEW b \in Bots, ConnectFails(b)
      PROVE  (\A r \in RouteIds : G1(r)) /\ (\A c \in Bots : G2(c))
  BY <1>5, <1>a, <1>b DEF ConnectFails, world
<1>c. ASSUME NEW b \in Bots, Live(b[1]), NEW n,
             data' = [data EXCEPT ![b[1]].ready_count = n]
      PROVE  \A r \in RouteIds : G1(r)
  <2>1. b[1] \in RouteIds /\ data[b[1]] \in RouteData
    BY <1>0, <1>c, BotFields, LiveIsData
  <2> QED BY <1>0, <1>c, <2>1 DEF TypeOK, RouteData
<1>6. ASSUME NEW b \in Bots, Disconnect(b)
      PROVE  (\A r \in RouteIds : G1(r)) /\ (\A c \in Bots : G2(c))
  <2>1. CASE ~seat[b].bound
    BY <1>6, <2>1, <1>a, <1>b DEF Disconnect
  <2>2. CASE seat[b].bound
    <3>1. Live(b[1])
      BY <1>0, <2>2 DEF BindingsAgree
    <3>2. \A r \in RouteIds : G1(r)
      BY <1>6, <2>2, <3>1, <1>c DEF Disconnect, ReadyLess
    <3> QED BY <1>0, <1>6, <2>2, <3>2 DEF Disconnect, SeatLeft, NoSeat, TypeOK
  <2> QED BY <2>1, <2>2
<1>7. ASSUME NEW b \in Bots, OnSpawn(b)
      PROVE  (\A r \in RouteIds : G1(r)) /\ (\A c \in Bots : G2(c))
  BY <1>7, <1>a, <1>b DEF OnSpawn, world
<1>8. ASSUME NEW b \in Bots, OnEnterVehicle(b)
      PROVE  (\A r \in RouteIds : G1(r)) /\ (\A c \in Bots : G2(c))
  <2>1. data' = data \/ (Live(b[1]) /\ \E n : data' = [data EXCEPT ![b[1]].ready_count = n])
    BY <1>8 DEF OnEnterVehicle, Valid
  <2>2. seat' = seat
    BY <1>8 DEF OnEnterVehicle
  <2> QED BY <2>1, <2>2, <1>a, <1>b, <1>c
<1>9. ASSUME NEW b \in Bots, NEW is_stop \in BOOLEAN,
             OnPlaybackEnd(b, is_stop) \/ Timer250(b, is_stop)
      PROVE  (\A r \in RouteIds : G1(r)) /\ (\A c \in Bots : G2(c))
  BY <1>9, <1>a, <1>b DEF OnPlaybackEnd, Timer250, world
<1>10. ASSUME NEW b \in Bots, BotObeys(b) \/ PlaybackEnds(b)
       PROVE  (\A r \in RouteIds : G1(r)) /\ (\A c \in Bots : G2(c))
  BY <1>10, <1>a, <1>b DEF BotObeys, PlaybackEnds, world
<1>11. CASE UNCHANGED vars
  BY <1>11, <1>a, <1>b DEF vars, world
<1> QED
  BY <1>1, <1>2, <1>3, <1>4, <1>5, <1>6, <1>7, <1>8, <1>9, <1>10, <1>11 DEF Next, Bot

\* A number is given to one bot, which is queued, launched and connected once.
LEMMA LinksStep ==
  ASSUME IInv, LinksApart, [Next]_vars
  PROVE  LinksApart'
<1>0. TypeOK /\ IdsUsed
  BY DEF IInv
<1> USE DEF LinksApart, world, links
<1>1. ASSUME NEW new \in SUBSET Routes, Configure(new)
      PROVE  LinksApart'
  <2>1. PICK f \in [Added(new) -> RouteIds \ used] :
          /\ queue' = queue \cup Places(f)
          /\ UNCHANGED <<launched, holder, client>>
    BY <1>1 DEF Configure, Update
  <2>2. \A b \in Places(f) : b[1] \notin used
    BY DEF Places
  <2> QED BY <1>0, <2>1, <2>2 DEF IdsUsed
<1>2. CASE Timer500
  BY <1>2 DEF Timer500
<1>3. CASE Timer1000
  BY <1>3 DEF Timer1000
<1>4. ASSUME NEW b \in Bots, Bot(b)
      PROVE  LinksApart'
  <2>1. CASE Connect(b)
    BY <2>1 DEF Connect
  <2>2. CASE ConnectFails(b)
    BY <2>2 DEF ConnectFails
  <2>3. CASE Disconnect(b)
    BY <1>0, <2>3 DEF Disconnect, TypeOK
  <2>4. CASE OnSpawn(b)
    BY <1>0, <2>4 DEF OnSpawn, TypeOK
  <2>5. CASE OnEnterVehicle(b)
    BY <1>0, <2>5 DEF OnEnterVehicle, First, TypeOK
  <2>6. ASSUME NEW is_stop \in BOOLEAN, OnPlaybackEnd(b, is_stop) \/ Timer250(b, is_stop)
        PROVE  LinksApart'
    BY <1>0, <2>6 DEF OnPlaybackEnd, Timer250, First, TypeOK
  <2>7. CASE BotObeys(b) \/ PlaybackEnds(b)
    BY <1>0, <2>7 DEF BotObeys, PlaybackEnds, TypeOK
  <2> QED BY <1>4, <2>1, <2>2, <2>3, <2>4, <2>5, <2>6, <2>7 DEF Bot
<1>5. CASE UNCHANGED vars
  BY <1>5 DEF vars
<1> QED BY <1>1, <1>2, <1>3, <1>4, <1>5 DEF Next

\* A bot whose item and client stay as they are rides on.
LEMMA RideKept ==
  ASSUME NEW n, NEW m, NEW c, NEW d, NEW e,
         Ride(n, c, d), m.state = n.state, n.ready => m.ready,
         d.started => e.started
  PROVE  Ride(m, c, e)
BY DEF Ride

\* Every step of a bound bot, its item and its route keeps the ride.
LEMMA RideStep ==
  ASSUME IInv, IInv', LinksApart, Rides, [Next]_vars,
         NEW b \in Bots, seat'[b].bound
  PROVE  Ride(npc[b], client[b], data[b[1]])'
<1>0. TypeOK /\ IdsUsed /\ BindingsAgree /\ TypeOK' /\ BindingsAgree'
  BY DEF IInv
<1>r. /\ b[1] \in RouteIds
      /\ npc[b] \in NpcRec /\ client[b] \in ClientRec
      /\ client[b].inbox \in Seq(Orders) /\ client[b].outbox \in Seq(Events)
  BY <1>0, BotFields DEF TypeOK, ClientRec
<1>a. CASE Connect(b)
  <2>1. npc'[b].state = "oninit" /\ client'[b] = FreshClient
    BY <1>0, <1>a DEF Connect, LinksApart, TypeOK, FreshNpc
  <2>2. Script("oninit", "idle", <<>>, FALSE)
    BY DEF Script, Skip, Left
  <2>3. Once(FreshClient) /\ Ended(FreshClient) = FALSE
    BY DEF Once, Ended, FreshClient
  <2>4. client'[b].recording = "idle" /\ client'[b].inbox = <<>>
    BY <2>1 DEF FreshClient
  <2> QED BY <2>1, <2>2, <2>3, <2>4 DEF Ride
<1>b. CASE seat[b].bound
  <2>1. /\ Ride(npc[b], client[b], data[b[1]])
        /\ b \in holder /\ npc[b].item /\ ~npc[b].kicked /\ Live(b[1])
        /\ Live(b[1])'
    BY <1>0, <1>b DEF Rides, BindingsAgree
  <2>2. data[b[1]].started => data'[b[1]].started
    BY <1>r, <2>1, RouteStays
  <2>3. /\ npc[b].state # "oninit" => npc[b].ready /\ data[b[1]].started
        /\ Once(client[b])
        /\ Script(npc[b].state, client[b].recording, client[b].inbox, Ended(client[b]))
    BY <2>1 DEF Ride
  <2> DEFINE Goal == Ride(npc[b], client[b], data[b[1]])'
  <2>s. ASSUME npc'[b].state = npc[b].state, npc[b].ready => npc'[b].ready,
               client'[b] = client[b]
        PROVE  Goal
    BY <2>1, <2>2, <2>s DEF Ride
  <2>4. ASSUME NEW new \in SUBSET Routes, Configure(new)
        PROVE  Goal
    <3>1. /\ npc'[b] = npc[b] \/ npc'[b] = [npc[b] EXCEPT !.kicked = TRUE]
          /\ client' = client
      BY <1>0, <2>4 DEF Configure, Update, TypeOK
    <3> QED BY <1>r, <2>s, <3>1 DEF NpcRec
  <2>5. CASE Timer500 \/ Timer1000 \/ UNCHANGED vars
    BY <2>5, <2>s DEF Timer500, Timer1000, vars
  <2>6. ASSUME NEW c \in Bots, c # b, Bot(c)
        PROVE  Goal
    <3>1. CASE Connect(c) \/ ConnectFails(c) \/ Disconnect(c)
      BY <1>0, <2>6, <3>1, <2>s DEF Connect, ConnectFails, Disconnect, TypeOK
    <3>2. CASE OnSpawn(c) \/ OnEnterVehicle(c)
      BY <1>0, <2>6, <3>2, <2>s DEF OnSpawn, OnEnterVehicle, TypeOK
    <3>3. ASSUME NEW is_stop \in BOOLEAN, OnPlaybackEnd(c, is_stop) \/ Timer250(c, is_stop)
          PROVE  Goal
      BY <1>0, <2>6, <3>3, <2>s DEF OnPlaybackEnd, Timer250, TypeOK
    <3>4. CASE BotObeys(c) \/ PlaybackEnds(c)
      BY <1>0, <2>6, <3>4, <2>s DEF BotObeys, PlaybackEnds, TypeOK
    <3> QED BY <2>6, <3>1, <3>2, <3>3, <3>4 DEF Bot
  <2>7. CASE Connect(b) \/ ConnectFails(b) \/ Disconnect(b)
    <3>1. ~Connect(b) /\ ~ConnectFails(b)
      BY <2>1 DEF Connect, ConnectFails, LinksApart
    <3>2. ~Disconnect(b)
      BY <1>0, <1>b DEF Disconnect, SeatLeft, NoSeat, TypeOK
    <3> QED BY <2>7, <3>1, <3>2
  <2>8. CASE OnSpawn(b)
    <3>1. /\ npc'[b].state = npc[b].state /\ npc'[b].ready = npc[b].ready
          /\ data' = data /\ client[b].inbox = <<>>
      BY <1>0, <2>8 DEF OnSpawn, TypeOK, NpcRec, world
    <3>2. client'[b] = [client[b] EXCEPT !.inbox = @ \o <<"put">>]
      BY <1>0, <2>1, <2>8 DEF OnSpawn, Sent, Valid, TypeOK
    <3>3. /\ client'[b].inbox = client[b].inbox \o <<"put">>
          /\ client'[b].outbox = client[b].outbox
          /\ client'[b].recording = client[b].recording
      BY <1>r, <3>2 DEF ClientRec
    <3>4. Ended(client[b]) \in BOOLEAN
      BY DEF Ended
    <3>5. Script(npc[b].state, client[b].recording, client[b].inbox \o <<"put">>,
                 Ended(client[b]))
      BY <1>r, <2>3, <3>1, <3>4, ScriptSent
    <3>6. (Ended(client'[b]) <=> Ended(client[b])) /\ Once(client'[b])
      BY <2>3, <3>3, SameEvents
    <3>7. Ended(client'[b]) = Ended(client[b])
      BY <3>6 DEF Ended
    <3> QED BY <2>3, <3>1, <3>3, <3>5, <3>6, <3>7 DEF Ride
  <2>9. CASE OnEnterVehicle(b)
    <3>1. /\ npc'[b].state = npc[b].state
          /\ npc[b].ready => npc'[b].ready
          /\ client'[b] = Handled(client[b])
          /\ client[b].outbox # <<>> /\ Head(client[b].outbox) = "vehicle_enter"
      BY <1>0, <2>9 DEF OnEnterVehicle, First, TypeOK, NpcRec
    <3>2. /\ client'[b].inbox = client[b].inbox
          /\ client'[b].recording = client[b].recording
      BY <1>r, <3>1 DEF ClientRec, Handled
    <3>3. Once(client'[b]) /\ (Ended(client'[b]) <=> Ended(client[b]))
      BY <1>r, <2>3, <3>1, EventsQueue
    <3>4. Ended(client'[b]) = Ended(client[b])
      BY <3>3 DEF Ended
    <3>5. npc'[b].state # "oninit" => npc'[b].ready /\ data'[b[1]].started
      BY <2>2, <2>3, <3>1
    <3> QED BY <2>3, <3>1, <3>2, <3>3, <3>4, <3>5 DEF Ride
  <2>10. ASSUME NEW is_stop \in BOOLEAN, OnPlaybackEnd(b, is_stop)
         PROVE  Goal
    <3> DEFINE c == client[b]
    <3>1. c.outbox # <<>> /\ Head(c.outbox) = "playback_end"
      BY <2>10 DEF OnPlaybackEnd, First
    <3>2. Ended(c) /\ ~Ended(Handled(c)) /\ Once(Handled(c))
      BY <1>r, <2>3, <3>1, EventsQueue
    <3>3. /\ npc[b].state = "onroute"
          /\ Script("onroute_end", c.recording, c.inbox, FALSE)
          /\ Script("onstop", c.recording, c.inbox \o <<"start", "pause">>, FALSE)
      <4>1. Script(npc[b].state, c.recording, c.inbox, TRUE)
        BY <2>3, <3>2
      <4> QED BY <1>r, <4>1, ScriptEnds, ScriptSent
    <3>4. npc[b].ready /\ data[b[1]].started /\ Active(b)
      BY <2>1, <2>3, <3>3 DEF Active, Valid
    <3>5. npc'[b].ready /\ data' = data
      BY <1>0, <2>10, <3>4 DEF OnPlaybackEnd, TypeOK, NpcRec, world
    <3>6. CASE is_stop
      <4>1. /\ npc'[b].state = "onstop"
            /\ client'[b] = Handled(Sent(b, StopOrders))
        BY <1>0, <2>10, <3>4, <3>6 DEF OnPlaybackEnd, TypeOK, NpcRec
      <4>2. /\ client'[b].inbox = c.inbox \o <<"start", "pause">>
            /\ client'[b].recording = c.recording
            /\ client'[b].outbox = Handled(c).outbox
        BY <1>r, <4>1 DEF Sent, Handled, StopOrders, ClientRec
      <4>3. ~Ended(client'[b]) /\ Once(client'[b])
        BY <3>2, <4>2, SameEvents
      <4>4. Ended(client'[b]) = FALSE
        BY <4>3
      <4> QED BY <3>3, <3>4, <3>5, <4>1, <4>2, <4>3, <4>4 DEF Ride
    <3>7. CASE ~is_stop
      <4>1. /\ npc'[b].state = "onroute_end"
            /\ client'[b] = Handled(c)
        BY <1>0, <2>10, <3>4, <3>7 DEF OnPlaybackEnd, TypeOK, NpcRec
      <4>2. client'[b].inbox = c.inbox /\ client'[b].recording = c.recording
        BY <1>r, <4>1 DEF Handled, ClientRec
      <4>3. ~Ended(client'[b]) /\ Once(client'[b])
        BY <3>2, <4>1
      <4>4. Ended(client'[b]) = FALSE
        BY <4>3
      <4> QED BY <3>3, <3>4, <3>5, <4>1, <4>2, <4>3, <4>4 DEF Ride
    <3> QED BY <3>6, <3>7
  <2>11. ASSUME NEW is_stop \in BOOLEAN, Timer250(b, is_stop)
         PROVE  Goal
    <3> DEFINE c == client[b]
               told == IF is_stop THEN <<"start", "pause">> ELSE <<"start">>
               s == IF is_stop THEN "onstop" ELSE "onroute"
    <3>1. Active(b) /\ npc[b].ready /\ data[b[1]].started /\ data' = data
      BY <2>11 DEF Timer250, Active, world
    <3>2. /\ npc'[b].state = s /\ npc'[b].ready = npc[b].ready
          /\ client'[b] = [c EXCEPT !.inbox = @ \o told]
      <4>1. npc' = [npc EXCEPT ![b].state = s]
        BY <2>11 DEF Timer250
      <4>2. client' = [client EXCEPT ![b] = Sent(b, told)]
        BY <2>11 DEF Timer250, StopOrders
      <4> QED BY <1>0, <4>1, <4>2 DEF Sent, TypeOK, NpcRec
    <3>3. /\ is_stop => npc[b].state \in {"oninit", "onroute_end"}
          /\ ~is_stop => npc[b].state = "onstop"
      BY <2>11 DEF Timer250, MayStop
    <3>4. Ended(c) \in BOOLEAN
      BY DEF Ended
    <3>5. Script(s, c.recording, c.inbox \o told, FALSE)
      BY <1>r, <2>3, <3>3, <3>4, ScriptSent
    <3>6. ~Ended(c)
      BY <2>3, <3>3 DEF Script
    <3> HIDE DEF told
    <3>7. /\ client'[b].inbox = c.inbox \o told
          /\ client'[b].recording = c.recording
          /\ client'[b].outbox = c.outbox
      BY <1>r, <3>2 DEF ClientRec
    <3>8. ~Ended(client'[b]) /\ Once(client'[b])
      BY <2>3, <3>6, <3>7, SameEvents
    <3>9. Ended(client'[b]) = FALSE
      BY <3>8
    <3> QED BY <3>1, <3>2, <3>5, <3>7, <3>8, <3>9 DEF Ride
  <2>12. CASE BotObeys(b)
    <3> DEFINE c == client[b]
               o == Head(c.inbox)
               d == [c EXCEPT !.inbox = Tail(@)]
    <3>1. /\ c.inbox # <<>> /\ o \in Orders /\ Tail(c.inbox) \in Seq(Orders)
          /\ client'[b] = Obeys(c) /\ npc' = npc /\ data' = data
      BY <1>0, <1>r, <2>12, HeadTailProperties DEF BotObeys, TypeOK, world
    <3>2. /\ d \in ClientRec /\ d.outbox = c.outbox
          /\ d.inbox = Tail(c.inbox) /\ d.recording = c.recording
      BY <1>r, <3>1 DEF ClientRec
    <3>3. Once(d) /\ (Ended(d) <=> Ended(c))
      BY <2>3, <3>2, SameEvents
    <3>4. Ended(c) \in BOOLEAN
      BY DEF Ended
    <3>5. Script(npc[b].state, Turned(c.recording, o), Tail(c.inbox), Ended(c))
      BY <1>r, <2>3, <3>1, <3>4, ScriptObeyed
    <3>6. /\ client'[b].inbox = Tail(c.inbox)
          /\ client'[b].recording = Turned(c.recording, o)
          /\ Once(client'[b]) /\ (Ended(client'[b]) <=> Ended(c))
      <4>1. CASE o = "put"
        <5>1. client'[b] = Tells(d, "vehicle_enter")
          BY <3>1, <4>1 DEF Obeys
        <5>2. client'[b].inbox = d.inbox /\ client'[b].recording = d.recording
          BY <3>2, <5>1 DEF Tells, ClientRec
        <5>3. Turned(c.recording, o) = c.recording
          BY <4>1 DEF Turned
        <5> QED BY <3>2, <3>3, <5>1, <5>2, <5>3, EventsQueue
      <4>2. CASE o # "put"
        <5>1. client'[b] = [d EXCEPT !.recording = Turned(c.recording, o)]
          BY <3>1, <3>2, <4>2 DEF Obeys, Turned, Orders
        <5>2. /\ client'[b].inbox = d.inbox /\ client'[b].outbox = d.outbox
              /\ client'[b].recording = Turned(c.recording, o)
          BY <3>2, <5>1 DEF ClientRec
        <5>3. Once(client'[b]) /\ (Ended(client'[b]) <=> Ended(d))
          BY <3>3, <5>2, SameEvents
        <5> QED BY <3>2, <3>3, <5>2, <5>3
      <4> QED BY <4>1, <4>2
    <3>7. Ended(client'[b]) = Ended(c)
      BY <3>6 DEF Ended
    <3> QED BY <2>3, <3>1, <3>5, <3>6, <3>7 DEF Ride
  <2>13. CASE PlaybackEnds(b)
    <3> DEFINE c == client[b]
               d == [c EXCEPT !.recording = "idle"]
    <3>1. /\ c.recording = "playing" /\ \A i \in 1..Len(c.inbox) : c.inbox[i] # "pause"
          /\ client'[b] = Tells(d, "playback_end")
          /\ npc' = npc /\ data' = data
      BY <1>0, <2>13 DEF PlaybackEnds, TypeOK, world
    <3>2. /\ d \in ClientRec /\ d.outbox = c.outbox
          /\ d.inbox = c.inbox /\ d.recording = "idle"
      BY <1>r DEF ClientRec
    <3>3. Ended(c) \in BOOLEAN
      BY DEF Ended
    <3>4. ~Ended(c) /\ Script(npc[b].state, "idle", c.inbox, TRUE)
      <4>1. ~Ended(c)
        BY <2>3, <3>1 DEF Script
      <4>2. Script(npc[b].state, c.recording, c.inbox, FALSE)
        BY <2>3, <3>3, <4>1
      <4> QED BY <1>r, <3>1, <4>1, <4>2, ScriptEnds
    <3>5. ~Ended(d) /\ Once(d)
      BY <2>3, <3>2, <3>4, SameEvents
    <3>6. Once(client'[b]) /\ Ended(client'[b])
      BY <3>1, <3>2, <3>5, EventsQueue
    <3>7. client'[b].inbox = c.inbox /\ client'[b].recording = "idle"
      BY <3>1, <3>2 DEF Tells, ClientRec
    <3>8. Ended(client'[b]) = TRUE
      BY <3>6 DEF Ended
    <3> QED BY <2>3, <3>1, <3>4, <3>6, <3>7, <3>8 DEF Ride
  <2> QED
    BY <2>4, <2>5, <2>6, <2>7, <2>8, <2>9, <2>10, <2>11, <2>12, <2>13 DEF Next, Bot
<1> QED BY <1>a, <1>b, RouteStays

PlayInv == LinksApart /\ Rides

\* Bots are disconnected and empty at the start, and no step leaves the script.
LEMMA PlayInductive == Spec => []PlayInv
<1>1. Init => PlayInv
  BY DEF Init, PlayInv, LinksApart, Rides, NoSeat
<1>2. IInv /\ IInv' /\ PlayInv /\ [Next]_vars => PlayInv'
  <2> SUFFICES ASSUME IInv, IInv', PlayInv, [Next]_vars
               PROVE  PlayInv'
    OBVIOUS
  <2>1. LinksApart'
    BY LinksStep DEF PlayInv
  <2>2. Rides'
    BY RideStep DEF PlayInv, Rides
  <2> QED BY <2>1, <2>2 DEF PlayInv
<1> QED
  BY <1>1, <1>2, Inductive, PTL DEF Spec

\* The end of a recording reaches an item that drives on its route: the
\* assertions of on_playback_end cannot fail for a bot that is valid.
THEOREM EndsAreExpected == Spec => []EndFindsItsRide
<1>1. IInv /\ PlayInv => EndFindsItsRide
  <2> SUFFICES ASSUME IInv, PlayInv, NEW b \in holder,
                      npc[b].item, Valid(b), Awaits(b, "playback_end")
               PROVE  Active(b) /\ npc[b].state = "onroute"
    BY DEF EndFindsItsRide
  <2>1. b \in Bots /\ seat[b].bound
    BY DEF IInv, TypeOK, BindingsAgree, Valid
  <2>2. Ride(npc[b], client[b], data[b[1]]) /\ Ended(client[b])
    BY <2>1 DEF PlayInv, Rides, Awaits, Ended
  <2> QED BY <2>2 DEF Ride, Script, Active
<1> QED BY <1>1, Inductive, PlayInductive, PTL

\* The state of an item says what its bot's recording does, once the bot has
\* obeyed and the server has heard, though no order is ever acknowledged.
THEOREM PlaybackFollows == Spec => []StateMatchesPlayback
<1>1. IInv /\ PlayInv => StateMatchesPlayback
  <2> SUFFICES ASSUME IInv, PlayInv, NEW b \in holder,
                      npc[b].item, Valid(b), client[b].inbox = <<>>,
                      ~Awaits(b, "playback_end")
               PROVE  client[b].recording = CASE npc[b].state = "onstop"  -> "paused"
                                              [] npc[b].state = "onroute" -> "playing"
                                              [] OTHER                    -> "idle"
    BY DEF StateMatchesPlayback
  <2>1. b \in Bots /\ seat[b].bound
    BY DEF IInv, TypeOK, BindingsAgree, Valid
  <2>2. Ride(npc[b], client[b], data[b[1]]) /\ Ended(client[b]) = FALSE
    BY <2>1 DEF PlayInv, Rides, Awaits, Ended
  <2>3. Script(npc[b].state, client[b].recording, <<>>, FALSE)
    BY <2>2 DEF Ride
  <2>4. Left(<<>>) = 0
    BY DEF Left, Skip
  <2> QED BY <2>3, <2>4 DEF Script
<1> QED BY <1>1, Inductive, PlayInductive, PTL

-----------------------------------------------------------------------------
(* Counting the bots that are ready.                                         *)

\* A bot that was started for a route that still lives has a place in it.
Fits == \A b \in queue \cup launched \cup holder :
          Live(b[1]) => b[2] < Count[data[b[1]].route]

ReadyOf(r) == {b \in BotsOf(r) : seat[b].bound /\ npc[b].ready}

\* A route counts no bot that is not there and ready.  It may count fewer: a
\* bot that leaves before it was ready is subtracted all the same.
Counted == \A r \in RouteIds :
             Live(r) => data[r].ready_count <= Cardinality(ReadyOf(r))

\* The bots of one route are finitely many.
LEMMA ReadyFinite ==
  ASSUME NEW r \in RouteIds, NEW S, S \subseteq BotsOf(r)
  PROVE  IsFiniteSet(S) /\ Cardinality(S) \in Nat
<1> DEFINE I == 0..(MaxCount - 1)
<1>0. 0 \in Int /\ MaxCount - 1 \in Int
  BY NpcTaxiAssumption
<1>1. IsFiniteSet(I) /\ IsFiniteSet({r})
  BY <1>0, FS_Interval, FS_Singleton
<1>2. IsFiniteSet({r} \X I)
  BY <1>1, FS_Product
<1>3. S \subseteq {r} \X I
  BY DEF BotsOf, Bots
<1> QED BY <1>2, <1>3, FS_Subset, FS_CardinalityType

\* Who is queued for a new route has an index below its count; who was queued
\* before keeps his route's description as long as it lives.
LEMMA FitsStep ==
  ASSUME IInv, Fits, [Next]_vars
  PROVE  Fits'
<1>0. TypeOK /\ IdsUsed
  BY DEF IInv
<1> DEFINE links0 == queue \cup launched \cup holder
<1>1. ASSUME NEW new \in SUBSET Routes, Configure(new)
      PROVE  Fits'
  <2>1. PICK f \in [Added(new) -> RouteIds \ used] :
          /\ OneToOne(f)
          /\ \E v \in [Places(f) -> VehicleIds \ (vehicles \ FreedBy(Gone(new)))] :
               Update(Gone(new), f, v)
    BY <1>1 DEF Configure
  <2>2. /\ queue' = queue \cup Places(f) /\ launched' = launched /\ holder' = holder
        /\ \A r \in RouteIds : data'[r] = IF r \in {f[d] : d \in DOMAIN f}
                                          THEN Created(f, r)
                                          ELSE IF r \in Gone(new) THEN None
                                          ELSE data[r]
    BY <2>1 DEF Update
  <2>3. ASSUME NEW b \in links0, Live(b[1])'
        PROVE  b[2] < Count[data'[b[1]].route]
    <3>1. b \in Bots /\ b[1] \in used
      BY <1>0 DEF TypeOK, IdsUsed
    <3>2. b[1] \notin {f[d] : d \in DOMAIN f} /\ b[1] \in RouteIds
      BY <3>1, BotFields
    <3>3. data'[b[1]] = data[b[1]] /\ Live(b[1])
      BY <2>2, <2>3, <3>2 DEF Live
    <3> QED BY <3>3 DEF Fits
  <2>4. ASSUME NEW b \in Places(f)
        PROVE  b[2] < Count[data'[b[1]].route]
    <3>1. PICK d \in DOMAIN f : b[1] = f[d] /\ b[2] < Count[d]
      BY DEF Places
    <3>2. data'[b[1]] = Created(f, f[d])
      BY <2>2, <3>1
    <3>3. (CHOOSE x \in DOMAIN f : f[x] = f[d]) = d
      BY <2>1 DEF OneToOne
    <3>4. Created(f, f[d]).route = d
      BY <3>3 DEF Created
    <3> QED BY <3>1, <3>2, <3>4
  <2> QED BY <2>2, <2>3, <2>4 DEF Fits
<1>2. ASSUME queue' \cup launched' \cup holder' \subseteq links0,
             \A r \in RouteIds : Live(r)' => Live(r)
      PROVE  Fits'
  <2> SUFFICES ASSUME NEW b \in links0, Live(b[1])'
               PROVE  b[2] < Count[data'[b[1]].route]
    BY <1>2 DEF Fits
  <2>1. b[1] \in RouteIds
    BY <1>0, BotFields DEF TypeOK
  <2>2. Live(b[1]) /\ data'[b[1]].route = data[b[1]].route
    BY <1>2, <2>1, RouteStays
  <2> QED BY <2>2 DEF Fits
<1>3. CASE Timer500 \/ Timer1000 \/ UNCHANGED vars
  <2>1. queue' \cup launched' \cup holder' \subseteq links0
    BY <1>3 DEF Timer500, Timer1000, vars, links
  <2>2. \A r \in RouteIds : Live(r)' => Live(r)
    BY <1>3 DEF Timer500, Timer1000, vars, world, Live
  <2> QED BY <1>2, <2>1, <2>2
<1>4. ASSUME NEW b \in Bots, Bot(b)
      PROVE  Fits'
  <2>1. queue' \cup launched' \cup holder' \subseteq links0
    BY <1>4 DEF Bot, Connect, ConnectFails, Disconnect, OnSpawn, OnEnterVehicle,
                OnPlaybackEnd, Timer250, BotObeys, PlaybackEnds, links
  <2>2. \A r \in RouteIds : Live(r)' => Live(r)
    <3>1. b[1] \in RouteIds
      BY BotFields
    <3>2. CASE UNCHANGED data
      BY <3>2 DEF Live
    <3>3. CASE Live(b[1]) /\ \A r \in RouteIds \ {b[1]} : data'[r] = data[r]
      BY <3>3 DEF Live
    <3>4. CASE Disconnect(b)
      <4>1. seat[b].bound => Live(b[1])
        BY DEF IInv, BindingsAgree
      <4> QED BY <1>0, <3>2, <3>3, <3>4, <4>1 DEF Disconnect, TypeOK
    <3>5. CASE OnEnterVehicle(b)
      BY <1>0, <3>2, <3>3, <3>5 DEF OnEnterVehicle, Valid, TypeOK
    <3> QED
      BY <1>4, <3>2, <3>4, <3>5
         DEF Bot, Connect, ConnectFails, OnSpawn, OnPlaybackEnd, Timer250,
             BotObeys, PlaybackEnds, world
  <2> QED BY <1>2, <2>1, <2>2
<1> QED BY <1>1, <1>3, <1>4 DEF Next

\* A route that counts no more bots than before, of which none was lost, counts
\* no more than there are.
LEMMA CountKept ==
  ASSUME TypeOK, NEW r \in RouteIds, Counted, Live(r),
         data'[r].ready_count <= data[r].ready_count,
         data'[r].ready_count \in Int,
         ReadyOf(r) \subseteq ReadyOf(r)'
  PROVE  data'[r].ready_count <= Cardinality(ReadyOf(r)')
<1>1. ReadyOf(r)' \subseteq BotsOf(r) /\ ReadyOf(r) \subseteq BotsOf(r)
  BY DEF ReadyOf
<1>2. /\ IsFiniteSet(ReadyOf(r)') /\ Cardinality(ReadyOf(r)') \in Nat
      /\ Cardinality(ReadyOf(r)) \in Nat
  BY <1>1, ReadyFinite
<1>3. Cardinality(ReadyOf(r)) <= Cardinality(ReadyOf(r)')
  BY <1>2, FS_Subset
<1>4. data[r].ready_count \in Int /\ data[r].ready_count <= Cardinality(ReadyOf(r))
  BY LiveIsData DEF Counted, RouteData
<1> QED BY <1>2, <1>3, <1>4

\* on_enter_vehicle counts a bot that becomes ready, on_npc_disconnect one that
\* may have been; a new route counts none.
LEMMA CountedStep ==
  ASSUME IInv, TypeOK', LinksApart, Counted, [Next]_vars,
         NEW r \in RouteIds, Live(r)'
  PROVE  data'[r].ready_count <= Cardinality(ReadyOf(r)')
<1> DEFINE Goal == data'[r].ready_count <= Cardinality(ReadyOf(r)')
<1>0. /\ TypeOK /\ IdsUsed /\ BindingsAgree
      /\ data'[r] \in RouteData /\ data'[r].ready_count \in Int
  <2>1. data'[r] \in RouteData
    BY DEF TypeOK, Live
  <2> QED BY <2>1 DEF IInv, RouteData
<1>k. ASSUME Live(r), data'[r].ready_count <= data[r].ready_count,
             \A b \in Bots : b[1] = r /\ seat[b].bound /\ npc[b].ready
                               => seat'[b].bound /\ npc'[b].ready
      PROVE  Goal
  <2>1. ReadyOf(r) \subseteq ReadyOf(r)'
    BY <1>k DEF ReadyOf, BotsOf
  <2> QED BY <1>0, <1>k, <2>1, CountKept
<1>l. ASSUME Live(r)
      PROVE  data[r] \in RouteData /\ data[r].ready_count \in Int
  <2>1. data[r] \in RouteData
    BY <1>0, <1>l, LiveIsData
  <2> QED BY <2>1 DEF RouteData
<1>s. ASSUME data' = data,
             \A b \in Bots : b[1] = r /\ seat[b].bound /\ npc[b].ready
                               => seat'[b].bound /\ npc'[b].ready
      PROVE  Goal
  <2>1. Live(r)
    BY <1>s DEF Live
  <2> QED BY <1>k, <1>l, <1>s, <2>1
<1>1. ASSUME NEW new \in SUBSET Routes, Configure(new)
      PROVE  Goal
  <2>1. PICK f \in [Added(new) -> RouteIds \ used] :
          \E v \in [Places(f) -> VehicleIds \ (vehicles \ FreedBy(Gone(new)))] :
            Update(Gone(new), f, v)
    BY <1>1 DEF Configure
  <2>2. CASE r \in {f[d] : d \in DOMAIN f}
    <3>1. data'[r].ready_count = 0
      BY <2>1, <2>2 DEF Update, Created
    <3>2. ReadyOf(r)' \subseteq BotsOf(r)
      BY DEF ReadyOf
    <3>3. Cardinality(ReadyOf(r)') \in Nat
      BY <3>2, ReadyFinite
    <3> QED BY <3>1, <3>3
  <2>3. CASE r \notin {f[d] : d \in DOMAIN f}
    <3>1. data'[r] = data[r] /\ Live(r) /\ r \notin Gone(new)
      BY <2>1, <2>3 DEF Update, Live
    <3>2. ASSUME NEW b \in Bots, b[1] = r
          PROVE  seat'[b] = seat[b] /\ npc'[b].ready = npc[b].ready
      <4>1. b \notin Places(f)
        BY <2>3, <3>2 DEF Places
      <4>2. seat'[b] = seat[b]
        BY <2>1, <3>1, <3>2, <4>1 DEF Update
      <4>3. npc'[b] = npc[b] \/ npc'[b] = [npc[b] EXCEPT !.kicked = TRUE]
        BY <2>1 DEF Update
      <4> QED BY <1>0, <4>2, <4>3 DEF TypeOK, NpcRec
    <3> QED BY <1>k, <1>l, <3>1, <3>2
  <2> QED BY <2>2, <2>3
<1>2. CASE Timer500 \/ UNCHANGED vars
  BY <1>2, <1>s DEF Timer500, vars, world
<1>3. CASE Timer1000
  <2>1. Live(r) /\ data'[r] \in {data[r], [data[r] EXCEPT !.started = TRUE]}
    BY <1>3 DEF Timer1000, Live
  <2>2. data'[r].ready_count = data[r].ready_count
    BY <1>l, <2>1 DEF RouteData
  <2>3. seat' = seat /\ npc' = npc
    BY <1>3 DEF Timer1000
  <2> QED BY <1>k, <1>l, <2>1, <2>2, <2>3
<1>4. ASSUME NEW b \in Bots, Connect(b)
      PROVE  Goal
  <2>1. ~seat[b].bound
    BY <1>0, <1>4 DEF Connect, BindingsAgree, LinksApart
  <2>2. data' = data
    BY <1>4 DEF Connect
  <2>3. \A c \in Bots : c # b => seat'[c] = seat[c] /\ npc'[c] = npc[c]
    BY <1>0, <1>4 DEF Connect, TypeOK
  <2> QED BY <1>s, <2>1, <2>2, <2>3
<1>5. ASSUME NEW b \in Bots, Disconnect(b)
      PROVE  Goal
  <2>0. npc' = [npc EXCEPT ![b] = FreshNpc]
    BY <1>5 DEF Disconnect
  <2>1. CASE ~seat[b].bound
    <3>1. data' = data /\ seat' = seat
      BY <1>5, <2>1 DEF Disconnect
    <3>2. \A c \in Bots : c # b => npc'[c] = npc[c]
      BY <1>0, <2>0 DEF TypeOK
    <3> QED BY <1>s, <2>1, <3>1, <3>2
  <2>2. CASE seat[b].bound
    <3>1. /\ data' = [data EXCEPT ![b[1]].ready_count = @ - 1]
          /\ seat' = [seat EXCEPT ![b] = NoSeat]
          /\ b[1] \in RouteIds /\ Live(b[1])
      BY <1>0, <1>5, <2>2, BotFields DEF Disconnect, SeatLeft, ReadyLess, BindingsAgree
    <3>2. \A c \in Bots : c # b => seat'[c] = seat[c] /\ npc'[c] = npc[c]
      BY <1>0, <2>0, <3>1 DEF TypeOK
    <3>3. CASE r # b[1]
      <4>1. data'[r] = data[r]
        BY <1>0, <3>1, <3>3 DEF TypeOK
      <4>2. Live(r)
        BY <4>1 DEF Live
      <4> QED BY <1>k, <1>l, <3>2, <3>3, <4>1, <4>2
    <3>4. CASE r = b[1]
      <4>1. Live(r) /\ data'[r].ready_count = data[r].ready_count - 1
        BY <1>0, <1>l, <3>1, <3>4 DEF TypeOK, RouteData
      <4>2. ReadyOf(r) \ {b} \subseteq ReadyOf(r)'
        BY <3>2 DEF ReadyOf, BotsOf
      <4>3. ReadyOf(r)' \subseteq BotsOf(r) /\ ReadyOf(r) \subseteq BotsOf(r)
        BY DEF ReadyOf
      <4>4. /\ IsFiniteSet(ReadyOf(r)) /\ Cardinality(ReadyOf(r)) \in Nat
            /\ IsFiniteSet(ReadyOf(r)') /\ Cardinality(ReadyOf(r)') \in Nat
        BY <4>3, ReadyFinite
      <4>5. Cardinality(ReadyOf(r) \ {b}) <= Cardinality(ReadyOf(r)')
        BY <4>2, <4>4, FS_Subset
      <4>6. Cardinality(ReadyOf(r) \ {b}) >= Cardinality(ReadyOf(r)) - 1
        BY <4>4, FS_RemoveElement
      <4>7. Cardinality(ReadyOf(r) \ {b}) \in Nat
        BY <4>4, FS_RemoveElement, FS_CardinalityType
      <4>8. data[r].ready_count <= Cardinality(ReadyOf(r))
        BY <4>1 DEF Counted
      <4> QED BY <1>l, <4>1, <4>4, <4>5, <4>6, <4>7, <4>8
    <3> QED BY <3>3, <3>4
  <2> QED BY <2>1, <2>2
<1>6. ASSUME NEW b \in Bots, OnEnterVehicle(b)
      PROVE  Goal
  <2>1. CASE UNCHANGED <<npc, data>>
    BY <1>6, <1>s, <2>1 DEF OnEnterVehicle
  <2>2. CASE /\ npc[b].item /\ Valid(b) /\ ~npc[b].ready
             /\ npc' = [npc EXCEPT ![b].ready = TRUE]
             /\ data' = [data EXCEPT ![b[1]].ready_count = @ + 1]
    <3>1. b \in holder /\ seat' = seat
      BY <1>6 DEF OnEnterVehicle, First
    <3>2. seat[b].bound /\ b[1] \in RouteIds /\ Live(b[1])
      BY <1>0, <2>2, <3>1, BotFields DEF BindingsAgree, Valid
    <3>3. /\ npc'[b].ready
          /\ \A c \in Bots : c # b => npc'[c] = npc[c]
      BY <1>0, <2>2 DEF TypeOK, NpcRec
    <3>4. CASE r # b[1]
      <4>1. data'[r] = data[r]
        BY <1>0, <2>2, <3>2, <3>4 DEF TypeOK
      <4>2. Live(r)
        BY <4>1 DEF Live
      <4> QED BY <1>k, <1>l, <3>1, <3>3, <3>4, <4>1, <4>2
    <3>5. CASE r = b[1]
      <4>1. Live(r) /\ data'[r].ready_count = data[r].ready_count + 1
        BY <1>0, <1>l, <2>2, <3>2, <3>5 DEF TypeOK, RouteData
      <4>2. ReadyOf(r) \cup {b} \subseteq ReadyOf(r)' /\ b \notin ReadyOf(r)
        BY <2>2, <3>1, <3>2, <3>3, <3>5 DEF ReadyOf, BotsOf
      <4>3. ReadyOf(r)' \subseteq BotsOf(r) /\ ReadyOf(r) \subseteq BotsOf(r)
        BY DEF ReadyOf
      <4>4. /\ IsFiniteSet(ReadyOf(r)) /\ Cardinality(ReadyOf(r)) \in Nat
            /\ IsFiniteSet(ReadyOf(r)') /\ Cardinality(ReadyOf(r)') \in Nat
        BY <4>3, ReadyFinite
      <4>5. Cardinality(ReadyOf(r) \cup {b}) <= Cardinality(ReadyOf(r)')
        BY <4>2, <4>4, FS_Subset
      <4>6. Cardinality(ReadyOf(r) \cup {b}) = Cardinality(ReadyOf(r)) + 1
        BY <4>2, <4>4, FS_AddElement
      <4>7. data[r].ready_count <= Cardinality(ReadyOf(r))
        BY <4>1 DEF Counted
      <4> QED BY <1>l, <4>1, <4>4, <4>5, <4>6, <4>7
    <3> QED BY <3>4, <3>5
  <2> QED BY <1>6, <2>1, <2>2 DEF OnEnterVehicle
<1>7. ASSUME NEW b \in Bots, UNCHANGED <<data, seat>>,
             \A c \in Bots : npc[c].ready => npc'[c].ready
      PROVE  Goal
  BY <1>7, <1>s
<1>8. ASSUME NEW b \in Bots,
             \/ ConnectFails(b) \/ OnSpawn(b) \/ BotObeys(b) \/ PlaybackEnds(b)
             \/ \E is_stop \in BOOLEAN : OnPlaybackEnd(b, is_stop) \/ Timer250(b, is_stop)
      PROVE  Goal
  <2>1. UNCHANGED <<data, seat>>
    BY <1>8 DEF ConnectFails, OnSpawn, BotObeys, PlaybackEnds, OnPlaybackEnd,
                Timer250, world
  <2>2. \/ UNCHANGED npc
        \/ npc' = [npc EXCEPT ![b].spawned = TRUE]
        \/ \E s \in States : npc' = [npc EXCEPT ![b].state = s]
    BY <1>8 DEF ConnectFails, OnSpawn, BotObeys, PlaybackEnds, OnPlaybackEnd,
                Timer250, States
  <2>3. \A c \in Bots : npc[c].ready => npc'[c].ready
    BY <1>0, <2>2 DEF TypeOK, NpcRec
  <2> QED BY <1>7, <2>1, <2>3
<1> QED BY <1>1, <1>2, <1>3, <1>4, <1>5, <1>6, <1>8 DEF Next, Bot

CountInv == Fits /\ Counted

\* Nothing is counted at the start, and no step counts a bot too many.
LEMMA CountInductive == Spec => []CountInv
<1>1. Init => CountInv
  BY DEF Init, CountInv, Fits, Counted, Live
<1>2. IInv /\ IInv' /\ PlayInv /\ CountInv /\ [Next]_vars => CountInv'
  <2> SUFFICES ASSUME IInv, IInv', PlayInv, CountInv, [Next]_vars
               PROVE  CountInv'
    OBVIOUS
  <2>1. Fits'
    BY FitsStep DEF CountInv
  <2>2. Counted'
    BY CountedStep DEF CountInv, PlayInv, Counted, IInv
  <2> QED BY <2>1, <2>2 DEF CountInv
<1> QED
  BY <1>1, <1>2, Inductive, PlayInductive, PTL DEF Spec

\* All places of a route that counts as many as it wants are ready.
LEMMA CompleteIsReady ==
  ASSUME IInv, CountInv, NEW r \in RouteIds, Live(r), Complete(data[r]),
         NEW i \in 0..(Count[data[r].route] - 1)
  PROVE  seat[<<r, i>>].bound /\ npc[<<r, i>>].ready
<1> DEFINE n == Count[data[r].route]
           all == {r} \X (0..(n - 1))
<1>1. data[r] \in RouteData /\ n \in Nat
  <2>1. data[r] \in RouteData
    BY LiveIsData DEF IInv
  <2> QED BY <2>1, NpcTaxiAssumption DEF RouteData
<1>2. ReadyOf(r) \subseteq all
  <2> SUFFICES ASSUME NEW b \in ReadyOf(r)
               PROVE  b \in all
    OBVIOUS
  <2>1. b \in Bots /\ b[1] = r /\ seat[b].bound
    BY DEF ReadyOf, BotsOf
  <2>2. b \in holder
    BY <2>1 DEF IInv, BindingsAgree
  <2>3. b[2] < n
    BY <2>1, <2>2 DEF CountInv, Fits
  <2>4. b = <<b[1], b[2]>> /\ b[2] \in Nat
    BY <2>1 DEF Bots
  <2> QED BY <1>1, <2>1, <2>3, <2>4
<1> HIDE DEF n
<1>3. IsFiniteSet(all) /\ Cardinality(all) = n
  <2>1. 0 \in Int /\ n - 1 \in Int
    BY <1>1
  <2>2. IsFiniteSet(0..(n - 1)) /\ Cardinality(0..(n - 1)) = n
    BY <1>1, <2>1, FS_Interval
  <2>3. IsFiniteSet({r}) /\ Cardinality({r}) = 1
    BY FS_Singleton
  <2>4. IsFiniteSet(all) /\ Cardinality(all) = 1 * n
    BY <2>2, <2>3, FS_Product
  <2> QED BY <1>1, <2>4
<1>4. n <= Cardinality(ReadyOf(r))
  BY DEF CountInv, Counted, Complete, n
<1>5. Cardinality(ReadyOf(r)) <= n /\ Cardinality(ReadyOf(r)) \in Nat
  BY <1>2, <1>3, FS_Subset, FS_CardinalityType
<1>6. Cardinality(all) = Cardinality(ReadyOf(r))
  BY <1>1, <1>3, <1>4, <1>5
<1>7. all = ReadyOf(r)
  BY <1>2, <1>3, <1>6, FS_Subset
<1>8. <<r, i>> \in all
  BY DEF n
<1> QED BY <1>7, <1>8 DEF ReadyOf

\* on_timer1000 compares a count with a number; the bots counted are all those
\* the route asks for, each in his vehicle.
THEOREM StartsAreComplete == Spec => StartsComplete
<1>1. IInv /\ CountInv /\ [Next]_vars =>
        [\A r \in RouteIds :
           Live(r) /\ ~data[r].started /\ data'[r] # None /\ data'[r].started =>
             \A i \in 0..(Count[data[r].route] - 1) :
               seat[<<r, i>>].bound /\ npc[<<r, i>>].ready]_vars
  <2> SUFFICES ASSUME IInv, CountInv, Next, NEW r \in RouteIds,
                      Live(r), ~data[r].started, data'[r] # None, data'[r].started
               PROVE  Complete(data[r])
    BY CompleteIsReady
  <2>0. TypeOK /\ IdsUsed /\ BindingsAgree /\ data[r] \in RouteData
    BY LiveIsData DEF IInv
  <2>1. data' # data
    OBVIOUS
  <2>2. ASSUME NEW b \in Bots, Live(b[1]), NEW m,
               data' = [data EXCEPT ![b[1]].ready_count = m]
        PROVE  FALSE
    BY <2>0, <2>2, BotFields DEF TypeOK, RouteData
  <2>3. ASSUME NEW new \in SUBSET Routes, Configure(new)
        PROVE  FALSE
    <3>1. PICK f \in [Added(new) -> RouteIds \ used] :
            \E v \in [Places(f) -> VehicleIds \ (vehicles \ FreedBy(Gone(new)))] :
              Update(Gone(new), f, v)
      BY <2>3 DEF Configure
    <3>2. r \notin {f[d] : d \in DOMAIN f}
      BY <2>0 DEF IdsUsed
    <3> QED BY <3>1, <3>2 DEF Update
  <2>4. CASE Timer1000
    BY <2>4 DEF Timer1000
  <2>5. CASE Timer500
    BY <2>1, <2>5 DEF Timer500, world
  <2>6. ASSUME NEW b \in Bots, Bot(b)
        PROVE  FALSE
    <3>1. CASE Disconnect(b)
      BY <2>0, <2>1, <2>2, <3>1 DEF Disconnect, ReadyLess, BindingsAgree
    <3>2. CASE OnEnterVehicle(b)
      BY <2>1, <2>2, <3>2 DEF OnEnterVehicle, Valid
    <3> QED
      BY <2>1, <2>6, <3>1, <3>2
         DEF Bot, Connect, ConnectFails, OnSpawn, OnPlaybackEnd, Timer250,
             BotObeys, PlaybackEnds, world
  <2> QED BY <2>3, <2>4, <2>5, <2>6 DEF Next
<1> QED
  BY <1>1, Inductive, CountInductive, PTL DEF Spec, StartsComplete

-----------------------------------------------------------------------------
(* Whose route is gone.                                                      *)

\* A kick is the mark of a lost route, and only of that.
LEMMA KickedStep ==
  ASSUME IInv, LinksApart, KickedIffRouteGone, [Next]_vars
  PROVE  KickedIffRouteGone'
<1>0. /\ TypeOK /\ IdsUsed /\ BindingsAgree
  BY DEF IInv
<1>s. ASSUME holder' \subseteq holder,
             \A b \in Bots : b \in holder' => /\ npc'[b].item = npc[b].item
                                            /\ npc'[b].kicked = npc[b].kicked,
             \A r \in RouteIds : Live(r)' <=> Live(r)
      PROVE  KickedIffRouteGone'
  BY <1>0, <1>s, BotFields DEF KickedIffRouteGone, TypeOK
<1>1. ASSUME NEW new \in SUBSET Routes, Configure(new)
      PROVE  KickedIffRouteGone'
  <2>1. PICK f \in [Added(new) -> RouteIds \ used] :
          \E v \in [Places(f) -> VehicleIds \ (vehicles \ FreedBy(Gone(new)))] :
            Update(Gone(new), f, v)
    BY <1>1 DEF Configure
  <2>2. SUFFICES ASSUME NEW b \in holder, npc'[b].item
                 PROVE  npc'[b].kicked <=> ~Live(b[1])'
    BY <2>1 DEF KickedIffRouteGone, Update
  <2>3. b \in Bots /\ b[1] \in RouteIds /\ b[1] \in used
    BY <1>0, BotFields DEF TypeOK, IdsUsed
  <2>4. /\ npc'[b].item = npc[b].item
        /\ npc'[b].kicked = (npc[b].kicked \/ b \in KickedBy(Gone(new)))
    <3>1. npc'[b] = IF b \in KickedBy(Gone(new)) THEN [npc[b] EXCEPT !.kicked = TRUE]
                    ELSE npc[b]
      BY <2>1, <2>3 DEF Update
    <3>2. npc[b] \in NpcRec
      BY <1>0, <2>3 DEF TypeOK
    <3>3. CASE b \in KickedBy(Gone(new))
      BY <3>1, <3>2, <3>3 DEF NpcRec
    <3>4. CASE b \notin KickedBy(Gone(new))
      BY <3>1, <3>2, <3>4 DEF NpcRec
    <3> QED BY <3>3, <3>4
  <2>5. Live(b[1])' <=> Live(b[1]) /\ b[1] \notin Gone(new)
    BY <2>1, <2>3, UpdateLives
  <2>6. npc[b].kicked <=> ~Live(b[1])
    BY <2>2, <2>4 DEF KickedIffRouteGone
  <2>7. ~npc[b].kicked => seat[b].bound
    BY <1>0, <2>2, <2>3, <2>4 DEF BindingsAgree
  <2> QED BY <2>3, <2>4, <2>5, <2>6, <2>7 DEF KickedBy
<1>2. CASE Timer500 \/ UNCHANGED vars
  BY <1>2, <1>s DEF Timer500, vars, world, links, Live
<1>3. CASE Timer1000
  <2>1. \A r \in RouteIds : Live(r)' <=> Live(r)
    <3>1. \A r \in RouteIds : data'[r] = data[r] \/ (Live(r) /\ data'[r] \in RouteData)
      <4> TAKE r \in RouteIds
      <4>1. Live(r) => [data[r] EXCEPT !.started = TRUE] \in RouteData
        BY <1>0, LiveIsData DEF RouteData
      <4> QED BY <1>3, <4>1 DEF Timer1000
    <3> QED BY <1>0, <3>1, SameLive
  <2> QED BY <1>3, <1>s, <2>1 DEF Timer1000, links
<1>4. ASSUME NEW b \in Bots, Connect(b)
      PROVE  KickedIffRouteGone'
  <2>1. npc'[b].item = Live(b[1]) /\ npc'[b].kicked = FALSE
    BY <1>0, <1>4 DEF Connect, TypeOK, FreshNpc
  <2>2. \A c \in Bots : c # b => npc'[c] = npc[c]
    BY <1>0, <1>4 DEF Connect, TypeOK
  <2>3. holder' = holder \cup {b} /\ data' = data
    BY <1>4 DEF Connect
  <2> QED BY <1>0, <2>1, <2>2, <2>3 DEF KickedIffRouteGone, Live, TypeOK
<1>5. ASSUME NEW b \in Bots, Disconnect(b)
      PROVE  KickedIffRouteGone'
  <2>1. \A r \in RouteIds : Live(r)' <=> Live(r)
    <3>1. \A r \in RouteIds : data'[r] = data[r] \/ (Live(r) /\ data'[r] \in RouteData)
      <4>1. seat[b].bound => [data[b[1]] EXCEPT !.ready_count = @ - 1] \in RouteData
                             /\ Live(b[1])
        BY <1>0, LiveIsData, BotFields DEF BindingsAgree, RouteData
      <4> QED BY <1>0, <1>5, <4>1, BotFields DEF Disconnect, ReadyLess, TypeOK
    <3> QED BY <1>0, <3>1, SameLive
  <2>2. holder' = holder \ {b} /\ npc' = [npc EXCEPT ![b] = FreshNpc]
    BY <1>5 DEF Disconnect
  <2>3. \A c \in Bots : c \in holder' => npc'[c] = npc[c]
    BY <1>0, <2>2 DEF TypeOK
  <2> QED BY <1>s, <2>1, <2>2, <2>3
<1>6. ASSUME NEW b \in Bots, OnEnterVehicle(b)
      PROVE  KickedIffRouteGone'
  <2>1. \A r \in RouteIds : Live(r)' <=> Live(r)
    <3>1. \A r \in RouteIds : data'[r] = data[r] \/ (Live(r) /\ data'[r] \in RouteData)
      <4>1. Valid(b) => [data[b[1]] EXCEPT !.ready_count = @ + 1] \in RouteData
                        /\ Live(b[1])
        BY <1>0, LiveIsData, BotFields DEF Valid, RouteData
      <4> QED BY <1>0, <1>6, <4>1, BotFields DEF OnEnterVehicle, TypeOK
    <3> QED BY <1>0, <3>1, SameLive
  <2>2. holder' = holder /\ npc' \in {npc, [npc EXCEPT ![b].ready = TRUE]}
    BY <1>6 DEF OnEnterVehicle, links
  <2>3. \A c \in Bots : npc'[c].item = npc[c].item /\ npc'[c].kicked = npc[c].kicked
    BY <1>0, <2>2 DEF TypeOK, NpcRec
  <2> QED BY <1>s, <2>1, <2>2, <2>3
<1>7. ASSUME NEW b \in Bots,
             \/ ConnectFails(b) \/ OnSpawn(b) \/ BotObeys(b) \/ PlaybackEnds(b)
             \/ \E is_stop \in BOOLEAN : OnPlaybackEnd(b, is_stop) \/ Timer250(b, is_stop)
      PROVE  KickedIffRouteGone'
  <2>1. UNCHANGED <<data, holder>>
    BY <1>7 DEF ConnectFails, OnSpawn, BotObeys, PlaybackEnds, OnPlaybackEnd,
                Timer250, world, links
  <2>2. \/ UNCHANGED npc
        \/ npc' = [npc EXCEPT ![b].spawned = TRUE]
        \/ \E s \in States : npc' = [npc EXCEPT ![b].state = s]
    BY <1>7 DEF ConnectFails, OnSpawn, BotObeys, PlaybackEnds, OnPlaybackEnd,
                Timer250, States
  <2>3. \A c \in Bots : npc'[c].item = npc[c].item /\ npc'[c].kicked = npc[c].kicked
    BY <1>0, <2>2 DEF TypeOK, NpcRec
  <2> QED BY <1>s, <2>1, <2>3 DEF Live
<1> QED BY <1>1, <1>2, <1>3, <1>4, <1>5, <1>6, <1>7 DEF Next, Bot

\* route_destroy kicks every bot of its route and nobody else's.
THEOREM KicksMarkLostRoutes == Spec => []KickedIffRouteGone
<1>1. Init => KickedIffRouteGone
  BY DEF Init, KickedIffRouteGone
<1>2. IInv /\ PlayInv /\ KickedIffRouteGone /\ [Next]_vars => KickedIffRouteGone'
  BY KickedStep DEF PlayInv
<1> QED
  BY <1>1, <1>2, Inductive, PlayInductive, PTL DEF Spec

\* Nobody was kicked.
NobodyKicked == \A b \in Bots : ~npc[b].kicked

\* Only route_destroy kicks.
LEMMA NobodyKickedStep ==
  ASSUME IInv, NobodyKicked, [Next]_vars, [NobodySentHome]_vars
  PROVE  NobodyKicked'
<1>0. TypeOK
  BY DEF IInv
<1>1. ASSUME NEW new \in SUBSET Routes, Configure(new)
      PROVE  NobodyKicked'
  <2>1. npc' = [b \in Bots |-> IF b \in KickedBy(Gone(new))
                               THEN [npc[b] EXCEPT !.kicked = TRUE]
                               ELSE npc[b]]
    BY <1>1 DEF Configure, Update
  <2>2. KickedBy(Gone(new)) = {} \/ UNCHANGED vars
    BY <1>1 DEF NobodySentHome
  <2>3. npc' = npc
    BY <1>0, <2>1, <2>2 DEF vars, TypeOK
  <2> QED BY <2>3 DEF NobodyKicked
<1>2. CASE UNCHANGED npc
  BY <1>2 DEF NobodyKicked
<1>3. ASSUME NEW b \in Bots, Bot(b)
      PROVE  NobodyKicked'
  <2>1. \/ UNCHANGED npc
        \/ npc' = [npc EXCEPT ![b] = FreshNpc]
        \/ npc' = [npc EXCEPT ![b] = [FreshNpc EXCEPT !.item = Live(b[1])]]
        \/ npc' = [npc EXCEPT ![b].spawned = TRUE]
        \/ npc' = [npc EXCEPT ![b].ready = TRUE]
        \/ \E s \in States : npc' = [npc EXCEPT ![b].state = s]
    BY <1>3 DEF Bot, Connect, ConnectFails, Disconnect, OnSpawn, OnEnterVehicle,
                OnPlaybackEnd, Timer250, BotObeys, PlaybackEnds, States
  <2> QED BY <1>0, <2>1 DEF NobodyKicked, TypeOK, NpcRec, FreshNpc
<1> QED BY <1>1, <1>2, <1>3 DEF Next, Timer500, Timer1000, vars

\* The assertions of on_spawn, on_enter_vehicle and on_playback_end fail only
\* where a configuration drops a route whose bots are connected.
THEOREM OnlyDroppedRoutesSurprise ==
  Spec /\ [][NobodySentHome]_vars => EventsFindTheirRoute
<1>1. Init => NobodyKicked
  BY DEF Init, NobodyKicked, FreshNpc
<1>2. IInv /\ NobodyKicked /\ [Next]_vars /\ [NobodySentHome]_vars => NobodyKicked'
  BY NobodyKickedStep
<1>3. IInv /\ NobodyKicked =>
        [\A b \in Bots :
           npc[b].item /\ (\/ OnSpawn(b) \/ OnEnterVehicle(b)
                           \/ \E is_stop \in BOOLEAN : OnPlaybackEnd(b, is_stop))
             => Valid(b)]_vars
  <2> SUFFICES ASSUME IInv, NobodyKicked, NEW b \in Bots, npc[b].item,
                      \/ OnSpawn(b) \/ OnEnterVehicle(b)
                      \/ \E is_stop \in BOOLEAN : OnPlaybackEnd(b, is_stop)
               PROVE  Valid(b)
    OBVIOUS
  <2>1. b \in holder
    BY DEF OnSpawn, OnEnterVehicle, OnPlaybackEnd, First
  <2> QED BY <2>1 DEF NobodyKicked, IInv, BindingsAgree, Valid
<1> QED
  BY <1>1, <1>2, <1>3, Inductive, PTL DEF Spec, EventsFindTheirRoute

-----------------------------------------------------------------------------
(* The service the passengers see.                                           *)

Lives == [r \in RouteIds |-> Life(r)]
Sizes == [r \in RouteIds |-> Size(r)]

\* Lives and sizes do not see the count of those who are ready.
LEMMA SameService ==
  ASSUME used' = used,
         \A r \in RouteIds :
           /\ Live(r)' <=> Live(r)
           /\ Live(r) => /\ data'[r].route = data[r].route
                         /\ data'[r].started = data[r].started
  PROVE  Lives' = Lives /\ Sizes' = Sizes
<1>1. ASSUME NEW r \in RouteIds
      PROVE  Life(r)' = Life(r) /\ Size(r)' = Size(r)
  BY <1>1 DEF Life, Size
<1> QED BY <1>1 DEF Lives, Sizes

\* A change of one living route's count.
LEMMA CountChanges ==
  ASSUME TypeOK, used' = used, NEW s \in RouteIds, Live(s), NEW n \in Int,
         data' = [data EXCEPT ![s].ready_count = n]
  PROVE  Lives' = Lives /\ Sizes' = Sizes
<1>1. data[s] \in RouteData
  BY LiveIsData
<1>2. [data[s] EXCEPT !.ready_count = n] \in RouteData
  BY <1>1 DEF RouteData
<1>3. \A r \in RouteIds : data'[r] = data[r] \/ (Live(r) /\ data'[r] \in RouteData)
  BY <1>2 DEF TypeOK
<1>4. \A r \in RouteIds : Live(r)' <=> Live(r)
  BY <1>3, SameLive
<1>5. data'[s].route = data[s].route /\ data'[s].started = data[s].started
  BY <1>1 DEF TypeOK, RouteData
<1>6. \A r \in RouteIds \ {s} : data'[r] = data[r]
  BY DEF TypeOK
<1> QED BY <1>4, <1>5, <1>6, SameService

\* What is known of a route's life.
LEMMA LivesValues ==
  ASSUME TypeOK, IdsUsed, NEW r \in RouteIds
  PROVE  /\ Lives[r] = Life(r) /\ Sizes[r] = Size(r)
         /\ Life(r) = "unborn" <=> r \notin used
         /\ Live(r) <=> Life(r) \in {"waiting", "running"}
         /\ Live(r) => /\ r \in used
                       /\ Life(r) = "running" <=> data[r].started
                       /\ Size(r) = Count[data[r].route]
BY DEF Lives, Sizes, Life, Size, IdsUsed

\* Update opens the lines of the new ids and closes those gone.
LEMMA ServiceChange ==
  ASSUME IInv, NEW new \in SUBSET Routes, Configure(new)
  PROVE  TS!Next
<1>0. TypeOK /\ IdsUsed /\ BindingsAgree
  BY DEF IInv
<1>1. PICK f \in [Added(new) -> RouteIds \ used] :
        \E v \in [Places(f) -> VehicleIds \ (vehicles \ FreedBy(Gone(new)))] :
          Update(Gone(new), f, v)
  BY DEF Configure
<1>2. PICK v : Update(Gone(new), f, v)
  BY <1>1
<1> DEFINE born == {f[d] : d \in DOMAIN f}
           gone == Gone(new) \cap RouteIds
<1>3. /\ born \subseteq RouteIds \ used
      /\ \A r \in born : Live(r)' /\ data'[r] = Created(f, r) /\ data'[r] \in RouteData
      /\ \A r \in RouteIds : Live(r)' <=> r \in born \/ (Live(r) /\ r \notin gone)
  <2>1. \A r \in born : r \in RouteIds /\ Live(r)'
    BY <1>2, UpdateLives
  <2> QED BY <1>2, <2>1, UpdateLives
<1>4. used' = used \cup born
  BY <1>2 DEF Update
<1>5. \A r \in RouteIds \ (born \cup gone) : data'[r] = data[r]
  BY <1>2 DEF Update
<1> HIDE DEF born, gone
<1>6. ASSUME NEW r \in born
      PROVE  Life(r) = "unborn" /\ Life(r)' = "waiting" /\ Size(r)' \in Nat
  <2>1. Live(r)' /\ r \in used' /\ r \in RouteIds \ used /\ data'[r] \in RouteData
    BY <1>3, <1>4
  <2>2. data'[r].started = FALSE
    <3>1. data'[r] = Created(f, r)
      BY <1>3
    <3>2. Created(f, r).started = FALSE
      BY DEF Created
    <3> QED BY <3>1, <3>2
  <2>3. data'[r].route \in Routes
    BY <2>1 DEF RouteData
  <2> QED BY <2>1, <2>2, <2>3, NpcTaxiAssumption DEF Life, Size
<1>7. ASSUME NEW r \in RouteIds \ born, r \in gone
      PROVE  Life(r)' = IF Life(r) = "unborn" THEN "unborn" ELSE "over"
  <2>1. ~Live(r)' /\ (r \in used' <=> r \in used)
    BY <1>3, <1>4, <1>7
  <2> QED BY <2>1, <1>0, LivesValues DEF Life
<1>8. ASSUME NEW r \in RouteIds \ (born \cup gone)
      PROVE  Life(r)' = Life(r) /\ Size(r)' = Size(r)
  <2>1. (r \in used' <=> r \in used) /\ data'[r] = data[r] /\ (Live(r)' <=> Live(r))
    BY <1>3, <1>4, <1>5
  <2> QED BY <2>1 DEF Life, Size
<1>9. Aboard' = {b \in Aboard : b[1] \notin gone}
  <2> SUFFICES ASSUME NEW b \in Bots
               PROVE  seat'[b].bound /\ npc'[b].ready
                        <=> seat[b].bound /\ npc[b].ready /\ b[1] \notin gone
    BY DEF Aboard
  <2>1. npc'[b].ready = npc[b].ready
    <3>1. npc'[b] = npc[b] \/ npc'[b] = [npc[b] EXCEPT !.kicked = TRUE]
      BY <1>2 DEF Update
    <3> QED BY <1>0, <3>1 DEF TypeOK, NpcRec
  <2>2. CASE b \in Places(f)
    <3>1. seat'[b].bound = FALSE
      BY <1>2, <2>2 DEF Update
    <3>2. b[1] \notin used
      BY <1>3, <2>2 DEF Places, born
    <3>3. seat[b].bound = FALSE
      BY <1>0, <3>2 DEF IdsUsed, NoSeat
    <3> QED BY <3>1, <3>3
  <2>3. CASE b \notin Places(f) /\ b[1] \in gone
    <3>1. seat'[b].bound = FALSE
      BY <1>2, <2>3 DEF Update, NoSeat, gone
    <3> QED BY <2>3, <3>1
  <2>4. CASE b \notin Places(f) /\ b[1] \notin gone
    <3>1. b[1] \notin Gone(new)
      BY <2>4, BotFields DEF gone
    <3>2. seat'[b] = seat[b]
      BY <1>2, <2>4, <3>1 DEF Update
    <3> QED BY <2>1, <2>4, <3>2
  <2> QED BY <2>2, <2>3, <2>4
<1>10. born \in SUBSET RouteIds /\ gone \in SUBSET RouteIds
  BY <1>3 DEF gone
<1>11. Lives' = [r \in RouteIds |->
                   IF r \in born THEN "waiting"
                   ELSE IF r \in gone /\ Lives[r] # "unborn" THEN "over"
                   ELSE Lives[r]]
  BY <1>6, <1>7, <1>8 DEF Lives
<1>12. /\ \A r \in born : Lives[r] = "unborn" /\ Sizes'[r] \in Nat
       /\ DOMAIN Sizes' = RouteIds
       /\ \A r \in RouteIds \ (born \cup gone) : Sizes'[r] = Sizes[r]
  BY <1>6, <1>8, <1>10 DEF Lives, Sizes
<1>13. TS!Change(born, gone)
  BY <1>9, <1>11, <1>12 DEF TS!Change, Lives, Sizes
<1> QED BY <1>10, <1>13 DEF TS!Next

\* on_timer1000 starts only routes that have all their bots.
LEMMA ServiceDeparts ==
  ASSUME IInv, CountInv, Timer1000
  PROVE  TS!Next
<1>0. TypeOK /\ IdsUsed /\ BindingsAgree /\ used' = used /\ Aboard' = Aboard
  BY DEF IInv, Timer1000, Aboard
<1> DEFINE started == {r \in RouteIds : Live(r) /\ Complete(data[r]) /\ ~data[r].started}
<1>1. ASSUME NEW r \in RouteIds, Live(r)
      PROVE  /\ Live(r)' /\ data[r] \in RouteData
             /\ data'[r].route = data[r].route
             /\ data'[r].started = (data[r].started \/ Complete(data[r]))
  <2>1. data[r] \in RouteData
    BY <1>0, <1>1, LiveIsData
  <2>2. data'[r] = IF Complete(data[r]) THEN [data[r] EXCEPT !.started = TRUE] ELSE data[r]
    BY <1>1 DEF Timer1000
  <2>3. data'[r] \in RouteData
    BY <2>1, <2>2 DEF RouteData
  <2>4. Live(r)'
    BY <2>3, NoneIsNoData DEF Live
  <2>5. CASE Complete(data[r])
    BY <2>1, <2>2, <2>4, <2>5 DEF RouteData
  <2>6. CASE ~Complete(data[r])
    BY <2>1, <2>2, <2>4, <2>6 DEF RouteData
  <2> QED BY <2>5, <2>6
<1>2. ASSUME NEW r \in RouteIds, ~Live(r)
      PROVE  ~Live(r)'
  BY <1>2 DEF Timer1000, Live
<1>3. ASSUME NEW r \in RouteIds
      PROVE  /\ Life(r)' = IF r \in started THEN "running" ELSE Life(r)
             /\ Size(r)' = Size(r)
  <2>1. CASE ~Live(r)
    BY <1>0, <1>2, <2>1 DEF Life, Size
  <2>2. CASE Live(r)
    <3>1. /\ Live(r)' /\ data[r].started \in BOOLEAN
          /\ data'[r].route = data[r].route
          /\ data'[r].started = (data[r].started \/ Complete(data[r]))
      BY <1>1, <2>2 DEF RouteData
    <3>2. r \in used
      BY <1>0, <2>2 DEF IdsUsed
    <3> QED BY <1>0, <2>2, <3>1, <3>2 DEF Life, Size
  <2> QED BY <2>1, <2>2
<1>4. ASSUME NEW r \in started
      PROVE  /\ Life(r) = "waiting"
             /\ {b \in Aboard : b[1] = r} = {<<r, i>> : i \in 0..(Size(r) - 1)}
  <2>1. r \in used /\ Live(r) /\ Size(r) = Count[data[r].route]
    BY <1>0, <1>4 DEF IdsUsed, Size
  <2>2. ASSUME NEW b \in Aboard, b[1] = r
        PROVE  b = <<r, b[2]>> /\ b[2] \in 0..(Size(r) - 1)
    <3>1. b \in Bots /\ b \in holder
      BY <1>0, <2>2 DEF Aboard, BindingsAgree
    <3>2. b[2] < Size(r)
      BY <2>1, <2>2, <3>1 DEF CountInv, Fits
    <3>3. b = <<b[1], b[2]>> /\ b[2] \in Nat
      BY <3>1 DEF Bots
    <3>4. Size(r) \in Nat
      BY <1>1, <2>1, NpcTaxiAssumption DEF RouteData
    <3> QED BY <2>2, <3>2, <3>3, <3>4
  <2>3. ASSUME NEW i \in 0..(Size(r) - 1)
        PROVE  << r, i >> \in Aboard /\ << r, i >>[1] = r
    <3>1. seat[<<r, i>>].bound /\ npc[<<r, i>>].ready
      BY <2>1, <1>4, CompleteIsReady
    <3>2. Size(r) \in Nat /\ Size(r) <= MaxCount
      BY <1>1, <2>1, NpcTaxiAssumption DEF RouteData
    <3>3. << r, i >> \in Bots
      BY <3>2, NpcTaxiAssumption DEF Bots
    <3> QED BY <3>1, <3>3 DEF Aboard
  <2>4. Life(r) = "waiting"
    BY <1>4, <2>1 DEF Life
  <2> QED BY <2>2, <2>3, <2>4
<1> HIDE DEF started
<1>5. started \in SUBSET RouteIds
  BY DEF started
<1>6. Lives' = [r \in RouteIds |-> IF r \in started THEN "running" ELSE Lives[r]]
      /\ Sizes' = Sizes
  BY <1>3 DEF Lives, Sizes
<1>7. \A r \in started : /\ Lives[r] = "waiting"
                         /\ TS!Of(r) = {<<r, i>> : i \in 0..(Sizes[r] - 1)}
  BY <1>4, <1>5 DEF Lives, Sizes, TS!Of
<1>8. TS!Depart(started)
  BY <1>0, <1>6, <1>7 DEF TS!Depart, Lives, Sizes
<1> QED BY <1>5, <1>8 DEF TS!Next

\* One step of the bots is one change of the service, or none.
LEMMA ServiceStep ==
  ASSUME IInv, LinksApart, CountInv, [Next]_vars
  PROVE  [TS!Next]_(TS!vars)
<1>0. TypeOK /\ IdsUsed /\ BindingsAgree
  BY DEF IInv
<1>s. ASSUME Lives' = Lives, Sizes' = Sizes, Aboard' = Aboard
      PROVE  [TS!Next]_(TS!vars)
  BY <1>s DEF TS!vars, Lives, Sizes
<1>d. ASSUME UNCHANGED <<used, data>>
      PROVE  Lives' = Lives /\ Sizes' = Sizes
  BY <1>d, SameService DEF Live
<1>1. ASSUME NEW new \in SUBSET Routes, Configure(new)
      PROVE  TS!Next
  BY <1>1, ServiceChange
<1>2. CASE Timer500 \/ UNCHANGED vars
  <2>1. UNCHANGED <<used, data>> /\ Aboard' = Aboard
    BY <1>2 DEF Timer500, vars, world, Aboard
  <2> QED BY <1>d, <1>s, <2>1
<1>3. CASE Timer1000
  BY <1>3, ServiceDeparts
<1>4. ASSUME NEW b \in Bots, Connect(b)
      PROVE  [TS!Next]_(TS!vars)
  <2>1. ~seat[b].bound
    BY <1>0, <1>4 DEF BindingsAgree, LinksApart, Connect
  <2>2. npc'[b].ready = FALSE /\ \A c \in Bots : c # b => seat'[c] = seat[c] /\ npc'[c] = npc[c]
    BY <1>0, <1>4 DEF Connect, TypeOK, FreshNpc
  <2>3. Aboard' = Aboard
    BY <2>1, <2>2 DEF Aboard
  <2>4. UNCHANGED <<used, data>>
    BY <1>4 DEF Connect
  <2> QED BY <1>d, <1>s, <2>3, <2>4
<1>5. ASSUME NEW b \in Bots, Disconnect(b)
      PROVE  [TS!Next]_(TS!vars)
  <2>1. npc'[b].ready = FALSE /\ \A c \in Bots : c # b => seat'[c] = seat[c] /\ npc'[c] = npc[c]
    BY <1>0, <1>5 DEF Disconnect, TypeOK, FreshNpc
  <2>2. Aboard' = Aboard \ {b}
    BY <2>1 DEF Aboard
  <2>3. Lives' = Lives /\ Sizes' = Sizes
    <3>1. CASE ~seat[b].bound
      BY <1>5, <1>d, <3>1 DEF Disconnect
    <3>2. CASE seat[b].bound
      <4>1. b[1] \in RouteIds /\ Live(b[1]) /\ used' = used
        BY <1>0, <1>5, <3>2, BotFields DEF BindingsAgree, Disconnect
      <4>2. data[b[1]].ready_count - 1 \in Int
        BY <1>0, <4>1, LiveIsData DEF RouteData
      <4>3. data' = [data EXCEPT ![b[1]].ready_count = data[b[1]].ready_count - 1]
        BY <1>5, <3>2 DEF Disconnect, ReadyLess
      <4> QED BY <1>0, <4>1, <4>2, <4>3, CountChanges
    <3> QED BY <3>1, <3>2
  <2>4. CASE b \in Aboard
    <3>1. TS!Alight(b)
      BY <2>2, <2>3, <2>4 DEF TS!Alight, Lives, Sizes
    <3> QED BY <3>1 DEF TS!Next
  <2>5. CASE b \notin Aboard
    <3>1. Aboard' = Aboard
      BY <2>2, <2>5
    <3> QED BY <1>s, <2>3, <3>1
  <2> QED BY <2>4, <2>5
<1>6. ASSUME NEW b \in Bots, OnEnterVehicle(b)
      PROVE  [TS!Next]_(TS!vars)
  <2>0. used' = used /\ seat' = seat /\ b \in holder
    BY <1>6 DEF OnEnterVehicle, First
  <2>1. CASE UNCHANGED <<npc, data>>
    <3>1. Aboard' = Aboard
      BY <2>0, <2>1 DEF Aboard
    <3> QED BY <1>d, <1>s, <2>0, <2>1, <3>1
  <2>2. CASE /\ npc[b].item /\ Valid(b) /\ ~npc[b].ready
             /\ npc' = [npc EXCEPT ![b].ready = TRUE]
             /\ data' = [data EXCEPT ![b[1]].ready_count = @ + 1]
    <3>1. seat[b].bound /\ b[1] \in RouteIds /\ Live(b[1])
      BY <1>0, <2>0, <2>2, BotFields DEF BindingsAgree, Valid
    <3>2. /\ npc'[b].ready
          /\ \A c \in Bots : c # b => npc'[c] = npc[c]
      BY <1>0, <2>2 DEF TypeOK, NpcRec
    <3>3. Aboard' = Aboard \cup {b}
      BY <2>0, <3>1, <3>2 DEF Aboard
    <3>4. data[b[1]].ready_count + 1 \in Int
      BY <1>0, <3>1, LiveIsData DEF RouteData
    <3>5. Lives' = Lives /\ Sizes' = Sizes
      BY <1>0, <2>0, <2>2, <3>1, <3>4, CountChanges
    <3>6. Lives[b[1]] \in {"waiting", "running"}
      BY <1>0, <3>1, LivesValues
    <3>7. TS!Board(b)
      BY <3>3, <3>5, <3>6 DEF TS!Board, TS!Serves, Lives, Sizes
    <3> QED BY <3>7 DEF TS!Next
  <2> QED BY <1>6, <2>1, <2>2 DEF OnEnterVehicle
<1>7. ASSUME NEW b \in Bots,
             \/ ConnectFails(b) \/ OnSpawn(b) \/ BotObeys(b) \/ PlaybackEnds(b)
             \/ \E is_stop \in BOOLEAN : OnPlaybackEnd(b, is_stop) \/ Timer250(b, is_stop)
      PROVE  [TS!Next]_(TS!vars)
  <2>1. UNCHANGED <<used, data, seat>>
    BY <1>7 DEF ConnectFails, OnSpawn, BotObeys, PlaybackEnds, OnPlaybackEnd,
                Timer250, world
  <2>2. \/ UNCHANGED npc
        \/ npc' = [npc EXCEPT ![b].spawned = TRUE]
        \/ \E s \in States : npc' = [npc EXCEPT ![b].state = s]
    BY <1>7 DEF ConnectFails, OnSpawn, BotObeys, PlaybackEnds, OnPlaybackEnd,
                Timer250, States
  <2>3. \A c \in Bots : npc'[c].ready = npc[c].ready
    BY <1>0, <2>2 DEF TypeOK, NpcRec
  <2>4. Aboard' = Aboard
    BY <2>1, <2>3 DEF Aboard
  <2> QED BY <1>d, <1>s, <2>1, <2>4
<1> QED BY <1>1, <1>2, <1>3, <1>4, <1>5, <1>6, <1>7 DEF Next, Bot

\* npc_taxi.cpp with its registry of bots implements the timetable.
THEOREM ServiceIsKept == Spec => ServicePromise
<1>1. Init => TS!Init
  BY DEF Init, TS!Init, Life, Size, Aboard, Live, NoSeat
<1>2. IInv /\ PlayInv /\ CountInv /\ [Next]_vars => [TS!Next]_(TS!vars)
  BY ServiceStep DEF PlayInv
<1> QED
  BY <1>1, <1>2, Inductive, PlayInductive, CountInductive, PTL
     DEF Spec, ServicePromise, TS!Spec
=============================================================================
