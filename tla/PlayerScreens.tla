--------------------------- MODULE PlayerScreens ---------------------------
(***************************************************************************)
(* Who shows which text to whom: the clock of the server (server.cpp), the *)
(* keys shown to a watcher (player_spectate.cpp), the panel about a player *)
(* (player_info.cpp) and the notice of a world being loaded                *)
(* (player_position.cpp), all on the text draws of TextDraw and driven by  *)
(* what Watching promises about spectating.  One handler is one step.      *)
(***************************************************************************)
EXTENDS TextDraw

CONSTANTS
  Time, Keys, Loading,  \* server::time_stamp, player_spectate::keys_info,
                        \* player_position::loading
  Info,                 \* Info[p]: player_info_item::td of p
  Content,              \* what each item may have to say
  First,                \* what it says when it is made
  NoOne,                \* the empty pointer
  Watchers,             \* players who spectate and open the panel
  Travellers,           \* players who are set far away or die
  KeysTime,             \* keys_info_timeout
  PreloadTime           \* preload_time

ASSUME PlayerScreensAssumption ==
  /\ {Time, Keys, Loading} \subseteq Tds
  /\ Info \in [Players -> Tds \ {Time, Keys, Loading}]
  /\ Time # Keys /\ Time # Loading /\ Keys # Loading
  /\ \A p, q \in Players : Info[p] = Info[q] => p = q
  /\ Content \in [Tds -> SUBSET Texts]
  /\ First \in [Tds -> Texts]
  /\ NoOne \notin Players
  /\ Watchers \subseteq Players /\ Travellers \subseteq Players
  /\ KeysTime \in 1..MaxTime
  /\ PreloadTime \in 1..MaxTime

VARIABLES
  present, watch,  \* see Watching
  info,            \* player_info_item::info_src and is_automanage
  preload,         \* what is left until preload_end_time; Off unless
                   \* is_preload_active
  frozen,          \* players whose client ignores the controls
  stuck            \* history: players who died while preloading, until the
                   \* next preloading of theirs ends

Watch == INSTANCE Watching

vars == <<drawVars, present, watch, info, preload, frozen, stuck>>

Off    == -1
NoInfo == [src |-> NoOne, auto |-> FALSE]

Init ==
  /\ Watch!Init
  /\ until = [d \in Tds |-> [p \in Players |-> Hidden]]
  /\ text = First
  /\ ids = [s \in Slots |-> NoId]
  /\ used = {}
  /\ screen = [p \in Players |-> [x \in Ids |-> NoPage]]
  /\ info = [p \in Players |-> NoInfo]
  /\ preload = [p \in Players |-> Off]
  /\ frozen = {} /\ stuck = {}

-----------------------------------------------------------------------------
(* The panel.                                                              *)

\* Texts after update() of the items of S, with whatever their variables and
\* the configured messages may make of them.
Reworded(S) ==
  {[d \in Tds |-> IF d \in S THEN f[d] ELSE text[d]] :
     f \in {g \in [S -> UNION {Content[d] : d \in S}] :
             \A d \in S : g[d] \in Content[d]}}

\* do_update of the panels of the players of S.
Refilled(S) == Reworded({Info[p] : p \in S})

\* do_start: whatever it was opened for before, the panel is about q now.
DoStart(q, auto) == [src |-> q, auto |-> auto]

\* The panel is shown when it had no source, hidden when it loses it.
PanelOpens(u, p) ==
  IF info[p].src = NoOne THEN Show(u, Info[p], p, Forever) ELSE u
PanelCloses(u, p) ==
  IF info[p].src # NoOne THEN Hide(u, Info[p], p) ELSE u

\* cmd_player_info
CmdInfo(p, q) ==
  /\ p \in present \cap Watchers /\ q \in present
  /\ info' = [info EXCEPT ![p] = DoStart(q, TRUE)]
  /\ \E t \in Refilled({p}) : Draw(PanelOpens(until, p), t)
  /\ UNCHANGED <<present, watch, preload, frozen, stuck>>

CmdInfoStop(p) ==
  /\ info[p].src # NoOne
  /\ info' = [info EXCEPT ![p] = NoInfo]
  /\ Draw(PanelCloses(until, p), text)
  /\ UNCHANGED <<present, watch, preload, frozen, stuck>>

-----------------------------------------------------------------------------
(* Spectating, as its events reach the keys and the panel.                 *)

SpectateStart(p, q) ==
  /\ p \in Watchers /\ Watch!Start(p, q)
  /\ info' = [info EXCEPT ![p] = DoStart(q, FALSE)]
  /\ \E t \in Refilled({p}) :
       Draw(PanelOpens(Show(until, Keys, p, KeysTime), p), t)
  /\ UNCHANGED <<preload, frozen, stuck>>

SpectateChange(p, q) ==
  /\ Watch!Change(p, q)
  /\ info' = [info EXCEPT ![p] = DoStart(q, FALSE)]
  /\ \E t \in Refilled({p}) : Draw(PanelOpens(until, p), t)
  /\ UNCHANGED <<preload, frozen, stuck>>

SpectateStop(p) ==
  /\ Watch!Stop(p)
  /\ info' = [info EXCEPT ![p] = NoInfo]
  /\ Draw(PanelCloses(Hide(until, Keys, p), p), text)
  /\ UNCHANGED <<preload, frozen, stuck>>

-----------------------------------------------------------------------------
(* Loading the world around a far place.                                   *)

\* pos_set_preload
Preload(p) ==
  /\ p \in present \cap Travellers
  /\ preload' = [preload EXCEPT ![p] = PreloadTime]
  /\ frozen' = frozen \cup {p}
  /\ Draw(Show(until, Loading, p, Forever), text)
  /\ UNCHANGED <<present, watch, info, stuck>>

\* on_death
Death(p) ==
  /\ p \in present \cap Travellers
  /\ preload' = [preload EXCEPT ![p] = Off]
  /\ stuck' = IF preload[p] # Off THEN stuck \cup {p} ELSE stuck
  /\ UNCHANGED <<drawVars, present, watch, info, frozen>>

-----------------------------------------------------------------------------
(* Players who come and go.                                                *)

\* server::on_connect
Connect(p) ==
  /\ Watch!Connect(p)
  /\ Draw(Show(until, Time, p, Forever), text)
  /\ UNCHANGED <<info, preload, frozen, stuck>>

\* The watchers of p who are taken to another player, and those who are not.
Shifted(p) == {w \in Players \ {p} : watch[w] = p /\ watch'[w] # NoOne}
Alone(p)   == {w \in Players \ {p} : watch[w] = p /\ watch'[w] = NoOne}

\* Mutant of Orphans: player_info::on_disconnect does nothing.
OrphansNone(p) == {}

\* player_info::on_disconnect: panels about p opened by hand.
Orphans(p) == {w \in Players \ ({p} \cup Shifted(p)) :
                 info[w].src = p /\ info[w].auto}

\* The viewers left when p leaves (text_draw_manager_item::on_disconnect hides
\* all his texts) and the panels of S close.
Leaves(p, S) ==
  [d \in Tds |-> [q \in Players |->
     IF \/ q = p
        \/ d = Keys /\ q \in Alone(p)
        \/ q \in S /\ d = Info[q]
     THEN Hidden
     ELSE IF q \in Shifted(p) /\ d = Info[q] /\ info[q].src = NoOne
          THEN Forever
          ELSE until[d][q]]]

\* A new player_info_item has a new td.
Renewed(t, S) ==
  [d \in Tds |-> IF \E p \in S : d = Info[p] THEN First[d] ELSE t[d]]

Disconnect(p) ==
  /\ Watch!Leave(p)
  /\ LET closed == {p} \cup Alone(p) \cup Orphans(p)
     IN  /\ info' = [w \in Players |->
               IF w \in closed THEN NoInfo
               ELSE IF w \in Shifted(p) THEN DoStart(watch'[w], FALSE)
               ELSE info[w]]
         /\ \E t \in Refilled(Shifted(p)) :
              Draw(Leaves(p, closed), Renewed(t, {p}))
  /\ preload' = [preload EXCEPT ![p] = Off]
  /\ frozen' = frozen \ {p}
  /\ stuck' = stuck \ {p}

\* on_post_gamemode_exit disconnects everybody.
GamemodeExit ==
  /\ Watch!Close
  /\ Draw([d \in Tds |-> [p \in Players |-> Hidden]], Renewed(text, Players))
  /\ info' = [p \in Players |-> NoInfo]
  /\ preload' = [p \in Players |-> Off]
  /\ frozen' = {} /\ stuck' = {}

-----------------------------------------------------------------------------
(* Timers and the configuration.                                           *)

\* text_draw_manager_item::on_timer250 of everybody.
Timer250 ==
  /\ \E d \in Tds, p \in Players : until[d][p] = 0
  /\ UNCHANGED <<present, watch, info, preload, frozen, stuck>>
  /\ Draw(Expired(until), text)

\* Mutant: the notice stays.
PreloadEndKeepsText(u, S) == u

\* pos_set_preload_end of the players of S.
PreloadEnd(u, S) ==
  [u EXCEPT ![Loading] = [p \in Players |-> IF p \in S THEN Hidden ELSE @[p]]]

\* Mutant: the comparison with the clock is the wrong way round.
DueBefore == {p \in Players : preload[p] > 0}

\* Players whose preload_end_time has come.
Due == {p \in Players : preload[p] = 0}

\* on_timer500 of everybody: panels are refilled, preloading ends.
Timer500 ==
  /\ UNCHANGED <<present, watch, info>>
  /\ preload' = [p \in Players |-> IF p \in Due THEN Off ELSE preload[p]]
  /\ frozen' = frozen \ Due
  /\ stuck' = stuck \ Due
  /\ \E t \in Refilled({p \in Players : info[p].src # NoOne}) :
       Draw(PreloadEnd(until, Due), t)

\* server::on_timer15000, configure_post of the managers.
TimeStamp ==
  /\ \E t \in Reworded({Time}) : Draw(until, t)
  /\ UNCHANGED <<present, watch, info, preload, frozen, stuck>>

Reconfigure ==
  /\ \E t \in Reworded({Time, Keys, Loading}) : Draw(until, t)
  /\ UNCHANGED <<present, watch, info, preload, frozen, stuck>>

Tick ==
  /\ until' = [d \in Tds |-> [p \in Players |-> Older(until[d][p])]]
  /\ preload' = [p \in Players |-> Older(preload[p])]
  /\ UNCHANGED <<text, ids, used, screen, present, watch, info, frozen, stuck>>

-----------------------------------------------------------------------------
Next ==
  \/ \E p \in Players :
       \/ Connect(p) \/ Disconnect(p)
       \/ Preload(p) \/ Death(p)
       \/ CmdInfoStop(p) \/ SpectateStop(p)
       \/ \E q \in Players : \/ CmdInfo(p, q)
                             \/ SpectateStart(p, q) \/ SpectateChange(p, q)
  \/ GamemodeExit
  \/ Timer250 \/ Timer500
  \/ TimeStamp \/ Reconfigure
  \/ Tick

Spec == Init /\ [][Next]_vars

\* Time passes and the server's timers keep firing.
FairSpec == Spec /\ WF_vars(Tick) /\ WF_vars(Timer250)
                 /\ WF_vars((\E p \in Players : preload[p] = 0) /\ Timer500)

-----------------------------------------------------------------------------
(* Properties.                                                             *)

TypeOK ==
  /\ DrawTypeOK
  /\ present \subseteq Players
  /\ watch \in [Players -> Players \cup {NoOne}]
  /\ info \in [Players -> [src : Players \cup {NoOne}, auto : BOOLEAN]]
  /\ preload \in [Players -> {Off} \cup 0..MaxTime]
  /\ frozen \subseteq Players /\ stuck \subseteq Players

\* do_update reads the panel's source on every timer: it is never a player
\* who left, and a panel opened by spectating is about the player watched,
\* whatever commands, shifts and departures came between.
InfoSourceConnected ==
  \A p \in Players : info[p].src # NoOne =>
    /\ p \in present /\ info[p].src \in present
    /\ ~info[p].auto => info[p].src = watch[p]

\* A text is on exactly as long as what it is about: the clock for everybody
\* online, the panel while it has a source, the keys only while watching, the
\* notice of loading while preloading.  Only a death in the middle of
\* preloading leaves the notice and the frozen controls behind.
TextsFollowState ==
  \A p \in Players :
    /\ until[Time][p] # Hidden <=> p \in present
    /\ until[Info[p]][p] # Hidden <=> info[p].src # NoOne
    /\ until[Keys][p] # Hidden => watch[p] # NoOne
    /\ until[Loading][p] # Hidden <=> p \in frozen
    /\ p \in frozen <=> preload[p] # Off \/ p \in stuck

\* The keys leave the screen by themselves.
KeysGoAway ==
  \A p \in Watchers : until[Keys][p] # Hidden ~> until[Keys][p] = Hidden

\* Preloading ends unless the player is set far away again and again.
PreloadEnds ==
  \A p \in Travellers :
    (<>[][~Preload(p)]_vars) => (preload[p] # Off ~> preload[p] = Off)

-----------------------------------------------------------------------------
(* Why they do (show_for_player keeps the time a player has, on_timer500     *)
(* tests only that it has come): whatever players and timers do, the keys    *)
(* are never shown longer than keys_info_timeout, nothing prolongs           *)
(* the time they still have, and only pos_set_preload itself starts the time *)
(* of a preloading anew.                                                     *)
TimesRunDown ==
  [][\A p \in Players :
       /\ until[Keys][p] # Hidden =>
            \/ until'[Keys][p] = Hidden
            \/ /\ until'[Keys][p] \in 0..KeysTime
               /\ until'[Keys][p] <= until[Keys][p]
       /\ preload[p] # Off =>
            \/ preload'[p] = Off \/ Preload(p)
            \/ /\ preload'[p] \in 0..PreloadTime
               /\ preload'[p] <= preload[p]]_vars
=============================================================================
