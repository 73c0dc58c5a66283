------------------------------ MODULE TextDraw ------------------------------
(***************************************************************************)
(* Texts on the players' screens (text_draw.cpp).  A td_item holds a text, *)
(* cut into pages, and the players it is shown for; each page is one of    *)
(* the server's few text draws, made when the item gets its first viewer   *)
(* and destroyed with the last.  What a client has on its screen follows   *)
(* only from the show, hide, set_string and destroy calls it is sent.      *)
(*                                                                         *)
(* show_for_list of an item and text_draws of the players' items hold the  *)
(* same pairs: "until" is both.  Every path of do_update leaves show_for   *)
(* of a page equal to show_for_list, so it is not kept apart.              *)
(***************************************************************************)
EXTENDS Integers

CONSTANTS
  Players, Tds,   \* the slots of the server, the td_items
  Idx,            \* places of the pages of an item
  Ids, NoId,      \* ids of text draws, INVALID_TEXT_DRAW
  Looks, Words,   \* the parameters and the text of a page
  NoPage,         \* no page at this place
  MaxTime         \* the longest time a text is shown for

Pages == [look : Looks, words : Words]

ASSUME TextDrawAssumption ==
  /\ NoId \notin Ids
  /\ NoPage \notin Pages
  /\ MaxTime \in Nat

VARIABLES
  until,   \* until[d][p]: what is left of the time d is shown for p
  text,    \* the pages of every item
  ids,     \* td_samp_item_t::id of every page
  used,    \* the text draws that exist on the server
  screen   \* screen[p][x]: what the client of p shows as text draw x

drawVars == <<until, text, ids, used, screen>>

Hidden  == -2
Forever == -1
Slots   == Tds \X Idx
Texts   == [Idx -> Pages \cup {NoPage}]

-----------------------------------------------------------------------------
(* The effect of do_update for every item whose viewers or text become u   *)
(* and t in one handler.                                                   *)

Page(t, s) == t[s[1]][s[2]]
For(u, s, p) == u[s[1]][p] # Hidden

Touched(u, t) == {d \in Tds : u[d] # until[d] \/ t[d] # text[d]}

\* Pages that have a viewer.
Wanted(u, t, s) == Page(t, s) # NoPage /\ \E p \in Players : For(u, s, p)

\* Pages that keep their text draw: same parameters, at most new words.
Kept(u, t) == {s \in Slots : /\ ids[s] # NoId /\ Wanted(u, t, s)
                             /\ Page(t, s).look = Page(text, s).look}

\* do_destroy_item: the page lost its viewers, its place or its look.
Freed(u, t) == {s \in Slots : ids[s] # NoId} \ Kept(u, t)

\* do_update_item_create: new pages, pages with a new look, and pages that
\* got no text draw the last time.
Created(u, t) == {s \in Slots : /\ s[1] \in Touched(u, t)
                                /\ Wanted(u, t, s)} \ Kept(u, t)

IdsOf(S) == {ids[s] : s \in S}

\* Mutant of Left: destroyed text draws are never given back.
LeftLeaks(u, t) == used

\* The text draws still in use once all pages that must be destroyed are.
Left(u, t) == used \ IdsOf(Freed(u, t))

\* A page is refused a text draw only if none is free: the rest of what the
\* handler destroys may still be there, but not what its own item gave up.
MayStarve(u, t, s, got) ==
  /\ ids[s] = NoId
  /\ \A x \in Ids :
       \/ x \in used \ IdsOf({r \in Freed(u, t) : r[1] = s[1]})
       \/ \E r \in DOMAIN got : got[r] = x

\* Which of the free ids textdraw_create answers is the server's choice.
Answers(u, t) ==
  {got \in [Created(u, t) -> (Ids \ Left(u, t)) \cup {NoId}] :
     \A s \in Created(u, t) :
       IF got[s] = NoId THEN MayStarve(u, t, s, got)
       ELSE \A r \in Created(u, t) \ {s} : got[r] # got[s]}

\* do_update_item_hide_for_players and the hiding of those who left the list.
HideCalls(u, t, p) ==
  {s \in Slots : /\ ids[s] # NoId /\ For(until, s, p)
                 /\ s \in Freed(u, t) \/ ~For(u, s, p)}

\* do_update_item_show_for_players and the showing to those who came.
\* Mutant: a page that is made anew is shown to newcomers only.
ShowCallsNewcomers(u, t, got, p) ==
  {s \in Slots : For(u, s, p) /\ ~For(until, s, p)}
ShowCalls(u, t, got, p) ==
  {s \in Slots : /\ For(u, s, p)
                 /\ s \in DOMAIN got \/ ~For(until, s, p)}

\* ids after the handler.
NewIds(u, t, got) ==
  [s \in Slots |-> IF s \in DOMAIN got THEN got[s]
                   ELSE IF s \in Kept(u, t) THEN ids[s] ELSE NoId]

\* The screen of p after the calls, text draw by text draw: destroyed and
\* hidden first, set_string, then what is shown.
Screen(u, t, got, p) ==
  LET now    == NewIds(u, t, got)
      shown  == ShowCalls(u, t, got, p)
      hidden == IdsOf(HideCalls(u, t, p))
      kept   == Kept(u, t)
  IN  [x \in Ids |->
         LET new  == {s \in shown : now[s] = x}
             same == {s \in kept : ids[s] = x}
         IN  IF new # {} THEN Page(t, CHOOSE s \in new : TRUE)
             ELSE IF x \in hidden \/ screen[p][x] = NoPage THEN NoPage
             ELSE IF same # {}
                  THEN [screen[p][x] EXCEPT
                          !.words = Page(t, CHOOSE s \in same : TRUE).words]
             ELSE screen[p][x]]

\* The items' viewers become u and their texts t.
Draw(u, t) ==
  /\ until' = u /\ text' = t
  /\ \E got \in Answers(until', text') :
       /\ ids' = NewIds(until', text', got)
       /\ used' = Left(until', text')
                    \cup ({got[s] : s \in DOMAIN got} \ {NoId})
       /\ screen' = [p \in Players |-> Screen(until', text', got, p)]

\* show_for_player: a player who has the text already keeps his time.
Show(u, d, p, time) ==
  IF u[d][p] # Hidden THEN u ELSE [u EXCEPT ![d][p] = time]

\* hide_for_player
Hide(u, d, p) == [u EXCEPT ![d][p] = Hidden]

\* Mutant: a text that has no time left stays, like one without a limit.
ExpiredStays(u) == u

\* on_timer250: what every player has seen long enough.
Expired(u) == [d \in Tds |-> [p \in Players |->
                 IF u[d][p] = 0 THEN Hidden ELSE u[d][p]]]

\* The clock.
Older(n) == IF n > 0 THEN n - 1 ELSE n

-----------------------------------------------------------------------------
(* Properties.                                                             *)

DrawTypeOK ==
  /\ until \in [Tds -> [Players -> {Hidden, Forever} \cup 0..MaxTime]]
  /\ text \in [Tds -> Texts]
  /\ ids \in [Slots -> Ids \cup {NoId}]
  /\ used \subseteq Ids
  /\ screen \in [Players -> [Ids -> Pages \cup {NoPage}]]

\* No text draw is lost and none has two owners, however pages come, go,
\* change their look or find the server out of text draws; a text nobody
\* sees holds none.
TextDrawsOwned ==
  /\ used = {ids[s] : s \in Slots} \ {NoId}
  /\ \A s, r \in Slots : ids[s] = ids[r] => s = r \/ ids[s] = NoId
  /\ \A s \in Slots : ids[s] # NoId => Wanted(until, text, s)

\* A client shows the pages of the texts it is to see, with the look and the
\* words they have now, and nothing else: no text of a destroyed page, of
\* another player's item or of a player who had the slot before.
EachSeesHisTexts ==
  \A p \in Players : \A x \in Ids :
    \/ \E s \in Slots : /\ ids[s] = x /\ For(until, s, p)
                        /\ screen[p][x] = Page(text, s)
    \/ /\ screen[p][x] = NoPage
       /\ ~\E s \in Slots : ids[s] = x /\ For(until, s, p)
=============================================================================
