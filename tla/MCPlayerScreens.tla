-------------------------- MODULE MCPlayerScreens --------------------------
(***************************************************************************)
(* Instances of PlayerScreens for TLC.  A panel is one page or two of      *)
(* different looks, the clock changes its words, the keys their look.      *)
(***************************************************************************)
EXTENDS PlayerScreens, TLC

CONSTANTS Admin, User, Guest

Everybody  == {Admin, User, Guest}
JustTwo    == {Admin, User}
OnlyAdmin  == {Admin}
OnlyUser   == {User}
TheTds(P)  == {Time, Keys, Loading} \cup P   \* the panel of p is called p
TdsOfAll   == TheTds(Everybody)
TdsOfTwo   == TheTds(JustTwo)
Panels     == [p \in Players |-> p]
Two        == {1, 2}
TwoIds     == {1, 2}
ThreeIds   == {1, 2, 3}
TwoLooks   == {"plain", "bright"}
TwoWords   == {"a", "b"}
Said(l, w) == [look |-> l, words |-> w]
One(p)     == 1 :> p @@ 2 :> NoPage
Both(p, q) == 1 :> p @@ 2 :> q
Saying     == [d \in Tds |->
  CASE d = Time -> {One(Said("plain", "a")), One(Said("plain", "b"))}
    [] d \in {Keys, Loading} -> {One(Said("plain", "a"))}
    [] OTHER    -> {One(Said("bright", "a")),
                    Both(Said("plain", "a"), Said("bright", "a"))}]
AtFirst    == [d \in Tds |-> One(Said("plain", "a"))]
=============================================================================
