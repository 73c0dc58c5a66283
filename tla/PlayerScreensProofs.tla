------------------------ MODULE PlayerScreensProofs ------------------------
(***************************************************************************)
(* Proofs about TextDraw and PlayerScreens.                                *)
(*                                                                         *)
(* First, whatever viewers and texts a handler leaves, its do_update calls *)
(* keep the pool of text draws without loss or sharing and every screen    *)
(* true (DrawKeepsOrder): the ids of kept pages are exactly the ids left,  *)
(* so ids given out are new, and a page is hidden under the id its only    *)
(* owner had.                                                              *)
(*                                                                         *)
(* Then the inductive invariant joins the pool and the screens (DrawInv),  *)
(* who watches whom, the sources of the panels and the texts that are on;  *)
(* every handler is shown to hand well-typed viewers and texts to Draw.    *)
(*                                                                         *)
(* Last, no handler prolongs a time that runs: what KeysGoAway and         *)
(* PreloadEnds rest on, step by step (TimesOnlyRunDown).                   *)
(***************************************************************************)
EXTENDS PlayerScreens, TLAPS

DrawInv == DrawTypeOK /\ TextDrawsOwned /\ EachSeesHisTexts

Untils == [Tds -> [Players -> {Hidden, Forever} \cup 0..MaxTime]]

\* set_string with the words of a page of the same look makes that page.
LEMMA WordsMakePage ==
  ASSUME NEW a \in Pages, NEW b \in Pages, a.look = b.look
  PROVE  [a EXCEPT !.words = b.words] = b
BY DEF Pages

LEMMA PageTypes ==
  ASSUME NEW t \in [Tds -> Texts], NEW s \in Slots
  PROVE  Page(t, s) \in Pages \cup {NoPage}
BY DEF Slots, Texts, Page

\* What the server may answer (do_update_item_create).
LEMMA AnswerTypes ==
  ASSUME NEW u, NEW t, NEW got \in Answers(u, t)
  PROVE  /\ DOMAIN got = Created(u, t)
         /\ \A s \in Created(u, t) :
              /\ got[s] \in Ids \cup {NoId}
              /\ got[s] # NoId => got[s] \in Ids \ Left(u, t)
              /\ \A r \in Created(u, t) :
                   got[s] # NoId /\ got[s] = got[r] => s = r
BY TextDrawAssumption DEF Answers

\* The ids left are those of the pages that keep theirs.
LEMMA LeftAreKept ==
  ASSUME DrawInv, NEW u, NEW t
  PROVE  /\ Left(u, t) = {ids[s] : s \in Kept(u, t)}
         /\ \A s \in Kept(u, t) : s \in Slots /\ ids[s] \in Ids
<1>1. \A s \in Kept(u, t) : s \in Slots /\ ids[s] \in Ids
  BY DEF Kept, DrawInv, DrawTypeOK
<1>2. ASSUME NEW s \in Kept(u, t)
      PROVE  ids[s] \in Left(u, t)
  <2>1. ids[s] \in used /\ s \in Slots /\ ids[s] # NoId
    BY DEF Kept, DrawInv, TextDrawsOwned
  <2>2. ASSUME NEW r \in Freed(u, t) PROVE ids[r] # ids[s]
    BY <2>1 DEF Freed, DrawInv, TextDrawsOwned
  <2> QED
    BY <2>1, <2>2 DEF Left, IdsOf
<1>3. ASSUME NEW x \in Left(u, t)
      PROVE  x \in {ids[s] : s \in Kept(u, t)}
  <2>1. x \in used /\ x \notin {ids[s] : s \in Freed(u, t)}
    BY DEF Left, IdsOf
  <2>2. PICK s \in Slots : x = ids[s] /\ ids[s] # NoId
    BY <2>1 DEF DrawInv, TextDrawsOwned
  <2> QED
    BY <2>1, <2>2 DEF Freed
<1> QED
  BY <1>1, <1>2, <1>3

\* The ids after the handler: every page that has one is wanted, no two share
\* one, and the server's text draws are exactly those.
LEMMA IdsAfter ==
  ASSUME DrawInv, NEW u \in Untils, NEW t \in [Tds -> Texts],
         NEW got \in Answers(u, t)
  PROVE  LET now == NewIds(u, t, got)
         IN  /\ now \in [Slots -> Ids \cup {NoId}]
             /\ \A s \in Slots : now[s] # NoId => Wanted(u, t, s)
             /\ \A s, r \in Slots : now[s] = now[r] => s = r \/ now[s] = NoId
             /\ Left(u, t) \cup ({got[s] : s \in DOMAIN got} \ {NoId})
                  = {now[s] : s \in Slots} \ {NoId}
<1> DEFINE now == NewIds(u, t, got)
<1> DEFINE C == Created(u, t)
<1> DEFINE K == Kept(u, t)
<1>1. /\ DOMAIN got = C
      /\ \A s \in C : /\ got[s] \in Ids \cup {NoId}
                      /\ got[s] # NoId => got[s] \in Ids \ Left(u, t)
                      /\ \A r \in C : got[s] # NoId /\ got[s] = got[r] => s = r
  BY AnswerTypes
<1>2. /\ Left(u, t) = {ids[s] : s \in K}
      /\ \A s \in K : s \in Slots /\ ids[s] \in Ids
  BY LeftAreKept
<1>3. C \subseteq Slots /\ K \subseteq Slots /\ C \cap K = {}
  BY DEF Created, Kept
<1>4. \A s \in C \cup K : Wanted(u, t, s)
  BY DEF Created, Kept
<1>5. \A s \in Slots : now[s] = IF s \in C THEN got[s]
                                ELSE IF s \in K THEN ids[s] ELSE NoId
  BY <1>1 DEF NewIds
<1>6. now \in [Slots -> Ids \cup {NoId}]
  BY <1>1, <1>2 DEF NewIds
<1>7. \A s \in Slots : now[s] # NoId => Wanted(u, t, s)
  BY <1>4, <1>5
<1>8. ASSUME NEW s \in Slots, NEW r \in Slots, now[s] = now[r], now[s] # NoId
      PROVE  s = r
  <2>1. CASE s \in C /\ r \in C
    BY <1>1, <1>5, <1>8, <2>1
  <2>2. CASE s \in K /\ r \in K
    BY <1>3, <1>5, <1>8, <2>2 DEF DrawInv, TextDrawsOwned
  <2>3. CASE s \in C /\ r \in K
    BY <1>1, <1>2, <1>3, <1>5, <1>8, <2>3
  <2>4. CASE s \in K /\ r \in C
    BY <1>1, <1>2, <1>3, <1>5, <1>8, <2>4
  <2> QED
    BY <1>5, <1>8, <2>1, <2>2, <2>3, <2>4
<1>9. ASSUME NEW x
      PROVE  x \in Left(u, t) \cup ({got[s] : s \in DOMAIN got} \ {NoId})
               <=> x \in {now[s] : s \in Slots} \ {NoId}
  <2>1. ASSUME x \in Left(u, t)
        PROVE  x \in {now[s] : s \in Slots} \ {NoId}
    <3>1. PICK s \in K : x = ids[s]
      BY <1>2, <2>1
    <3> QED
      BY <1>2, <1>3, <1>5, <3>1, TextDrawAssumption
  <2>2. ASSUME x \in {got[s] : s \in DOMAIN got} \ {NoId}
        PROVE  x \in {now[s] : s \in Slots} \ {NoId}
    BY <1>1, <1>3, <1>5, <2>2
  <2>3. ASSUME NEW s \in Slots, x = now[s], x # NoId
        PROVE  x \in Left(u, t) \cup ({got[r] : r \in DOMAIN got} \ {NoId})
    BY <1>1, <1>2, <1>5, <2>3
  <2> QED
    BY <2>1, <2>2, <2>3
<1> HIDE DEF now
<1>10. Left(u, t) \cup ({got[s] : s \in DOMAIN got} \ {NoId})
         = {now[s] : s \in Slots} \ {NoId}
  BY <1>9
<1> QED
  BY <1>6, <1>7, <1>8, <1>10 DEF now

\* What a client sees after the handler.
LEMMA ScreenAfter ==
  ASSUME DrawInv, NEW u \in Untils, NEW t \in [Tds -> Texts],
         NEW got \in Answers(u, t), NEW p \in Players, NEW x \in Ids
  PROVE  LET now  == NewIds(u, t, got)
             seen == Screen(u, t, got, p)[x]
         IN  /\ seen \in Pages \cup {NoPage}
             /\ \/ \E s \in Slots : now[s] = x /\ For(u, s, p) /\ seen = Page(t, s)
                \/ /\ seen = NoPage
                   /\ ~\E s \in Slots : now[s] = x /\ For(u, s, p)
<1> DEFINE now    == NewIds(u, t, got)
<1> DEFINE seen   == Screen(u, t, got, p)[x]
<1> DEFINE shown  == ShowCalls(u, t, got, p)
<1> DEFINE hidden == IdsOf(HideCalls(u, t, p))
<1> DEFINE new    == {s \in shown : now[s] = x}
<1> DEFINE same   == {s \in Kept(u, t) : ids[s] = x}
<1>1. seen = IF new # {} THEN Page(t, CHOOSE s \in new : TRUE)
             ELSE IF x \in hidden \/ screen[p][x] = NoPage THEN NoPage
             ELSE IF same # {}
                  THEN [screen[p][x] EXCEPT
                          !.words = Page(t, CHOOSE s \in same : TRUE).words]
             ELSE screen[p][x]
  BY DEF Screen
<1>2. /\ \A s \in Slots : now[s] # NoId => Wanted(u, t, s)
      /\ \A s, r \in Slots : now[s] = now[r] => s = r \/ now[s] = NoId
  BY IdsAfter
<1>3. x # NoId
  BY TextDrawAssumption
<1>4. \A s, r \in Slots : ids[s] = x /\ ids[r] = x => s = r
  BY <1>3 DEF DrawInv, TextDrawsOwned
<1>5. \A s \in Slots : /\ s \in DOMAIN got <=> s \in Created(u, t)
                       /\ s \in Kept(u, t) => s \notin Created(u, t)
                       /\ now[s] = x => s \in Created(u, t) \/ s \in Kept(u, t)
                       /\ s \in Kept(u, t) => now[s] = ids[s]
  <2>1. DOMAIN got = Created(u, t)
    BY AnswerTypes
  <2>2. \A s \in Slots : now[s] = IF s \in DOMAIN got THEN got[s]
                                  ELSE IF s \in Kept(u, t) THEN ids[s] ELSE NoId
    BY DEF NewIds
  <2>3. \A s \in Kept(u, t) : s \notin Created(u, t)
    BY DEF Created
  <2> HIDE DEF now
  <2> QED
    BY <1>3, <2>1, <2>2, <2>3
<1>6. \/ \E s \in Slots : /\ ids[s] = x /\ For(until, s, p)
                          /\ screen[p][x] = Page(text, s)
      \/ /\ screen[p][x] = NoPage
         /\ ~\E s \in Slots : ids[s] = x /\ For(until, s, p)
  BY DEF DrawInv, EachSeesHisTexts
<1>7. CASE new # {}
  <2> DEFINE s == CHOOSE s \in new : TRUE
  <2>1. s \in new
    BY <1>7
  <2>2. s \in Slots /\ now[s] = x /\ For(u, s, p)
    BY <2>1 DEF ShowCalls
  <2>3. seen = Page(t, s)
    BY <1>1, <1>7
  <2> QED
    BY <2>2, <2>3, PageTypes
<1>8. CASE new = {} /\ \E s \in Slots : now[s] = x /\ For(u, s, p)
  <2>1. PICK s \in Slots : now[s] = x /\ For(u, s, p)
    BY <1>8
  <2>2. s \notin Created(u, t) /\ For(until, s, p)
    BY <1>5, <1>8, <2>1 DEF ShowCalls
  <2>3. s \in Kept(u, t) /\ ids[s] = x
    BY <1>5, <2>1, <2>2
  <2>4. screen[p][x] = Page(text, s)
    BY <1>4, <1>6, <2>2, <2>3
  <2>5. /\ Page(text, s) \in Pages /\ Page(t, s) \in Pages
        /\ Page(text, s).look = Page(t, s).look
    <3>1. Wanted(until, text, s) /\ Wanted(u, t, s)
      BY <2>3 DEF Kept, DrawInv, TextDrawsOwned
    <3> QED
      BY <2>3, <3>1, PageTypes DEF Kept, Wanted, DrawInv, DrawTypeOK
  <2>6. x \notin hidden
    <3> SUFFICES ASSUME NEW r \in HideCalls(u, t, p), ids[r] = x
                 PROVE  FALSE
      BY DEF IdsOf
    <3>1. r = s
      BY <1>4, <2>3 DEF HideCalls
    <3> QED
      BY <2>1, <2>3, <3>1 DEF HideCalls, Freed
  <2>7. same = {s}
    BY <1>4, <2>3 DEF Kept
  <2>8. (CHOOSE r \in same : TRUE) = s
    BY <2>7
  <2>9. seen = [Page(text, s) EXCEPT !.words = Page(t, s).words]
    BY <1>1, <1>8, <2>4, <2>5, <2>6, <2>7, <2>8, TextDrawAssumption
  <2>10. seen = Page(t, s)
    BY <2>5, <2>9, WordsMakePage
  <2> QED
    BY <2>1, <2>5, <2>10
<1>9. CASE new = {} /\ ~\E s \in Slots : now[s] = x /\ For(u, s, p)
  <2>1. x \in hidden \/ screen[p][x] = NoPage
    <3> SUFFICES ASSUME NEW s \in Slots, ids[s] = x, For(until, s, p)
                 PROVE  x \in hidden
      BY <1>6
    <3>1. s \in Freed(u, t) \/ ~For(u, s, p)
      BY <1>3, <1>5, <1>9 DEF Freed
    <3>2. s \in HideCalls(u, t, p)
      BY <1>3, <3>1 DEF HideCalls
    <3> QED
      BY <3>2 DEF IdsOf
  <2>2. seen = NoPage
    BY <1>1, <1>9, <2>1
  <2> QED
    BY <1>9, <2>2
<1> QED
  BY <1>7, <1>8, <1>9

\* Every handler that shows, hides or rewords texts keeps the pool and the
\* screens as they must be (do_update with all it calls).
THEOREM DrawKeepsOrder ==
  ASSUME DrawInv, NEW u \in Untils, NEW t \in [Tds -> Texts], Draw(u, t)
  PROVE  DrawInv'
<1>1. until' = u /\ text' = t
  BY DEF Draw
<1>2. PICK got \in Answers(u, t) :
        /\ ids' = NewIds(u, t, got)
        /\ used' = Left(u, t) \cup ({got[s] : s \in DOMAIN got} \ {NoId})
        /\ screen' = [p \in Players |-> Screen(u, t, got, p)]
  BY <1>1 DEF Draw
<1> DEFINE now == NewIds(u, t, got)
<1>3. /\ now \in [Slots -> Ids \cup {NoId}]
      /\ \A s \in Slots : now[s] # NoId => Wanted(u, t, s)
      /\ \A s, r \in Slots : now[s] = now[r] => s = r \/ now[s] = NoId
      /\ Left(u, t) \cup ({got[s] : s \in DOMAIN got} \ {NoId})
           = {now[s] : s \in Slots} \ {NoId}
  BY IdsAfter
<1>4. \A p \in Players, x \in Ids :
        /\ screen'[p][x] \in Pages \cup {NoPage}
        /\ \/ \E s \in Slots : /\ now[s] = x /\ For(u, s, p)
                                /\ screen'[p][x] = Page(t, s)
           \/ /\ screen'[p][x] = NoPage
              /\ ~\E s \in Slots : now[s] = x /\ For(u, s, p)
  <2> SUFFICES ASSUME NEW p \in Players, NEW x \in Ids
               PROVE  /\ screen'[p][x] \in Pages \cup {NoPage}
                      /\ \/ \E s \in Slots : /\ now[s] = x /\ For(u, s, p)
                                              /\ screen'[p][x] = Page(t, s)
                         \/ /\ screen'[p][x] = NoPage
                            /\ ~\E s \in Slots : now[s] = x /\ For(u, s, p)
    OBVIOUS
  <2>1. screen'[p][x] = Screen(u, t, got, p)[x]
    BY <1>2
  <2> QED
    BY <2>1, ScreenAfter
<1>5. DrawTypeOK'
  <2>1. used' \subseteq Ids
    BY <1>2, <1>3
  <2>2. screen' \in [Players -> [Ids -> Pages \cup {NoPage}]]
    <3>1. \A p \in Players : DOMAIN Screen(u, t, got, p) = Ids
                             /\ Screen(u, t, got, p)
                                  = [x \in Ids |-> Screen(u, t, got, p)[x]]
      BY DEF Screen
    <3> QED
      BY <1>2, <1>4, <3>1
  <2> QED
    BY <1>1, <1>2, <1>3, <2>1, <2>2 DEF DrawTypeOK, Untils
<1>6. TextDrawsOwned'
  BY <1>1, <1>2, <1>3 DEF TextDrawsOwned, Wanted, Page, For
<1>7. EachSeesHisTexts'
  BY <1>1, <1>2, <1>4 DEF EachSeesHisTexts, For, Page
<1> QED
  BY <1>5, <1>6, <1>7 DEF DrawInv

-----------------------------------------------------------------------------
PlayersOK ==
  /\ present \subseteq Players
  /\ watch \in [Players -> Players \cup {NoOne}]
  /\ info \in [Players -> [src : Players \cup {NoOne}, auto : BOOLEAN]]
  /\ preload \in [Players -> {Off} \cup 0..MaxTime]
  /\ frozen \subseteq Players /\ stuck \subseteq Players

WatchedPresent ==
  \A p \in Players : watch[p] # NoOne => p \in present /\ watch[p] \in present

PlayInv == PlayersOK /\ WatchedPresent /\ InfoSourceConnected /\ TextsFollowState

\* Only the keys are shown for a limited time.
Lasting(u) ==
  \A d \in Tds \ {Keys}, p \in Players : u[d][p] \in {Hidden, Forever}

OrderInv == DrawInv /\ Lasting(until)

ScreensInv == OrderInv /\ PlayInv

\* Whether a text is on for a player once his viewers are u.
On(u, d, p) == u[d][p] # Hidden

LEMMA ShowEffect ==
  ASSUME NEW u \in Untils, NEW d \in Tds, NEW p \in Players,
         NEW time \in {Forever} \cup 0..MaxTime
  PROVE  /\ Show(u, d, p, time) \in Untils
         /\ Lasting(u) /\ (d = Keys \/ time = Forever)
              => Lasting(Show(u, d, p, time))
         /\ \A e \in Tds, q \in Players :
              On(Show(u, d, p, time), e, q) <=> On(u, e, q) \/ (e = d /\ q = p)
<1>1. time # Hidden
  BY TextDrawAssumption DEF Hidden, Forever
<1>2. CASE u[d][p] # Hidden
  <2>1. Show(u, d, p, time) = u
    BY <1>2 DEF Show
  <2> QED
    BY <1>2, <2>1 DEF On
<1>3. CASE u[d][p] = Hidden
  <2>1. Show(u, d, p, time) = [u EXCEPT ![d][p] = time]
    BY <1>3 DEF Show
  <2>2. [u EXCEPT ![d][p] = time] \in Untils
    BY DEF Untils
  <2>3. \A e \in Tds, q \in Players :
          [u EXCEPT ![d][p] = time][e][q]
            = IF e = d /\ q = p THEN time ELSE u[e][q]
    BY DEF Untils
  <2> QED
    BY <1>1, <2>1, <2>2, <2>3 DEF On, Lasting
<1> QED
  BY <1>2, <1>3

LEMMA HideEffect ==
  ASSUME NEW u \in Untils, NEW d \in Tds, NEW p \in Players
  PROVE  /\ Hide(u, d, p) \in Untils
         /\ Lasting(u) => Lasting(Hide(u, d, p))
         /\ \A e \in Tds, q \in Players :
              On(Hide(u, d, p), e, q) <=> On(u, e, q) /\ ~(e = d /\ q = p)
<1>1. Hide(u, d, p) \in Untils
  BY DEF Hide, Untils
<1>2. \A e \in Tds, q \in Players :
        Hide(u, d, p)[e][q] = IF e = d /\ q = p THEN Hidden ELSE u[e][q]
  BY DEF Hide, Untils
<1> QED
  BY <1>1, <1>2 DEF On, Lasting

LEMMA PanelOpensEffect ==
  ASSUME PlayersOK, NEW u \in Untils, NEW p \in Players
  PROVE  /\ PanelOpens(u, p) \in Untils
         /\ Lasting(u) => Lasting(PanelOpens(u, p))
         /\ \A e \in Tds, q \in Players :
              On(PanelOpens(u, p), e, q)
                <=> On(u, e, q) \/ (info[p].src = NoOne /\ e = Info[p] /\ q = p)
<1>1. Info[p] \in Tds /\ Forever \in {Forever} \cup 0..MaxTime
  BY PlayerScreensAssumption
<1> QED
  BY <1>1, ShowEffect DEF PanelOpens

LEMMA PanelClosesEffect ==
  ASSUME PlayersOK, NEW u \in Untils, NEW p \in Players
  PROVE  /\ PanelCloses(u, p) \in Untils
         /\ Lasting(u) => Lasting(PanelCloses(u, p))
         /\ \A e \in Tds, q \in Players :
              On(PanelCloses(u, p), e, q)
                <=> On(u, e, q) /\ ~(info[p].src # NoOne /\ e = Info[p] /\ q = p)
<1>1. Info[p] \in Tds
  BY PlayerScreensAssumption
<1> QED
  BY <1>1, HideEffect DEF PanelCloses

\* Whatever do_update of an item says, it says in pages.
LEMMA RewordedTypes ==
  ASSUME DrawTypeOK, NEW S \in SUBSET Tds, NEW t \in Reworded(S)
  PROVE  t \in [Tds -> Texts]
<1>1. \A d \in Tds : Content[d] \subseteq Texts /\ text[d] \in Texts
  BY PlayerScreensAssumption DEF DrawTypeOK
<1>2. PICK f \in {g \in [S -> UNION {Content[d] : d \in S}] :
                   \A d \in S : g[d] \in Content[d]} :
        t = [d \in Tds |-> IF d \in S THEN f[d] ELSE text[d]]
  BY DEF Reworded
<1> QED
  BY <1>1, <1>2

LEMMA RefilledTypes ==
  ASSUME DrawTypeOK, NEW S \in SUBSET Players, NEW t \in Refilled(S)
  PROVE  t \in [Tds -> Texts]
<1>1. {Info[p] : p \in S} \in SUBSET Tds
  BY PlayerScreensAssumption
<1> QED
  BY <1>1, RewordedTypes DEF Refilled

LEMMA RenewedTypes ==
  ASSUME NEW t \in [Tds -> Texts], NEW S
  PROVE  Renewed(t, S) \in [Tds -> Texts]
BY PlayerScreensAssumption DEF Renewed

\* Which items are which.
LEMMA ItemsApart ==
  /\ Time \in Tds /\ Keys \in Tds /\ Loading \in Tds
  /\ Time # Keys /\ Time # Loading /\ Keys # Loading
  /\ \A p \in Players : /\ Info[p] \in Tds
                        /\ Info[p] \notin {Time, Keys, Loading}
  /\ \A p, q \in Players : Info[p] = Info[q] => p = q
BY PlayerScreensAssumption

LEMMA DoStartFields ==
  ASSUME NEW q \in Players, NEW b \in BOOLEAN
  PROVE  /\ DoStart(q, b) \in [src : Players \cup {NoOne}, auto : BOOLEAN]
         /\ DoStart(q, b).src = q /\ (DoStart(q, b).auto <=> b)
         /\ q # NoOne
BY PlayerScreensAssumption DEF DoStart

LEMMA NoInfoFields ==
  /\ NoInfo \in [src : Players \cup {NoOne}, auto : BOOLEAN]
  /\ NoInfo.src = NoOne
BY DEF NoInfo

LEMMA TimesPositive ==
  /\ KeysTime \in {Forever} \cup 0..MaxTime
  /\ Forever \in {Forever} \cup 0..MaxTime
  /\ PreloadTime \in {Off} \cup 0..MaxTime /\ PreloadTime # Off
  /\ MaxTime \in Nat
BY PlayerScreensAssumption, TextDrawAssumption DEF Off

-----------------------------------------------------------------------------
(* What each handler hands to Draw.                                        *)

LEMMA InitOrder == Init => ScreensInv
<1> SUFFICES ASSUME Init PROVE ScreensInv
  OBVIOUS
<1>1. DrawTypeOK
  BY PlayerScreensAssumption DEF Init, DrawTypeOK, Slots, Hidden
<1>2. TextDrawsOwned
  BY DEF Init, TextDrawsOwned
<1>3. EachSeesHisTexts
  BY TextDrawAssumption DEF Init, EachSeesHisTexts
<1>4. PlayersOK /\ WatchedPresent
  BY NoInfoFields DEF Init, PlayersOK, WatchedPresent, Watch!Init, Off
<1>5. InfoSourceConnected
  BY NoInfoFields DEF Init, InfoSourceConnected
<1>6. TextsFollowState
  BY NoInfoFields, ItemsApart DEF Init, TextsFollowState, Watch!Init
<1>7. Lasting(until)
  BY DEF Init, Lasting
<1> QED
  BY <1>1, <1>2, <1>3, <1>4, <1>5, <1>6, <1>7
  DEF ScreensInv, OrderInv, DrawInv, PlayInv

\* What a handler does to the screens is settled once the viewers and the
\* texts it leaves are well-typed.
LEMMA DrawStep ==
  ASSUME ScreensInv, NEW u \in Untils, NEW t \in [Tds -> Texts], Draw(u, t),
         Lasting(u)
  PROVE  OrderInv' /\ until' = u
BY DrawKeepsOrder DEF ScreensInv, OrderInv, Lasting, Draw

\* A panel that is about q now, of a player who watches q or chose q.
LEMMA InfoChanges ==
  ASSUME ScreensInv, NEW p \in present, NEW q \in present, NEW b \in BOOLEAN,
         info' = [info EXCEPT ![p] = DoStart(q, b)], present' = present,
         watch' = [watch EXCEPT ![p] = q] \/ (watch' = watch /\ b)
  PROVE  InfoSourceConnected'
<1>1. p \in Players /\ q \in Players /\ PlayersOK /\ InfoSourceConnected
  BY DEF ScreensInv, PlayInv, PlayersOK
<1> SUFFICES ASSUME NEW r \in Players, (info[r].src # NoOne)'
             PROVE  /\ r \in present' /\ (info[r].src)' \in present'
                    /\ (~info[r].auto)' => (info[r].src)' = watch'[r]
  BY DEF InfoSourceConnected
<1>2. CASE r = p
  <2>1. info'[r] = DoStart(q, b)
    BY <1>1, <1>2 DEF PlayersOK
  <2>2. info'[r].src = q /\ (info'[r].auto <=> b)
    BY <1>1, <2>1, DoStartFields
  <2>3. b \/ watch'[r] = q
    BY <1>1, <1>2 DEF PlayersOK
  <2> QED
    BY <1>2, <2>2, <2>3
<1>3. CASE r # p
  <2>1. info'[r] = info[r] /\ watch'[r] = watch[r]
    BY <1>1, <1>3 DEF PlayersOK
  <2> QED
    BY <1>1, <2>1 DEF InfoSourceConnected
<1> QED
  BY <1>2, <1>3

\* A panel that is about a player is one that has a source.
LEMMA InfoOpens ==
  ASSUME PlayersOK, NEW p \in Players, NEW q \in Players, NEW b \in BOOLEAN,
         info' = [info EXCEPT ![p] = DoStart(q, b)]
  PROVE  \A r \in Players : (info[r].src)' # NoOne <=> info[r].src # NoOne \/ r = p
<1> SUFFICES ASSUME NEW r \in Players
             PROVE  info'[r].src # NoOne <=> info[r].src # NoOne \/ r = p
  OBVIOUS
<1>1. info'[r] = IF r = p THEN DoStart(q, b) ELSE info[r]
  BY DEF PlayersOK
<1> QED
  BY <1>1, DoStartFields

LEMMA CmdInfoKeeps ==
  ASSUME ScreensInv, NEW p \in Players, NEW q \in Players, CmdInfo(p, q)
  PROVE  ScreensInv'
<1>1. PlayersOK /\ DrawTypeOK /\ until \in Untils /\ Lasting(until)
  BY DEF ScreensInv, PlayInv, OrderInv, DrawInv, DrawTypeOK, Untils
<1>2. /\ p \in present /\ q \in present
      /\ info' = [info EXCEPT ![p] = DoStart(q, TRUE)]
      /\ UNCHANGED <<present, watch, preload, frozen, stuck>>
  BY DEF CmdInfo
<1>3. PICK t \in [Tds -> Texts] : Draw(PanelOpens(until, p), t)
  BY <1>1, RefilledTypes DEF CmdInfo
<1>4. PICK u \in Untils : /\ u = PanelOpens(until, p)
                          /\ Lasting(u) /\ Draw(u, t)
  BY <1>1, <1>3, PanelOpensEffect
<1>5. OrderInv' /\ until' = u
  BY <1>4, DrawStep
<1>6. \A e \in Tds, r \in Players :
        On(until', e, r)
          <=> On(until, e, r) \/ (info[p].src = NoOne /\ e = Info[p] /\ r = p)
  BY <1>1, <1>4, <1>5, PanelOpensEffect
<1>7. PlayersOK' /\ WatchedPresent'
  BY <1>1, <1>2, DoStartFields DEF PlayersOK, ScreensInv, PlayInv, WatchedPresent
<1>8. InfoSourceConnected'
  BY <1>2, InfoChanges DEF ScreensInv, PlayInv
<1>9. TextsFollowState'
  <2>1. \A r \in Players :
          (info[r].src)' # NoOne <=> info[r].src # NoOne \/ r = p
    BY <1>1, <1>2, InfoOpens
  <2>2. \A r \in Players : On(until', Info[r], r) <=> (info[r].src)' # NoOne
    BY <1>6, <2>1, ItemsApart
    DEF ScreensInv, PlayInv, TextsFollowState, On
  <2>3. \A r \in Players : /\ On(until', Time, r) <=> r \in present'
                           /\ On(until', Keys, r) => watch'[r] # NoOne
                           /\ On(until', Loading, r) <=> r \in frozen'
    BY <1>1, <1>2, <1>6, ItemsApart, DoStartFields
    DEF PlayersOK, ScreensInv, PlayInv, TextsFollowState, On
  <2>4. \A r \in Players : r \in frozen' <=> preload'[r] # Off \/ r \in stuck'
    BY <1>2 DEF ScreensInv, PlayInv, TextsFollowState
  <2> QED
    BY <2>2, <2>3, <2>4 DEF TextsFollowState, On
<1> QED
  BY <1>5, <1>7, <1>8, <1>9 DEF ScreensInv, PlayInv

LEMMA CmdInfoStopKeeps ==
  ASSUME ScreensInv, NEW p \in Players, CmdInfoStop(p)
  PROVE  ScreensInv'
<1>1. PlayersOK /\ text \in [Tds -> Texts] /\ until \in Untils /\ Lasting(until)
  BY DEF ScreensInv, PlayInv, OrderInv, DrawInv, DrawTypeOK, Untils
<1>2. /\ info' = [info EXCEPT ![p] = NoInfo]
      /\ UNCHANGED <<present, watch, preload, frozen, stuck>>
      /\ Draw(PanelCloses(until, p), text)
  BY DEF CmdInfoStop
<1>3. PICK u \in Untils, t \in [Tds -> Texts] :
        u = PanelCloses(until, p) /\ Lasting(u) /\ Draw(u, t)
  BY <1>1, <1>2, PanelClosesEffect
<1>4. OrderInv' /\ until' = u
  BY <1>3, DrawStep
<1>5. \A e \in Tds, r \in Players :
        On(until', e, r) <=> /\ On(until, e, r)
                             /\ ~(info[p].src # NoOne /\ e = Info[p] /\ r = p)
  BY <1>1, <1>3, <1>4, PanelClosesEffect
<1>6. PlayersOK' /\ WatchedPresent'
  BY <1>1, <1>2, NoInfoFields DEF PlayersOK, ScreensInv, PlayInv, WatchedPresent
<1>7. InfoSourceConnected'
  BY <1>1, <1>2, NoInfoFields
  DEF PlayersOK, ScreensInv, PlayInv, InfoSourceConnected
<1>8. TextsFollowState'
  BY <1>1, <1>2, <1>5, NoInfoFields, ItemsApart
  DEF PlayersOK, ScreensInv, PlayInv, TextsFollowState, On
<1> QED
  BY <1>4, <1>6, <1>7, <1>8 DEF ScreensInv, PlayInv

LEMMA SpectateStartKeeps ==
  ASSUME ScreensInv, NEW p \in Players, NEW q \in Players, SpectateStart(p, q)
  PROVE  ScreensInv'
<1> DEFINE v == Show(until, Keys, p, KeysTime)
<1>1. PlayersOK /\ DrawTypeOK /\ until \in Untils /\ Lasting(until)
  BY DEF ScreensInv, PlayInv, OrderInv, DrawInv, DrawTypeOK, Untils
<1>2. /\ p \in present /\ q \in present
      /\ watch' = [watch EXCEPT ![p] = q]
      /\ info' = [info EXCEPT ![p] = DoStart(q, FALSE)]
      /\ UNCHANGED <<present, preload, frozen, stuck>>
  BY DEF SpectateStart, Watch!Start
<1>3. PICK t \in [Tds -> Texts] : Draw(PanelOpens(v, p), t)
  BY <1>1, RefilledTypes DEF SpectateStart
<1>4. /\ v \in Untils /\ Lasting(v)
      /\ \A e \in Tds, r \in Players :
           On(v, e, r) <=> On(until, e, r) \/ (e = Keys /\ r = p)
  BY <1>1, ShowEffect, TimesPositive, ItemsApart
<1> HIDE DEF v
<1>5. PICK u \in Untils : u = PanelOpens(v, p) /\ Lasting(u) /\ Draw(u, t)
  BY <1>1, <1>3, <1>4, PanelOpensEffect
<1>6. OrderInv' /\ until' = u
  BY <1>5, DrawStep
<1>7. \A e \in Tds, r \in Players :
        On(until', e, r)
          <=> \/ On(until, e, r) \/ (e = Keys /\ r = p)
              \/ info[p].src = NoOne /\ e = Info[p] /\ r = p
  BY <1>1, <1>4, <1>5, <1>6, PanelOpensEffect
<1>8. PlayersOK' /\ WatchedPresent'
  BY <1>1, <1>2, DoStartFields DEF PlayersOK, ScreensInv, PlayInv, WatchedPresent
<1>9. InfoSourceConnected'
  BY <1>2, InfoChanges DEF ScreensInv, PlayInv
<1>10. TextsFollowState'
  <2>1. \A r \in Players :
          (info[r].src)' # NoOne <=> info[r].src # NoOne \/ r = p
    BY <1>1, <1>2, InfoOpens
  <2>2. \A r \in Players : On(until', Info[r], r) <=> (info[r].src)' # NoOne
    BY <1>7, <2>1, ItemsApart
    DEF ScreensInv, PlayInv, TextsFollowState, On
  <2>3. \A r \in Players : watch'[r] = (IF r = p THEN q ELSE watch[r]) /\ q # NoOne
    BY <1>1, <1>2, PlayerScreensAssumption DEF PlayersOK
  <2>4. \A r \in Players : /\ On(until', Time, r) <=> r \in present'
                           /\ On(until', Keys, r) => watch'[r] # NoOne
                           /\ On(until', Loading, r) <=> r \in frozen'
    BY <1>2, <1>7, <2>3, ItemsApart
    DEF ScreensInv, PlayInv, TextsFollowState, On
  <2>5. \A r \in Players : r \in frozen' <=> preload'[r] # Off \/ r \in stuck'
    BY <1>2 DEF ScreensInv, PlayInv, TextsFollowState
  <2> QED
    BY <2>2, <2>4, <2>5 DEF TextsFollowState, On
<1> QED
  BY <1>6, <1>8, <1>9, <1>10 DEF ScreensInv, PlayInv

LEMMA SpectateChangeKeeps ==
  ASSUME ScreensInv, NEW p \in Players, NEW q \in Players, SpectateChange(p, q)
  PROVE  ScreensInv'
<1>1. PlayersOK /\ WatchedPresent /\ DrawTypeOK /\ until \in Untils /\ Lasting(until)
  BY DEF ScreensInv, PlayInv, OrderInv, DrawInv, DrawTypeOK, Untils
<1>2. /\ p \in present /\ q \in present
      /\ watch' = [watch EXCEPT ![p] = q]
      /\ info' = [info EXCEPT ![p] = DoStart(q, FALSE)]
      /\ UNCHANGED <<present, preload, frozen, stuck>>
  BY <1>1 DEF SpectateChange, Watch!Change, WatchedPresent
<1>3. PICK t \in [Tds -> Texts] : Draw(PanelOpens(until, p), t)
  BY <1>1, RefilledTypes DEF SpectateChange
<1>4. PICK u \in Untils : u = PanelOpens(until, p) /\ Lasting(u) /\ Draw(u, t)
  BY <1>1, <1>3, PanelOpensEffect
<1>5. OrderInv' /\ until' = u
  BY <1>4, DrawStep
<1>6. \A e \in Tds, r \in Players :
        On(until', e, r)
          <=> On(until, e, r) \/ (info[p].src = NoOne /\ e = Info[p] /\ r = p)
  BY <1>1, <1>4, <1>5, PanelOpensEffect
<1>7. watch[p] # NoOne
  BY DEF SpectateChange, Watch!Change
<1>8. PlayersOK' /\ WatchedPresent'
  BY <1>1, <1>2, DoStartFields DEF PlayersOK, ScreensInv, PlayInv, WatchedPresent
<1>9. InfoSourceConnected'
  BY <1>2, InfoChanges DEF ScreensInv, PlayInv
<1>10. TextsFollowState'
  <2>1. \A r \in Players :
          (info[r].src)' # NoOne <=> info[r].src # NoOne \/ r = p
    BY <1>1, <1>2, InfoOpens
  <2>2. \A r \in Players : On(until', Info[r], r) <=> (info[r].src)' # NoOne
    BY <1>6, <1>7, <2>1, ItemsApart
    DEF ScreensInv, PlayInv, TextsFollowState, On
  <2>3. \A r \in Players : watch'[r] = (IF r = p THEN q ELSE watch[r]) /\ q # NoOne
    BY <1>1, <1>2, PlayerScreensAssumption DEF PlayersOK
  <2>4. \A r \in Players : /\ On(until', Time, r) <=> r \in present'
                           /\ On(until', Keys, r) => watch'[r] # NoOne
                           /\ On(until', Loading, r) <=> r \in frozen'
    BY <1>2, <1>6, <1>7, <2>3, ItemsApart
    DEF ScreensInv, PlayInv, TextsFollowState, On
  <2>5. \A r \in Players : r \in frozen' <=> preload'[r] # Off \/ r \in stuck'
    BY <1>2 DEF ScreensInv, PlayInv, TextsFollowState
  <2> QED
    BY <2>2, <2>4, <2>5 DEF TextsFollowState, On
<1> QED
  BY <1>5, <1>8, <1>9, <1>10 DEF ScreensInv, PlayInv

LEMMA SpectateStopKeeps ==
  ASSUME ScreensInv, NEW p \in Players, SpectateStop(p)
  PROVE  ScreensInv'
<1> DEFINE v == Hide(until, Keys, p)
<1>1. PlayersOK /\ text \in [Tds -> Texts] /\ until \in Untils /\ Lasting(until)
  BY DEF ScreensInv, PlayInv, OrderInv, DrawInv, DrawTypeOK, Untils
<1>2. /\ watch' = [watch EXCEPT ![p] = NoOne]
      /\ info' = [info EXCEPT ![p] = NoInfo]
      /\ UNCHANGED <<present, preload, frozen, stuck>>
      /\ Draw(PanelCloses(v, p), text)
  BY DEF SpectateStop, Watch!Stop
<1>3. /\ v \in Untils /\ Lasting(v)
      /\ \A e \in Tds, r \in Players :
           On(v, e, r) <=> On(until, e, r) /\ ~(e = Keys /\ r = p)
  BY <1>1, HideEffect, ItemsApart
<1> HIDE DEF v
<1>4. PICK u \in Untils, t \in [Tds -> Texts] :
        u = PanelCloses(v, p) /\ Lasting(u) /\ Draw(u, t)
  BY <1>1, <1>2, <1>3, PanelClosesEffect
<1>5. OrderInv' /\ until' = u
  BY <1>4, DrawStep
<1>6. \A e \in Tds, r \in Players :
        On(until', e, r) <=> /\ On(until, e, r) /\ ~(e = Keys /\ r = p)
                             /\ ~(info[p].src # NoOne /\ e = Info[p] /\ r = p)
  BY <1>1, <1>3, <1>4, <1>5, PanelClosesEffect
<1>7. PlayersOK' /\ WatchedPresent'
  BY <1>1, <1>2, NoInfoFields DEF PlayersOK, ScreensInv, PlayInv, WatchedPresent
<1>8. InfoSourceConnected'
  BY <1>1, <1>2, NoInfoFields
  DEF PlayersOK, ScreensInv, PlayInv, InfoSourceConnected
<1>9. TextsFollowState'
  BY <1>1, <1>2, <1>6, NoInfoFields, ItemsApart
  DEF PlayersOK, ScreensInv, PlayInv, TextsFollowState, On
<1> QED
  BY <1>5, <1>7, <1>8, <1>9 DEF ScreensInv, PlayInv

LEMMA PreloadKeeps ==
  ASSUME ScreensInv, NEW p \in Players, Preload(p)
  PROVE  ScreensInv'
<1>1. PlayersOK /\ text \in [Tds -> Texts] /\ until \in Untils /\ Lasting(until)
  BY DEF ScreensInv, PlayInv, OrderInv, DrawInv, DrawTypeOK, Untils
<1>2. /\ preload' = [preload EXCEPT ![p] = PreloadTime]
      /\ frozen' = frozen \cup {p}
      /\ UNCHANGED <<present, watch, info, stuck>>
      /\ Draw(Show(until, Loading, p, Forever), text)
  BY DEF Preload
<1>3. PICK u \in Untils, t \in [Tds -> Texts] :
        u = Show(until, Loading, p, Forever) /\ Lasting(u) /\ Draw(u, t)
  BY <1>1, <1>2, ShowEffect, TimesPositive, ItemsApart
<1>4. OrderInv' /\ until' = u
  BY <1>3, DrawStep
<1>5. \A e \in Tds, r \in Players :
        On(until', e, r) <=> On(until, e, r) \/ (e = Loading /\ r = p)
  BY <1>1, <1>3, <1>4, ShowEffect, TimesPositive, ItemsApart
<1>6. PlayersOK' /\ WatchedPresent'
  BY <1>1, <1>2, TimesPositive DEF PlayersOK, ScreensInv, PlayInv, WatchedPresent
<1>7. InfoSourceConnected'
  BY <1>2 DEF ScreensInv, PlayInv, InfoSourceConnected
<1>8. TextsFollowState'
  BY <1>1, <1>2, <1>5, TimesPositive, ItemsApart
  DEF PlayersOK, ScreensInv, PlayInv, TextsFollowState, On
<1> QED
  BY <1>4, <1>6, <1>7, <1>8 DEF ScreensInv, PlayInv

LEMMA DeathKeeps ==
  ASSUME ScreensInv, NEW p \in Players, Death(p)
  PROVE  ScreensInv'
<1>1. PlayersOK
  BY DEF ScreensInv, PlayInv
<1>2. /\ preload' = [preload EXCEPT ![p] = Off]
      /\ stuck' = IF preload[p] # Off THEN stuck \cup {p} ELSE stuck
      /\ UNCHANGED <<drawVars, present, watch, info, frozen>>
  BY DEF Death
<1>3. OrderInv'
  BY <1>2 DEF ScreensInv, OrderInv, Lasting, DrawInv, DrawTypeOK, TextDrawsOwned,
              EachSeesHisTexts, drawVars, Wanted, For, Page
<1>4. PlayersOK' /\ WatchedPresent' /\ InfoSourceConnected'
  BY <1>1, <1>2 DEF PlayersOK, ScreensInv, PlayInv, WatchedPresent,
                    InfoSourceConnected
<1>5. TextsFollowState'
  BY <1>1, <1>2 DEF PlayersOK, ScreensInv, PlayInv, TextsFollowState, drawVars
<1> QED
  BY <1>3, <1>4, <1>5 DEF ScreensInv, PlayInv

LEMMA ConnectKeeps ==
  ASSUME ScreensInv, NEW p \in Players, Connect(p)
  PROVE  ScreensInv'
<1>1. PlayersOK /\ text \in [Tds -> Texts] /\ until \in Untils /\ Lasting(until)
  BY DEF ScreensInv, PlayInv, OrderInv, DrawInv, DrawTypeOK, Untils
<1>2. /\ present' = present \cup {p} /\ UNCHANGED watch
      /\ UNCHANGED <<info, preload, frozen, stuck>>
      /\ Draw(Show(until, Time, p, Forever), text)
  BY DEF Connect, Watch!Connect
<1>3. PICK u \in Untils, t \in [Tds -> Texts] :
        u = Show(until, Time, p, Forever) /\ Lasting(u) /\ Draw(u, t)
  BY <1>1, <1>2, ShowEffect, TimesPositive, ItemsApart
<1>4. OrderInv' /\ until' = u
  BY <1>3, DrawStep
<1>5. \A e \in Tds, r \in Players :
        On(until', e, r) <=> On(until, e, r) \/ (e = Time /\ r = p)
  BY <1>1, <1>3, <1>4, ShowEffect, TimesPositive, ItemsApart
<1>6. PlayersOK' /\ WatchedPresent'
  BY <1>1, <1>2 DEF PlayersOK, ScreensInv, PlayInv, WatchedPresent
<1>7. InfoSourceConnected'
  BY <1>2 DEF ScreensInv, PlayInv, InfoSourceConnected
<1>8. TextsFollowState'
  BY <1>1, <1>2, <1>5, ItemsApart
  DEF PlayersOK, ScreensInv, PlayInv, TextsFollowState, On
<1> QED
  BY <1>4, <1>6, <1>7, <1>8 DEF ScreensInv, PlayInv

LEMMA LeavesEffect ==
  ASSUME until \in Untils, NEW p \in Players, NEW S
  PROVE  /\ Leaves(p, S) \in Untils
         /\ Lasting(until) => Lasting(Leaves(p, S))
         /\ \A d \in Tds, q \in Players :
              On(Leaves(p, S), d, q)
                <=> /\ q # p /\ ~(d = Keys /\ q \in Alone(p))
                    /\ ~(q \in S /\ d = Info[q])
                    /\ \/ On(until, d, q)
                       \/ q \in Shifted(p) /\ d = Info[q] /\ info[q].src = NoOne
<1>1. \A d \in Tds, q \in Players :
        Leaves(p, S)[d][q] =
          IF q = p \/ (d = Keys /\ q \in Alone(p)) \/ (q \in S /\ d = Info[q])
          THEN Hidden
          ELSE IF q \in Shifted(p) /\ d = Info[q] /\ info[q].src = NoOne
          THEN Forever
          ELSE until[d][q]
  BY DEF Leaves
<1>2. Leaves(p, S) \in Untils
  BY DEF Leaves, Untils
<1>3. Forever # Hidden
  BY DEF Forever, Hidden
<1> QED
  BY <1>1, <1>2, <1>3 DEF On, Lasting

LEMMA DisconnectKeeps ==
  ASSUME ScreensInv, NEW p \in Players, Disconnect(p)
  PROVE  ScreensInv'
<1> DEFINE closed == {p} \cup Alone(p) \cup Orphans(p)
<1>1. PlayersOK /\ WatchedPresent /\ DrawTypeOK /\ until \in Untils /\ Lasting(until)
      /\ InfoSourceConnected /\ TextsFollowState
  BY DEF ScreensInv, PlayInv, OrderInv, DrawInv, DrawTypeOK, Untils
<1>2. /\ p \in present
      /\ present' = present \ {p}
      /\ watch' \in [Players -> present' \cup {NoOne}]
      /\ watch'[p] = NoOne
      /\ \A w \in Players : w # p /\ watch[w] # p => watch'[w] = watch[w]
  BY DEF Disconnect, Watch!Leave
<1>3. /\ info' = [w \in Players |->
                    IF w \in closed THEN NoInfo
                    ELSE IF w \in Shifted(p) THEN DoStart(watch'[w], FALSE)
                    ELSE info[w]]
      /\ preload' = [preload EXCEPT ![p] = Off]
      /\ frozen' = frozen \ {p}
      /\ stuck' = stuck \ {p}
  BY DEF Disconnect
<1>4. PICK t \in Refilled(Shifted(p)) : Draw(Leaves(p, closed), Renewed(t, {p}))
  BY DEF Disconnect
<1>5. /\ Shifted(p) \in SUBSET Players /\ closed \in SUBSET Players
      /\ \A w \in Shifted(p) : w \notin closed
      /\ \A w \in Players : watch[w] = p /\ w # p => w \in closed \cup Shifted(p)
      /\ \A w \in Alone(p) : w # p /\ watch[w] = p /\ watch'[w] = NoOne
      /\ \A w \in Shifted(p) : w # p /\ watch[w] = p /\ watch'[w] # NoOne
  BY DEF Shifted, Alone, Orphans
<1>6. Renewed(t, {p}) \in [Tds -> Texts]
  BY <1>1, <1>5, RefilledTypes, RenewedTypes
<1>7. /\ Leaves(p, closed) \in Untils /\ Lasting(Leaves(p, closed))
      /\ \A d \in Tds, q \in Players :
           On(Leaves(p, closed), d, q)
             <=> /\ q # p /\ ~(d = Keys /\ q \in Alone(p))
                 /\ ~(q \in closed /\ d = Info[q])
                 /\ \/ On(until, d, q)
                    \/ q \in Shifted(p) /\ d = Info[q] /\ info[q].src = NoOne
  BY <1>1, LeavesEffect
<1>8. PICK u \in Untils, x \in [Tds -> Texts] :
        u = Leaves(p, closed) /\ Lasting(u) /\ Draw(u, x)
  BY <1>4, <1>6, <1>7
<1>9. OrderInv' /\ until' = u
  BY <1>8, DrawStep
<1>10. \A w \in Players :
         /\ w \in closed => info'[w].src = NoOne
         /\ w \in Shifted(p) => /\ info'[w].src = watch'[w]
                                /\ info'[w].src \in present'
                                /\ w \in present'
                                /\ info'[w].src # NoOne
         /\ w \notin closed /\ w \notin Shifted(p) => info'[w] = info[w]
  <2> SUFFICES ASSUME NEW w \in Players
               PROVE  /\ w \in closed => info'[w].src = NoOne
                      /\ w \in Shifted(p) => /\ info'[w].src = watch'[w]
                                             /\ info'[w].src \in present'
                                             /\ w \in present'
                                             /\ info'[w].src # NoOne
                      /\ w \notin closed /\ w \notin Shifted(p)
                           => info'[w] = info[w]
    OBVIOUS
  <2>1. CASE w \in closed
    BY <1>3, <1>5, <2>1, NoInfoFields
  <2>2. CASE w \in Shifted(p)
    <3>1. info'[w] = DoStart(watch'[w], FALSE) /\ w # p
          /\ watch[w] = p /\ watch'[w] # NoOne
      BY <1>3, <1>5, <2>2
    <3>2. watch'[w] \in present' /\ w \in present /\ watch'[w] \in Players
      BY <1>1, <1>2, <3>1, PlayerScreensAssumption DEF WatchedPresent, PlayersOK
    <3>3. PICK q \in Players : q = watch'[w]
      BY <3>2
    <3>4. info'[w].src = q /\ q # NoOne
      BY <3>1, <3>3, DoStartFields
    <3> QED
      BY <1>2, <1>5, <2>2, <3>1, <3>2, <3>3, <3>4
  <2>3. CASE w \notin closed /\ w \notin Shifted(p)
    BY <1>3, <2>3
  <2> QED
    BY <2>1, <2>2, <2>3
<1>11. PlayersOK'
  <2>1. \A w \in Players : info'[w] \in [src : Players \cup {NoOne}, auto : BOOLEAN]
    <3>1. \A w \in Shifted(p) : watch'[w] \in Players
      BY <1>1, <1>2, <1>5 DEF PlayersOK
    <3> QED
      BY <1>1, <1>3, <1>5, <3>1, NoInfoFields, DoStartFields DEF PlayersOK
  <2> QED
    BY <1>1, <1>2, <1>3, <2>1 DEF PlayersOK
<1>12. WatchedPresent'
  BY <1>1, <1>2, PlayerScreensAssumption DEF WatchedPresent, PlayersOK
<1>13. InfoSourceConnected'
  <2> SUFFICES ASSUME NEW w \in Players, (info[w].src)' # NoOne
               PROVE  /\ w \in present' /\ (info[w].src)' \in present'
                      /\ (~info[w].auto)' => (info[w].src)' = watch'[w]
    BY DEF InfoSourceConnected
  <2>1. CASE w \in Shifted(p)
    BY <1>10, <2>1
  <2>2. CASE w \notin Shifted(p)
    <3>1. w \notin closed /\ info'[w] = info[w]
      BY <1>10, <2>2
    <3>2. w # p /\ watch'[w] = watch[w]
      BY <1>2, <1>5, <2>2, <3>1
    <3>3. /\ w \in present /\ info[w].src \in present
          /\ ~info[w].auto => info[w].src = watch[w]
      BY <1>1, <3>1 DEF InfoSourceConnected
    <3>4. info[w].src # p
      BY <1>5, <2>2, <3>1, <3>2, <3>3 DEF Orphans
    <3> QED
      BY <1>2, <3>1, <3>2, <3>3, <3>4
  <2> QED
    BY <2>1, <2>2
<1>14. TextsFollowState'
  <2>1. \A w \in Players : On(until', Info[w], w) <=> (info[w].src)' # NoOne
    <3> SUFFICES ASSUME NEW w \in Players
                 PROVE  On(until', Info[w], w) <=> info'[w].src # NoOne
      OBVIOUS
    <3>1. /\ Info[w] \in Tds /\ Info[w] # Keys
          /\ On(until, Info[w], w) <=> info[w].src # NoOne
      BY <1>1, ItemsApart DEF TextsFollowState, On
    <3>2. On(until', Info[w], w)
            <=> /\ w \notin closed
                /\ On(until, Info[w], w) \/ (w \in Shifted(p) /\ info[w].src = NoOne)
      BY <1>7, <1>8, <1>9, <3>1
    <3> QED
      BY <1>5, <1>10, <3>1, <3>2
  <2>2. \A w \in Players : /\ On(until', Time, w) <=> w \in present'
                           /\ On(until', Keys, w) => watch'[w] # NoOne
                           /\ On(until', Loading, w) <=> w \in frozen'
    <3> SUFFICES ASSUME NEW w \in Players
                 PROVE  /\ On(until', Time, w) <=> w \in present'
                        /\ On(until', Keys, w) => watch'[w] # NoOne
                        /\ On(until', Loading, w) <=> w \in frozen'
      OBVIOUS
    <3>1. /\ On(until, Time, w) <=> w \in present
          /\ On(until, Keys, w) => watch[w] # NoOne
          /\ On(until, Loading, w) <=> w \in frozen
      BY <1>1 DEF TextsFollowState, On
    <3>2. /\ On(until', Time, w) <=> w # p /\ On(until, Time, w)
          /\ On(until', Keys, w) <=> w # p /\ w \notin Alone(p) /\ On(until, Keys, w)
          /\ On(until', Loading, w) <=> w # p /\ On(until, Loading, w)
      BY <1>7, <1>8, <1>9, ItemsApart
    <3>3. w # p /\ watch'[w] = NoOne /\ watch[w] # NoOne => w \in Alone(p)
      BY <1>2 DEF Alone
    <3>4. w \in present' <=> w \in present /\ w # p
      BY <1>2
    <3>5. w \in frozen' <=> w \in frozen /\ w # p
      BY <1>3
    <3> QED
      BY <3>1, <3>2, <3>3, <3>4, <3>5
  <2>3. \A w \in Players : w \in frozen' <=> preload'[w] # Off \/ w \in stuck'
    BY <1>1, <1>3 DEF TextsFollowState, PlayersOK
  <2> QED
    BY <2>1, <2>2, <2>3 DEF TextsFollowState, On
<1> QED
  BY <1>9, <1>11, <1>12, <1>13, <1>14 DEF ScreensInv, PlayInv

LEMMA GamemodeExitKeeps ==
  ASSUME ScreensInv, GamemodeExit
  PROVE  ScreensInv'
<1> DEFINE v == [d \in Tds |-> [p \in Players |-> Hidden]]
<1>1. PlayersOK /\ text \in [Tds -> Texts]
  BY DEF ScreensInv, PlayInv, OrderInv, DrawInv, DrawTypeOK
<1>2. /\ present' = {} /\ watch' = [p \in Players |-> NoOne]
      /\ info' = [p \in Players |-> NoInfo]
      /\ preload' = [p \in Players |-> Off]
      /\ frozen' = {} /\ stuck' = {}
      /\ Draw(v, Renewed(text, Players))
  BY DEF GamemodeExit, Watch!Close
<1>3. v \in Untils /\ Lasting(v) /\ \A e \in Tds, r \in Players : ~On(v, e, r)
  BY DEF Untils, On, Lasting
<1>4. Renewed(text, Players) \in [Tds -> Texts]
  BY <1>1, RenewedTypes
<1>5. OrderInv' /\ until' = v
  BY <1>2, <1>3, <1>4, DrawStep
<1>6. \A p \in Players : info'[p] = NoInfo /\ info'[p].src = NoOne
  BY <1>2, NoInfoFields
<1>7. PlayersOK' /\ WatchedPresent' /\ InfoSourceConnected'
  BY <1>2, <1>6, NoInfoFields
  DEF PlayersOK, WatchedPresent, InfoSourceConnected
<1>8. TextsFollowState'
  BY <1>2, <1>3, <1>5, <1>6, ItemsApart DEF TextsFollowState, On
<1> QED
  BY <1>5, <1>7, <1>8 DEF ScreensInv, PlayInv

\* A handler that only says other words, or hides what nothing forbids to hide.
LEMMA RestFollows ==
  ASSUME ScreensInv, NEW u \in Untils, NEW t \in [Tds -> Texts], Draw(u, t),
         Lasting(u),
         \A d \in Tds, p \in Players :
           /\ On(u, d, p) => On(until, d, p)
           /\ d # Keys => (On(u, d, p) <=> On(until, d, p)),
         UNCHANGED <<present, watch, info, preload, frozen, stuck>>
  PROVE  ScreensInv'
<1>1. OrderInv' /\ until' = u
  BY DrawStep
<1>2. PlayersOK' /\ WatchedPresent' /\ InfoSourceConnected'
  BY DEF ScreensInv, PlayInv, PlayersOK, WatchedPresent, InfoSourceConnected
<1>3. TextsFollowState'
  BY <1>1, ItemsApart DEF ScreensInv, PlayInv, TextsFollowState, On
<1> QED
  BY <1>1, <1>2, <1>3 DEF ScreensInv, PlayInv

LEMMA Timer250Keeps ==
  ASSUME ScreensInv, Timer250
  PROVE  ScreensInv'
<1>1. /\ until \in Untils /\ Lasting(until) /\ text \in [Tds -> Texts]
      /\ UNCHANGED <<present, watch, info, preload, frozen, stuck>>
      /\ Draw(Expired(until), text)
  BY DEF Timer250, ScreensInv, OrderInv, DrawInv, DrawTypeOK, Untils
<1>2. \A d \in Tds, p \in Players :
        Expired(until)[d][p] = IF until[d][p] = 0 THEN Hidden ELSE until[d][p]
  BY DEF Expired
<1>3. Expired(until) \in Untils
  BY <1>1 DEF Expired, Untils
<1>4. \A d \in Tds \ {Keys}, p \in Players : until[d][p] # 0
  BY <1>1 DEF Lasting, Hidden, Forever
<1>5. /\ Lasting(Expired(until))
      /\ \A d \in Tds, p \in Players :
           /\ On(Expired(until), d, p) => On(until, d, p)
           /\ d # Keys => (On(Expired(until), d, p) <=> On(until, d, p))
  BY <1>1, <1>2, <1>4 DEF On, Lasting
<1> QED
  BY <1>1, <1>3, <1>5, RestFollows

LEMMA Timer500Keeps ==
  ASSUME ScreensInv, Timer500
  PROVE  ScreensInv'
<1> DEFINE v == PreloadEnd(until, Due)
<1>1. /\ until \in Untils /\ Lasting(until) /\ DrawTypeOK
      /\ PlayersOK /\ TextsFollowState
  BY DEF ScreensInv, OrderInv, DrawInv, DrawTypeOK, Untils, PlayInv
<1>2. /\ UNCHANGED <<present, watch, info>>
      /\ preload' = [p \in Players |-> IF p \in Due THEN Off ELSE preload[p]]
      /\ frozen' = frozen \ Due
      /\ stuck' = stuck \ Due
  BY DEF Timer500
<1>3. PICK t \in [Tds -> Texts] : Draw(v, t)
  BY <1>1, RefilledTypes DEF Timer500
<1>4. \A d \in Tds, p \in Players :
        v[d][p] = IF d = Loading /\ p \in Due THEN Hidden ELSE until[d][p]
  BY <1>1, ItemsApart DEF PreloadEnd, Untils
<1>5. v \in Untils
  BY <1>1, ItemsApart DEF PreloadEnd, Untils
<1>6. Lasting(v)
  BY <1>1, <1>4 DEF Lasting
<1> HIDE DEF v
<1>7. OrderInv' /\ until' = v
  BY <1>3, <1>5, <1>6, DrawStep
<1>8. PlayersOK' /\ WatchedPresent' /\ InfoSourceConnected'
  BY <1>1, <1>2 DEF ScreensInv, PlayInv, PlayersOK, WatchedPresent,
                    InfoSourceConnected
<1>9. \A d \in Tds, p \in Players :
        On(until', d, p) <=> On(until, d, p) /\ ~(d = Loading /\ p \in Due)
  BY <1>4, <1>7 DEF On
<1>10. TextsFollowState'
  <2>1. \A p \in Players : /\ On(until', Time, p) <=> p \in present'
                           /\ On(until', Info[p], p) <=> (info[p].src)' # NoOne
                           /\ On(until', Keys, p) => watch'[p] # NoOne
                           /\ On(until', Loading, p) <=> p \in frozen'
    BY <1>1, <1>2, <1>9, ItemsApart DEF TextsFollowState, On
  <2>2. \A p \in Players : p \in frozen' <=> preload'[p] # Off \/ p \in stuck'
    BY <1>1, <1>2 DEF TextsFollowState, Due, Off
  <2> QED
    BY <2>1, <2>2 DEF TextsFollowState, On
<1> QED
  BY <1>7, <1>8, <1>10 DEF ScreensInv, PlayInv

LEMMA RewordKeeps ==
  ASSUME ScreensInv, TimeStamp \/ Reconfigure
  PROVE  ScreensInv'
<1>1. /\ until \in Untils /\ Lasting(until) /\ DrawTypeOK
      /\ UNCHANGED <<present, watch, info, preload, frozen, stuck>>
  BY DEF ScreensInv, OrderInv, DrawInv, DrawTypeOK, Untils, TimeStamp, Reconfigure
<1>2. {Time} \in SUBSET Tds /\ {Time, Keys, Loading} \in SUBSET Tds
  BY PlayerScreensAssumption
<1>3. PICK t \in [Tds -> Texts] : Draw(until, t)
  BY <1>1, <1>2, RewordedTypes DEF TimeStamp, Reconfigure
<1> QED
  BY <1>1, <1>3, RestFollows

LEMMA TickKeeps ==
  ASSUME ScreensInv, Tick
  PROVE  ScreensInv'
<1>1. /\ until \in Untils /\ Lasting(until) /\ DrawInv /\ PlayInv
      /\ PlayersOK /\ TextsFollowState
  BY DEF ScreensInv, OrderInv, DrawInv, DrawTypeOK, Untils, PlayInv
<1>2. /\ until' = [d \in Tds |-> [p \in Players |-> Older(until[d][p])]]
      /\ preload' = [p \in Players |-> Older(preload[p])]
      /\ UNCHANGED <<text, ids, used, screen>>
      /\ UNCHANGED <<present, watch, info, frozen, stuck>>
  BY DEF Tick
<1>3. \A n \in {Hidden, Forever} \cup 0..MaxTime :
        /\ Older(n) \in {Hidden, Forever} \cup 0..MaxTime
        /\ Older(n) = Hidden <=> n = Hidden
        /\ n \in {Hidden, Forever} => Older(n) = n
        /\ Older(n) = Off <=> n = Off
  BY TextDrawAssumption DEF Older, Hidden, Forever, Off
<1>4. until' \in Untils
  BY <1>1, <1>2, <1>3 DEF Untils
<1>5. \A d \in Tds, p \in Players :
        /\ until'[d][p] = Older(until[d][p])
        /\ On(until', d, p) <=> On(until, d, p)
  BY <1>1, <1>2, <1>3 DEF On, Untils
<1>6. Lasting(until')
  BY <1>1, <1>3, <1>5 DEF Lasting
<1>7. \A s \in Slots, p \in Players : For(until', s, p) <=> For(until, s, p)
  BY <1>5 DEF For, On, Slots
<1>8. DrawTypeOK'
  BY <1>1, <1>2, <1>4 DEF DrawInv, DrawTypeOK, Untils
<1>9. TextDrawsOwned' /\ EachSeesHisTexts'
  <2>1. \A s \in Slots : Wanted(until', text', s) <=> Wanted(until, text, s)
    BY <1>2, <1>7 DEF Wanted
  <2>2. TextDrawsOwned'
    BY <1>1, <1>2, <2>1 DEF DrawInv, TextDrawsOwned
  <2>3. \A s \in Slots : Page(text', s) = Page(text, s)
    BY <1>2
  <2>4. EachSeesHisTexts'
    BY <1>1, <1>2, <1>7, <2>3 DEF DrawInv, EachSeesHisTexts
  <2> QED
    BY <2>2, <2>4
<1>10. /\ preload' \in [Players -> {Off} \cup 0..MaxTime]
       /\ \A p \in Players : preload'[p] = Off <=> preload[p] = Off
  <2>1. \A p \in Players : preload[p] \in {Hidden, Forever} \cup 0..MaxTime
    BY <1>1 DEF PlayersOK, Off, Forever
  <2>2. \A p \in Players : preload[p] \in {Off} \cup 0..MaxTime
    BY <1>1 DEF PlayersOK
  <2>3. \A n \in {Off} \cup 0..MaxTime : Older(n) \in {Off} \cup 0..MaxTime
    BY TextDrawAssumption DEF Older, Off
  <2> QED
    BY <1>2, <1>3, <2>1, <2>2, <2>3
<1>11. PlayersOK' /\ WatchedPresent' /\ InfoSourceConnected'
  BY <1>1, <1>2, <1>10 DEF PlayInv, PlayersOK, WatchedPresent, InfoSourceConnected
<1>12. TextsFollowState'
  <2>1. \A p \in Players : p \in frozen' <=> preload'[p] # Off \/ p \in stuck'
    BY <1>1, <1>2, <1>10 DEF TextsFollowState
  <2> QED
    BY <1>1, <1>2, <1>5, <2>1, ItemsApart DEF TextsFollowState, On
<1> QED
  BY <1>6, <1>8, <1>9, <1>11, <1>12 DEF ScreensInv, OrderInv, DrawInv, PlayInv

-----------------------------------------------------------------------------
LEMMA ScreensInductive == ScreensInv /\ [Next]_vars => ScreensInv'
<1> SUFFICES ASSUME ScreensInv, [Next]_vars PROVE ScreensInv'
  OBVIOUS
<1>1. ASSUME NEW p \in Players, Connect(p) PROVE ScreensInv'
  BY <1>1, ConnectKeeps
<1>2. ASSUME NEW p \in Players, Disconnect(p) PROVE ScreensInv'
  BY <1>2, DisconnectKeeps
<1>3. ASSUME NEW p \in Players, Preload(p) PROVE ScreensInv'
  BY <1>3, PreloadKeeps
<1>4. ASSUME NEW p \in Players, Death(p) PROVE ScreensInv'
  BY <1>4, DeathKeeps
<1>5. ASSUME NEW p \in Players, CmdInfoStop(p) PROVE ScreensInv'
  BY <1>5, CmdInfoStopKeeps
<1>6. ASSUME NEW p \in Players, SpectateStop(p) PROVE ScreensInv'
  BY <1>6, SpectateStopKeeps
<1>7. ASSUME NEW p \in Players, NEW q \in Players, CmdInfo(p, q)
      PROVE  ScreensInv'
  BY <1>7, CmdInfoKeeps
<1>8. ASSUME NEW p \in Players, NEW q \in Players, SpectateStart(p, q)
      PROVE  ScreensInv'
  BY <1>8, SpectateStartKeeps
<1>9. ASSUME NEW p \in Players, NEW q \in Players, SpectateChange(p, q)
      PROVE  ScreensInv'
  BY <1>9, SpectateChangeKeeps
<1>10. CASE GamemodeExit
  BY <1>10, GamemodeExitKeeps
<1>11. CASE Timer250
  BY <1>11, Timer250Keeps
<1>12. CASE Timer500
  BY <1>12, Timer500Keeps
<1>13. CASE TimeStamp \/ Reconfigure
  BY <1>13, RewordKeeps
<1>14. CASE Tick
  BY <1>14, TickKeeps
<1>15. CASE UNCHANGED vars
  BY <1>15
  DEF vars, drawVars, ScreensInv, OrderInv, Lasting, DrawInv, DrawTypeOK,
      TextDrawsOwned, EachSeesHisTexts, Wanted, For, Page, PlayInv, PlayersOK,
      WatchedPresent, InfoSourceConnected, TextsFollowState
<1> QED
  BY <1>1, <1>2, <1>3, <1>4, <1>5, <1>6, <1>7, <1>8, <1>9, <1>10, <1>11, <1>12,
     <1>13, <1>14, <1>15 DEF Next

LEMMA ScreensAlways == Spec => []ScreensInv
BY InitOrder, ScreensInductive, PTL DEF Spec

\* Every item, text draw, screen, panel and preloading keeps its type.
THEOREM ScreensTypes == Spec => []TypeOK
<1>1. ScreensInv => TypeOK
  BY DEF ScreensInv, OrderInv, DrawInv, PlayInv, PlayersOK, TypeOK
<1> QED
  BY <1>1, ScreensAlways, PTL

\* No text draw of the server is lost or shared, for any number of players,
\* items, pages and text draws.
THEOREM PoolKept == Spec => []TextDrawsOwned
<1>1. ScreensInv => TextDrawsOwned
  BY DEF ScreensInv, OrderInv, DrawInv
<1> QED
  BY <1>1, ScreensAlways, PTL

\* No client shows a text that is not his or not up to date.
THEOREM ScreensTrue == Spec => []EachSeesHisTexts
<1>1. ScreensInv => EachSeesHisTexts
  BY DEF ScreensInv, OrderInv, DrawInv
<1> QED
  BY <1>1, ScreensAlways, PTL

\* The panel's source is online, and is the player watched if spectating
\* opened the panel.
THEOREM PanelSourceKept == Spec => []InfoSourceConnected
<1>1. ScreensInv => InfoSourceConnected
  BY DEF ScreensInv, PlayInv
<1> QED
  BY <1>1, ScreensAlways, PTL

\* Texts come and go with the clock, the panel, the keys and preloading.
THEOREM TextsKept == Spec => []TextsFollowState
<1>1. ScreensInv => TextsFollowState
  BY DEF ScreensInv, PlayInv
<1> QED
  BY <1>1, ScreensAlways, PTL

-----------------------------------------------------------------------------
(* How long texts stay.                                                      *)

\* No text is shown, and no preloading lasts, longer than it may.
TimesKept ==
  \A p \in Players : /\ until[Keys][p] \in {Hidden} \cup 0..KeysTime
                     /\ preload[p] \in {Off} \cup 0..PreloadTime

\* The keys of p are gone, run down, or have just been shown.
KeysGoOn(p) ==
  \/ until'[Keys][p] = Hidden
  \/ until[Keys][p] = Hidden /\ until'[Keys][p] = KeysTime
  \/ /\ until[Keys][p] # Hidden
     /\ until'[Keys][p] \in 0..KeysTime /\ until'[Keys][p] <= until[Keys][p]

\* The same of the preloading.
PreloadGoesOn(p) ==
  \/ preload'[p] = Off
  \/ Preload(p) /\ preload'[p] = PreloadTime
  \/ /\ preload[p] # Off
     /\ preload'[p] \in 0..PreloadTime /\ preload'[p] <= preload[p]

\* Show, Hide and the panel, player by player and item by item.
LEMMA ShownTimes ==
  ASSUME NEW u \in Untils, NEW d \in Tds, NEW p \in Players,
         NEW time \in {Forever} \cup 0..MaxTime
  PROVE  \A e \in Tds, q \in Players :
           /\ Show(u, d, p, time)[e][q]
                = IF e = d /\ q = p /\ u[d][p] = Hidden THEN time ELSE u[e][q]
           /\ Hide(u, d, p)[e][q] = IF e = d /\ q = p THEN Hidden ELSE u[e][q]
<1>1. ASSUME NEW t \in {Hidden, Forever} \cup 0..MaxTime, NEW e \in Tds,
             NEW q \in Players
      PROVE  [u EXCEPT ![d][p] = t][e][q]
               = IF e = d /\ q = p THEN t ELSE u[e][q]
  BY DEF Untils
<1> QED
  BY <1>1 DEF Show, Hide

LEMMA PanelTimes ==
  ASSUME NEW u \in Untils, NEW p \in Players, NEW q \in Players
  PROVE  /\ PanelOpens(u, p)[Keys][q] = u[Keys][q]
         /\ PanelCloses(u, p)[Keys][q] = u[Keys][q]
BY ShownTimes, ItemsApart, TimesPositive DEF PanelOpens, PanelCloses

\* Each handler keeps the times of the keys or lets them run down.
LEMMA KeysStep ==
  ASSUME ScreensInv, TimesKept, [Next]_vars, NEW p \in Players
  PROVE  KeysGoOn(p)
<1> DEFINE k == until[Keys][p]
           n == until'[Keys][p]
<1>1. until \in Untils /\ PlayersOK
  BY DEF ScreensInv, PlayInv, OrderInv, DrawInv, DrawTypeOK, Untils
<1>2. k \in {Hidden} \cup 0..KeysTime /\ KeysTime \in Nat /\ Hidden \notin Nat
  BY PlayerScreensAssumption, TextDrawAssumption DEF TimesKept, Hidden
<1>3. ASSUME n = k \/ n = Hidden PROVE KeysGoOn(p)
  BY <1>2, <1>3 DEF KeysGoOn
<1>4. ASSUME NEW q \in Players, Connect(q) \/ Preload(q) PROVE n = k
  <2>1. until' = Show(until, Time, q, Forever)
          \/ until' = Show(until, Loading, q, Forever)
    BY <1>4 DEF Connect, Preload, Draw
  <2> QED
    BY <1>1, <2>1, ShownTimes, ItemsApart, TimesPositive
<1>5. ASSUME NEW q \in Players, Disconnect(q) PROVE n = k \/ n = Hidden
  <2>1. PICK S : until' = Leaves(q, S)
    BY <1>5 DEF Disconnect, Draw
  <2>2. Leaves(q, S)[Keys][p] = k \/ Leaves(q, S)[Keys][p] = Hidden
    BY ItemsApart DEF Leaves
  <2> QED
    BY <2>1, <2>2
<1>6. ASSUME NEW q \in Players, NEW r \in Players,
             CmdInfo(q, r) \/ CmdInfoStop(q) \/ SpectateChange(q, r)
      PROVE  n = k
  <2>1. until' = PanelOpens(until, q) \/ until' = PanelCloses(until, q)
    BY <1>6 DEF CmdInfo, CmdInfoStop, SpectateChange, Draw
  <2> QED
    BY <1>1, <2>1, PanelTimes
<1>7. ASSUME NEW q \in Players, SpectateStop(q) PROVE n = k \/ n = Hidden
  <2>1. until' = PanelCloses(Hide(until, Keys, q), q)
    BY <1>7 DEF SpectateStop, Draw
  <2>2. Hide(until, Keys, q) \in Untils
    BY <1>1, HideEffect, ItemsApart
  <2>3. n = Hide(until, Keys, q)[Keys][p]
    BY <2>1, <2>2, PanelTimes
  <2> QED
    BY <1>1, <2>3, ShownTimes, ItemsApart, TimesPositive
<1>8. ASSUME NEW q \in Players, NEW r \in Players, SpectateStart(q, r)
      PROVE  KeysGoOn(p)
  <2> DEFINE v == Show(until, Keys, q, KeysTime)
  <2>1. until' = PanelOpens(v, q)
    BY <1>8 DEF SpectateStart, Draw
  <2>2. v \in Untils
    BY <1>1, ShowEffect, ItemsApart, TimesPositive
  <2>3. v[Keys][p] = IF p = q /\ until[Keys][q] = Hidden THEN KeysTime ELSE k
    BY <1>1, ShownTimes, ItemsApart, TimesPositive
  <2> HIDE DEF v
  <2>4. n = v[Keys][p]
    BY <2>1, <2>2, PanelTimes
  <2> QED
    BY <1>3, <2>3, <2>4 DEF KeysGoOn
<1>9. ASSUME GamemodeExit \/ Timer250 PROVE n = k \/ n = Hidden
  BY <1>9, ItemsApart DEF GamemodeExit, Timer250, Draw, Expired
<1>10. ASSUME Timer500 PROVE n = k
  <2>1. until' = PreloadEnd(until, Due)
    BY <1>10 DEF Timer500, Draw
  <2> QED
    BY <1>1, <2>1, ItemsApart DEF PreloadEnd, Untils
<1>11. ASSUME TimeStamp \/ Reconfigure \/ UNCHANGED vars PROVE n = k
  BY <1>11 DEF TimeStamp, Reconfigure, Draw, vars, drawVars
<1>12. ASSUME Tick PROVE KeysGoOn(p)
  <2>1. n = Older(k)
    BY <1>12, ItemsApart DEF Tick
  <2> QED
    BY <1>2, <2>1 DEF Older, KeysGoOn, Hidden
<1>13. ASSUME NEW q \in Players, Death(q) PROVE n = k
  BY <1>13 DEF Death, drawVars
<1> QED
  BY <1>3, <1>4, <1>5, <1>6, <1>7, <1>8, <1>9, <1>10, <1>11, <1>12, <1>13
  DEF Next

\* And each keeps the time of a preloading, ends it or lets it run down.
LEMMA PreloadStep ==
  ASSUME ScreensInv, TimesKept, [Next]_vars, NEW p \in Players
  PROVE  PreloadGoesOn(p)
<1> DEFINE k == preload[p]
           n == preload'[p]
<1>1. PlayersOK
  BY DEF ScreensInv, PlayInv
<1>2. k \in {Off} \cup 0..PreloadTime /\ PreloadTime \in Nat /\ Off \notin Nat
  BY PlayerScreensAssumption, TextDrawAssumption DEF TimesKept, Off
<1>3. ASSUME n = k \/ n = Off PROVE PreloadGoesOn(p)
  BY <1>2, <1>3 DEF PreloadGoesOn
<1>4. ASSUME NEW q \in Players, Preload(q) PROVE PreloadGoesOn(p)
  <2>1. n = IF p = q THEN PreloadTime ELSE k
    BY <1>1, <1>4 DEF Preload, PlayersOK
  <2> QED
    BY <1>3, <1>4, <2>1 DEF PreloadGoesOn
<1>5. ASSUME NEW q \in Players, Disconnect(q) \/ Death(q) PROVE n = k \/ n = Off
  BY <1>1, <1>5 DEF Disconnect, Death, PlayersOK
<1>6. ASSUME Timer500 \/ GamemodeExit PROVE n = k \/ n = Off
  BY <1>6 DEF Timer500, GamemodeExit
<1>7. ASSUME Tick PROVE PreloadGoesOn(p)
  <2>1. n = Older(k)
    BY <1>7 DEF Tick
  <2> QED
    BY <1>2, <2>1 DEF Older, PreloadGoesOn, Off
<1>8. ASSUME UNCHANGED preload PROVE n = k
  BY <1>8
<1> QED
  BY <1>3, <1>4, <1>5, <1>6, <1>7, <1>8
  DEF Next, vars, Connect, CmdInfoStop, SpectateStop, CmdInfo, SpectateStart,
      SpectateChange, Timer250, TimeStamp, Reconfigure

(* The keys stay no longer than keys_info_timeout and a preloading no longer *)
(* than preload_time after the last one was asked for: no handler prolongs   *)
(* either, for any players, items and times.                                 *)
THEOREM TimesOnlyRunDown == Spec => TimesRunDown
<1>1. Init => TimesKept
  <2> SUFFICES ASSUME Init, NEW p \in Players
               PROVE  until[Keys][p] = Hidden /\ preload[p] = Off
    BY DEF TimesKept
  <2>1. until = [d \in Tds |-> [q \in Players |-> Hidden]]
        /\ preload = [q \in Players |-> Off]
    BY DEF Init
  <2> QED
    BY <2>1, ItemsApart
<1>2. ASSUME ScreensInv, TimesKept, [Next]_vars PROVE TimesKept'
  <2>1. KeysTime \in 0..KeysTime /\ PreloadTime \in 0..PreloadTime
    BY PlayerScreensAssumption, TextDrawAssumption
  <2>2. \A p \in Players : KeysGoOn(p) /\ PreloadGoesOn(p)
    BY <1>2, KeysStep, PreloadStep
  <2> QED
    BY <2>1, <2>2 DEF TimesKept, KeysGoOn, PreloadGoesOn
<1> DEFINE Runs(p) ==
      /\ until[Keys][p] # Hidden =>
           \/ until'[Keys][p] = Hidden
           \/ /\ until'[Keys][p] \in 0..KeysTime
              /\ until'[Keys][p] <= until[Keys][p]
      /\ preload[p] # Off =>
           \/ preload'[p] = Off \/ Preload(p)
           \/ /\ preload'[p] \in 0..PreloadTime
              /\ preload'[p] <= preload[p]
<1>3. ASSUME ScreensInv, TimesKept, [Next]_vars, NEW p \in Players PROVE Runs(p)
  BY <1>3, KeysStep, PreloadStep DEF KeysGoOn, PreloadGoesOn
<1>4. ScreensInv /\ TimesKept /\ [Next]_vars => [\A p \in Players : Runs(p)]_vars
  BY <1>3
<1> QED
  BY <1>1, <1>2, <1>4, ScreensAlways, PTL DEF Spec, TimesRunDown
=============================================================================
