-------------------------- MODULE PlayerChatProofs --------------------------
(***************************************************************************)
(* Proofs about PlayerChat.  A mute holds because no automatic mute is     *)
(* pending under it (NonePending), and messages keep their distance        *)
(* because the item of a player who spoke is never older than his last     *)
(* message (Paced).  Words of a muted administrator are the only way       *)
(* round a mute, and an announced mute only gets nearer and longer.        *)
(***************************************************************************)
EXTENDS PlayerChat, TimeOutsProofs

-----------------------------------------------------------------------------
(* Types.                                                                  *)

\* Two increases of a counter leave an item (time_count_blocker::increase).
LEMMA TimesIsItem ==
  ASSUME NEW i \in Items, NEW f \in Params, NEW n
  PROVE  Times(f, i, n) \in Items
BY IncreasedIsItem DEF Times

\* What mutes and the automatic rules make of an item is an item, and the rules
\* touch nothing but the pending mute (do_chat_off, automute_set).
LEMMA MuteTypes ==
  ASSUME NEW c \in ChatRec
  PROVE  /\ \A t \in 0..MuteMax : ChatOff(c, t) \in ChatRec
         /\ \A x \in Judged(c) :
              /\ x \in ChatRec
              /\ x.ignores = c.ignores /\ x.dest = c.dest
              /\ x.off = c.off /\ x.left = c.left
<1> USE PlayerChatAssumption
<1>1. \A t \in 0..MuteMax : ChatOff(c, t) \in ChatRec
  BY DEF ChatOff, ChatRec
<1> DEFINE Same(x, y) == x.ignores = y.ignores /\ x.dest = y.dest
                         /\ x.off = y.off /\ x.left = y.left
<1>2. ASSUME NEW x \in ChatRec, NEW t \in Penalties,
             NEW d \in DelayMin..(DelayMax - 1)
      PROVE  AutomuteSet(x, t, d) \in ChatRec /\ Same(AutomuteSet(x, t, d), x)
  <2>1. t \in Nat /\ x.minutes \in Nat /\ x.minutes + t \in Nat
    BY DEF ChatRec
  <2>2. \A k \in Nat : Clamped(k) \in 0..MuteMax
    BY DEF Clamped
  <2>3. Clamped(t) \in 0..MuteMax /\ Clamped(x.minutes + t) \in 0..MuteMax
    BY <2>1, <2>2
  <2>4. d \in 0..(DelayMax - 1)
    OBVIOUS
  <2> QED
    BY <2>3, <2>4 DEF AutomuteSet, ChatRec
<1> DEFINE once(x) == {x} \cup {AutomuteSet(x, t, d) :
                                  t \in Penalties, d \in DelayMin..(DelayMax - 1)}
<1>3. \A x \in ChatRec : \A y \in once(x) : y \in ChatRec /\ Same(y, x)
  BY <1>2
<1>4. \A y \in Judged(c) : \E x \in once(c) : y \in once(x)
  BY DEF Judged
<1>5. \A y \in Judged(c) : y \in ChatRec /\ Same(y, c)
  BY <1>3, <1>4
<1> QED
  BY <1>1, <1>5

\* The item of a player who has just come is well formed.
LEMMA FreshType == FreshChat \in ChatRec
BY PlayerChatAssumption DEF ChatRec, FreshChat

\* Forgetting a player and time leave items of players well formed.
LEMMA OtherTypes ==
  ASSUME NEW c \in ChatRec, NEW p \in Players
  PROVE  /\ Without(c, p) \in ChatRec
         /\ [c EXCEPT !.left = Sooner(@), !.delay = Sooner(@)] \in ChatRec
<1> USE PlayerChatAssumption
<1>1. Sooner(c.left) \in 0..MuteMax /\ Sooner(c.delay) \in 0..(DelayMax - 1)
  BY DEF Sooner, ChatRec
<1>2. Without(c, p) \in ChatRec
  BY DEF Without, ChatRec
<1>3. [c EXCEPT !.left = Sooner(@), !.delay = Sooner(@)] \in ChatRec
  BY <1>1 DEF ChatRec
<1> QED
  BY <1>2, <1>3

\* So do the switches.
LEMMA FlagTypes ==
  ASSUME NEW c \in ChatRec, NEW b \in BOOLEAN
  PROVE  /\ [c EXCEPT !.in_game = b] \in ChatRec
         /\ [c EXCEPT !.off = b] \in ChatRec
         /\ [c EXCEPT !.self_off = b] \in ChatRec
BY DEF ChatRec

\* The parts of a handler that speaks.
LEMMA SpeakingTypes ==
  ASSUME TypeOK, NEW p \in Players
  PROVE  /\ \A n : Counted(p, n) => flood' \in [Players -> Items]
         /\ \A n : CountedShared(p, n) => shared' \in [Players -> Items]
         /\ \A n : Accepted(p, n) => /\ flood' \in [Players -> Items]
                                     /\ pace' \in [Players -> PaceRec]
         /\ Judge(p) => chat' \in [Players -> ChatRec]
         /\ Refused(p) => TypeOK'
         /\ RefusedShared(p) => TypeOK'
<1> USE PlayerChatAssumption
<1>1. flood[p] \in Items /\ shared[p] \in Items /\ chat[p] \in ChatRec
      /\ pace[p] \in PaceRec
  BY DEF TypeOK
<1>2. \A n : /\ Times(FloodParams, flood[p], n) \in Items
             /\ Times(SharedParams, shared[p], n) \in Items
  BY <1>1, TimesIsItem
<1>3. \A n : Counted(p, n) => flood' \in [Players -> Items]
  BY <1>2 DEF Counted, TypeOK
<1>4. \A n : CountedShared(p, n) => shared' \in [Players -> Items]
  BY <1>2 DEF CountedShared, TypeOK
<1>5. \A n : Accepted(p, n) => pace' \in [Players -> PaceRec]
  <2>1. Shorter(pace[p].gap, pace[p].since) \in 0..MaxAge /\ 0 \in 0..MaxAge
    BY <1>1, TimeOutsAssumption DEF Shorter, PaceRec
  <2> QED
    BY <2>1 DEF Accepted, TypeOK, PaceRec
<1>6. Judge(p) => chat' \in [Players -> ChatRec]
  BY <1>1, MuteTypes DEF Judge, TypeOK
<1>7. Refused(p) => TypeOK'
  <2>1. Increased(flood[p], FloodParams) \in Items
    BY <1>1, IncreasedIsItem
  <2> QED
    BY <2>1 DEF Refused, BlockIfLong, TypeOK
<1>8. RefusedShared(p) => TypeOK'
  <2>1. Increased(shared[p], SharedParams) \in Items
    BY <1>1, IncreasedIsItem
  <2> QED
    BY <2>1 DEF RefusedShared, BlockIfLong, TypeOK
<1>9. \A n : Accepted(p, n) => flood' \in [Players -> Items]
  BY <1>3 DEF Accepted
<1> QED
  BY <1>3, <1>4, <1>5, <1>6, <1>7, <1>8, <1>9

\* The handlers of a player who speaks.
Speaks(p) ==
  \/ \E n \in 0..2 : Text(p, n)
  \/ \E n \in 1..2 : CloseChat(p, n)
  \/ GroupChat(p) \/ PmDestinationChat(p)
  \/ \E q \in Players : Report(p, q) \/ Pm(p, q)

\* What they all come to: a refusal by either counter, or an accepted text.
Spoken(p) ==
  /\ MaySpeak(p)
  /\ UNCHANGED <<present, blocked>>
  /\ \E n : Accepted(p, n)
  /\ shared' = shared \/ \E n : CountedShared(p, n)
  /\ chat' = chat \/ Judge(p)

LEMMA SpeaksCases ==
  ASSUME NEW p \in Players, Speaks(p)
  PROVE  Refused(p) \/ RefusedShared(p) \/ Spoken(p)
<1>1. \A n : Text(p, n) => Refused(p) \/ RefusedShared(p) \/ Spoken(p)
  BY DEF Text, Spoken
<1>2. \A n : CloseChat(p, n) => Refused(p) \/ Spoken(p)
  BY DEF CloseChat, Spoken
<1>3. GroupChat(p) => Refused(p) \/ Spoken(p)
  BY DEF GroupChat, Spoken
<1>4. \A q : Private(p, q) => Refused(p) \/ Spoken(p)
  BY DEF Private, Spoken
<1>5. \A q : Report(p, q) => Refused(p) \/ Spoken(p)
  BY DEF Report, Spoken
<1> QED
  BY <1>1, <1>2, <1>3, <1>4, <1>5 DEF Speaks, Pm, PmDestinationChat

\* Every step of the chat is one of these.
LEMMA StepCases ==
  ASSUME Next
  PROVE  \/ \E p \in Players :
              \/ Connect(p) \/ Spawn(p) \/ Disconnect(p)
              \/ Timer1000(p) \/ Timer5000(p)
              \/ Speaks(p) \/ AdminSay(p)
              \/ \E g \in Groups \cup {NoGroup} : GroupChatAdd(p, g)
              \/ SelfChatOff(p)
              \/ \E q \in Players :
                   \/ PmDestinationSet(p, q) \/ Ignore(p, q) \/ Unmute(p, q)
                   \/ \E t \in MuteMin..MuteMax : Mute(p, q, t)
         \/ Tick
BY DEF Next, Speaks

LEMMA InitType == Init => TypeOK
<1> FreshChat \in ChatRec
  BY FreshType
<1> FreshPace \in PaceRec /\ NoItem \in Items
  BY TimeOutsAssumption DEF FreshPace, PaceRec, Items
<1> QED
  BY DEF Init, TypeOK

\* Every handler keeps the state well formed.
LEMMA NextType == TypeOK /\ [Next]_vars => TypeOK'
<1> SUFFICES ASSUME TypeOK, [Next]_vars PROVE TypeOK'
  OBVIOUS
<1> USE PlayerChatAssumption
<1>0. \A p \in Players : /\ chat[p] \in ChatRec /\ flood[p] \in Items
                         /\ shared[p] \in Items /\ pace[p] \in PaceRec
  BY DEF TypeOK
<1>1. ASSUME NEW p \in Players, Connect(p) PROVE TypeOK'
  BY <1>0, <1>1, FreshType DEF Connect, TypeOK
<1>2. ASSUME NEW p \in Players, Spawn(p) PROVE TypeOK'
  <2>1. [chat[p] EXCEPT !.in_game = TRUE] \in ChatRec
    BY <1>0, FlagTypes
  <2> QED
    BY <1>2, <2>1 DEF Spawn, TypeOK
<1>3. ASSUME NEW p \in Players, Disconnect(p) PROVE TypeOK'
  <2>1. FreshPace \in PaceRec /\ NoItem \in Items
    BY TimeOutsAssumption DEF FreshPace, PaceRec, Items
  <2>2. chat' \in [Players -> ChatRec]
    BY <1>0, <1>3, OtherTypes, FreshType DEF Disconnect
  <2> QED
    BY <1>3, <2>1, <2>2 DEF Disconnect, TypeOK
<1>4. ASSUME NEW p \in Players, Timer1000(p) PROVE TypeOK'
  <2>1. chat[p].minutes \in 0..MuteMax
    BY <1>0 DEF ChatRec
  <2>2. ChatOff(chat[p], chat[p].minutes) \in ChatRec
    BY <1>0, <2>1, MuteTypes
  <2> QED
    BY <1>4, <2>2 DEF Timer1000, TypeOK
<1>5. ASSUME NEW p \in Players, chat' = [chat EXCEPT ![p].off = FALSE],
             UNCHANGED <<present, blocked, flood, shared, pace>>
      PROVE  TypeOK'
  <2>1. [chat[p] EXCEPT !.off = FALSE] \in ChatRec
    BY <1>0, FlagTypes
  <2> QED
    BY <1>5, <2>1 DEF TypeOK
<1>6. ASSUME NEW p \in Players, Speaks(p) PROVE TypeOK'
  <2>1. CASE Refused(p) \/ RefusedShared(p)
    BY <2>1, SpeakingTypes
  <2>2. CASE Spoken(p)
    BY <2>2, SpeakingTypes DEF Spoken, TypeOK
  <2> QED
    BY <1>6, <2>1, <2>2, SpeaksCases
<1>7. ASSUME NEW p \in Players, AdminSay(p) PROVE TypeOK'
  BY <1>7, SpeakingTypes DEF AdminSay, TypeOK
<1>8. ASSUME NEW p \in Players, NEW g \in Groups \cup {NoGroup}, GroupChatAdd(p, g)
      PROVE  TypeOK'
  <2>1. [chat[p] EXCEPT !.group = g] \in ChatRec
    BY <1>0 DEF ChatRec
  <2> QED
    BY <1>8, <2>1 DEF GroupChatAdd, TypeOK
<1>9. ASSUME NEW p \in Players, SelfChatOff(p) PROVE TypeOK'
  <2>1. (~chat[p].self_off) = TRUE \/ (~chat[p].self_off) = FALSE
    OBVIOUS
  <2>2. [chat[p] EXCEPT !.self_off = ~@] \in ChatRec
    BY <1>0, <2>1, FlagTypes, Zenon
  <2> QED
    BY <1>9, <2>2 DEF SelfChatOff, TypeOK
<1>10. ASSUME NEW p \in Players, NEW q \in Players, PmDestinationSet(p, q)
       PROVE  TypeOK'
  <2>1. [chat[p] EXCEPT !.dest = q] \in ChatRec
    BY <1>0 DEF ChatRec
  <2> QED
    BY <1>10, <2>1 DEF PmDestinationSet, TypeOK
<1>11. ASSUME NEW p \in Players, NEW q \in Players, Ignore(p, q) PROVE TypeOK'
  <2>1. [chat[p] EXCEPT !.ignores = IF q \in @ THEN @ \ {q} ELSE @ \cup {q}] \in ChatRec
    BY <1>0 DEF ChatRec
  <2> QED
    BY <1>11, <2>1 DEF Ignore, TypeOK
<1>12. ASSUME NEW p \in Players, NEW q \in Players, NEW t \in MuteMin..MuteMax,
              Mute(p, q, t)
       PROVE  TypeOK'
  <2>1. ChatOff(chat[q], t) \in ChatRec
    BY <1>0, MuteTypes
  <2> QED
    BY <1>12, <2>1 DEF Mute, TypeOK
<1>13. ASSUME Tick PROVE TypeOK'
  <2>1. chat' \in [Players -> ChatRec]
    BY <1>0, <1>13, OtherTypes DEF Tick
  <2>2. flood' \in [Players -> Items] /\ shared' \in [Players -> Items]
    BY <1>0, <1>13, ItemsStayItems DEF Tick
  <2>3. \A p \in Players : [pace[p] EXCEPT !.since = Older(@)] \in PaceRec
    BY <1>0, TimeOutsAssumption DEF Older, PaceRec
  <2> QED
    BY <1>13, <2>1, <2>2, <2>3 DEF Tick, TypeOK
<1>14. CASE UNCHANGED vars
  BY <1>14 DEF vars, TypeOK
<1>15. \A p, q \in Players : Timer5000(p) \/ Unmute(q, p) => TypeOK'
  BY <1>5 DEF Timer5000, Unmute
<1> QED
  BY <1>1, <1>2, <1>3, <1>4, <1>6, <1>7, <1>8, <1>9, <1>10, <1>11, <1>12,
     <1>13, <1>14, <1>15, StepCases

(* The state of the chat is well formed in every run, for any players,       *)
(* limits and rules (player_chat_item and the handlers of player_chat).      *)
THEOREM TypeCorrect == Spec => []TypeOK
BY InitType, NextType, PTL DEF Spec

-----------------------------------------------------------------------------
(* Sessions.                                                               *)

\* A step of players who are present that keeps everybody's references.
LEMMA ReferencesKept ==
  ASSUME NoGhosts, present' = present,
         \A q \in present \cap Players : /\ chat'[q].ignores = chat[q].ignores
                                         /\ chat'[q].dest = chat[q].dest,
         \A q \in Players \ present : chat'[q] = chat[q] /\ flood'[q] = flood[q]
  PROVE  NoGhosts'
BY DEF NoGhosts

\* Forgetting and time change nothing about a player who has just come.
LEMMA FreshStays ==
  ASSUME NEW p \in Players
  PROVE  /\ Without(FreshChat, p) = FreshChat
         /\ [FreshChat EXCEPT !.left = Sooner(@), !.delay = Sooner(@)] = FreshChat
<1>1. /\ FreshChat.ignores \ {p} = {}
      /\ (IF FreshChat.dest = p THEN NoOne ELSE FreshChat.dest) = NoOne
      /\ Sooner(FreshChat.left) = 0 /\ Sooner(FreshChat.delay) = 0
  BY PlayerChatAssumption DEF FreshChat, Sooner
<1>2. ASSUME NEW c \in ChatRec
      PROVE  /\ [c EXCEPT !.ignores = c.ignores, !.dest = c.dest] = c
             /\ [c EXCEPT !.left = c.left, !.delay = c.delay] = c
  BY DEF ChatRec
<1>3. FreshChat \in ChatRec /\ FreshChat.ignores = {} /\ FreshChat.dest = NoOne
      /\ FreshChat.left = 0 /\ FreshChat.delay = 0
  BY FreshType DEF FreshChat
<1> QED
  BY <1>1, <1>2, <1>3, Zenon DEF Without

\* No handler makes or leaves a reference to a player who is gone.
LEMMA NextGhosts == TypeOK /\ NoGhosts /\ [Next]_vars => NoGhosts'
<1> SUFFICES ASSUME TypeOK, NoGhosts, [Next]_vars PROVE NoGhosts'
  OBVIOUS
<1>0. \A p \in Players : chat[p] \in ChatRec
  BY DEF TypeOK
<1>a. \A p \in Players : Judge(p) =>
        /\ \A q \in Players \ {p} : chat'[q] = chat[q]
        /\ chat'[p].ignores = chat[p].ignores /\ chat'[p].dest = chat[p].dest
  BY <1>0, MuteTypes DEF Judge, TypeOK
<1>b. \A p \in Players : \A n : Counted(p, n) =>
        \A q \in Players \ {p} : flood'[q] = flood[q]
  BY DEF Counted, TypeOK
<1>1. ASSUME NEW p \in Players, Connect(p) PROVE NoGhosts'
  <2>1. /\ FreshChat.ignores = {} /\ FreshChat.dest = NoOne
        /\ chat'[p] = FreshChat /\ present' = present \cup {p}
        /\ flood' = flood
        /\ \A q \in Players \ {p} : chat'[q] = chat[q]
    BY <1>1 DEF Connect, TypeOK, FreshChat
  <2> QED
    BY <2>1 DEF NoGhosts
<1>2. ASSUME NEW p \in Players, Spawn(p) PROVE NoGhosts'
  <2>1. /\ chat'[p].ignores = chat[p].ignores /\ chat'[p].dest = chat[p].dest
        /\ \A q \in Players \ {p} : chat'[q] = chat[q]
    BY <1>0, <1>2 DEF Spawn, TypeOK, ChatRec
  <2> QED
    BY <1>2, <2>1, ReferencesKept DEF Spawn
<1>3. ASSUME NEW p \in Players, Disconnect(p) PROVE NoGhosts'
  <2>1. chat'[p] = FreshChat /\ flood'[p] = NoItem /\ present' = present \ {p}
    BY <1>3 DEF Disconnect, TypeOK
  <2>2. \A q \in Players \ {p} :
          /\ chat'[q] = Without(chat[q], p) /\ flood'[q] = flood[q]
    BY <1>3 DEF Disconnect, TypeOK
  <2>3. \A q \in Players \ {p} :
          /\ Without(chat[q], p).ignores = chat[q].ignores \ {p}
          /\ Without(chat[q], p).dest = IF chat[q].dest = p THEN NoOne
                                        ELSE chat[q].dest
    BY <1>0 DEF Without, ChatRec
  <2>4. Without(FreshChat, p) = FreshChat
    BY FreshStays
  <2>5. ASSUME NEW q \in present' \cap Players
        PROVE  /\ chat'[q].ignores \subseteq present' \ {q}
               /\ chat'[q].dest \in (present' \ {q}) \cup {NoOne}
    <3>1. q # p /\ q \in present
      BY <2>1
    <3>2. /\ chat[q].ignores \subseteq present \ {q}
          /\ chat[q].dest \in (present \ {q}) \cup {NoOne}
      BY <3>1 DEF NoGhosts
    <3> QED
      BY <2>1, <2>2, <2>3, <3>1, <3>2
  <2>6. \A q \in Players \ present' : chat'[q] = FreshChat /\ flood'[q] = NoItem
    BY <2>1, <2>2, <2>4 DEF NoGhosts
  <2> QED
    BY <2>5, <2>6 DEF NoGhosts
<1>4. ASSUME NEW p \in Players, Timer1000(p) PROVE NoGhosts'
  <2>1. /\ chat'[p].ignores = chat[p].ignores /\ chat'[p].dest = chat[p].dest
        /\ \A q \in Players \ {p} : chat'[q] = chat[q]
    BY <1>0, <1>4 DEF Timer1000, TypeOK, ChatRec, ChatOff
  <2> QED
    BY <1>4, <2>1, ReferencesKept DEF Timer1000
<1>5. ASSUME NEW p \in Players, NEW q \in Players, Timer5000(p) \/ Unmute(q, p)
      PROVE  NoGhosts'
  <2>1. /\ chat'[p].ignores = chat[p].ignores /\ chat'[p].dest = chat[p].dest
        /\ \A r \in Players \ {p} : chat'[r] = chat[r]
        /\ p \in present /\ UNCHANGED <<present, flood>>
    BY <1>0, <1>5 DEF Timer5000, Unmute, TypeOK, ChatRec
  <2> QED
    BY <2>1, ReferencesKept
<1>6. ASSUME NEW p \in Players, Speaks(p) PROVE NoGhosts'
  <2>0. p \in present
    <3>1. chat[p].in_game => p \in present
      BY DEF NoGhosts, FreshChat
    <3> QED
      BY <1>6, <3>1 DEF Speaks, Text, CloseChat, GroupChat, PmDestinationChat,
                        Report, Pm, Private, MaySpeak, Commands
  <2>1. CASE Refused(p)
    <3>1. \A q \in Players \ {p} : flood'[q] = flood[q]
      BY <2>1 DEF Refused, TypeOK
    <3> QED
      BY <2>0, <2>1, <3>1, ReferencesKept DEF Refused
  <2>2. CASE RefusedShared(p)
    BY <2>2, ReferencesKept DEF RefusedShared
  <2>3. CASE Spoken(p)
    <3>1. \A q \in Players \ {p} : chat'[q] = chat[q] /\ flood'[q] = flood[q]
      BY <2>3, <1>a, <1>b DEF Spoken, Accepted
    <3>2. chat'[p].ignores = chat[p].ignores /\ chat'[p].dest = chat[p].dest
      BY <2>3, <1>a DEF Spoken
    <3> QED
      BY <2>0, <2>3, <3>1, <3>2, ReferencesKept DEF Spoken
  <2> QED
    BY <1>6, <2>1, <2>2, <2>3, SpeaksCases
<1>7. ASSUME NEW p \in Players, AdminSay(p) PROVE NoGhosts'
  BY <1>7, <1>a, <1>b, ReferencesKept DEF AdminSay, Commands
<1>8. ASSUME NEW p \in Players, NEW g \in Groups \cup {NoGroup}, GroupChatAdd(p, g)
      PROVE  NoGhosts'
  <2>1. /\ chat'[p].ignores = chat[p].ignores /\ chat'[p].dest = chat[p].dest
        /\ \A q \in Players \ {p} : chat'[q] = chat[q]
    BY <1>0, <1>8 DEF GroupChatAdd, TypeOK, ChatRec
  <2> QED
    BY <1>8, <2>1, ReferencesKept DEF GroupChatAdd, Commands
<1>9. ASSUME NEW p \in Players, SelfChatOff(p) PROVE NoGhosts'
  <2>1. /\ chat'[p].ignores = chat[p].ignores /\ chat'[p].dest = chat[p].dest
        /\ \A q \in Players \ {p} : chat'[q] = chat[q]
    BY <1>0, <1>9 DEF SelfChatOff, TypeOK, ChatRec
  <2> QED
    BY <1>9, <2>1, ReferencesKept DEF SelfChatOff, Commands
<1>10. ASSUME NEW p \in Players, NEW q \in Players, PmDestinationSet(p, q)
       PROVE  NoGhosts'
  <2>1. /\ chat'[p].ignores = chat[p].ignores /\ chat'[p].dest = q
        /\ \A r \in Players \ {p} : chat'[r] = chat[r]
    BY <1>0, <1>10 DEF PmDestinationSet, TypeOK, ChatRec
  <2> QED
    BY <1>10, <2>1 DEF PmDestinationSet, Commands, NoGhosts
<1>11. ASSUME NEW p \in Players, NEW q \in Players, Ignore(p, q) PROVE NoGhosts'
  <2>1. /\ chat'[p].ignores \subseteq chat[p].ignores \cup {q}
        /\ chat'[p].dest = chat[p].dest
        /\ \A r \in Players \ {p} : chat'[r] = chat[r]
    BY <1>0, <1>11 DEF Ignore, TypeOK, ChatRec
  <2> QED
    BY <1>11, <2>1 DEF Ignore, Commands, NoGhosts
<1>12. ASSUME NEW p \in Players, NEW q \in Players, NEW t \in MuteMin..MuteMax,
              Mute(p, q, t)
       PROVE  NoGhosts'
  <2>1. /\ chat'[q].ignores = chat[q].ignores /\ chat'[q].dest = chat[q].dest
        /\ \A r \in Players \ {q} : chat'[r] = chat[r]
    BY <1>0, <1>12 DEF Mute, TypeOK, ChatRec, ChatOff
  <2> QED
    BY <1>12, <2>1, ReferencesKept DEF Mute
<1>13. ASSUME Tick PROVE NoGhosts'
  <2>1. \A p \in Players : /\ chat'[p].ignores = chat[p].ignores
                           /\ chat'[p].dest = chat[p].dest
    <3>1. \A p \in Players : chat'[p] = [chat[p] EXCEPT !.left = Sooner(@),
                                                       !.delay = Sooner(@)]
      BY <1>13 DEF Tick
    <3> QED
      BY <1>0, <3>1 DEF ChatRec
  <2>2. \A p \in Players \ present : chat'[p] = chat[p] /\ flood'[p] = flood[p]
    BY <1>13, FreshStays DEF Tick, NoGhosts, Aged
  <2> QED
    BY <1>13, <2>1, <2>2, ReferencesKept DEF Tick
<1>14. CASE UNCHANGED vars
  BY <1>14 DEF vars, NoGhosts
<1> QED
  BY <1>1, <1>2, <1>3, <1>4, <1>5, <1>6, <1>7, <1>8, <1>9, <1>10, <1>11, <1>12,
     <1>13, <1>14, StepCases

(* Whoever leaves is forgotten by all who stay, in whatever order players    *)
(* come, leave and refer to each other (player_chat_item::on_disconnect).    *)
THEOREM GhostsForgotten == Spec => []NoGhosts
<1>1. Init => NoGhosts
  BY DEF Init, NoGhosts
<1> QED
  BY <1>1, InitType, NextType, NextGhosts, PTL DEF Spec

-----------------------------------------------------------------------------
(* Mutes.                                                                  *)

\* What a handler that speaks does to everybody's mutes.
LEMMA JudgeMutes ==
  ASSUME TypeOK, NEW p \in Players, Judge(p)
  PROVE  /\ \A q \in Players \ {p} : chat'[q] = chat[q]
         /\ chat'[p].off = chat[p].off /\ chat'[p].left = chat[p].left
<1>1. chat[p] \in ChatRec
  BY DEF TypeOK
<1> QED
  BY <1>1, MuteTypes DEF Judge, TypeOK

\* Forgetting a player is nothing to a mute.
LEMMA WithoutMutes ==
  ASSUME NEW c \in ChatRec, NEW q
  PROVE  /\ Without(c, q).off = c.off
         /\ Without(c, q).left = c.left
         /\ Without(c, q).auto = c.auto
<1> DEFINE d == IF c.dest = q THEN NoOne ELSE c.dest
           i == c.ignores \ {q}
<1>1. Without(c, q) = [c EXCEPT !.ignores = i, !.dest = d]
  BY DEF Without
<1> HIDE DEF d, i
<1> QED
  BY <1>1 DEF ChatRec

\* Each step either leaves player p's mute alone, or is one of these.
LEMMA MuteSteps ==
  ASSUME TypeOK, Next, NEW p \in Players
  PROVE  \/ /\ chat'[p].off = chat[p].off /\ chat'[p].left = chat[p].left
            /\ chat'[p].auto = chat[p].auto
         \/ /\ chat'[p].off = chat[p].off /\ chat'[p].left = chat[p].left
            /\ ~chat[p].off \/ AdminSay(p)
         \/ chat'[p] = FreshChat /\ (Connect(p) \/ Disconnect(p))
         \/ Timer1000(p) \/ Timer5000(p) \/ \E a \in Players : Unmute(a, p)
         \/ \E a \in Players, t \in MuteMin..MuteMax : Mute(a, p, t)
         \/ Tick
<1> DEFINE Same == /\ chat'[p].off = chat[p].off /\ chat'[p].left = chat[p].left
                   /\ chat'[p].auto = chat[p].auto
<1>0. \A q \in Players : chat[q] \in ChatRec
  BY DEF TypeOK
<1>1. ASSUME NEW q \in Players, Connect(q) \/ Spawn(q) \/ Disconnect(q)
      PROVE  \/ Same
             \/ chat'[p] = FreshChat /\ (Connect(p) \/ Disconnect(p))
  <2>1. CASE q = p /\ ~Spawn(q)
    BY <1>1, <2>1 DEF Connect, Disconnect, TypeOK
  <2>2. CASE q # p /\ (Connect(q) \/ Disconnect(q))
    <3>1. Connect(q) => chat'[p] = chat[p]
      BY <2>2 DEF Connect, TypeOK
    <3>2. Disconnect(q) => chat'[p] = Without(chat[p], q)
      BY <2>2 DEF Disconnect
    <3>3. /\ Without(chat[p], q).off = chat[p].off
          /\ Without(chat[p], q).left = chat[p].left
          /\ Without(chat[p], q).auto = chat[p].auto
      BY <1>0, WithoutMutes
    <3> QED
      BY <2>2, <3>1, <3>2, <3>3
  <2>3. CASE Spawn(q)
    BY <1>0, <2>3 DEF Spawn, TypeOK, ChatRec
  <2> QED
    BY <1>1, <2>1, <2>2, <2>3
<1>2. ASSUME NEW q \in Players, q # p,
             \/ Timer1000(q) \/ Timer5000(q) \/ \E a \in Players : Unmute(a, q)
             \/ \E a \in Players, t \in MuteMin..MuteMax : Mute(a, q, t)
      PROVE  Same
  BY <1>2 DEF Timer1000, Timer5000, Unmute, Mute, TypeOK
<1>3. ASSUME NEW q \in Players, Speaks(q) \/ AdminSay(q)
      PROVE  \/ Same
             \/ /\ chat'[p].off = chat[p].off /\ chat'[p].left = chat[p].left
                /\ ~chat[p].off \/ AdminSay(p)
  <2>1. CASE chat' = chat
    BY <2>1
  <2>2. CASE Judge(q) /\ (~chat[q].off \/ AdminSay(q))
    BY <2>2, JudgeMutes
  <2>3. Refused(q) \/ RefusedShared(q) => chat' = chat
    BY DEF Refused, RefusedShared
  <2>4. Spoken(q) => chat' = chat \/ (Judge(q) /\ ~chat[q].off)
    BY DEF Spoken, MaySpeak
  <2>5. AdminSay(q) => Judge(q)
    BY DEF AdminSay
  <2> QED
    BY <1>3, <2>1, <2>2, <2>3, <2>4, <2>5, SpeaksCases
<1>4. ASSUME NEW q \in Players,
             \/ \E g \in Groups \cup {NoGroup} : GroupChatAdd(q, g)
             \/ SelfChatOff(q)
             \/ \E r \in Players : PmDestinationSet(q, r) \/ Ignore(q, r)
      PROVE  Same
  <2>1. CASE q # p
    BY <1>4, <2>1 DEF GroupChatAdd, SelfChatOff, PmDestinationSet, Ignore, TypeOK
  <2>2. CASE q = p
    BY <1>0, <1>4, <2>2
       DEF GroupChatAdd, SelfChatOff, PmDestinationSet, Ignore, TypeOK, ChatRec
  <2> QED
    BY <2>1, <2>2
<1> QED
  BY <1>1, <1>2, <1>3, <1>4, StepCases

\* What the two promises say of a player.
NonePendingOf(p) == chat[p].off => ~chat[p].auto
MuteHolds(p) ==
  chat[p].off /\ ~MuteOver(chat[p]) =>
     \/ p \notin present'
     \/ \E a \in Admins : Unmute(a, p)
     \/ chat'[p].off /\ chat'[p].left = chat[p].left
     \/ chat'[p].off /\ Tick

\* A mute replaces what was pending (do_chat_off).
LEMMA OffClears ==
  ASSUME NEW c \in ChatRec, NEW t
  PROVE  /\ ~ChatOff(c, t).auto /\ ChatOff(c, t).off
         /\ ChatOff(c, t).left = t
BY DEF ChatOff, ChatRec

\* No automatic mute gets pending under a mute, unless an administrator speaks
\* while he is muted.
LEMMA PendingStep ==
  ASSUME TypeOK, [Next]_vars, NEW p \in Players, NonePendingOf(p),
         AdminSay(p) => ~chat[p].off
  PROVE  NonePendingOf(p)'
<1> SUFFICES chat'[p].off => ~chat'[p].auto
  BY DEF NonePendingOf
<1>0. chat[p] \in ChatRec /\ (chat[p].off => ~chat[p].auto)
  BY DEF TypeOK, NonePendingOf
<1>1. ~FreshChat.off
  BY DEF FreshChat
<1>2. ASSUME NEW a \in Players, NEW t \in MuteMin..MuteMax,
             Mute(a, p, t) \/ Timer1000(p)
      PROVE  ~chat'[p].auto
  <2>1. chat'[p] = ChatOff(chat[p], t) \/ chat'[p] = ChatOff(chat[p], chat[p].minutes)
    BY <1>2 DEF Mute, Timer1000, TypeOK
  <2> QED
    BY <1>0, <2>1, OffClears
<1>3. ASSUME NEW a \in Players, Timer5000(p) \/ Unmute(a, p) PROVE ~chat'[p].off
  BY <1>0, <1>3 DEF Timer5000, Unmute, TypeOK, ChatRec
<1>4. ASSUME Tick PROVE chat'[p].off = chat[p].off /\ chat'[p].auto = chat[p].auto
  <2>1. chat'[p] = [chat[p] EXCEPT !.left = Sooner(@), !.delay = Sooner(@)]
    BY <1>4 DEF Tick
  <2> QED
    BY <1>0, <2>1 DEF ChatRec
<1>5. CASE UNCHANGED vars
  BY <1>0, <1>5 DEF vars
<1>6. MuteMin \in MuteMin..MuteMax
  BY PlayerChatAssumption
<1> QED
  BY <1>0, <1>1, <1>2, <1>3, <1>4, <1>5, <1>6, MuteSteps

\* Where none is pending a mute holds and its end stays.
LEMMA HoldStep ==
  ASSUME TypeOK, NoGhosts, [Next]_vars, NEW p \in Players, NonePendingOf(p),
         AdminSay(p) => ~chat[p].off
  PROVE  MuteHolds(p)
<1>0. chat[p] \in ChatRec /\ (chat[p].off => ~chat[p].auto)
  BY DEF TypeOK, NonePendingOf
<1> SUFFICES ASSUME chat[p].off, ~MuteOver(chat[p]) PROVE MuteHolds(p)
  BY DEF MuteHolds
<1>1. CASE UNCHANGED vars
  BY <1>1 DEF vars, MuteHolds
<1>2. ~Timer1000(p) /\ ~Timer5000(p) /\ ~AdminSay(p)
  BY <1>0 DEF Timer1000, Timer5000
<1>3. \A a \in Players, t \in MuteMin..MuteMax : ~Mute(a, p, t)
  BY DEF Mute
<1>4. \A a \in Players : Unmute(a, p) => a \in Admins
  BY DEF Unmute
<1>5. ~Connect(p)
  BY DEF Connect, NoGhosts, FreshChat
<1>6. Disconnect(p) => p \notin present'
  BY DEF Disconnect
<1>7. Tick => chat'[p].off = chat[p].off
  <2>1. Tick => chat'[p] = [chat[p] EXCEPT !.left = Sooner(@), !.delay = Sooner(@)]
    BY DEF Tick
  <2> QED
    BY <1>0, <2>1 DEF ChatRec
<1> QED
  BY <1>1, <1>2, <1>3, <1>4, <1>5, <1>6, <1>7, MuteSteps DEF MuteHolds

LEMMA NextNonePending == TypeOK /\ NonePending /\ [Next]_vars => NonePending'
<1>1. NonePending <=> \A p \in Players \ Admins : NonePendingOf(p)
  BY DEF NonePending, NonePendingOf
<1>2. NonePending' <=> \A p \in Players \ Admins : NonePendingOf(p)'
  BY DEF NonePending, NonePendingOf
<1>3. \A p \in Players \ Admins : ~AdminSay(p)
  BY DEF AdminSay
<1> QED
  BY <1>1, <1>2, <1>3, PendingStep

(* A mute of a player who is no administrator holds and its end stays, for   *)
(* any rules and limits (do_chat_off clears what automute_set prepared).     *)
THEOREM MutesStand == Spec => MutesHold
<1>1. ASSUME TypeOK, NoGhosts, NonePending, [Next]_vars, NEW p \in Players \ Admins
      PROVE  MuteHolds(p)
  <2>1. NonePendingOf(p) /\ ~AdminSay(p)
    BY <1>1 DEF NonePending, NonePendingOf, AdminSay
  <2> QED
    BY <1>1, <2>1, HoldStep
<1>2. TypeOK /\ NoGhosts /\ NonePending /\ [Next]_vars =>
        [\A p \in Players \ Admins : MuteHolds(p)]_vars
  BY <1>1
<1>3. Init => NoGhosts /\ NonePending
  BY DEF Init, NoGhosts, NonePending, FreshChat
<1> QED
  BY <1>2, <1>3, InitType, NextType, NextGhosts, NextNonePending, PTL
     DEF Spec, MutesHold, MuteHolds

(* The only way round a mute, for anybody: if no muted administrator uses    *)
(* cmd_admin_say, which counts and judges his words without asking whether   *)
(* he may speak, the mutes of administrators hold like those of the others.  *)
THEOREM OnlyAdminSayMovesMutes ==
  Spec /\ MutedAdminsSilent => EveryMuteHolds
<1> DEFINE None == \A p \in Players : NonePendingOf(p)
           Silent == \A a \in Admins : AdminSay(a) => ~chat[a].off
<1>1. ASSUME Silent \/ UNCHANGED vars, NEW p \in Players, AdminSay(p),
             chat[p].off
      PROVE  UNCHANGED vars
  BY <1>1 DEF AdminSay
<1>2. ASSUME TypeOK, None, [Next]_vars, [Silent]_vars PROVE None'
  <2>1. CASE UNCHANGED vars
    BY <1>2, <2>1 DEF vars, NonePendingOf
  <2>2. CASE Silent
    <3>1. \A p \in Players : AdminSay(p) => ~chat[p].off
      BY <2>2 DEF AdminSay
    <3> QED
      BY <1>2, <3>1, PendingStep
  <2> QED
    BY <1>2, <2>1, <2>2
<1>3. ASSUME TypeOK, NoGhosts, None, [Next]_vars, [Silent]_vars
      PROVE  [\A p \in Players : MuteHolds(p)]_vars
  <2>1. CASE Silent
    <3>1. \A p \in Players : AdminSay(p) => ~chat[p].off
      BY <2>1 DEF AdminSay
    <3> QED
      BY <1>3, <3>1, HoldStep
  <2> QED
    BY <1>3, <2>1
<1>4. Init => NoGhosts /\ None
  BY DEF Init, NoGhosts, NonePendingOf, FreshChat
<1> QED
  BY <1>2, <1>3, <1>4, InitType, NextType, NextGhosts, PTL
     DEF Spec, MutedAdminsSilent, EveryMuteHolds, MuteHolds

-----------------------------------------------------------------------------
(* Automatic mutes.                                                          *)

\* A pending automatic mute c that has become x is no later and no shorter.
Grown(x, c) ==
  /\ x.auto
  /\ x.delay <= c.delay
  /\ x.minutes >= c.minutes

\* The rules only add to what is pending, whatever they find (automute_set).
LEMMA JudgedGrows ==
  ASSUME NEW c \in ChatRec, c.auto, NEW x \in Judged(c)
  PROVE  Grown(x, c)
<1> USE PlayerChatAssumption
<1>1. ASSUME NEW y \in ChatRec, y.auto, NEW t \in Penalties, NEW d
      PROVE  /\ AutomuteSet(y, t, d) \in ChatRec
             /\ Grown(AutomuteSet(y, t, d), y)
  <2>1. t \in Nat /\ y.minutes \in 0..MuteMax /\ y.delay \in Int
    BY DEF ChatRec
  <2>2. Clamped(y.minutes + t) \in 0..MuteMax /\ Clamped(y.minutes + t) >= y.minutes
    BY <2>1 DEF Clamped
  <2> DEFINE m == Clamped(y.minutes + t)
  <2> HIDE DEF m
  <2>3. AutomuteSet(y, t, d) = [y EXCEPT !.minutes = m]
    BY <1>1 DEF AutomuteSet, m
  <2> QED
    BY <1>1, <2>1, <2>2, <2>3 DEF ChatRec, Grown, m
<1> DEFINE once(y) == {y} \cup {AutomuteSet(y, t, d) :
                                  t \in Penalties, d \in DelayMin..(DelayMax - 1)}
<1>2. ASSUME NEW y \in ChatRec, y.auto, NEW z \in once(y)
      PROVE  z \in ChatRec /\ Grown(z, y)
  <2>1. Grown(y, y)
    BY <1>2 DEF Grown, ChatRec
  <2> QED
    BY <1>1, <1>2, <2>1
<1>3. PICK y \in once(c) : x \in once(y)
  BY DEF Judged
<1>4. y \in ChatRec /\ Grown(y, c)
  BY <1>2, <1>3
<1>5. x \in ChatRec /\ Grown(x, y)
  BY <1>2, <1>3, <1>4 DEF Grown
<1> QED
  BY <1>4, <1>5 DEF Grown, ChatRec

\* The other handlers leave a pending mute as it is, bring it nearer, or are
\* those the promise names.
LEMMA AutomuteStep ==
  ASSUME TypeOK, NoGhosts, Next, NEW p \in Players, chat[p].auto
  PROVE  \/ p \notin present'
         \/ Grown(chat'[p], chat[p])
         \/ /\ ~chat'[p].auto /\ chat'[p].off
            /\ \/ chat[p].delay = 0 /\ chat'[p].left = chat[p].minutes
               \/ \E a \in Admins, t \in MuteMin..MuteMax : Mute(a, p, t)
<1>0. \A q \in Players : chat[q] \in ChatRec
  BY DEF TypeOK
<1>1. p \in present
  BY DEF NoGhosts, FreshChat
<1> DEFINE Same(x) == /\ x.auto = chat[p].auto
                      /\ x.delay = chat[p].delay /\ x.minutes = chat[p].minutes
<1>2. \A x : Same(x) => Grown(x, chat[p])
  BY <1>0, PlayerChatAssumption DEF Grown, ChatRec
<1> HIDE DEF Same
<1>3. Same(chat[p])
  BY DEF Same
<1>4. ASSUME NEW q \in Players, Connect(q) \/ Disconnect(q)
      PROVE  p \notin present' \/ Grown(chat'[p], chat[p])
  <2>1. CASE q = p
    BY <1>1, <1>4, <2>1 DEF Connect, Disconnect
  <2>2. CASE q # p
    <3>1. Connect(q) => chat'[p] = chat[p]
      BY <2>2 DEF Connect, TypeOK
    <3>2. Disconnect(q) => chat'[p] = Without(chat[p], q)
      BY <2>2 DEF Disconnect
    <3>3. Same(Without(chat[p], q))
      <4> DEFINE d == IF chat[p].dest = q THEN NoOne ELSE chat[p].dest
                 i == chat[p].ignores \ {q}
      <4>1. Without(chat[p], q) = [chat[p] EXCEPT !.ignores = i, !.dest = d]
        BY DEF Without
      <4> HIDE DEF d, i
      <4> QED
        BY <1>0, <4>1 DEF ChatRec, Same
    <3> QED
      BY <1>2, <1>3, <1>4, <3>1, <3>2, <3>3
  <2> QED
    BY <2>1, <2>2
<1>5. ASSUME NEW q \in Players, Spawn(q) \/ Timer5000(q) \/ SelfChatOff(q)
      PROVE  Same(chat'[p])
  <2>1. ASSUME NEW b, chat' = [chat EXCEPT ![q].in_game = b] PROVE Same(chat'[p])
    BY <1>0, <2>1 DEF TypeOK, ChatRec, Same
  <2>2. ASSUME NEW b, chat' = [chat EXCEPT ![q].off = b] PROVE Same(chat'[p])
    BY <1>0, <2>2 DEF TypeOK, ChatRec, Same
  <2>3. ASSUME NEW b, chat' = [chat EXCEPT ![q].self_off = b] PROVE Same(chat'[p])
    BY <1>0, <2>3 DEF TypeOK, ChatRec, Same
  <2> QED
    BY <1>5, <2>1, <2>2, <2>3 DEF Spawn, Timer5000, SelfChatOff
<1>6. ASSUME NEW q \in Players, NEW r \in Players,
             \/ \E g \in Groups \cup {NoGroup} : GroupChatAdd(q, g)
             \/ PmDestinationSet(q, r) \/ Ignore(q, r) \/ Unmute(q, r)
      PROVE  Same(chat'[p])
  <2>1. ASSUME NEW g, chat' = [chat EXCEPT ![q].group = g] PROVE Same(chat'[p])
    BY <1>0, <2>1 DEF TypeOK, ChatRec, Same
  <2>2. CASE PmDestinationSet(q, r)
    BY <1>0, <2>2 DEF PmDestinationSet, TypeOK, ChatRec, Same
  <2>3. CASE Unmute(q, r)
    BY <1>0, <2>3 DEF Unmute, TypeOK, ChatRec, Same
  <2>4. ASSUME NEW i, chat' = [chat EXCEPT ![q].ignores = i] PROVE Same(chat'[p])
    BY <1>0, <2>4 DEF TypeOK, ChatRec, Same
  <2> QED
    BY <1>6, <2>1, <2>2, <2>3, <2>4 DEF GroupChatAdd, Ignore
<1>7. ASSUME NEW q \in Players, Timer1000(q)
      PROVE  \/ Grown(chat'[p], chat[p])
             \/ /\ ~chat'[p].auto /\ chat'[p].off
                /\ chat[p].delay = 0 /\ chat'[p].left = chat[p].minutes
  <2>1. CASE q # p
    BY <1>2, <1>3, <1>7, <2>1 DEF Timer1000, TypeOK
  <2>2. CASE q = p
    BY <1>0, <1>7, <2>2, OffClears DEF Timer1000, TypeOK
  <2> QED
    BY <2>1, <2>2
<1>8. ASSUME NEW a \in Players, NEW q \in Players, NEW t \in MuteMin..MuteMax,
             Mute(a, q, t)
      PROVE  \/ Grown(chat'[p], chat[p])
             \/ /\ ~chat'[p].auto /\ chat'[p].off
                /\ \E b \in Admins, u \in MuteMin..MuteMax : Mute(b, p, u)
  <2>1. CASE q # p
    BY <1>2, <1>3, <1>8, <2>1 DEF Mute, TypeOK
  <2>2. CASE q = p
    <3>1. a \in Admins
      BY <1>8 DEF Mute
    <3>2. chat'[p] = ChatOff(chat[p], t)
      BY <1>8, <2>2 DEF Mute, TypeOK
    <3>3. ~chat'[p].auto /\ chat'[p].off
      BY <1>0, <3>2, OffClears
    <3> QED
      BY <1>8, <2>2, <3>1, <3>3
  <2> QED
    BY <2>1, <2>2
<1>9. ASSUME NEW q \in Players, Speaks(q) \/ AdminSay(q)
      PROVE  Grown(chat'[p], chat[p])
  <2>1. chat' = chat \/ Judge(q)
    BY <1>9, SpeaksCases DEF Refused, RefusedShared, Spoken, AdminSay
  <2>2. CASE chat' = chat
    BY <1>2, <1>3, <2>2
  <2>3. CASE Judge(q) /\ q # p
    BY <1>2, <1>3, <2>3, JudgeMutes
  <2>4. CASE Judge(q) /\ q = p
    <3>1. chat'[p] \in Judged(chat[p])
      BY <2>4 DEF Judge, TypeOK
    <3> QED
      BY <1>0, <3>1, JudgedGrows
  <2> QED
    BY <2>1, <2>2, <2>3, <2>4
<1>10. ASSUME Tick PROVE Grown(chat'[p], chat[p])
  <2>1. chat'[p] = [chat[p] EXCEPT !.left = Sooner(@), !.delay = Sooner(@)]
    BY <1>10 DEF Tick
  <2>2. /\ chat'[p].auto = chat[p].auto /\ chat'[p].minutes = chat[p].minutes
        /\ chat'[p].delay = Sooner(chat[p].delay)
    BY <1>0, <2>1 DEF ChatRec
  <2> QED
    BY <1>0, <2>2, PlayerChatAssumption DEF Grown, Sooner, ChatRec
<1> QED
  BY <1>2, <1>4, <1>5, <1>6, <1>7, <1>8, <1>9, <1>10, StepCases

(* An automatic mute only gets nearer and longer until it is given as        *)
(* announced, replaced by an administrator's or the player leaves, for any   *)
(* rules, delays and limits.                                                 *)
THEOREM AutomutesOnlyGrow == Spec => AutomutesGrow
<1> DEFINE Promise(p) ==
      chat[p].auto =>
         \/ p \notin present'
         \/ Grown(chat'[p], chat[p])
         \/ /\ ~chat'[p].auto /\ chat'[p].off
            /\ \/ chat[p].delay = 0 /\ chat'[p].left = chat[p].minutes
               \/ \E a \in Admins, t \in MuteMin..MuteMax : Mute(a, p, t)
<1>1. TypeOK /\ NoGhosts /\ [Next]_vars => [\A p \in Players : Promise(p)]_vars
  BY AutomuteStep
<1>2. Init => NoGhosts
  BY DEF Init, NoGhosts
<1> QED
  BY <1>1, <1>2, InitType, NextType, NextGhosts, PTL
     DEF Spec, AutomutesGrow, Grown

-----------------------------------------------------------------------------
(* The distance of messages.                                               *)

Interval == FloodParams.time_interval

\* The item of a player who spoke within the interval is there, and no older
\* than what he said.
Paced ==
  \A p \in Players :
    pace[p].since <= Interval =>
      flood[p] # NoItem /\ flood[p].age <= pace[p].since

\* An attempt leaves an item that is not older than the one it found, nor older
\* than the attempt, if it found none that counts (increase).
LEMMA IncreasedYounger ==
  ASSUME NEW i \in Items, NEW f \in Params
  PROVE  /\ Increased(i, f) # NoItem
         /\ IsExist(i, f.time_interval) => Increased(i, f).age <= i.age
         /\ ~IsExist(i, f.time_interval) => Increased(i, f).age = 0
<1> USE TimeOutsAssumption
<1>1. Increased(i, f) # NoItem
  <2>1. CASE IsExist(i, f.time_interval)
    <3>1. i \in [age : Ages, val : 1..MaxCount]
      BY <2>1 DEF IsExist, Items
    <3>2. CountUp(i.val) \in Nat /\ Penalty(CountUp(i.val), f) \in Nat
      BY <3>1 DEF CountUp, Penalty, Params
    <3>3. i.age - Penalty(CountUp(i.val), f) \in Int
      BY <3>1, <3>2 DEF Ages
    <3>4. Increased(i, f) \in [age : Int, val : Nat]
      BY <2>1, <3>2, <3>3 DEF Increased
    <3> QED
      BY <3>4
  <2>2. CASE ~IsExist(i, f.time_interval)
    <3>1. Increased(i, f) \in [age : Int, val : Nat]
      BY <2>2 DEF Increased, Inserted
    <3> QED
      BY <3>1
  <2> QED
    BY <2>1, <2>2
<1>2. IsExist(i, f.time_interval) => Increased(i, f).age <= i.age
  <2> SUFFICES ASSUME IsExist(i, f.time_interval)
               PROVE  Increased(i, f).age <= i.age
    OBVIOUS
  <2>1. i \in [age : Ages, val : 1..MaxCount]
    BY DEF IsExist, Items
  <2>2. Penalty(CountUp(i.val), f) \in Nat
    BY <2>1 DEF CountUp, Penalty, Params
  <2>3. Increased(i, f).age = i.age - Penalty(CountUp(i.val), f)
    BY DEF Increased
  <2> QED
    BY <2>1, <2>2, <2>3 DEF Ages
<1>3. ~IsExist(i, f.time_interval) => Increased(i, f).age = 0
  BY DEF Increased, Inserted
<1> QED
  BY <1>1, <1>2, <1>3

\* Counting an attempt of p or two keeps what is left of his last message, and
\* an accepted one starts it anew.
LEMMA CountingPaces ==
  ASSUME TypeOK, Paced, NEW p \in Players, NEW n, Counted(p, n)
  PROVE  /\ \A q \in Players \ {p} : flood'[q] = flood[q]
         /\ flood'[p] # NoItem
         /\ pace[p].since <= Interval => flood'[p].age <= pace[p].since
         /\ ~Flooding(p) /\ FloodParams.attemp_count = 1 =>
              flood'[p].age <= 0 /\ pace[p].since > Interval
<1> USE PlayerChatAssumption
<1> DEFINE i == flood[p]
           j == Increased(i, FloodParams)
           k == Increased(j, FloodParams)
<1>1. i \in Items /\ j \in Items /\ k \in Items
  BY IncreasedIsItem DEF TypeOK
<1>2. flood'[p] = j \/ flood'[p] = k
  BY DEF Counted, Times, TypeOK
<1>3. Interval \in Int /\ 0 <= Interval
  BY TimeOutsAssumption DEF Interval, Params
<1>4. j # NoItem /\ k # NoItem
  BY <1>1, IncreasedYounger
<1>5. /\ IsExist(i, Interval) => j.age <= i.age
      /\ ~IsExist(i, Interval) => j.age = 0
      /\ IsExist(j, Interval) => k.age <= j.age
      /\ ~IsExist(j, Interval) => k.age = 0
  BY <1>1, IncreasedYounger DEF Interval
<1>6. \A x \in Items : x # NoItem => x.age \in Int /\ x.val >= 1
  BY DEF Items, Ages
<1>7. IsExist(j, Interval)
  <2>1. IsExist(i, Interval) => i # NoItem /\ i.age \in Int /\ i.age <= Interval
    BY <1>1, <1>3, <1>6 DEF IsExist, IsTimeout
  <2> QED
    BY <1>1, <1>3, <1>4, <1>5, <1>6, <2>1 DEF IsExist, IsTimeout
<1>8. flood'[p].age <= j.age
  BY <1>1, <1>2, <1>4, <1>5, <1>6, <1>7
<1>9. pace[p].since \in Int
  BY TimeOutsAssumption DEF TypeOK, PaceRec
<1>10. ASSUME pace[p].since <= Interval
       PROVE  IsExist(i, Interval) /\ i.age <= pace[p].since
  BY <1>1, <1>3, <1>6, <1>9, <1>10 DEF Paced, IsExist, IsTimeout
<1>11. pace[p].since <= Interval => flood'[p].age <= pace[p].since
  <2>1. flood'[p].age \in Int /\ j.age \in Int
    BY <1>1, <1>2, <1>4, <1>6
  <2>2. IsExist(i, Interval) => i.age \in Int
    BY <1>1, <1>6 DEF IsExist
  <2> QED
    BY <1>5, <1>8, <1>9, <1>10, <2>1, <2>2
<1>12. ASSUME ~Flooding(p), FloodParams.attemp_count = 1
       PROVE  flood'[p].age <= 0 /\ pace[p].since > Interval
  <2>1. ~IsExist(i, Interval)
    BY <1>1, <1>6, <1>12 DEF Flooding, IsBlocked, IsExist, Interval
  <2>2. j.age = 0
    BY <1>5, <2>1
  <2> QED
    BY <1>3, <1>8, <1>9, <1>10, <2>1, <2>2
<1>13. \A q \in Players \ {p} : flood'[q] = flood[q]
  BY DEF Counted, TypeOK
<1> QED
  BY <1>2, <1>4, <1>11, <1>12, <1>13

\* The inductive invariant of the pace.
PaceInv == FloodParams.attemp_count = 1 => Paced /\ OneMessagePerInterval

LEMMA NextPaced == TypeOK /\ PaceInv /\ [Next]_vars => PaceInv'
<1> SUFFICES ASSUME TypeOK, Paced, OneMessagePerInterval, [Next]_vars,
                    FloodParams.attemp_count = 1
             PROVE  Paced' /\ OneMessagePerInterval'
  BY DEF PaceInv
<1> USE PlayerChatAssumption
<1>0. Interval \in Int /\ 0 <= Interval /\ Interval < MaxAge /\ MaxAge \in Int
  BY TimeOutsAssumption DEF Interval, Params
<1>1. \A p \in Players : /\ pace[p] \in PaceRec /\ pace[p].since \in Int
                         /\ pace[p].gap \in Int /\ pace[p].gap > Interval
                         /\ flood[p] \in Items
  BY TimeOutsAssumption DEF TypeOK, PaceRec, OneMessagePerInterval, Interval
<1>2. ASSUME UNCHANGED <<flood, pace>> PROVE Paced' /\ OneMessagePerInterval'
  BY <1>2 DEF Paced, OneMessagePerInterval
<1>3. ASSUME NEW p \in Players, Disconnect(p)
      PROVE  Paced' /\ OneMessagePerInterval'
  <2>1. pace'[p] = FreshPace /\ FreshPace.since > Interval /\ FreshPace.gap > Interval
    BY <1>0, <1>3 DEF Disconnect, TypeOK, FreshPace
  <2>2. \A q \in Players \ {p} : pace'[q] = pace[q] /\ flood'[q] = flood[q]
    BY <1>3 DEF Disconnect, TypeOK
  <2>3. FreshPace.since \in Int
    BY <1>0 DEF FreshPace
  <2> QED
    BY <1>0, <2>1, <2>2, <2>3 DEF Paced, OneMessagePerInterval, Interval
<1>4. ASSUME NEW p \in Players, NEW n, Accepted(p, n)
      PROVE  Paced' /\ OneMessagePerInterval'
  <2>1. ~Flooding(p) /\ Counted(p, n)
    BY <1>4 DEF Accepted
  <2>2. /\ \A q \in Players \ {p} : flood'[q] = flood[q]
        /\ flood'[p] # NoItem /\ flood'[p].age <= 0
        /\ pace[p].since > Interval
    BY <2>1, CountingPaces
  <2>3. \A q \in Players \ {p} : pace'[q] = pace[q]
    BY <1>4 DEF Accepted, TypeOK
  <2>4. pace'[p] = [since |-> 0, gap |-> Shorter(pace[p].gap, pace[p].since)]
    BY <1>4 DEF Accepted, TypeOK
  <2>5. pace'[p].since = 0 /\ pace'[p].gap > Interval
    <3>1. Shorter(pace[p].gap, pace[p].since) > Interval
      BY <1>1, <2>2 DEF Shorter
    <3>2. /\ pace'[p].since = 0
          /\ pace'[p].gap = Shorter(pace[p].gap, pace[p].since)
      BY <2>4
    <3> QED
      BY <3>1, <3>2
  <2> QED
    BY <2>2, <2>3, <2>5 DEF Paced, OneMessagePerInterval, Interval
<1>5. ASSUME NEW p \in Players, Speaks(p) PROVE Paced' /\ OneMessagePerInterval'
  <2>1. CASE Refused(p)
    <3>1. \A q \in Players \ {p} : flood'[q] = flood[q]
      BY <2>1 DEF Refused, TypeOK
    <3>2. flood'[p] = Increased(flood[p], FloodParams) /\ pace' = pace
      BY <2>1 DEF Refused, TypeOK
    <3>3. IsExist(flood[p], Interval)
      BY <2>1 DEF Refused, Flooding, IsBlocked, Interval
    <3>4. flood'[p] # NoItem /\ flood'[p].age <= flood[p].age
      BY <1>1, <3>2, <3>3, IncreasedYounger DEF Interval
    <3>5. flood'[p].age \in Int /\ flood[p].age \in Int
      BY <1>1, <3>2, <3>3, <3>4, IncreasedIsItem DEF Items, Ages, IsExist
    <3> QED
      BY <1>1, <3>1, <3>2, <3>4, <3>5 DEF Paced, OneMessagePerInterval
  <2>2. CASE RefusedShared(p)
    BY <1>2, <2>2 DEF RefusedShared
  <2>3. CASE Spoken(p)
    BY <1>4, <2>3 DEF Spoken
  <2> QED
    BY <1>5, <2>1, <2>2, <2>3, SpeaksCases
<1>6. ASSUME NEW p \in Players, AdminSay(p) PROVE Paced' /\ OneMessagePerInterval'
  <2>1. Counted(p, 1) /\ pace' = pace
    BY <1>6 DEF AdminSay
  <2> QED
    BY <2>1, CountingPaces DEF Paced, OneMessagePerInterval
<1>7. ASSUME Tick PROVE Paced' /\ OneMessagePerInterval'
  <2>1. ASSUME NEW p \in Players
        PROVE  /\ pace'[p].since = Older(pace[p].since) /\ pace'[p].gap = pace[p].gap
               /\ flood'[p] = Aged(flood[p])
    <3>1. pace'[p] = [pace[p] EXCEPT !.since = Older(@)] /\ flood'[p] = Aged(flood[p])
      BY <1>7 DEF Tick
    <3> QED
      BY <1>1, <3>1 DEF PaceRec
  <2>2. ASSUME NEW p \in Players, pace'[p].since <= Interval
        PROVE  flood'[p] # NoItem /\ flood'[p].age <= pace'[p].since
    <3>1. pace[p].since < MaxAge /\ pace'[p].since = pace[p].since + 1
      BY <1>0, <1>1, <2>1, <2>2 DEF Older
    <3>2. flood[p] # NoItem /\ flood[p].age <= pace[p].since
      BY <1>0, <1>1, <2>2, <3>1 DEF Paced
    <3>3. flood[p] \in [age : Ages, val : 1..MaxCount]
      BY <1>1, <3>2 DEF Items
    <3>4. Aged(flood[p]) = [flood[p] EXCEPT !.age = flood[p].age + 1]
      BY <1>0, <1>1, <3>1, <3>2, <3>3 DEF Aged, Older, Ages
    <3>5. Aged(flood[p]).age = flood[p].age + 1 /\ flood[p].age \in Int
      BY <3>3, <3>4 DEF Ages
    <3>6. Aged(flood[p]) \in [age : Int, val : Nat]
      BY TimeOutsAssumption, <3>3, <3>4, <3>5
    <3>7. Aged(flood[p]) # NoItem
      BY <3>6, TimeOutsAssumption
    <3>8. Aged(flood[p]).age <= pace[p].since + 1
      BY <1>1, <3>2, <3>5
    <3> QED
      BY <2>1, <3>1, <3>7, <3>8
  <2> QED
    BY <1>1, <2>1, <2>2 DEF Paced, OneMessagePerInterval, Interval
<1>8. CASE UNCHANGED vars
  BY <1>2, <1>8 DEF vars
<1> QED
  BY <1>2, <1>3, <1>5, <1>6, <1>7, <1>8, StepCases
     DEF Connect, Spawn, Timer1000, Timer5000, GroupChatAdd, SelfChatOff,
         PmDestinationSet, Ignore, Unmute, Mute

(* Two messages of a player are more than the interval of the flood control  *)
(* apart, for any parameters that block after one attempt, whichever ways he *)
(* speaks and however often he is refused in between (is_can_sent_msg).      *)
THEOREM MessagesApart == Spec => []OneMessagePerInterval
<1>1. Init => PaceInv
  BY TimeOutsAssumption, PlayerChatAssumption
     DEF Init, PaceInv, Paced, OneMessagePerInterval, FreshPace, Interval, Params
<1>2. PaceInv => OneMessagePerInterval
  BY DEF PaceInv, OneMessagePerInterval
<1> QED
  BY <1>1, <1>2, InitType, NextType, NextPaced, PTL DEF Spec
=============================================================================
