----------------------------- MODULE PlayerChat -----------------------------
(***************************************************************************)
(* The chat (player_chat.cpp, player_chat_automute_meaningless.cpp): who   *)
(* may write, the two counters against floods, mutes by administrators and *)
(* by the automatic rules, and the references players hold to each other   *)
(* (ignore lists, partners of private talks, group chats).                 *)
(*                                                                         *)
(* Every handler runs on the main thread, so it is one action.  A text is  *)
(* the number of lines it takes and what the automatic rules find in it,   *)
(* which may be anything.  Who a public message is shown to changes no     *)
(* state and is left out.  One unit of time serves floods and mutes alike; *)
(* what the chat is configured to stays as it is.                          *)
(***************************************************************************)
EXTENDS TimeOuts, FiniteSets

CONSTANTS
  Players,
  Admins,        \* players in the group "admin"
  Writers,       \* bound: players who write
  Social,        \* bound: players who use ignore lists, groups and partners
  Groups,        \* names of group chats
  NoGroup, NoOne,
  FloodParams,   \* antiflood
  SharedParams,  \* antiflood_shared
  BlockTime,     \* block_on_flood_max_time
  MuteMin, MuteMax,      \* mute_time_min, mute_time_max
  DelayMin, DelayMax,    \* auto_mute_delay_min, auto_mute_delay_max
  Penalties,     \* minutes the automatic rules may find a text worth
  Oldest         \* bound: penalties move no last update further than this

ASSUME PlayerChatAssumption ==
  /\ Admins \subseteq Players /\ Writers \subseteq Players
  /\ Social \subseteq Players
  /\ NoGroup \notin Groups /\ NoOne \notin Players
  /\ FloodParams \in Params /\ SharedParams \in Params
  /\ BlockTime \in Nat
  /\ MuteMin \in Nat \ {0} /\ MuteMax \in Nat /\ MuteMin < MuteMax
  /\ DelayMin \in Nat \ {0} /\ DelayMax \in Nat /\ DelayMin < DelayMax
  /\ Penalties \subseteq Nat \ {0}
  /\ Oldest \in Int

VARIABLES
  present,  \* players::players_holder
  blocked,  \* player::is_blocked
  chat,     \* player_chat_item
  flood,    \* player_chat::antiflood
  shared,   \* player_chat::antiflood_shared
  pace      \* history: time since the last message of a player that passed
            \* the flood control, and the shortest such time of the session

vars == <<present, blocked, chat, flood, shared, pace>>

ChatRec == [in_game : BOOLEAN, off : BOOLEAN, left : 0..MuteMax,
            auto : BOOLEAN, delay : 0..(DelayMax - 1), minutes : 0..MuteMax,
            ignores : SUBSET Players, dest : Players \cup {NoOne},
            group : Groups \cup {NoGroup}, self_off : BOOLEAN]
PaceRec == [since : 0..MaxAge, gap : 0..MaxAge]

FreshChat == [in_game |-> FALSE, off |-> FALSE, left |-> 0,
              auto |-> FALSE, delay |-> 0, minutes |-> 0,
              ignores |-> {}, dest |-> NoOne, group |-> NoGroup,
              self_off |-> FALSE]
FreshPace == [since |-> MaxAge, gap |-> MaxAge]

TypeOK ==
  /\ present \subseteq Players
  /\ blocked \subseteq Players
  /\ chat \in [Players -> ChatRec]
  /\ flood \in [Players -> Items]
  /\ shared \in [Players -> Items]
  /\ pace \in [Players -> PaceRec]

Init ==
  /\ present = {} /\ blocked = {}
  /\ chat = [p \in Players |-> FreshChat]
  /\ flood = [p \in Players |-> NoItem]
  /\ shared = [p \in Players |-> NoItem]
  /\ pace = [p \in Players |-> FreshPace]

\* process_cmd: commands of a blocked player are dropped.
Commands == present \ blocked

SelfOff(p) == chat[p].self_off /\ p \notin Admins

-----------------------------------------------------------------------------
(* Mutes.                                                                  *)

\* Mutant of ChatOff: an automatic mute stays pending under a mute.
ChatOffKeepsAuto(c, t) == [c EXCEPT !.off = TRUE, !.left = t]

\* do_chat_off
ChatOff(c, t) == [c EXCEPT !.auto = FALSE, !.off = TRUE, !.left = t]

Clamped(t) == IF t > MuteMax THEN MuteMax ELSE t

\* automute_set, d being the random delay
AutomuteSet(c, t, d) ==
  IF c.auto THEN [c EXCEPT !.minutes = Clamped(@ + t)]
  ELSE [c EXCEPT !.auto = TRUE, !.minutes = Clamped(t), !.delay = d]

\* What process_auto_mute_msg and then automute_meaningless may make of a text.
Judged(c) ==
  LET once(x) == {x} \cup {AutomuteSet(x, t, d) :
                             t \in Penalties, d \in DelayMin..(DelayMax - 1)}
  IN  UNION {once(x) : x \in once(c)}

\* automute_process
Timer1000(p) ==
  /\ p \in present
  /\ chat[p].auto /\ chat[p].delay = 0
  /\ chat' = [chat EXCEPT ![p] = ChatOff(@, @.minutes)]
  /\ UNCHANGED <<present, blocked, flood, shared, pace>>

\* Mutant of MuteOver: the end of a mute is never reached.
MuteOverNever(c) == c.left < 0

MuteOver(c) == c.left <= 0

\* do_recalc_chat
Timer5000(p) ==
  /\ p \in present
  /\ chat[p].off /\ MuteOver(chat[p])
  /\ chat' = [chat EXCEPT ![p].off = FALSE]
  /\ UNCHANGED <<present, blocked, flood, shared, pace>>

\* cmd_mute of administrator a
Mute(a, p, t) ==
  /\ a \in Admins \cap Commands /\ p \in present
  /\ t \in MuteMin..MuteMax
  /\ ~chat[p].off
  /\ chat' = [chat EXCEPT ![p] = ChatOff(@, t)]
  /\ UNCHANGED <<present, blocked, flood, shared, pace>>

\* cmd_unmute of administrator a
Unmute(a, p) ==
  /\ a \in Admins \cap Commands /\ p \in present
  /\ chat[p].off
  /\ chat' = [chat EXCEPT ![p].off = FALSE]
  /\ UNCHANGED <<present, blocked, flood, shared, pace>>

-----------------------------------------------------------------------------
(* Flood control.                                                          *)

Flooding(p)       == IsBlocked(flood[p], FloodParams.time_interval, FloodParams)
SharedFlooding(p) ==
  IsBlocked(shared[p], SharedParams.time_interval, SharedParams)

Times(f, i, n) == IF n = 2 THEN Increased(Increased(i, f), f)
                  ELSE Increased(i, f)

\* A player whose time-out has grown too long is blocked.
BlockIfLong(p, i, t) ==
  blocked' = IF t - i.age > BlockTime THEN blocked \cup {p} ELSE blocked

\* is_can_sent_msg counts one more attempt and refuses.
Refused(p) ==
  LET i == Increased(flood[p], FloodParams)
  IN  /\ Flooding(p)
      /\ i.age >= Oldest
      /\ flood' = [flood EXCEPT ![p] = i]
      /\ BlockIfLong(p, i, FloodParams.time_interval)
      /\ UNCHANGED <<present, chat, shared, pace>>

\* The same for the counter of the common chat, in on_text.
RefusedShared(p) ==
  LET i == Increased(shared[p], SharedParams)
  IN  /\ SharedFlooding(p)
      /\ i.age >= Oldest
      /\ shared' = [shared EXCEPT ![p] = i]
      /\ BlockIfLong(p, i, SharedParams.time_interval)
      /\ UNCHANGED <<present, chat, flood, pace>>

Shorter(a, b) == IF a < b THEN a ELSE b

\* Mutant of Counted: only the second line of a text counts.
CountedSecondLine(p, n) ==
  flood' = IF n = 2 THEN [flood EXCEPT ![p] = Increased(@, FloodParams)]
           ELSE flood

\* antiflood.increase for a text of n lines
Counted(p, n) ==
  LET i == Times(FloodParams, flood[p], n)
  IN  i.age >= Oldest /\ flood' = [flood EXCEPT ![p] = i]

\* antiflood_shared.increase likewise
CountedShared(p, n) ==
  LET i == Times(SharedParams, shared[p], n)
  IN  i.age >= Oldest /\ shared' = [shared EXCEPT ![p] = i]

\* A message of n lines that passes the flood control.
Accepted(p, n) ==
  /\ ~Flooding(p)
  /\ Counted(p, n)
  /\ pace' = [pace EXCEPT ![p] =
                [since |-> 0, gap |-> Shorter(@.gap, @.since)]]

MaySpeak(p) == p \in Writers /\ chat[p].in_game /\ ~chat[p].off

Judge(p) == \E c \in Judged(chat[p]) : chat' = [chat EXCEPT ![p] = c]

\* on_text of a text that is no command; a blocked player sees it alone
Text(p, n) ==
  /\ p \in present /\ MaySpeak(p)
  /\ \/ Refused(p)
     \/ /\ n > 0 /\ ~SelfOff(p) /\ ~Flooding(p)
        /\ \/ RefusedShared(p)
           \/ /\ ~SharedFlooding(p)
              /\ Accepted(p, n)
              /\ CountedShared(p, n)
              /\ Judge(p)
              /\ UNCHANGED <<present, blocked>>

\* cmd_close_chat
CloseChat(p, n) ==
  /\ p \in Commands /\ MaySpeak(p) /\ n > 0
  /\ \/ Refused(p)
     \/ /\ Accepted(p, n) /\ Judge(p)
        /\ UNCHANGED <<present, blocked, shared>>

\* cmd_report on player q
Report(p, q) ==
  /\ p \in Commands \ Admins /\ q \in present \ {p} /\ MaySpeak(p)
  /\ \/ Refused(p)
     \/ /\ Accepted(p, 1) /\ Judge(p)
        /\ UNCHANGED <<present, blocked, shared>>

\* cmd_group_chat
GroupChat(p) ==
  /\ p \in Commands /\ MaySpeak(p)
  /\ chat[p].group # NoGroup
  /\ \E q \in present \ {p} : chat[q].group = chat[p].group
  /\ \/ Refused(p)
     \/ /\ Accepted(p, 1) /\ Judge(p)
        /\ UNCHANGED <<present, blocked, shared>>

\* is_can_receive_msg_from of a private message; a sleeper's refusal changes
\* nothing and neither do the others
CanReceive(q, p) == chat[q].in_game /\ ~chat[q].off /\ p \notin chat[q].ignores

\* do_send_pm_message, which the automatic rules do not read
Private(p, q) ==
  /\ MaySpeak(p)
  /\ \/ Refused(p)
     \/ /\ CanReceive(q, p) /\ Accepted(p, 1)
        /\ UNCHANGED <<present, blocked, chat, shared>>

\* cmd_pm
Pm(p, q) == p \in Commands /\ q \in present \ {p} /\ Private(p, q)

\* cmd_pm_destination_chat
PmDestinationChat(p) ==
  p \in Commands /\ chat[p].dest # NoOne /\ Private(p, chat[p].dest)

\* cmd_admin_say: no mute and no flood control, but counted and judged
AdminSay(p) ==
  /\ p \in Admins \cap Commands \cap Writers
  /\ Counted(p, 1)
  /\ Judge(p)
  /\ UNCHANGED <<present, blocked, shared, pace>>

-----------------------------------------------------------------------------
(* What players keep about each other.                                     *)

\* cmd_pm_destination_set
PmDestinationSet(p, q) ==
  /\ p \in Commands \cap Social /\ q \in present \ {p}
  /\ chat' = [chat EXCEPT ![p].dest = q]
  /\ UNCHANGED <<present, blocked, flood, shared, pace>>

\* cmd_ignore
Ignore(p, q) ==
  /\ p \in Commands \cap Social /\ q \in present \ {p}
  /\ chat' = [chat EXCEPT ![p].ignores =
                IF q \in @ THEN @ \ {q} ELSE @ \cup {q}]
  /\ UNCHANGED <<present, blocked, flood, shared, pace>>

\* cmd_group_chat_add with a name, or without one
GroupChatAdd(p, g) ==
  /\ p \in Commands \cap Social
  /\ g # chat[p].group
  /\ chat' = [chat EXCEPT ![p].group = g]
  /\ UNCHANGED <<present, blocked, flood, shared, pace>>

\* cmd_chat_off
SelfChatOff(p) ==
  /\ p \in (Commands \cap Social) \ Admins
  /\ ~chat[p].off
  /\ chat' = [chat EXCEPT ![p].self_off = ~@]
  /\ UNCHANGED <<present, blocked, flood, shared, pace>>

-----------------------------------------------------------------------------
(* Sessions.                                                               *)

Connect(p) ==
  /\ p \notin present
  /\ present' = present \cup {p}
  /\ chat' = [chat EXCEPT ![p] = FreshChat]
  /\ UNCHANGED <<blocked, flood, shared, pace>>

\* on_spawn, only dispatched for players who are not blocked
Spawn(p) ==
  /\ p \in present \ blocked
  /\ ~chat[p].in_game
  /\ chat' = [chat EXCEPT ![p].in_game = TRUE]
  /\ UNCHANGED <<present, blocked, flood, shared, pace>>

\* Mutant of Without: partners of private talks are forgotten.
WithoutIgnored(c, p) == [c EXCEPT !.ignores = @ \ {p}]

\* What another player keeps of p when p leaves.
Without(c, p) == [c EXCEPT !.ignores = @ \ {p},
                           !.dest = IF @ = p THEN NoOne ELSE @]

\* on_disconnect of the item, then of the manager; the player is destroyed
Disconnect(p) ==
  /\ p \in present
  /\ present' = present \ {p}
  /\ blocked' = blocked \ {p}
  /\ chat' = [q \in Players |-> IF q = p THEN FreshChat
                                ELSE Without(chat[q], p)]
  /\ flood' = [flood EXCEPT ![p] = NoItem]
  /\ shared' = [shared EXCEPT ![p] = NoItem]
  /\ pace' = [pace EXCEPT ![p] = FreshPace]

Sooner(n) == IF n > 0 THEN n - 1 ELSE n

\* Time passes.
Tick ==
  /\ chat' = [p \in Players |-> [chat[p] EXCEPT !.left = Sooner(@),
                                                !.delay = Sooner(@)]]
  /\ flood' = [p \in Players |-> Aged(flood[p])]
  /\ shared' = [p \in Players |-> Aged(shared[p])]
  /\ pace' = [p \in Players |-> [pace[p] EXCEPT !.since = Older(@)]]
  /\ UNCHANGED <<present, blocked>>

Next ==
  \/ \E p \in Players :
       \/ Connect(p) \/ Spawn(p) \/ Disconnect(p)
       \/ Timer1000(p) \/ Timer5000(p)
       \/ \E n \in 0..2 : Text(p, n)
       \/ \E n \in 1..2 : CloseChat(p, n)
       \/ GroupChat(p) \/ PmDestinationChat(p) \/ AdminSay(p)
       \/ \E g \in Groups \cup {NoGroup} : GroupChatAdd(p, g)
       \/ SelfChatOff(p)
       \/ \E q \in Players :
            \/ Report(p, q) \/ Pm(p, q)
            \/ PmDestinationSet(p, q) \/ Ignore(p, q)
            \/ Unmute(p, q)
            \/ \E t \in MuteMin..MuteMax : Mute(p, q, t)
  \/ Tick

Spec == Init /\ [][Next]_vars

\* The clock runs and the timers of every player fire.
FairSpec ==
  /\ Spec /\ WF_vars(Tick)
  /\ \A p \in Players : WF_vars(Timer1000(p)) /\ WF_vars(Timer5000(p))

-----------------------------------------------------------------------------
(* The session of a player leaves nothing behind: whoever has the id next is *)
(* on nobody's ignore list and gets no private message meant for another one *)
(* (player_chat_item::on_disconnect against cmd_ignore, pm_destination_set). *)
NoGhosts ==
  \A p \in Players :
    /\ p \in present =>
         /\ chat[p].ignores \subseteq present \ {p}
         /\ chat[p].dest \in (present \ {p}) \cup {NoOne}
    /\ p \notin present => chat[p] = FreshChat /\ flood[p] = NoItem

\* Whoever is muted has no automatic mute pending, which would give the mute a
\* new end when it fires.  Administrators may: they speak while muted.
NonePending ==
  \A p \in Players \ Admins : chat[p].off => ~chat[p].auto

(* A mute holds: as long as its time has not come nothing but /unmute or     *)
(* leaving lifts it, and nothing moves its end (do_chat_off, automute_set,   *)
(* automute_process).  An administrator's own words may move the end of the  *)
(* mute he is under (cmd_admin_say asks for no permission).                  *)
MutesHold ==
  [][\A p \in Players \ Admins :
       chat[p].off /\ ~MuteOver(chat[p]) =>
         \/ p \notin present'
         \/ \E a \in Admins : Unmute(a, p)
         \/ chat'[p].off /\ chat'[p].left = chat[p].left
         \/ chat'[p].off /\ Tick]_vars

(* Whatever way a player speaks, common chat, private, in a group, close or  *)
(* a report, two messages of his that pass lie more than the interval apart: *)
(* no handler forgets to count, and no other counting frees him sooner, if   *)
(* one attempt is enough to block, as configure_pre sets it.                 *)
OneMessagePerInterval ==
  FloodParams.attemp_count = 1 =>
    \A p \in Players : pace[p].gap > FloodParams.time_interval

(* An automatic mute that is announced comes, unless the player is muted or  *)
(* leaves before, and every mute ends (automute_process, do_recalc_chat).    *)
MutesComeAndGo ==
  \A p \in Players \ Admins :
    /\ chat[p].auto ~> (chat[p].off \/ p \notin present)
    /\ chat[p].off ~> ~chat[p].off

-----------------------------------------------------------------------------
(* An automatic mute that was announced is only made worse: whatever is said *)
(* and whoever says it, it comes no later and gets no shorter, until it is   *)
(* given as announced, an administrator's mute replaces it or the player     *)
(* leaves (automute_set keeps the delay it found, automute_process).         *)
AutomutesGrow ==
  [][\A p \in Players :
       chat[p].auto =>
         \/ p \notin present'
         \/ /\ chat'[p].auto
            /\ chat'[p].delay <= chat[p].delay
            /\ chat'[p].minutes >= chat[p].minutes
         \/ /\ ~chat'[p].auto /\ chat'[p].off
            /\ \/ chat[p].delay = 0 /\ chat'[p].left = chat[p].minutes
               \/ \E a \in Admins, t \in MuteMin..MuteMax : Mute(a, p, t)]_vars

\* No administrator uses cmd_admin_say while he is muted himself.
MutedAdminsSilent == [][\A a \in Admins : AdminSay(a) => ~chat[a].off]_vars

(* The same promise as MutesHold, to administrators too: it is broken by     *)
(* cmd_admin_say of a muted administrator and by nothing else.               *)
EveryMuteHolds ==
  [][\A p \in Players :
       chat[p].off /\ ~MuteOver(chat[p]) =>
         \/ p \notin present'
         \/ \E a \in Admins : Unmute(a, p)
         \/ chat'[p].off /\ chat'[p].left = chat[p].left
         \/ chat'[p].off /\ Tick]_vars
=============================================================================
