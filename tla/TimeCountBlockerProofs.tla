----------------------- MODULE TimeCountBlockerProofs -----------------------
(***************************************************************************)
(* Proofs about the attempt counter, for every set of keys, every set of   *)
(* configurations and every bound.  The last two are about the observer of *)
(* MCBlocker: a block has its cause, and no more than two rounds pass in   *)
(* an interval, for every length of his two memories that holds as much.   *)
(***************************************************************************)
EXTENDS MCBlocker, TimeOutsProofs, SequenceTheorems, TLAPS

-----------------------------------------------------------------------------
\* Every step of the counter keeps its state well formed.
LEMMA TypeStep ==
  ASSUME TypeOK, [Next]_vars
  PROVE  TypeOK'
<1> USE TimeOutsAssumption, BlockerAssumption
<1>0. params \in Params /\ params.time_interval \in 0..(MaxAge - 1)
  BY DEF TypeOK, Params
<1>1. ASSUME NEW k \in Keys, Increase(k)
      PROVE  TypeOK'
  <2>1. Increased(items[k], params) \in Items
    BY <1>0, IncreasedIsItem DEF TypeOK
  <2> QED BY <1>0, <1>1, <2>1 DEF Increase, TypeOK
<1>2. ASSUME NEW k \in Keys, Erase(k)
      PROVE  TypeOK'
  BY <1>2 DEF Erase, TypeOK, Items
<1>3. CASE EraseTimeouts
  <2>1. \A k \in Keys : Kept(items[k], params.time_interval) \in Items
    BY <1>0, ItemsStayItems DEF TypeOK
  <2> QED BY <1>0, <1>3, <2>1 DEF EraseTimeouts, TypeOK
<1>4. ASSUME NEW p \in ParamSets, Configure(p)
      PROVE  TypeOK'
  BY <1>4 DEF Configure, TypeOK
<1>5. CASE Tick
  BY <1>5, ItemsStayItems DEF Tick, TypeOK
<1>6. CASE UNCHANGED vars
  BY <1>6 DEF vars, TypeOK
<1> QED BY <1>1, <1>2, <1>3, <1>4, <1>5, <1>6 DEF Next

(* The state of the counter stays well formed.                               *)
THEOREM TypeCorrect == Spec => []TypeOK
<1>1. Init => TypeOK
  BY BlockerAssumption, TimeOutsAssumption DEF Init, TypeOK, Items, Params
<1>2. TypeOK /\ [Next]_vars => TypeOK'
  BY TypeStep
<1> QED BY <1>1, <1>2, PTL DEF Spec

(* Sweeping the counter is invisible to those it counts: see SweepInvisible. *)
THEOREM SweepingIsInvisible == Spec => SweepInvisible
<1> DEFINE SameFor(k) ==
      /\ timeOut = params.time_interval => (Blocked(k)' <=> Blocked(k))
      /\ Increased(items'[k], params) = Increased(items[k], params)
<1>1. ASSUME TypeOK, EraseTimeouts
      PROVE  \A k \in Keys : SameFor(k)
  <2> SUFFICES ASSUME NEW k \in Keys
               PROVE  SameFor(k)
    OBVIOUS
  <2>1. items[k] \in Items /\ params \in Params
    BY <1>1, BlockerAssumption DEF TypeOK
  <2>2. items'[k] = Kept(items[k], params.time_interval)
    BY <1>1 DEF EraseTimeouts
  <2>3. timeOut' = params.time_interval /\ params' = params
    BY <1>1 DEF EraseTimeouts
  <2> QED BY <2>1, <2>2, <2>3, KeptCountsTheSame DEF Blocked
<1>2. TypeOK /\ [Next]_vars => [EraseTimeouts => \A k \in Keys : SameFor(k)]_vars
  BY <1>1
<1> QED BY <1>2, TypeCorrect, PTL DEF Spec, SweepInvisible

-----------------------------------------------------------------------------
(* The observer: whoever is blocked made the attempts himself.               *)

\* What the observer remembers is well formed.
HistTypeOK == made \in Seq(0..HistMax) /\ charged \in 0..HistMax

\* Of the attempts an item counts, those the observer remembers are no older
\* than the item, were it not for its penalties.
Cause ==
  items[Seen] # NoItem =>
    LET i == items[Seen]
        n == Min2(i.val, MadeCap)
    IN  /\ Len(made) >= n
        /\ i.age < MaxAge =>
             \A j \in 1..n : charged = HistMax \/ made[j] <= i.age + charged

ObserverInv == TypeOK /\ HistTypeOK /\ Cause

vars2 == <<vars, histVars>>

\* A step of the counter under observation is a step of the counter.
LEMMA ObservedStep ==
  ASSUME [MCNext]_vars2
  PROVE  [Next]_vars
BY DEF MCNext, HistIncrease, HistErase, HistSweep, HistConfigure, HistTick,
       Next, vars2

\* The number of attempts remembered is at least one.
LEMMA Remembers == TypeOK => MadeCap >= 1 /\ MadeCap \in Nat
BY ObserverAssumption, BlockerAssumption, TimeOutsAssumption DEF TypeOK, Params

\* The latest attempt comes first, and the oldest may be forgotten.
LEMMA NotedRecalls ==
  ASSUME NEW A, 0 \in A, NEW s \in Seq(A), NEW cap \in Nat \ {0}
  PROVE  /\ Noted(s, cap) \in Seq(A)
         /\ Len(Noted(s, cap)) = Min2(cap, Len(s) + 1)
         /\ Noted(s, cap)[1] = 0
         /\ \A j \in 2..Len(Noted(s, cap)) : Noted(s, cap)[j] = s[j - 1]
<1> DEFINE all == << 0 >> \o s
           n == Min2(cap, Len(s) + 1)
<1>1. Len(s) \in Nat
  OBVIOUS
<1>2. /\ all \in Seq(A) /\ Len(all) = Len(s) + 1
      /\ all[1] = 0 /\ \A j \in 2..Len(all) : all[j] = s[j - 1]
  BY <1>1
<1>3. n \in Nat /\ 1 <= n /\ n <= Len(all)
  BY <1>1, <1>2 DEF Min2
<1> HIDE DEF all, n
<1>4. /\ SubSeq(all, 1, n) \in Seq(A)
      /\ Len(SubSeq(all, 1, n)) = n
      /\ \A j \in 1..n : SubSeq(all, 1, n)[j] = all[j]
  <2>0. \A j \in 1..n : j \in 1..Len(all)
    BY <1>1, <1>2, <1>3
  <2>1. 1 \in Int /\ n \in Int /\ \A j \in 1..n : all[j] \in A
    <3>1. \A j \in 1..Len(all) : all[j] \in A
      BY <1>2, ElementOfSeq, Zenon
    <3> QED BY <1>3, <2>0, <3>1
  <2>2. /\ SubSeq(all, 1, n) \in Seq(A)
        /\ Len(SubSeq(all, 1, n)) = IF 1 <= n THEN n - 1 + 1 ELSE 0
        /\ \A j \in 1..(n - 1 + 1) : SubSeq(all, 1, n)[j] = all[1 + j - 1]
    BY <2>1, SubSeqProperties
  <2> QED BY <1>3, <2>2
<1>5. Noted(s, cap) = SubSeq(all, 1, n)
  BY DEF Noted, all, n
<1> HIDE DEF Noted
<1>6. /\ Noted(s, cap) \in Seq(A) /\ Len(Noted(s, cap)) = n
      /\ Noted(s, cap)[1] = 0
      /\ \A j \in 2..Len(Noted(s, cap)) : Noted(s, cap)[j] = s[j - 1]
  <2>1. /\ Noted(s, cap) \in Seq(A) /\ Len(Noted(s, cap)) = n
        /\ \A j \in 1..n : Noted(s, cap)[j] = all[j]
    BY <1>4, <1>5
  <2>2. Noted(s, cap)[1] = 0
    BY <1>2, <1>3, <2>1
  <2>3. \A j \in 2..n : j \in 1..n /\ j \in 2..Len(all)
    BY <1>1, <1>2, <1>3
  <2> QED BY <1>2, <2>1, <2>2, <2>3
<1> QED BY <1>6 DEF n

\* An attempt makes the item's cause one attempt longer, or starts a new one.
LEMMA IncreaseCause ==
  ASSUME ObserverInv, TypeOK', HistIncrease(Seen)
  PROVE  HistTypeOK' /\ Cause'
<1> DEFINE i == items[Seen]
           j == items'[Seen]
<1>1. /\ TypeOK /\ HistTypeOK /\ Cause /\ Seen \in Keys /\ params \in Params
      /\ params.time_interval \in 0..(MaxAge - 1)
      /\ i \in Items /\ HistMax \in Nat /\ MaxAge \in Nat \ {0} /\ MaxCount \in Nat \ {0}
  BY ObserverAssumption, BlockerAssumption, TimeOutsAssumption
     DEF ObserverInv, TypeOK, Params
<1>2. j = Increased(i, params)
  BY <1>1 DEF HistIncrease, Increase, TypeOK
<1>3. /\ made' \in Seq(0..HistMax)
      /\ Len(made') = Min2(MadeCap, Len(made) + 1)
      /\ made'[1] = 0
      /\ \A x \in 2..Len(made') : made'[x] = made[x - 1]
  <2>1. made \in Seq(0..HistMax) /\ 0 \in 0..HistMax /\ MadeCap \in Nat \ {0}
    BY <1>1, Remembers DEF HistTypeOK
  <2>2. made' = Noted(made, MadeCap)
    BY DEF HistIncrease
  <2> QED BY <2>1, <2>2, NotedRecalls
<1>4. /\ MadeCap >= 1 /\ MadeCap \in Nat /\ Len(made) \in Nat
      /\ \A x \in 1..Len(made) : made[x] \in 0..HistMax
      /\ charged \in 0..HistMax
  BY <1>1, Remembers DEF HistTypeOK
<1>5. CASE ~IsExist(i, params.time_interval)
  <2>1. j = [age |-> 0, val |-> 1] /\ charged' = 0
    BY <1>2, <1>5 DEF Increased, Inserted, HistIncrease
  <2>2. Min2(j.val, MadeCap) = 1
    BY <1>4, <2>1 DEF Min2
  <2>3. Len(made') >= 1
    BY <1>3, <1>4 DEF Min2
  <2> QED BY <1>1, <1>3, <2>1, <2>2, <2>3 DEF HistTypeOK, Cause
<1>6. CASE IsExist(i, params.time_interval)
  <2> DEFINE n == CountUp(i.val)
             f == Penalty(n, params)
             k == Min2(i.val, MadeCap)
             l == Min2(n, MadeCap)
  <2>1. /\ i # NoItem /\ i.age \in Int /\ i.age < MaxAge
        /\ i.val \in 1..MaxCount
    BY <1>1, <1>6 DEF IsExist, IsTimeout, Items, Ages
  <2>2. n \in Nat /\ n >= 1 /\ n <= i.val + 1 /\ f \in Nat
    BY <1>1, <2>1 DEF CountUp, Penalty, Params
  <2>3. j = [age |-> i.age - f, val |-> n]
    BY <1>2, <1>6 DEF Increased
  <2>4. charged' = Min2(HistMax, charged + i.age - j.age)
    BY <1>6 DEF HistIncrease
  <2> HIDE DEF n, f
  <2>5. j.age = i.age - f /\ j.val = n
    BY <2>3
  <2>6. charged' = Min2(HistMax, charged + f)
    BY <1>4, <2>1, <2>2, <2>4, <2>5
  <2>7. Len(made) >= k /\ \A x \in 1..k : charged = HistMax \/ made[x] <= i.age + charged
    BY <1>1, <2>1 DEF Cause
  <2>8. k \in Nat /\ k >= 1 /\ l \in Nat /\ l <= k + 1
    BY <1>4, <2>1, <2>2 DEF Min2
  <2>9. charged' = HistMax \/ (charged' = charged + f /\ charged # HistMax)
    BY <1>1, <1>4, <2>2, <2>6 DEF Min2
  <2>10. charged' \in 0..HistMax
    BY <1>1, <1>4, <2>2, <2>6 DEF Min2
  <2>11. Len(made') >= l
    BY <1>3, <1>4, <2>1, <2>2, <2>7 DEF Min2
  <2>12. ASSUME NEW x \in 1..l
         PROVE  charged' = HistMax \/ made'[x] <= j.age + charged'
    <3>1. SUFFICES ASSUME charged' = charged + f, charged # HistMax
                   PROVE  made'[x] <= i.age + charged
      BY <1>4, <2>1, <2>2, <2>5, <2>9
    <3>2. CASE x = 1
      <4>1. 1 \in 1..k /\ 1 \in 1..Len(made)
        BY <1>4, <2>7, <2>8
      <4>2. made[1] <= i.age + charged /\ made[1] \in 0..HistMax
        BY <1>4, <2>7, <3>1, <4>1
      <4> QED BY <1>1, <1>3, <1>4, <2>1, <3>2, <4>2
    <3>3. CASE x # 1
      <4>1. x \in 2..Len(made') /\ x - 1 \in 1..k
        BY <1>3, <1>4, <2>8, <2>11, <3>3 DEF Min2
      <4> QED BY <1>3, <2>7, <3>1, <4>1
    <3> QED BY <3>2, <3>3
  <2>13. Len(made') >= Min2(j.val, MadeCap)
         /\ \A x \in 1..Min2(j.val, MadeCap) :
              charged' = HistMax \/ made'[x] <= j.age + charged'
    BY <2>5, <2>11, <2>12
  <2> HIDE DEF j
  <2>14. Cause'
    BY <2>13 DEF Cause, j
  <2> QED BY <1>3, <2>10, <2>14 DEF HistTypeOK
<1> QED BY <1>5, <1>6

\* Time makes the item and the attempts older alike.
LEMMA TickCause ==
  ASSUME ObserverInv, HistTick
  PROVE  HistTypeOK' /\ Cause'
<1> DEFINE i == items[Seen]
<1>1. /\ TypeOK /\ HistTypeOK /\ Cause /\ Seen \in Keys
      /\ i \in Items /\ HistMax \in Nat /\ MaxAge \in Nat \ {0} /\ MadeCap \in Nat
  BY ObserverAssumption, TimeOutsAssumption DEF ObserverInv, TypeOK
<1>2. /\ items'[Seen] = Aged(i) /\ charged' = charged
      /\ made' = [j \in 1..Len(made) |-> Min2(HistMax, made[j] + 1)]
  BY <1>1 DEF HistTick, Tick
<1>3. /\ Len(made) \in Nat /\ charged \in 0..HistMax
      /\ \A j \in 1..Len(made) : made[j] \in 0..HistMax
  BY <1>1 DEF HistTypeOK
<1>4. \A j \in 1..Len(made) : Min2(HistMax, made[j] + 1) \in 0..HistMax
                              /\ Min2(HistMax, made[j] + 1) <= made[j] + 1
  BY <1>1, <1>3 DEF Min2
<1>5. made' \in Seq(0..HistMax) /\ Len(made') = Len(made)
  BY <1>2, <1>3, <1>4
<1>6. Cause'
  <2>1. CASE i = NoItem
    BY <1>2, <2>1 DEF Cause, Aged
  <2>2. CASE i # NoItem
    <3>1. i.age \in Int /\ i.age <= MaxAge /\ i.val \in Nat
      BY <1>1, <2>2, TimeOutsAssumption DEF Items, Ages
    <3>2. /\ items'[Seen] # NoItem => items'[Seen].val = i.val
          /\ items'[Seen].age = Older(i.age)
      BY <1>1, <1>2, <2>2 DEF Aged, Items
    <3> DEFINE n == Min2(i.val, MadeCap)
    <3>3. n \in Nat /\ Len(made) >= n
      BY <1>1, <2>2, <3>1 DEF Cause, Min2
    <3>4. ASSUME Older(i.age) < MaxAge, NEW j \in 1..n
          PROVE  charged = HistMax \/ made'[j] <= Older(i.age) + charged
      <4>1. i.age < MaxAge /\ Older(i.age) = i.age + 1
        BY <1>1, <3>1, <3>4 DEF Older
      <4>2. charged = HistMax \/ made[j] <= i.age + charged
        BY <1>1, <2>2, <4>1 DEF Cause
      <4>3. made'[j] <= made[j] + 1 /\ made'[j] \in Int /\ made[j] \in Int
        BY <1>2, <1>3, <1>4, <3>3
      <4> QED BY <1>3, <3>1, <4>1, <4>2, <4>3
    <3> QED BY <1>2, <1>5, <3>2, <3>3, <3>4 DEF Cause
  <2> QED BY <2>1, <2>2
<1> QED BY <1>2, <1>3, <1>5, <1>6 DEF HistTypeOK

\* Every step under observation keeps the cause.
LEMMA ObserverStep ==
  ASSUME ObserverInv, [MCNext]_vars2
  PROVE  ObserverInv'
<1>1. TypeOK'
  BY ObservedStep, TypeStep DEF ObserverInv
<1> DEFINE Goal == HistTypeOK' /\ Cause'
<1>0. Seen \in Keys /\ TypeOK /\ HistTypeOK /\ Cause
  BY ObserverAssumption DEF ObserverInv
<1>s. ASSUME items'[Seen] \in {items[Seen], NoItem},
             made' = made, charged' = charged
      PROVE  Goal
  BY <1>0, <1>s DEF HistTypeOK, Cause
<1>2. ASSUME NEW k \in Keys, HistIncrease(k)
      PROVE  Goal
  <2>1. CASE k = Seen
    BY <1>1, <1>2, <2>1, IncreaseCause
  <2>2. CASE k # Seen
    BY <1>0, <1>2, <1>s, <2>2 DEF HistIncrease, Increase, histVars, TypeOK
  <2> QED BY <2>1, <2>2
<1>3. ASSUME NEW k \in Keys, HistErase(k)
      PROVE  Goal
  <2>1. CASE k = Seen
    <3>1. items'[Seen] = NoItem /\ charged' = 0 /\ made' = made
      BY <1>0, <1>3, <2>1 DEF HistErase, Erase, TypeOK
    <3> QED BY <1>0, <3>1, ObserverAssumption DEF HistTypeOK, Cause
  <2>2. CASE k # Seen
    BY <1>0, <1>3, <1>s, <2>2 DEF HistErase, Erase, histVars, TypeOK
  <2> QED BY <2>1, <2>2
<1>4. ASSUME HistSweep
      PROVE  Goal
  BY <1>0, <1>4, <1>s DEF HistSweep, EraseTimeouts, Kept, histVars
<1>5. ASSUME NEW p \in ParamSets, HistConfigure(p)
      PROVE  Goal
  BY <1>5, <1>s DEF HistConfigure, Configure
<1>6. ASSUME HistTick
      PROVE  Goal
  BY <1>6, TickCause
<1>7. ASSUME UNCHANGED vars2
      PROVE  Goal
  BY <1>7, <1>s DEF vars2, vars, histVars
<1> QED
  BY <1>1, <1>2, <1>3, <1>4, <1>5, <1>6, <1>7 DEF MCNext, ObserverInv

\* A block is never taken for what somebody else did, for what is long past, or
\* for a configuration that has changed since: see BlockedHasCause.
THEOREM BlocksAreEarned == MCSpec => []BlockedHasCause
<1>1. HistInit => ObserverInv
  <2> SUFFICES ASSUME HistInit
               PROVE  ObserverInv
    OBVIOUS
  <2>1. TypeOK
    BY BlockerAssumption, TimeOutsAssumption
       DEF HistInit, Init, TypeOK, Items, Params
  <2>2. HistTypeOK /\ Cause
    BY ObserverAssumption DEF HistInit, Init, HistTypeOK, Cause
  <2> QED BY <2>1, <2>2 DEF ObserverInv
<1>2. ObserverInv /\ [MCNext]_vars2 => ObserverInv'
  BY ObserverStep
<1>3. ObserverInv => BlockedHasCause
  <2> SUFFICES ASSUME ObserverInv, Blocked(Seen)
               PROVE  /\ Len(made) >= params.attemp_count
                      /\ made[params.attemp_count] <= timeOut + charged
    BY DEF BlockedHasCause
  <2> DEFINE i == items[Seen]
             a == params.attemp_count
  <2>1. /\ i # NoItem /\ i.age <= timeOut /\ i.val >= a
        /\ i.age \in Int /\ i.val \in Nat
        /\ timeOut \in Int /\ timeOut < MaxAge /\ timeOut >= 0
        /\ a \in 1..MaxCount /\ a <= MadeCap /\ MadeCap \in Nat
        /\ HistMax \in Nat /\ MaxAge \in Nat
    BY ObserverAssumption, BlockerAssumption, TimeOutsAssumption
       DEF ObserverInv, TypeOK, Blocked, IsBlocked, IsExist, IsTimeout, Items,
           Ages, Params
  <2> HIDE DEF i, a
  <2>2. a \in 1..Min2(i.val, MadeCap) /\ i.age < MaxAge
    BY <2>1 DEF Min2
  <2>3. /\ Len(made) >= Min2(i.val, MadeCap)
        /\ charged = HistMax \/ made[a] <= i.age + charged
    BY <2>1, <2>2 DEF ObserverInv, Cause, i
  <2>4. Len(made) >= a /\ Len(made) \in Nat
    BY <2>1, <2>2, <2>3 DEF ObserverInv, HistTypeOK, Min2
  <2>5. made[a] \in 0..HistMax /\ charged \in 0..HistMax
    BY <2>1, <2>4 DEF ObserverInv, HistTypeOK
  <2> QED BY <2>1, <2>3, <2>4, <2>5 DEF a
<1> QED
  BY <1>1, <1>2, <1>3, PTL DEF MCSpec, vars2

-----------------------------------------------------------------------------
(* How many attempts get through.  The attempts let through are counted in   *)
(* rounds: a round starts with the attempt that starts the item, and while   *)
(* the item lives it has let through no more than it counts.                 *)

\* Every attempt let through before the present round is as old as its item,
\* and of those before it only a round may lie within the interval; once the
\* item is too old, only a round is left.  While the copy of the interval is
\* not the configured one nothing has been let through under the parameters.
Rounds ==
  LET i == items[Seen]
      a == params.attemp_count
      T == params.time_interval
      n == Len(passed)
  IN  /\ timeOut # T => passed = <<>>
      /\ ~IsExist(i, T) => \A j \in (a + 1)..n : passed[j] > T
      /\ IsExist(i, T) =>
           \E m \in 0..a :
             /\ m <= i.val
             /\ \A j \in (m + 1)..n : passed[j] >= i.age
             /\ \A j \in (m + a + 1)..n : passed[j] > T

PassInv == TypeOK /\ passed \in Seq(0..MaxAge) /\ Rounds

\* The configured parameters, and what the observer remembers of passes.
LEMMA PassTypes ==
  ASSUME PassInv
  PROVE  /\ Seen \in Keys /\ items[Seen] \in Items
         /\ MaxAge \in Nat \ {0} /\ MaxCount \in Nat \ {0}
         /\ PassCap \in Nat \ {0}
         /\ params \in Params
         /\ params.attemp_count \in 1..MaxCount
         /\ params.time_interval \in 0..(MaxAge - 1)
         /\ Len(passed) \in Nat
         /\ \A j \in 1..Len(passed) : passed[j] \in 0..MaxAge
<1>1. /\ Seen \in Keys /\ items[Seen] \in Items
      /\ MaxAge \in Nat \ {0} /\ MaxCount \in Nat \ {0}
      /\ PassCap \in Nat \ {0}
      /\ params \in Params
      /\ passed \in Seq(0..MaxAge)
  BY ObserverAssumption, BlockerAssumption, TimeOutsAssumption
     DEF PassInv, TypeOK
<1>2. \A j \in 1..Len(passed) : passed[j] \in 0..MaxAge
  BY <1>1, ElementOfSeq, Zenon
<1> QED BY <1>1, <1>2 DEF Params

\* Where nothing has been let through there is nothing to count.
LEMMA NoRounds ==
  ASSUME TypeOK', passed' = <<>>
  PROVE  Rounds'
<1>1. /\ params.attemp_count' \in Nat /\ Seen \in Keys
      /\ items'[Seen] \in Items /\ Len(passed') = 0
  BY ObserverAssumption, BlockerAssumption, TimeOutsAssumption DEF TypeOK, Params
<1>2. \A x \in Nat : (x + 1)..Len(passed') = {}
  BY <1>1
<1>3. IsExist(items'[Seen], params.time_interval') => 0 <= items'[Seen].val
  BY <1>1, TimeOutsAssumption DEF IsExist, Items
<1>4. 0 \in 0..params.attemp_count' /\ 0 + params.attemp_count' = params.attemp_count'
  BY <1>1
<1> QED BY <1>1, <1>2, <1>3, <1>4 DEF Rounds

\* An attempt that is let through belongs to the round of its item, or starts
\* the next round; one that is not leaves the round as it was.
LEMMA IncreaseRounds ==
  ASSUME PassInv, TypeOK', HistIncrease(Seen)
  PROVE  passed' \in Seq(0..MaxAge) /\ Rounds'
<1> DEFINE i == items[Seen]
           j == items'[Seen]
           a == params.attemp_count
           T == params.time_interval
<1>1. /\ TypeOK /\ passed \in Seq(0..MaxAge) /\ Rounds
      /\ Seen \in Keys /\ i \in Items
      /\ MaxAge \in Nat \ {0} /\ MaxCount \in Nat \ {0}
      /\ a \in 1..MaxCount /\ T \in 0..(MaxAge - 1)
      /\ Len(passed) \in Nat
      /\ \A x \in 1..Len(passed) : passed[x] \in 0..MaxAge
      /\ PassCap \in Nat \ {0} /\ params \in Params
  BY PassTypes DEF PassInv
<1>2. /\ j = Increased(i, params) /\ params' = params /\ timeOut' = T
  BY <1>1 DEF HistIncrease, Increase, TypeOK
<1>3. CASE Blocked(Seen)
  <2>1. passed' = passed
    BY <1>3 DEF HistIncrease
  <2>2. CASE timeOut # T
    BY <1>1, <2>1, <2>2, NoRounds DEF Rounds
  <2>3. CASE timeOut = T
    <3>1. IsExist(i, T) /\ i # NoItem /\ i.age \in Int /\ i.age <= T
          /\ i.val \in 1..MaxCount
      BY <1>1, <1>3, <2>3 DEF Blocked, IsBlocked, IsExist, IsTimeout, Items, Ages
    <3>2. PICK f \in Nat : j.age = i.age - f /\ j.val >= i.val /\ j # NoItem
                           /\ j.val \in Nat
      <4>1. CountUp(i.val) \in Nat /\ CountUp(i.val) >= i.val
        BY <1>1, <3>1 DEF CountUp
      <4>2. Penalty(CountUp(i.val), params) \in Nat
        BY <1>1, <4>1 DEF Penalty, Params
      <4>3. j = [age |-> i.age - Penalty(CountUp(i.val), params),
                 val |-> CountUp(i.val)]
        BY <1>2, <3>1 DEF Increased
      <4>4. j # NoItem
        BY <3>1, <4>1, <4>2, <4>3, TimeOutsAssumption
      <4> QED BY <4>1, <4>2, <4>3, <4>4
    <3>3. PICK m \in 0..a :
             /\ m <= i.val
             /\ \A x \in (m + 1)..Len(passed) : passed[x] >= i.age
             /\ \A x \in (m + a + 1)..Len(passed) : passed[x] > T
      BY <1>1, <3>1 DEF Rounds
    <3>4. m <= j.val
      BY <1>1, <3>1, <3>2, <3>3
    <3>5. \A x \in (m + 1)..Len(passed) : passed[x] >= j.age
      <4>1. \A x \in (m + 1)..Len(passed) : passed[x] \in Int
        BY <1>1, <3>3
      <4>2. j.age \in Int /\ j.age <= i.age
        BY <3>1, <3>2
      <4> HIDE DEF i, j
      <4> QED BY <3>1, <3>3, <4>1, <4>2
    <3>6. IsExist(j, T)
      BY <1>1, <3>1, <3>2 DEF IsExist, IsTimeout
    <3> QED BY <1>1, <1>2, <2>1, <3>3, <3>4, <3>5, <3>6 DEF Rounds
  <2> QED BY <1>1, <2>1, <2>2, <2>3
<1>4. CASE ~Blocked(Seen)
  <2>1. /\ passed' \in Seq(0..MaxAge)
        /\ Len(passed') = Min2(PassCap, Len(passed) + 1)
        /\ passed'[1] = 0
        /\ \A x \in 2..Len(passed') : passed'[x] = passed[x - 1]
    <3>1. passed' = Noted(passed, PassCap) /\ 0 \in 0..MaxAge
      BY <1>1, <1>4 DEF HistIncrease
    <3> QED BY <1>1, <3>1, NotedRecalls
  <2>2. Len(passed') \in Nat /\ Len(passed') <= Len(passed) + 1
    BY <1>1, <2>1 DEF Min2
  <2>3. CASE ~IsExist(i, T)
    <3>1. j.age = 0 /\ j.val = 1 /\ IsExist(j, T)
      <4>1. j = [age |-> 0, val |-> 1] /\ j # NoItem
        BY <1>2, <2>3, TimeOutsAssumption DEF Increased, Inserted
      <4> QED BY <1>1, <4>1 DEF IsExist, IsTimeout
    <3>2. \A x \in (1 + 1)..Len(passed') : passed'[x] >= j.age
      <4>1. \A x \in (1 + 1)..Len(passed') : x - 1 \in 1..Len(passed)
        BY <1>1, <2>2
      <4> QED BY <1>1, <2>1, <3>1, <4>1
    <3>3. \A x \in (1 + a + 1)..Len(passed') : passed'[x] > T
      <4>1. \A x \in (1 + a + 1)..Len(passed') :
               x \in 2..Len(passed') /\ x - 1 \in (a + 1)..Len(passed)
        BY <1>1, <2>2
      <4> QED BY <1>1, <2>1, <2>3, <4>1 DEF Rounds
    <3>4. 1 \in 0..a /\ 1 <= j.val
      BY <1>1, <3>1
    <3> QED BY <1>2, <2>1, <3>1, <3>2, <3>3, <3>4 DEF Rounds
  <2>4. CASE IsExist(i, T) /\ timeOut = T
    <3>1. i # NoItem /\ i.age \in Int /\ i.age <= T
          /\ i.val \in 1..MaxCount /\ i.val < a
      BY <1>1, <1>4, <2>4 DEF Blocked, IsBlocked, IsExist, IsTimeout, Items, Ages
    <3>2. PICK f \in Nat : j.age = i.age - f /\ j.val = i.val + 1 /\ j # NoItem
      <4>1. CountUp(i.val) = i.val + 1
        BY <1>1, <3>1 DEF CountUp
      <4>2. Penalty(i.val + 1, params) \in Nat
        BY <1>1, <3>1 DEF Penalty, Params
      <4>3. j = [age |-> i.age - Penalty(i.val + 1, params), val |-> i.val + 1]
        BY <1>2, <2>4, <4>1 DEF Increased
      <4>4. j # NoItem
        BY <3>1, <4>2, <4>3, TimeOutsAssumption
      <4> QED BY <4>2, <4>3, <4>4
    <3>3. PICK m \in 0..a :
             /\ m <= i.val
             /\ \A x \in (m + 1)..Len(passed) : passed[x] >= i.age
             /\ \A x \in (m + a + 1)..Len(passed) : passed[x] > T
      BY <1>1, <2>4 DEF Rounds
    <3>4. m + 1 \in 0..a /\ m + 1 <= j.val
      BY <1>1, <3>1, <3>2, <3>3
    <3>5. \A x \in ((m + 1) + 1)..Len(passed') : passed'[x] >= j.age
      <4>1. \A x \in ((m + 1) + 1)..Len(passed') :
               /\ x \in 2..Len(passed') /\ x - 1 \in (m + 1)..Len(passed)
               /\ x - 1 \in 1..Len(passed)
        BY <1>1, <2>2, <3>3
      <4>2. \A x \in ((m + 1) + 1)..Len(passed') :
               passed'[x] >= i.age /\ passed'[x] \in Int
        BY <1>1, <2>1, <3>3, <4>1
      <4>3. j.age \in Int /\ j.age <= i.age
        BY <3>1, <3>2
      <4> HIDE DEF i, j
      <4> QED BY <3>1, <4>2, <4>3
    <3>6. \A x \in ((m + 1) + a + 1)..Len(passed') : passed'[x] > T
      <4>0. /\ m \in Nat /\ a \in Nat /\ Len(passed) \in Nat
            /\ Len(passed') \in Nat /\ Len(passed') <= Len(passed) + 1
        BY <1>1, <2>2, <3>3
      <4>1. \A x \in ((m + 1) + a + 1)..Len(passed') :
               x \in 2..Len(passed') /\ x - 1 \in (m + a + 1)..Len(passed)
        <5> HIDE DEF a
        <5> QED BY <4>0
      <4> QED BY <1>1, <2>1, <3>3, <4>1
    <3>7. IsExist(j, T)
      BY <1>1, <3>1, <3>2 DEF IsExist, IsTimeout
    <3> QED BY <1>2, <2>1, <3>4, <3>5, <3>6, <3>7 DEF Rounds
  <2>5. CASE IsExist(i, T) /\ timeOut # T
    <3>1. passed = <<>>
      BY <1>1, <2>5 DEF Rounds
    <3>2. Len(passed') <= 1
      BY <2>2, <3>1
    <3>3. j # NoItem /\ j.val \in Nat /\ j.val >= 1 /\ IsExist(j, T)
      <4>1. /\ i # NoItem /\ i.age \in Int /\ i.age <= T /\ i.val \in 1..MaxCount
        BY <1>1, <2>5 DEF IsExist, IsTimeout, Items, Ages
      <4>2. CountUp(i.val) \in Nat /\ CountUp(i.val) >= 1
        BY <1>1, <4>1 DEF CountUp
      <4>3. Penalty(CountUp(i.val), params) \in Nat
        BY <1>1, <4>2 DEF Penalty, Params
      <4>4. j = [age |-> i.age - Penalty(CountUp(i.val), params),
                 val |-> CountUp(i.val)]
        BY <1>2, <2>5 DEF Increased
      <4>5. j # NoItem
        BY <4>1, <4>2, <4>3, <4>4, TimeOutsAssumption
      <4> QED BY <1>1, <4>1, <4>2, <4>3, <4>4, <4>5 DEF IsExist, IsTimeout
    <3>4. /\ (1 + 1)..Len(passed') = {}
          /\ (1 + a + 1)..Len(passed') = {}
          /\ 1 \in 0..a
      BY <1>1, <2>2, <3>2
    <3> QED BY <1>2, <2>1, <3>3, <3>4 DEF Rounds
  <2> QED BY <2>1, <2>3, <2>4, <2>5
<1> QED BY <1>3, <1>4

\* Time makes the item and what it let through older alike.
LEMMA TickRounds ==
  ASSUME PassInv, HistTick
  PROVE  passed' \in Seq(0..MaxAge) /\ Rounds'
<1> DEFINE i == items[Seen]
           a == params.attemp_count
           T == params.time_interval
           n == Len(passed)
<1>1. /\ TypeOK /\ Rounds /\ Seen \in Keys /\ i \in Items
      /\ MaxAge \in Nat \ {0} /\ MaxCount \in Nat
      /\ a \in 1..MaxCount /\ T \in 0..(MaxAge - 1) /\ n \in Nat
      /\ \A x \in 1..n : passed[x] \in 0..MaxAge
      /\ passed \in Seq(0..MaxAge)
  BY PassTypes DEF PassInv
<1>2. /\ items'[Seen] = Aged(i) /\ params' = params /\ timeOut' = timeOut
      /\ passed' = [x \in 1..n |-> Older(passed[x])]
  BY <1>1 DEF HistTick, Tick
<1>3. \A x \in 1..n : /\ Older(passed[x]) \in 0..MaxAge
                      /\ Older(passed[x]) >= passed[x]
                      /\ passed[x] >= T => Older(passed[x]) > T
  BY <1>1 DEF Older
<1>4. passed' \in Seq(0..MaxAge) /\ Len(passed') = n
  BY <1>1, <1>2, <1>3
<1>5. \A x \in 1..n : passed'[x] = Older(passed[x])
  BY <1>2
<1>6. timeOut' # T => passed' = <<>>
  <2> SUFFICES ASSUME timeOut' # T
               PROVE  passed' = <<>>
    OBVIOUS
  <2>1. Len(passed') = 0
    BY <1>1, <1>2, <1>4 DEF Rounds
  <2> QED BY <1>4, <2>1
<1>7. CASE ~IsExist(i, T)
  <2>1. ~IsExist(items'[Seen], T)
    BY <1>1, <1>2, <1>7 DEF IsExist, IsTimeout, Aged, Older, Items, Ages
  <2>2. \A x \in (a + 1)..n : passed'[x] > T
    <3>1. \A x \in (a + 1)..n : x \in 1..n /\ passed[x] > T
      BY <1>1, <1>7 DEF Rounds
    <3>2. \A x \in (a + 1)..n : /\ passed'[x] = Older(passed[x])
                               /\ passed'[x] \in Int /\ passed[x] \in Int
                               /\ passed'[x] >= passed[x]
      BY <1>1, <1>3, <1>5, <3>1
    <3> QED BY <1>1, <3>1, <3>2
  <2> QED BY <1>2, <1>4, <1>6, <2>1, <2>2 DEF Rounds
<1>8. CASE IsExist(i, T)
  <2>1. /\ i # NoItem /\ i.age \in Int /\ i.age <= T /\ i.val \in 1..MaxCount
    BY <1>1, <1>8 DEF IsExist, IsTimeout, Items, Ages
  <2>2. /\ items'[Seen] = [age |-> i.age + 1, val |-> i.val]
        /\ items'[Seen] # NoItem
    <3>1. items'[Seen] = [age |-> i.age + 1, val |-> i.val]
      BY <1>1, <1>2, <2>1 DEF Aged, Older, Items
    <3> QED BY <2>1, <3>1, TimeOutsAssumption
  <2>3. PICK m \in 0..a :
           /\ m <= i.val
           /\ \A x \in (m + 1)..n : passed[x] >= i.age
           /\ \A x \in (m + a + 1)..n : passed[x] > T
    BY <1>1, <1>8 DEF Rounds
  <2>4. \A x \in (m + 1)..n : x \in 1..n
    BY <1>1, <2>3
  <2>5. CASE i.age < T
    <3>1. IsExist(items'[Seen], T)
      BY <1>1, <2>1, <2>2, <2>5 DEF IsExist, IsTimeout
    <3>2. \A x \in (m + 1)..n : passed'[x] >= i.age + 1
      <4>1. \A x \in (m + 1)..n : /\ passed'[x] = Older(passed[x])
                                 /\ passed[x] \in 0..MaxAge
                                 /\ passed[x] >= i.age
        BY <1>1, <1>5, <2>3, <2>4
      <4> HIDE DEF i, T, n
      <4> QED BY <1>1, <2>1, <2>5, <4>1 DEF Older
    <3>3. \A x \in (m + a + 1)..n : passed'[x] > T
      <4>0. m \in Nat /\ a \in Nat /\ n \in Nat /\ T \in Nat
        BY <1>1, <2>3
      <4>1. \A x \in (m + a + 1)..n : x \in 1..n
        <5> HIDE DEF a, n
        <5> QED BY <4>0
      <4>2. \A x \in (m + a + 1)..n :
               /\ passed'[x] \in Int /\ passed[x] \in Int
               /\ passed'[x] >= passed[x] /\ passed[x] > T
        <5>1. \A x \in 1..n : Older(passed[x]) \in Int /\ passed[x] \in Int
          BY <1>1, <1>3
        <5> HIDE DEF n, T, a
        <5> QED BY <1>3, <1>5, <2>3, <4>1, <5>1
      <4> HIDE DEF n, T, a
      <4> QED BY <4>0, <4>2
    <3>4. items'[Seen].age = i.age + 1 /\ items'[Seen].val = i.val
      BY <2>2
    <3>5. \A x \in (m + 1)..n : passed'[x] >= items'[Seen].age
      BY <3>2, <3>4
    <3>6. m <= items'[Seen].val
      BY <2>3, <3>4
    <3> QED BY <1>2, <1>4, <1>6, <2>3, <3>1, <3>3, <3>5, <3>6 DEF Rounds
  <2>6. CASE i.age = T
    <3>1. ~IsExist(items'[Seen], T)
      BY <1>1, <2>1, <2>2, <2>6 DEF IsExist, IsTimeout
    <3>2. \A x \in (a + 1)..n : x \in (m + 1)..n /\ x \in 1..n
      BY <1>1, <2>3
    <3>3. \A x \in (a + 1)..n : passed'[x] > T
      BY <1>3, <1>5, <2>3, <2>6, <3>2
    <3> QED BY <1>2, <1>4, <1>6, <3>1, <3>3 DEF Rounds
  <2> QED BY <1>1, <2>1, <2>5, <2>6
<1> QED BY <1>4, <1>7, <1>8

\* Every step under observation keeps the rounds.
LEMMA PassStep ==
  ASSUME PassInv, [MCNext]_vars2
  PROVE  PassInv'
<1>1. TypeOK'
  BY ObservedStep, TypeStep DEF PassInv
<1> DEFINE Goal == passed' \in Seq(0..MaxAge) /\ Rounds'
<1>0. /\ Seen \in Keys /\ TypeOK /\ passed \in Seq(0..MaxAge) /\ Rounds
      /\ params \in Params
  BY PassTypes DEF PassInv
<1>e. ASSUME passed' = <<>>
      PROVE  Goal
  BY <1>1, <1>e, NoRounds
<1>s. ASSUME items'[Seen] = items[Seen], params' = params,
             timeOut' \in {timeOut, params.time_interval}, passed' = passed
      PROVE  Goal
  BY <1>0, <1>s DEF Rounds
<1>2. ASSUME NEW k \in Keys, HistIncrease(k)
      PROVE  Goal
  <2>1. CASE k = Seen
    BY <1>1, <1>2, <2>1, IncreaseRounds
  <2>2. CASE k # Seen
    BY <1>0, <1>2, <1>s, <2>2 DEF HistIncrease, Increase, histVars, TypeOK
  <2> QED BY <2>1, <2>2
<1>3. ASSUME NEW k \in Keys, HistErase(k)
      PROVE  Goal
  <2>1. CASE k = Seen
    BY <1>3, <1>e, <2>1 DEF HistErase
  <2>2. CASE k # Seen
    BY <1>0, <1>3, <1>s, <2>2 DEF HistErase, Erase, histVars, TypeOK
  <2> QED BY <2>1, <2>2
<1>4. ASSUME HistSweep
      PROVE  Goal
  <2>1. /\ items'[Seen] = Kept(items[Seen], params.time_interval)
        /\ timeOut' = params.time_interval /\ params' = params
        /\ passed' = passed
    BY <1>0, <1>4 DEF HistSweep, EraseTimeouts, histVars
  <2>2. CASE IsExist(items[Seen], params.time_interval)
    BY <1>s, <2>1, <2>2 DEF Kept
  <2>3. CASE ~IsExist(items[Seen], params.time_interval)
    <3>1. ~IsExist(items'[Seen], params.time_interval)
      BY <2>1, <2>3 DEF Kept, IsExist
    <3> QED BY <1>0, <2>1, <2>3, <3>1 DEF Rounds
  <2> QED BY <2>2, <2>3
<1>5. ASSUME NEW p \in ParamSets, HistConfigure(p)
      PROVE  Goal
  BY <1>5, <1>e DEF HistConfigure
<1>6. ASSUME HistTick
      PROVE  Goal
  BY <1>6, TickRounds
<1>7. ASSUME UNCHANGED vars2
      PROVE  Goal
  BY <1>7, <1>s DEF vars2, vars, histVars
<1> QED
  BY <1>1, <1>2, <1>3, <1>4, <1>5, <1>6, <1>7 DEF MCNext, PassInv

\* No more than two rounds of attempts get through in one interval, whoever
\* asks and however often: see PassBound.
THEOREM PassesAreBounded == MCSpec => []PassBound
<1>1. HistInit => PassInv
  <2> SUFFICES ASSUME HistInit
               PROVE  PassInv
    OBVIOUS
  <2>1. TypeOK
    BY BlockerAssumption, TimeOutsAssumption
       DEF HistInit, Init, TypeOK, Items, Params
  <2>2. /\ passed = <<>> /\ Len(passed) = 0 /\ passed \in Seq(0..MaxAge)
        /\ timeOut = params.time_interval
        /\ ~IsExist(items[Seen], params.time_interval)
        /\ params.attemp_count \in Nat
    BY <2>1, ObserverAssumption, BlockerAssumption, TimeOutsAssumption
       DEF HistInit, Init, IsExist, TypeOK, Params
  <2>3. (params.attemp_count + 1)..Len(passed) = {}
    BY <2>2
  <2> QED BY <2>1, <2>2, <2>3 DEF PassInv, Rounds
<1>2. PassInv /\ [MCNext]_vars2 => PassInv'
  BY PassStep
<1>3. PassInv => PassBound
  <2> SUFFICES ASSUME PassInv, Len(passed) > 2 * params.attemp_count
               PROVE  passed[2 * params.attemp_count + 1] > params.time_interval
    BY DEF PassBound
  <2> DEFINE a == params.attemp_count
             x == 2 * a + 1
  <2>1. /\ a \in Nat /\ Len(passed) \in Nat /\ Rounds
    BY PassTypes DEF PassInv
  <2>4. /\ x \in (a + 1)..Len(passed)
        /\ \A m \in 0..a : x \in (m + a + 1)..Len(passed)
    BY <2>1
  <2>2. CASE ~IsExist(items[Seen], params.time_interval)
    BY <2>1, <2>2, <2>4 DEF Rounds
  <2>3. CASE IsExist(items[Seen], params.time_interval)
    BY <2>1, <2>3, <2>4 DEF Rounds
  <2> QED BY <2>2, <2>3
<1> QED
  BY <1>1, <1>2, <1>3, PTL DEF MCSpec, vars2
=============================================================================
