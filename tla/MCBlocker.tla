----------------------------- MODULE MCBlocker -----------------------------
(***************************************************************************)
(* TimeCountBlocker watched by an observer who remembers, by age, the      *)
(* attempts one key really made and those let through, and the penalties   *)
(* its item was charged.  An attempt is let through when is_blocked said   *)
(* no just before it, the order in which commands and chat ask.            *)
(***************************************************************************)
EXTENDS TimeCountBlocker, Sequences

CONSTANTS
  Seen,      \* the key the observer follows
  HistMax,   \* the observer's ages stop here
  MadeCap,   \* he remembers so many attempts
  PassCap    \* and so many of those let through

ASSUME ObserverAssumption ==
  /\ Seen \in Keys /\ HistMax \in Nat /\ MadeCap \in Nat
  /\ PassCap \in Nat \ {0}
  /\ \A p \in ParamSets : /\ p.attemp_count <= MadeCap
                          /\ 2 * p.attemp_count < PassCap

MinusTwo == -2
TwoKeys == {"k1", "k2"}

\* One attempt per interval with a penalty, as chat and commands are shipped,
\* and two or three of them, as the guard and the shared chat are.
Shipped == {
  [time_interval |-> 1, attemp_count |-> 1, critical_attemp_count |-> 2,
   penalty |-> 0, critical_penalty |-> 1],
  [time_interval |-> 2, attemp_count |-> 2, critical_attemp_count |-> 3,
   penalty |-> 1, critical_penalty |-> 2],
  [time_interval |-> 2, attemp_count |-> 1, critical_attemp_count |-> 1,
   penalty |-> 0, critical_penalty |-> 0]}

VARIABLES
  made,      \* ages of the last attempts of Seen, the latest first
  passed,    \* ages of the last of them let through since the configuration
             \* was loaded or the key erased, the latest first, up to MaxAge
  charged    \* penalties added to the present item of Seen

histVars == <<made, passed, charged>>

-----------------------------------------------------------------------------
Min2(m, n) == IF m < n THEN m ELSE n

\* One more attempt, of which he remembers at most cap.
Noted(ages, cap) == SubSeq(<< 0 >> \o ages, 1, Min2(cap, Len(ages) + 1))

HistInit == Init /\ made = <<>> /\ passed = <<>> /\ charged = 0

HistIncrease(k) ==
  /\ Increase(k)
  /\ IF k # Seen THEN UNCHANGED histVars
     ELSE /\ made' = Noted(made, MadeCap)
          /\ passed' = IF Blocked(k) THEN passed ELSE Noted(passed, PassCap)
          /\ charged' = IF ~IsExist(items[k], params.time_interval) THEN 0
                        ELSE Min2(HistMax, charged + items[k].age - items'[k].age)

HistErase(k) ==
  /\ Erase(k)
  /\ IF k # Seen THEN UNCHANGED histVars
     ELSE /\ passed' = <<>>
          /\ charged' = 0
          /\ UNCHANGED made

HistConfigure(p) == /\ Configure(p)
                    /\ passed' = <<>>
                    /\ UNCHANGED <<made, charged>>

HistSweep == EraseTimeouts /\ UNCHANGED histVars

HistTick == /\ Tick
            /\ made' = [j \in 1..Len(made) |-> Min2(HistMax, made[j] + 1)]
            /\ passed' = [j \in 1..Len(passed) |-> Older(passed[j])]
            /\ UNCHANGED charged

MCNext ==
  \/ \E k \in Keys : HistIncrease(k) \/ HistErase(k)
  \/ HistSweep
  \/ \E p \in ParamSets : HistConfigure(p)
  \/ HistTick

MCSpec == /\ HistInit
          /\ [][MCNext]_<<vars, histVars>>
          /\ WF_<<vars, histVars>>(HistTick)

-----------------------------------------------------------------------------
\* Nobody is blocked for what he did not do: behind a block stand at least
\* attemp_count attempts of that very key, none older than the interval and
\* the penalties charged since (increase and is_blocked).
BlockedHasCause ==
  Blocked(Seen) =>
    /\ Len(made) >= params.attemp_count
    /\ made[params.attemp_count] <= timeOut + charged

\* The counter does its work: a client who is checked before every attempt
\* gets no more than two rounds of attempts through in one interval.  Two
\* rounds meet because the interval starts with the first attempt of a round
\* and does not slide (increase never refreshes an item); the last of them
\* passes only after a new configuration, while is_blocked still looks at the
\* former interval.
PassBound ==
  LET n == 2 * params.attemp_count
  IN  Len(passed) > n => passed[n + 1] > params.time_interval

\* A client who keeps quiet is let in again whether or not anybody sweeps.
QuietKeyIsFreed ==
  \A k \in Keys : []<>~Blocked(k) \/ []<><<HistIncrease(k)>>_vars
=============================================================================
