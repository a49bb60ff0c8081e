----------------------------- MODULE LinearBarrier -----------------------------
(* The spinning barrier in which thread 0 collects a flag of every other thread  *)
(* and answers with one flag, in two modes that take turns.                      *)
(* Source: src/embree/common/sys/barrier.cpp, LinearBarrierActive                *)
EXTENDS BarrierSpec, Integers

CONSTANT threadCount

\* What the theorems assume of the constants
BarrierAssumption == threadCount \in Nat \ {0} /\ Threads = 0 .. threadCount - 1 /\ MaxRounds \in Nat

Others == Threads \ {0}

VARIABLES count,      \* count[0] is count0, count[1] is count1
          flag, mode,
          pc, my,     \* of a thread: where it is, the mode that it read
          k           \* the loop variable of thread 0

barrierVars == <<count, flag, mode>>
vars == <<roundVars, barrierVars, pc, my, k>>

Init ==
    /\ RoundsInit
    /\ count = [m \in {0, 1} |-> [t \in Threads |-> 0]]
    /\ flag = [m \in {0, 1} |-> 0] /\ mode = 0
    /\ pc = [t \in Threads |-> "out"] /\ my = [t \in Threads |-> 0] /\ k = 0

Step(t, from, to) == pc[t] = from /\ pc' = [pc EXCEPT ![t] = to]

\* Every thread asks for the mode when it enters.
Enter(t) ==
    /\ Arrive(t) /\ Step(t, "out", IF t = 0 THEN "clear" ELSE "report")
    /\ my' = [my EXCEPT ![t] = mode]
    /\ k' = IF t = 0 THEN 0 ELSE k
    /\ UNCHANGED barrierVars

------------------------------------------------------------------------------
\* Thread 0

Clear ==
    /\ pc[0] = "clear" /\ k < threadCount
    /\ count' = [count EXCEPT ![1 - my[0]][k] = 0]
    /\ k' = k + 1
    /\ UNCHANGED <<roundVars, flag, mode, pc, my>>

Cleared ==
    /\ Step(0, "clear", "collect") /\ k = threadCount
    /\ k' = 1 /\ UNCHANGED <<roundVars, barrierVars, my>>

Collect ==
    /\ pc[0] = "collect" /\ k < threadCount /\ count[my[0]][k] # 0
    /\ k' = k + 1
    /\ UNCHANGED <<roundVars, barrierVars, pc, my>>

SwitchMode ==
    /\ Step(0, "collect", "lower") /\ k >= threadCount
    /\ mode' = 1 - my[0]
    /\ UNCHANGED <<roundVars, count, flag, my, k>>

LowerFlag ==
    /\ Step(0, "lower", "raise") /\ flag' = [flag EXCEPT ![1 - my[0]] = 0]
    /\ UNCHANGED <<roundVars, count, mode, my, k>>

RaiseFlag ==
    /\ Step(0, "raise", "out") /\ flag' = [flag EXCEPT ![my[0]] = 1]
    /\ Depart(0)
    /\ UNCHANGED <<count, mode, my, k>>

------------------------------------------------------------------------------
\* The others

Report(t) ==
    /\ Step(t, "report", "spin") /\ count' = [count EXCEPT ![my[t]][t] = 1]
    /\ UNCHANGED <<roundVars, flag, mode, my, k>>

Released(t) ==
    /\ Step(t, "spin", "out") /\ flag[my[t]] # 0
    /\ Depart(t)
    /\ UNCHANGED <<barrierVars, my, k>>

Collector == Clear \/ Cleared \/ Collect \/ SwitchMode \/ LowerFlag \/ RaiseFlag

Next == \/ \E t \in Threads : Enter(t)
        \/ Collector
        \/ \E t \in Others : Report(t) \/ Released(t)

Spec == Init /\ [][Next]_vars

\* Threads run.
FairSpec == /\ Spec /\ WF_vars(Collector)
            /\ \A t \in Others : WF_vars(Report(t) \/ Released(t))

------------------------------------------------------------------------------
\* The kinds of the state.
TypeOK ==
    /\ entered \in [Threads -> Nat] /\ left \in [Threads -> Nat]
    /\ count \in [{0, 1} -> [Threads -> {0, 1}]]
    /\ flag \in [{0, 1} -> {0, 1}] /\ mode \in {0, 1}
    /\ pc \in [Threads -> {"out", "clear", "collect", "lower", "raise", "report", "spin"}]
    /\ my \in [Threads -> {0, 1}] /\ k \in Nat

\* The mode of the round that thread 0 has not left.
Current == IF pc[0] \in {"lower", "raise"} THEN 1 - mode ELSE mode

\* Where each thread is, and that thread 0 works with the mode of its round
PlacesKept ==
    /\ pc[0] \in {"out", "clear", "collect", "lower", "raise"}
    /\ \A t \in Others : pc[t] \in {"out", "report", "spin"}
    /\ \A t \in Threads : entered[t] = IF pc[t] = "out" THEN left[t] ELSE left[t] + 1
    /\ pc[0] # "out" => my[0] = Current

\* A thread is in the round of thread 0, or still spins in the one before, whose flag is up.
OneRoundBehind ==
    \A t \in Others :
        \/ left[t] = left[0] /\ (pc[t] # "out" => my[t] = Current)
        \/ /\ left[t] + 1 = left[0] /\ pc[t] = "spin"
           /\ my[t] = 1 - Current /\ flag[1 - Current] = 1

\* The reports and the flag of this round are of this round; the reports of the next are clear
\* before anybody can make one.
ReportsCurrent ==
    /\ flag[Current] = 0 /\ (pc[0] = "raise" => flag[1 - Current] = 0)
    /\ \A t \in Others : count[Current][t] = 1 <=> pc[t] = "spin" /\ left[t] = left[0]
    /\ pc[0] = "clear" => \A t \in Others : t < k => count[1 - Current][t] = 0
    /\ pc[0] \in {"collect", "lower", "raise"} => \A t \in Others : count[1 - Current][t] = 0
    /\ pc[0] = "collect" => \A t \in Others : t < k => count[Current][t] = 1
    /\ pc[0] \in {"lower", "raise"} => \A t \in Others : count[Current][t] = 1

\* The inductive invariant: together the three keep the rounds apart.
BarrierInv == TypeOK /\ PlacesKept /\ OneRoundBehind /\ ReportsCurrent

================================================================================
