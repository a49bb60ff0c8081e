------------------------------ MODULE BarrierSpec ------------------------------
(* What a barrier promises to the threads that use it again and again: nobody   *)
(* leaves a round before everybody has entered it, and then everybody leaves.   *)
(* Source: src/embree/common/sys/barrier.h                                      *)
EXTENDS Naturals

CONSTANTS Threads, MaxRounds

VARIABLES entered, left   \* of each thread: the calls of wait that began, that returned

roundVars == <<entered, left>>

Inside(t) == entered[t] > left[t]

RoundsInit == entered = [t \in Threads |-> 0] /\ left = [t \in Threads |-> 0]

\* Thread t calls wait.
Arrive(t) ==
    /\ ~Inside(t) /\ entered[t] < MaxRounds
    /\ entered' = [entered EXCEPT ![t] = @ + 1] /\ left' = left

\* The call returns.
Depart(t) == left' = [left EXCEPT ![t] = @ + 1] /\ entered' = entered

Leave(t) ==
    /\ Inside(t) /\ \A u \in Threads : entered[u] > left[t]
    /\ Depart(t)

\* Nobody leaves a round that a thread has not entered.
Rendezvous == RoundsInit /\ [][\E t \in Threads : Arrive(t) \/ Leave(t)]_roundVars

\* A round that everybody has entered is left by everybody.
FairRendezvous == Rendezvous /\ \A t \in Threads : WF_roundVars(Leave(t))
================================================================================
