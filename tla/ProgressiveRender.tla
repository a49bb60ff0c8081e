--------------------------- MODULE ProgressiveRender ---------------------------
(***************************************************************************)
(* What the page and its workers promise together: the image is refined in *)
(* rounds; in a round every bucket is traced exactly once, in any order;   *)
(* the next round begins when the last bucket of this one is finished, not *)
(* before.                                                                 *)
(***************************************************************************)
EXTENDS Integers

CONSTANT Buckets

VARIABLES
    rounds,   \* rounds[b]: how often bucket b has been traced
    pending   \* buckets the current round has still to trace

renderVars == <<rounds, pending>>

RenderTypeOK ==
    /\ rounds \in [Buckets -> Nat]
    /\ pending \in SUBSET Buckets

RenderInit ==
    /\ rounds = [b \in Buckets |-> 0]
    /\ pending = {}

BeginRound ==
    /\ pending = {}
    /\ pending' = Buckets
    /\ UNCHANGED rounds

\* The last bucket of a round may begin the next round in the same step.
FinishBucket(b) ==
    /\ b \in pending
    /\ rounds' = [rounds EXCEPT ![b] = @ + 1]
    /\ \/ pending' = pending \ {b}
       \/ pending = {b} /\ pending' = Buckets

RenderNext == BeginRound \/ \E b \in Buckets : FinishBucket(b)

RenderSpec == RenderInit /\ [][RenderNext]_renderVars

\* With workers that make progress no bucket of a round stays pending.
FairRenderSpec ==
    RenderSpec /\ \A b \in Buckets : WF_renderVars(FinishBucket(b))

\* The buckets already traced in this round are one round ahead of the others,
\* so no two parts of the image differ by more than one sample per pixel.
Balanced ==
    \A a, b \in Buckets :
        rounds[a] = rounds[b] + (IF a \notin pending /\ b \in pending THEN 1 ELSE 0)
                              - (IF a \in pending /\ b \notin pending THEN 1 ELSE 0)
=============================================================================
