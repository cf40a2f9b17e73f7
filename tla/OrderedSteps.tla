---------------------------- MODULE OrderedSteps ----------------------------
(***************************************************************************)
(* What fail-and-preserve with resume promises of a plan, whatever is      *)
(* probed, saved, interrupted or retried: the steps of a lineage of runs   *)
(* (an original run and its resumes) are performed in the order of the     *)
(* plan, each for the first time only after a record of all earlier ones;  *)
(* the record never claims a step that was not performed; and the record   *)
(* may be taken back only while nothing was built on it.                   *)
(***************************************************************************)
EXTENDS Integers

CONSTANTS Lineage, StepCount

VARIABLES
    done,      \* lineage -> steps performed at least once
    recorded   \* lineage -> steps some durable history reports as executed

ovars == <<done, recorded>>

Before(k) == 1..(k - 1)

OInit ==
    /\ done = [l \in Lineage |-> {}]
    /\ recorded = [l \in Lineage |-> {}]

\* Any number of steps already performed may be performed again: a stutter.
Perform(l, k) ==
    /\ Before(k) \subseteq recorded[l]
    /\ done' = [done EXCEPT ![l] = @ \cup {k}]
    /\ UNCHANGED recorded

RecordStep(l, k) ==
    /\ Before(k) \subseteq recorded[l] /\ k \in done[l]
    /\ recorded' = [recorded EXCEPT ![l] = @ \cup {k}]
    /\ UNCHANGED done

\* The verdict on the health of the installation turns an executed step into a
\* failed one.
Retract(l, k) ==
    /\ k \in recorded[l] /\ k + 1 \notin done[l]
    /\ recorded' = [recorded EXCEPT ![l] = @ \ {k}]
    /\ UNCHANGED done

ONext ==
    \E l \in Lineage, k \in 1..StepCount :
        Perform(l, k) \/ RecordStep(l, k) \/ Retract(l, k)

OrderedSpec == OInit /\ [][ONext]_ovars

-----------------------------------------------------------------------------
\* What the promise amounts to: at any moment the durable histories of a lineage
\* miss at most one performed step, the next one of the plan.
AtMostOneUnrecorded ==
    \A l \in Lineage :
        \E n \in 0..StepCount :
            /\ recorded[l] = 1..n
            /\ done[l] \in {1..n, 1..(n + 1)}

=============================================================================
