------------------------- MODULE OrderedStepsProofs -------------------------
(***************************************************************************)
(* The promise of OrderedSteps amounts to AtMostOneUnrecorded, for any     *)
(* lineages and any number of steps.                                       *)
(***************************************************************************)
EXTENDS OrderedSteps, TLAPS

Shaped ==
    /\ done \in [Lineage -> SUBSET (1..StepCount)]
    /\ recorded \in [Lineage -> SUBSET (1..StepCount)]
    /\ AtMostOneUnrecorded

\* One lineage whose first n steps are recorded.
LEMMA ShapeKept ==
  ASSUME Shaped, NEW l \in Lineage, NEW n \in 0..StepCount,
         recorded'[l] = 1..n, done'[l] \in {1..n, 1..(n + 1)},
         done' \in [Lineage -> SUBSET (1..StepCount)],
         recorded' \in [Lineage -> SUBSET (1..StepCount)],
         \A o \in Lineage \ {l} : recorded'[o] = recorded[o] /\ done'[o] = done[o]
  PROVE  Shaped'
  <1>1. ASSUME NEW o \in Lineage
        PROVE  \E i \in 0..StepCount :
                  recorded'[o] = 1..i /\ done'[o] \in {1..i, 1..(i + 1)}
    <2>1. CASE o = l
      BY <2>1
    <2>2. CASE o # l
      BY <2>2 DEF Shaped, AtMostOneUnrecorded
    <2> QED BY <2>1, <2>2
  <1> QED BY <1>1 DEF Shaped, AtMostOneUnrecorded

\* The durable histories of a lineage miss at most one performed step.
THEOREM OneUnrecorded ==
  ASSUME StepCount \in Nat \ {0}
  PROVE  OrderedSpec => []AtMostOneUnrecorded
  <1>1. OInit => Shaped
    <2> SUFFICES ASSUME OInit, NEW l \in Lineage
                 PROVE  recorded[l] = 1..0 /\ done[l] = 1..0 /\ 0 \in 0..StepCount
      BY DEF OInit, Shaped, AtMostOneUnrecorded
    <2> QED BY DEF OInit
  <1>2. Shaped /\ [ONext]_ovars => Shaped'
    <2> SUFFICES ASSUME Shaped, [ONext]_ovars PROVE Shaped'
      OBVIOUS
    <2>1. CASE UNCHANGED ovars
      BY <2>1 DEF ovars, Shaped, AtMostOneUnrecorded
    <2>2. ASSUME NEW l \in Lineage, NEW k \in 1..StepCount,
                 Perform(l, k) \/ RecordStep(l, k) \/ Retract(l, k)
          PROVE  Shaped'
      <3>1. PICK n \in 0..StepCount :
              recorded[l] = 1..n /\ done[l] \in {1..n, 1..(n + 1)}
        BY DEF Shaped, AtMostOneUnrecorded
      <3>2. done \in [Lineage -> SUBSET (1..StepCount)]
            /\ recorded \in [Lineage -> SUBSET (1..StepCount)]
        BY DEF Shaped
      <3>3. CASE Perform(l, k)
        <4>1. /\ recorded' = recorded /\ done' = [done EXCEPT ![l] = @ \cup {k}]
              /\ 1..(k - 1) \subseteq 1..n
          BY <3>1, <3>3 DEF Perform, Before
        <4>2. k <= n + 1
          <5>1. k - 1 \in 1..(k - 1) \/ k = 1
            OBVIOUS
          <5> QED BY <4>1, <5>1
        <4>3. (1..n) \cup {k} \in {1..n, 1..(n + 1)} /\ (1..(n + 1)) \cup {k} = 1..(n + 1)
          BY <4>2
        <4>4. done'[l] \in {1..n, 1..(n + 1)} /\ recorded'[l] = 1..n
          BY <3>1, <3>2, <4>1, <4>3
        <4> QED
          BY <3>2, <4>1, <4>4, ShapeKept
      <3>4. CASE RecordStep(l, k)
        <4>1. /\ done' = done /\ recorded' = [recorded EXCEPT ![l] = @ \cup {k}]
              /\ k \in done[l]
          BY <3>4 DEF RecordStep
        <4>2. CASE k \in 1..n
          <5>1. recorded'[l] = 1..n
            BY <3>1, <3>2, <4>1, <4>2
          <5> QED BY <3>1, <3>2, <4>1, <5>1, ShapeKept
        <4>3. CASE k \notin 1..n
          <5>1. k = n + 1 /\ done[l] = 1..(n + 1)
            BY <3>1, <4>1, <4>3
          <5>2. n + 1 \in 0..StepCount /\ (1..n) \cup {n + 1} = 1..(n + 1)
            BY <5>1
          <5>3. recorded'[l] = 1..(n + 1)
            BY <3>1, <3>2, <4>1, <5>1, <5>2
          <5> QED BY <3>2, <4>1, <5>1, <5>2, <5>3, ShapeKept
        <4> QED BY <4>2, <4>3
      <3>5. CASE Retract(l, k)
        <4>1. /\ done' = done /\ recorded' = [recorded EXCEPT ![l] = @ \ {k}]
              /\ k \in 1..n /\ k + 1 \notin done[l]
          BY <3>1, <3>5 DEF Retract
        <4>2. k = n /\ done[l] = 1..n
          BY <3>1, <4>1
        <4>3. n - 1 \in 0..StepCount /\ (1..n) \ {n} = 1..(n - 1) /\ (n - 1) + 1 = n
          BY <4>1, <4>2
        <4>4. recorded'[l] = 1..(n - 1)
          BY <3>1, <3>2, <4>1, <4>2, <4>3
        <4> QED BY <3>2, <4>1, <4>2, <4>3, <4>4, ShapeKept
      <3> QED BY <2>2, <3>3, <3>4, <3>5
    <2> QED BY <2>1, <2>2 DEF ONext
  <1>3. Shaped => AtMostOneUnrecorded
    BY DEF Shaped
  <1> QED BY <1>1, <1>2, <1>3, PTL DEF OrderedSpec

=============================================================================
