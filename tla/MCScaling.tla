------------------------------ MODULE MCScaling ------------------------------
(* Two models of 40 GB that fit one node, one of which may have two replicas, *)
(* and two pods with different requirements.                                  *)
EXTENDS Scaling

CONSTANTS m1, m2, p1, p2

MCVRAM        == [m \in Models |-> 40]
MCMaxReplicas == [m \in Models |-> IF m = m1 THEN 2 ELSE 0]
MCRequirement == [p \in Pods |-> IF p = p1 THEN [gpus |-> 1, vram |-> 24, price |-> 2]
                                           ELSE [gpus |-> 2, vram |-> 0, price |-> 1]]

=============================================================================
