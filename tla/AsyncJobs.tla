----------------------------- MODULE AsyncJobs -----------------------------
(***************************************************************************)
(* What the worker pools promise the protocol that hands them jobs: each   *)
(* submitted job's callback runs on the run loop exactly once, and jobs of *)
(* one class run their callbacks in the order they were submitted in.      *)
(***************************************************************************)
EXTENDS Integers, Sequences, Functions

CONSTANT Classes

VARIABLES class,    \* class[j]: the class of the j-th job submitted
          ran       \* the jobs whose callbacks have run, in that order

vars == <<class, ran>>

Init == class = << >> /\ ran = << >>

Submit == \E c \in Classes : class' = Append(class, c)

\* The earliest job of its class that has not run yet.
Due(j) ==
    /\ j \notin Range(ran)
    /\ \A i \in 1 .. j - 1 : class[i] = class[j] => i \in Range(ran)

\* A callback may submit a further job.
Run(j) ==
    /\ Due(j)
    /\ ran' = Append(ran, j)
    /\ Submit \/ UNCHANGED class

Next ==
    \/ Submit /\ UNCHANGED ran
    \/ \E j \in DOMAIN class : Run(j)

Spec == Init /\ [][Next]_vars
=============================================================================
