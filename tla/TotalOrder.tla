----------------------------- MODULE TotalOrder -----------------------------
(***************************************************************************)
(* What every protocol of this repository promises the peers that run it:  *)
(* Ready.OrderedCommands, taken over all calls of MakeReady, is one        *)
(* sequence of commands that all correct replicas deliver, some faster     *)
(* than others.  order is the longest sequence delivered so far.           *)
(***************************************************************************)
EXTENDS Integers, Sequences

CONSTANTS Replicas, Commands

VARIABLES order, delivered

vars == <<order, delivered>>

Prefix(s, t) == Len(s) <= Len(t) /\ \A i \in 1 .. Len(s) : s[i] = t[i]

Init ==
    /\ order = << >>
    /\ delivered = [r \in Replicas |-> << >>]

\* A replica delivers some more commands: ones the order already holds, or,
\* if it is ahead of all others, new ones.
Deliver(r) ==
    /\ delivered'[r] \in Seq(Commands) \ {delivered[r]}
    /\ Prefix(delivered[r], delivered'[r])
    /\ \A s \in Replicas \ {r} : delivered'[s] = delivered[s]
    /\ Prefix(delivered'[r], order') /\ Prefix(order, order')
    /\ order' \in {order, delivered'[r]}

Next == \E r \in Replicas : Deliver(r)

Spec == Init /\ [][Next]_vars
=============================================================================
