------------------------- MODULE MCFlowContextTable -------------------------
(***************************************************************************)
(* Hash functions and scopes for model checking FlowContextTable.          *)
(***************************************************************************)
EXTENDS FlowContextTable

\* Flows that all collide: the third one has no place in two tables.
OneBucket == [t \in Tables |-> [k \in Keys |-> 1]]

\* k1 shares a bucket with the others in table 1, not in table 2.
TwoBuckets == [t \in Tables |-> [k \in Keys |-> IF t = 2 /\ k = "k1" THEN 2 ELSE 1]]

\* Each packet updates the flow it was looked up in.
OwnFlow == {<< k, k >> : k \in Keys}

\* Some update another one: what is learned of a source is looked up by a
\* destination.
Learning == {<< "k1", "k1" >>, << "k1", "k2" >>, << "k2", "k3" >>}
=============================================================================
