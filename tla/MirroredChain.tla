---------------------------- MODULE MirroredChain ----------------------------
(***************************************************************************)
(* What replication promises of a topology with one authority: its chain   *)
(* of events only grows, and every other endpoint holds a copy that is     *)
(* extended by one event at a time, each the next one of the chain.        *)
(***************************************************************************)
EXTENDS Naturals, Sequences

CONSTANT Replica
VARIABLES chain, copy

Init == chain = <<>> /\ copy = [r \in Replica |-> <<>>]

Extend ==
    /\ Len(chain') = Len(chain) + 1 /\ SubSeq(chain', 1, Len(chain)) = chain
    /\ UNCHANGED copy

Copy(r) ==
    /\ Len(copy[r]) < Len(chain)
    /\ copy' = [copy EXCEPT ![r] = Append(@, chain[Len(@) + 1])]
    /\ UNCHANGED chain

Next == Extend \/ \E r \in Replica : Copy(r)

Spec == Init /\ [][Next]_<<chain, copy>>
=============================================================================
