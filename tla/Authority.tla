------------------------------ MODULE Authority ------------------------------
(***************************************************************************)
(* What the replication package promises about write authority: one chain  *)
(* of events for the whole topology, and at any time at most one endpoint  *)
(* that may extend it.                                                     *)
(*                                                                         *)
(* Authority moves in two steps.  Its holder ends its own epoch with a     *)
(* checkpoint that names the next holder (HandOver: from then on nobody    *)
(* holds it), and only the endpoint the checkpoint names can take it       *)
(* (Grant), only while the checkpoint is still the end of the chain.  A    *)
(* holder whose process restarts may lose authority (Lose).                *)
(***************************************************************************)
EXTENDS JournalChain

CONSTANTS
    Endpoint,
    First,           \* the endpoint constructed as the active one
    Nobody           \* holder when no endpoint may write; `to` of a domain event

VARIABLES chain, holder
vars == <<chain, holder>>

Init == chain = <<>> /\ holder = First

\* The chain grows by one event and loses nothing.
Grows == Len(chain') = Len(chain) + 1 /\ SubSeq(chain', 1, Len(chain)) = chain

Write ==
    /\ holder # Nobody /\ Grows
    /\ LET e == HeadOf(chain') IN
          e.by = holder /\ e.to = Nobody /\ e.prev = HeadOf(chain)
    /\ UNCHANGED holder

HandOver ==
    /\ holder # Nobody /\ Grows
    /\ LET e == HeadOf(chain') IN
          /\ e.by = holder /\ e.to \in Endpoint \ {holder} /\ e.prev = HeadOf(chain)
          /\ e.epoch = HeadOf(chain).epoch + 1 /\ e.seq = 1
    /\ holder' = Nobody

Grant ==
    /\ holder = Nobody /\ chain # <<>>
    /\ holder' = HeadOf(chain).to /\ holder' \in Endpoint
    /\ UNCHANGED chain

Lose == holder' = Nobody /\ UNCHANGED chain

Next == Write \/ HandOver \/ Grant \/ Lose

Spec == Init /\ [][Next]_vars
=============================================================================
