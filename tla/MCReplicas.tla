----------------------------- MODULE MCReplicas ------------------------------
(* Small instances of Replicas: a, its git mirror g, and d behind g.       *)
EXTENDS Replicas

CONSTANTS a, g, d
Cascade == a :> {g} @@ g :> {d} @@ d :> {}
=============================================================================
