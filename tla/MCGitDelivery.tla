---------------------------- MODULE MCGitDelivery ----------------------------
(* Small instances of GitDelivery.                                         *)
EXTENDS GitDelivery

\* One fallback envelope, with its idempotency key.
One == {[id |-> "x", key |-> "x"]}
=============================================================================
