----------------------------- MODULE MCRollback -----------------------------
(* Rollback of a set of two components, of which the second is behind the    *)
(* agent: one directive takes the agent back by one version, the other goes  *)
(* on from there with both.                                                  *)
EXTENDS Rollback, TLC

CONSTANTS d1, d2, v0, v1, v2

First == <<v2, v1>>
Chain == d1 :> <<v2, v1>> @@ d2 :> <<v1, v1>>
ChainTarget == d1 :> v1 @@ d2 :> v0
=============================================================================
