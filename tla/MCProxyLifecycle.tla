-------------------------- MODULE MCProxyLifecycle --------------------------
(* Instances of ProxyLifecycle for TLC. *)
EXTENDS ProxyLifecycle, TLC

CONSTANTS c1, c2

OneCandidate == {c1}
TwoCandidates == {c1, c2}

\* The second candidate reserves another number of tokens, so the ceilings
\* a stale finish compares really differ.
OneCeiling == c1 :> 1
TwoCeilings == c1 :> 1 @@ c2 :> 2
=============================================================================
