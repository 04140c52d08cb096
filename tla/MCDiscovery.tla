----------------------------- MODULE MCDiscovery -----------------------------
(* Two kinds with up to four workloads each, around a ceiling of two: a     *)
(* single list can exceed its limit, and two that fit can exceed together.  *)
EXTENDS Discovery

ListedKinds == <<"Deployment", "Job">>

AnyName == Permutations(Names)
=============================================================================
