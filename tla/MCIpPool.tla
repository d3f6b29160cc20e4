------------------------------ MODULE MCIpPool ------------------------------
(***************************************************************************)
(* Small instances of IpPool.                                              *)
(***************************************************************************)
EXTENDS IpPool, TLC

MCSymmetry == Permutations(Callers) \cup Permutations(Addrs) \cup Permutations(Services)
=============================================================================
