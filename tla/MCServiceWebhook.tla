-------------------------- MODULE MCServiceWebhook --------------------------
(***************************************************************************)
(* Small instances of ServiceWebhook.  Addresses are "a..." for IPv4 and   *)
(* "b..." for IPv6; a1, a2 and b1 are in zone z1, a3 in z2.                *)
(***************************************************************************)
EXTENDS ServiceWebhook, TLC

MCOneZone == [z \in Zones |-> Addrs]
MCTwoZones == [z1 |-> Addrs \ {"a3"}, z2 |-> {"a3"}]

\* The operator chooses the addresses, or the user asks for a given one.
MCChosen == {<<>>}
MCAskA1 == {<<>>, <<"a1">>}
MCAskTwo == {<<>>, <<"a1">>, <<"a1", "a2">>, <<"a2", "b1">>}
MCAskChaos == {<<>>, <<"a1">>, <<"b1", "a3">>}
MCAskMoves == {<<>>, <<"a1">>, <<"b1", "a2">>, <<"a3">>}

MCSymmetry == Permutations(Slots) \cup Permutations(Services)
=============================================================================
