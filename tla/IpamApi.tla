------------------------------ MODULE IpamApi ------------------------------
(***************************************************************************)
(* The IPAM API as the operator uses it (external: vitistack/ipam-api).    *)
(*                                                                         *)
(*   POST /address without an address      allocate a free one             *)
(*   POST /address with an address         bind this Service to it         *)
(*   POST /address with a new secret       change the address's secret     *)
(*   DELETE /service                       unbind this Service from it     *)
(*                                                                         *)
(* An address is held under a secret by the Services bound to it; requests *)
(* that name another secret, or a zone the address is not in, are refused. *)
(* An address nobody is bound to is free at once: the operator's default   *)
(* retention period is 0 days.  Some addresses are held by another         *)
(* cluster, whose secret this operator does not know.                      *)
(***************************************************************************)
CONSTANTS Services,  \* names of this cluster's Services
          Zones, Addrs, Secrets,
          Prefix,    \* the addresses of each zone
          V4,        \* the addresses that are IPv4; the others are IPv6
          Foreign    \* the addresses another cluster holds

VARIABLE ipam

NoSecret == "no secret"
OtherCluster == "other cluster"

ASSUME IpamAssumption ==
  /\ Prefix \in [Zones -> SUBSET Addrs]
  /\ V4 \subseteq Addrs /\ Foreign \subseteq Addrs
  /\ NoSecret \notin Secrets /\ OtherCluster \notin Services

Binding == [secret : Secrets \cup {NoSecret}, svcs : SUBSET (Services \cup {OtherCluster})]
Unbound == [secret |-> NoSecret, svcs |-> {}]

IpamInit == ipam = [a \in Addrs |-> IF a \in Foreign
                                      THEN [secret |-> NoSecret, svcs |-> {OtherCluster}]
                                      ELSE Unbound]

Family(a) == IF a \in V4 THEN "ipv4" ELSE "ipv6"
InZone(a, z) == a \in Prefix[z]
FreeAddrs(z, family) == {a \in Prefix[z] : ipam[a].svcs = {} /\ Family(a) = family}

(* POST /address: bind Service s to address a. *)
CanBind(a, z, k) == InZone(a, z) /\ (ipam[a].svcs = {} \/ ipam[a].secret = k)
Bound(a, k, s) == [ipam EXCEPT ![a] = [secret |-> k, svcs |-> @.svcs \cup {s}]]

(* DELETE /service: unbind Service s from address a. *)
CanUnbind(a, z, k) == InZone(a, z) /\ ipam[a].secret = k
Released(a, s) ==
  LET left == ipam[a].svcs \ {s}
  IN [ipam EXCEPT ![a] = IF left = {} THEN Unbound ELSE [@ EXCEPT !.svcs = left]]

(* POST /address with NewSecret: the address keeps its Services. *)
CanRekey(a, z, k) == InZone(a, z) /\ ipam[a].secret = k
Rekeyed(a, k) == [ipam EXCEPT ![a].secret = k]
=============================================================================
