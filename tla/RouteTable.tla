------------------------------ MODULE RouteTable ------------------------------
(***************************************************************************)
(* The vocabulary of network/networking.py: routes, what identifies them   *)
(* to Windows, and the ways in which the program writes their prefix.      *)
(*                                                                         *)
(* A route is known to IP Helper by its destination prefix, its next hop   *)
(* and its interface; the metric is its value.  A table maps each key to a *)
(* metric, or to Absent.                                                   *)
(***************************************************************************)
EXTENDS Integers

CONSTANT Keys    \* records [family, dest, len, gateway, iface]

AF_INET == 2
AF_INET6 == 23
Zero == "zero"   \* the destinations 0.0.0.0 and ::

Absent == 0
MetricMin == 1
MetricMax == 9999
MetricLow == 1
MetricHigh == 500
MetricCreated == 256    \* of a route made by add_route() without a metric

Tables == [Keys -> Absent..MetricMax]

Present(table) == {k \in Keys : table[k] # Absent}

(* IPv4 looks at the destination alone: 0.0.0.0/1 counts as a default.      *)
IsDefault(k) == k.dest = Zero /\ (k.family = AF_INET6 => k.len = 0)

Defaults(table, family) ==
    {k \in Present(table) : k.family = family /\ IsDefault(k)}

(* A prefix is handed over as a dotted mask, as a number, or as a text of   *)
(* digits.  For IPv4 it goes through mask_to_cidr(), which takes a number   *)
(* for an address: only masks, and the number 0, come back as a length.     *)
Forms == {"mask", "number", "digits"}

PrefixIsValid(k, form) ==
    \/ k.family = AF_INET6
    \/ form = "mask"
    \/ form = "number" /\ k.len = 0

(* route_exists(): the gateway does not count, and the mask of an IPv4      *)
(* route equals none but a mask.                                            *)
RouteExists(table, k, form) ==
    \E r \in Present(table) :
        /\ r.dest = k.dest /\ r.iface = k.iface /\ r.family = k.family
        /\ r.len = k.len
        /\ k.family = AF_INET => form = "mask"
===============================================================================
