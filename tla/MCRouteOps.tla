------------------------------ MODULE MCRouteOps ------------------------------
(***************************************************************************)
(* RouteOps with the default routes of two interfaces, two routes to one   *)
(* network through different gateways, and an IPv6 route.                  *)
(***************************************************************************)
EXTENDS RouteOps, TLC

Route(family, dest, len, gateway, iface) ==
    [family |-> family, dest |-> dest, len |-> len, gateway |-> gateway,
     iface |-> iface]

Default1 == Route(AF_INET, Zero, 0, "g1", "1")
Default2 == Route(AF_INET, Zero, 0, "g2", "2")
Net1 == Route(AF_INET, "net", 24, "g1", "1")
Net2 == Route(AF_INET, "net", 24, "g2", "1")
Net6 == Route(AF_INET6, "net6", 64, "g6", "2")

MCKeys == {Default1, Default2, Net1, Net2, Net6}

TableOf(present) == [k \in MCKeys |-> IF k \in present THEN MetricCreated ELSE Absent]

MCInitialTables == {TableOf({Default1, Default2, Net1})}

EntryOf(key, metric, flaw) == [key |-> key, metric |-> metric, flaw |-> flaw]

MCFiles == {<<EntryOf(Net2, 20, "none"), EntryOf(Net6, 0, "none")>>,
            <<EntryOf(Net1, 20, "none"), EntryOf(Net6, 20, "fields"),
              EntryOf(Net2, 20, "iface")>>}

TaskSymmetry == Permutations(Tasks)
===============================================================================
