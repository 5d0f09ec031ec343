--------------------------- MODULE MCRouterNetwork ---------------------------
(* Addresses of three bits: 2, 3 are router and host of one local network,   *)
(* 4, 5 those of the other, 6, 7 the ends of the link. A may be given the    *)
(* way over the link, a wrong route with the same prefix, and a route for no *)
(* interface; B may send back what it was sent.                              *)
EXTENDS RouterNetwork, TLC

CONSTANTS A, B, ea1, ea2, eb1, eb2, ha, hb

MCInterfaceIP       == (A :> <<2, 6>>) @@ (B :> <<4, 7>>)
MCInterfaceEthernet == (A :> <<ea1, ea2>>) @@ (B :> <<eb1, eb2>>)
MCHostIP            == (A :> 3) @@ (B :> 5)
MCHostEthernet      == (A :> ha) @@ (B :> hb)

MCRoutes ==
    (A :> {RouteEntry(4, 1, 7, Link), RouteEntry(5, 1, Direct, Lan),
           RouteEntry(5, 3, Direct, 3)}) @@
    (B :> {RouteEntry(0, 0, 6, Link), RouteEntry(5, 3, Direct, Lan)})
=============================================================================
