-------------------------------- MODULE MCRelay --------------------------------
(* Instances of Relay for TLC.                                                 *)
EXTENDS Relay, TLC

CONSTANTS a, b, w, x

(* The lifetimes, scaled.                                                      *)
OneSecond == "JOIN" :> 1 @@ "SIGNAL" :> 1

AheadA == a :> 1 @@ b :> 0

Kind(t, net, n, m) == [type |-> t, net |-> net, node |-> n, target |-> m]

ManyKinds ==
  {Kind("JOIN", w, a, a), Kind("JOIN", w, b, b), Kind("JOIN", x, b, b),
   Kind("SIGNAL", w, a, b), Kind("SIGNAL", w, b, a)}

FilterOf(n, net) == [net |-> net, types |-> Type, nodes |-> Node, since |-> 0, target |-> n]

ClientFilters == {FilterOf(b, w)}
=============================================================================
