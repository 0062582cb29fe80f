--------------------------- MODULE MCChatReplication ---------------------------
(* Instances of ChatReplication for TLC: two browsers, and three in a line.    *)
EXTENDS ChatReplication, TLC

CONSTANTS a, b, c

PairTopology == {{a, b}}
LineTopology == {{a, b}, {b, c}}

OneAuthor == a :> 1 @@ b :> 0 @@ c :> 0
TwoByOne == a :> 2 @@ b :> 0 @@ c :> 0
ThreeByOne == a :> 3 @@ b :> 0 @@ c :> 0
OneEach == a :> 1 @@ b :> 1 @@ c :> 0
=============================================================================
