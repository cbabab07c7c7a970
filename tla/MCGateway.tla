------------------------------ MODULE MCGateway ------------------------------
(* Instances of Gateway for TLC: paths over "/", "a" and "b". *)
EXTENDS Gateway

PathH == <<"/", "h">>
PathA == <<"/", "a">>
PathAB == <<"/", "a", "/", "b">>
PathAb == <<"/", "a", "b">>
PathASlash == <<"/", "a", "/">>

Route(path, exact, auth, burst) ==
  [path |-> path, exact |-> exact, auth |-> auth, burst |-> burst]

MCTables ==
  { <<Route(PathA, TRUE, "required", 1), Route(PathA, FALSE, "bypass_and_strip", 2)>>,
    <<Route(PathA, FALSE, "optional", 1), Route(PathAB, FALSE, "none", 1),
      Route(PathASlash, FALSE, "optional", 1)>>,
    <<Route(PathA, FALSE, "none", 0)>> }
MCPaths == {PathH, PathA, PathAB, PathAb}
MCClaiming == {PathA}
=============================================================================
