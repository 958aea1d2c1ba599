--------------------------- MODULE MCPublication ---------------------------
(* Small instances of Publication for TLC. *)
EXTENDS Publication, TLC

CONSTANTS p1, p2, pattern1, pattern2, none

\* Two slugs.  The first pattern makes a route of every slug; under the second
\* the same slugs lead elsewhere.
MCRoutes == {"/x", "/y", "/n/x", "/n/y"}
MCPaths == MCRoutes \cup {"/x.json", "/y.json", "/n/x.json", "/n/y.json"}
MCSuffixes == {"", ".json"}
MCPathOf ==
  "/x" :> ("" :> "/x" @@ ".json" :> "/x.json") @@
  "/y" :> ("" :> "/y" @@ ".json" :> "/y.json") @@
  "/n/x" :> ("" :> "/n/x" @@ ".json" :> "/n/x.json") @@
  "/n/y" :> ("" :> "/n/y" @@ ".json" :> "/n/y.json")
MCResolve ==
  [c \in Configs |-> [a \in Addrs |->
     IF c = pattern1 THEN IF a = "x" THEN "/x" ELSE "/y"
     ELSE IF a = "x" THEN "/n/x" ELSE "/n/y"]]
MCInitAddr == [p \in Products |-> IF p = p1 \/ "y" \notin Addrs THEN "x" ELSE "y"]

\* Slugs may contain a dot: the page of one product can have the path of another
\* product's JSON document.
SuffixRoutes == {"/x", "/x.json"}
SuffixPaths == {"/x", "/x.json", "/x.json.json"}
SuffixPathOf ==
  "/x" :> ("" :> "/x" @@ ".json" :> "/x.json") @@
  "/x.json" :> ("" :> "/x.json" @@ ".json" :> "/x.json.json")
SuffixResolve == [c \in Configs |-> [a \in Addrs |-> IF a = "x" THEN "/x" ELSE "/x.json"]]
=============================================================================
