------------------------------ MODULE MCBuild ------------------------------
(***************************************************************************)
(* An instance of Build: a binary, two libraries and a third library that  *)
(* both may depend on, in the shapes that exercise the dependency loop.    *)
(***************************************************************************)
EXTENDS Build

CONSTANTS App, X, Y, Q

Graph(app, x, y, q) == (App :> app) @@ (X :> x) @@ (Y :> y) @@ (Q :> q)

Chain == Graph(<<X>>, <<Q>>, <<>>, <<>>)
Diamond == Graph(<<X, Q>>, <<Q>>, <<>>, <<>>)
WideDiamond == Graph(<<X, Y>>, <<Q>>, <<Q>>, <<>>)
GitChain == Graph(<<Y>>, <<>>, <<Q>>, <<>>)
Cycle == Graph(<<X>>, <<Y>>, <<X>>, <<>>)

AllGraphs == {Chain, GitChain, Diamond, Cycle}
Diamonds == {Diamond, WideDiamond}
=============================================================================
