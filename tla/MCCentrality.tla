---------------------------- MODULE MCCentrality ----------------------------
(***************************************************************************)
(* Centrality of networks of three nodes.                                  *)
(***************************************************************************)
EXTENDS Centrality, TLC

Network(a, b, c) == (0 :> a) @@ (1 :> b) @@ (2 :> c)

(* A line, a line with a doubled channel and a triangle.                   *)
Line == Network(<<1>>, <<0, 2>>, <<1>>)
Doubled == Network(<<1, 1>>, <<2, 0, 0>>, <<1>>)
Triangle == Network(<<1, 2>>, <<0, 2>>, <<1, 0>>)

(* The first node or the second one has been filtered out: the others may  *)
(* still list it.                                                          *)
First == Network(<< >>, <<0, 2>>, <<1>>)
Absent == Network(<< >>, <<2>>, <<1>>)
Second == Network(<<1, 2>>, << >>, <<0, 1>>)

Networks == {Line, Doubled, Triangle, First, Absent, Second}
=============================================================================
