------------------------------ MODULE MCAgent ------------------------------
(***************************************************************************)
(* Small instances of Agent: two or three peers with room for one or two   *)
(* channels each, and two runs, one after the other or at the same time.   *)
(***************************************************************************)
EXTENDS Agent, TLC

CONSTANTS p1, p2, p3, r1, r2

TwoRuns == {r1, r2}
RunSymmetry == Permutations(TwoRuns)

TwoPeers == {p1, p2}
ThreePeers == {p1, p2, p3}

(* One channel with the first peer, with the first two, or with all three. *)
FewOpen == {{<<p1, 1>>}, {<<p1, 1>>, <<p2, 1>>}}
ManyOpen == {{<<p1, 1>>}, {<<p1, 1>>, <<p2, 1>>, <<p3, 1>>}}
OneOpen == {{<<p1, 1>>}}

PrivateFirst == {<<p1, 1>>}
KeepSecond == {<<p2, 1>>}

(* The graph without channels, and with two channels between p2 and p3.    *)
NoLinks == [n \in Peers \union {Self} |-> {}]
SharedLinks == [n \in Peers \union {Self} |->
                  CASE n = p2 -> {<<p3, 1>>, <<p3, 2>>}
                    [] n = p3 -> {<<p2, 1>>, <<p2, 2>>}
                    [] OTHER  -> {}]
=============================================================================
