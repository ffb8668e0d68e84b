------------------------------ MODULE MCOpening ------------------------------
(***************************************************************************)
(* Opening in networks of up to three nodes and three edges.               *)
(***************************************************************************)
EXTENDS Opening, TLC

Policy(fee, inbound) ==
    [known |-> TRUE, disabled |-> FALSE, BaseFee |-> fee, FeeRate |-> fee,
     InboundBaseFee |-> inbound, InboundFeeRate |-> inbound,
     MinHTLC |-> 1, MaxHTLC |-> fee]

Cheap == Policy(10, -20)
Fair == Policy(30, 0)
Off == [Cheap EXCEPT !.disabled = TRUE]
Dear == Policy(5001, 0)
Unknown == [Off EXCEPT !.known = FALSE]

Edge(a, b, capacity, height, policy1, policy2) ==
    [node1 |-> a, node2 |-> b, capacity |-> capacity, height |-> height,
     policy1 |-> policy1, policy2 |-> policy2]

(* The first edge may hold less than a satoshi per node, the third one is  *)
(* parallel to it or leads to a node that is not listed.                   *)
ThreeEdges ==
    <<{Edge(0, 1, 4, 2, p, q) : p \in {Cheap, Off, Unknown}, q \in {Cheap, Dear, Unknown}}
          \union {Edge(0, 1, 2, 2, Unknown, Fair)},
      {Edge(1, 2, 3, 4, p, q) : p \in {Cheap, Unknown}, q \in {Fair, Unknown}},
      {Edge(0, 1, 1, 3, Fair, Cheap), Edge(2, 0, 6, 3, Fair, Fair),
       Edge(2, 3, 6, 3, Unknown, Fair), Edge(2, 3, 6, 3, Fair, Fair)}>>

Some == {{}, {"clearnet"}, {"clearnet", "onion"}}

AllOne == [name \in OpenNames |-> One]
=============================================================================
