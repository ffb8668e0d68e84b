------------------------------ MODULE MCSearch ------------------------------
(***************************************************************************)
(* Search from every node of every directed graph with four nodes, in      *)
(* which the first node may have several channels with another one.        *)
(***************************************************************************)
EXTENDS Search, SequencesExt

Simple(v) == {SetToSortSeq(S, <) : S \in SUBSET ((0 .. 3) \ {v})}

Doubled(v) == Simple(v) \union {<<1, 1>>, <<1, 2, 1>>, <<3, 1, 2, 3, 1>>}

FourNodeLists ==
    {(0 :> a) @@ (1 :> b) @@ (2 :> c) @@ (3 :> d) :
        a \in Doubled(0), b \in Simple(1), c \in Simple(2), d \in Simple(3)}
=============================================================================
