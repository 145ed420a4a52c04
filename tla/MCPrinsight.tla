---------------------------- MODULE MCPrinsight ----------------------------
(* Runs of the client program with the two labels that it sets              *)
(* (client/source/main.cpp:136-137).                                        *)
EXTENDS PrinsightProperties

CONSTANTS label1, label2

MCClearData == label1 :> 1 @@ label2 :> 5

MCOneLabel == label1 :> 1

MCSymmetry == Permutations(Client)
=============================================================================
