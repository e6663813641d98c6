------------------------------- MODULE MCAftl -------------------------------
(***************************************************************************)
(* Two logs, one of up to eight leaves, so that a tree has every shape of  *)
(* border from a lone leaf to one with two subtrees of different height.   *)
(***************************************************************************)
EXTENDS AftlIcp

MCPad == << "nul" >>

(* A log may also have the firmware's leaf from an earlier command.        *)
Others(n) == [p \in 1..n |-> << "other", p - 1 >>]
MCStartTrees ==
  [l \in Log |-> IF l = "log1"
                 THEN {Others(n) : n \in 0..6} \cup {<< << "firmware", "v" >>, << "other", 1 >> >>}
                 ELSE {Others(1)}]
MCMaxLeaves == [l \in Log |-> IF l = "log1" THEN 8 ELSE 2]
=============================================================================
