------------------------------ MODULE MCPaidCalls ------------------------------
(***************************************************************************)
(* Instances of PaidCalls for TLC.                                         *)
(***************************************************************************)
EXTENDS PaidCallsProps, TLC

CONSTANTS c1, c2, c3, g1, g2, s1, s2, b1, b2

OneSession == [c \in Calls |-> s1]
OneBody == [c \in Calls |-> b1]
TwoBodies == [c \in Calls |-> IF c = c1 THEN b1 ELSE b2]

AllCompletions == [c \in Calls |-> "completion"]
Mixed == [c \in Calls |-> IF c = c1 THEN "stream" ELSE "completion"]

CapOf1 == [s \in Sessions |-> 1]
CapOf2 == [s \in Sessions |-> 2]

CallSymmetry == Permutations(Calls)
===============================================================================
