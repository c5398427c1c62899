------------------------------- MODULE MCSessions -------------------------------
(***************************************************************************)
(* Instances of Sessions for TLC.                                          *)
(***************************************************************************)
EXTENDS SessionsProps, TLC

CONSTANTS o1, o2, q1, q2, v1, a1, a2, h1

\* o: open, q: any other call, v: revoke, a: a harness's request.
Kinds == [r \in Reqs |-> CASE r \in {o1, o2} -> "open"
                           [] r \in {q1, q2} -> "call"
                           [] r = v1         -> "revoke"
                           [] OTHER          -> "harness"]

HarnessSymmetry == Permutations(Reqs \cap {a1, a2})
CallSymmetry == Permutations(Reqs \cap {q1, q2})
ReqSymmetry == HarnessSymmetry \cup CallSymmetry
===============================================================================
