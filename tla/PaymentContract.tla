---------------------------- MODULE PaymentContract ----------------------------
(***************************************************************************)
(* What a paying client relies on, with no session, cache, ticket or       *)
(* restart in sight: each call is served at most once, paid at most once   *)
(* and recorded at most once, in the order its endpoint promises.          *)
(*   POST /v1/chat/completions  serve, then pay, then record               *)
(*   POST /v1/chat/stream       pay, then record and serve in either order *)
(* Any of the steps may never come: README.md lists "no refund path".      *)
(***************************************************************************)
CONSTANTS Calls, KindOf

VARIABLES served, paid, recorded

contractVars == <<served, paid, recorded>>

Init == served = {} /\ paid = {} /\ recorded = {}

\* The provider has answered and the call's inference row says so.
Serve(c) ==
    /\ c \notin served
    /\ KindOf[c] = "stream" => c \in paid
    /\ served' = served \cup {c}
    /\ UNCHANGED <<paid, recorded>>

\* The amount the client signed moves on Hedera.
Pay(c) ==
    /\ c \notin paid
    /\ KindOf[c] = "completion" => c \in served
    /\ paid' = paid \cup {c}
    /\ UNCHANGED <<served, recorded>>

\* The ledger holds a settled payment, and the session's spend counts it.
Record(c) ==
    /\ c \in paid \ recorded
    /\ recorded' = recorded \cup {c}
    /\ UNCHANGED <<served, paid>>

Next == \E c \in Calls : Serve(c) \/ Pay(c) \/ Record(c)

Spec == Init /\ [][Next]_contractVars
===============================================================================
