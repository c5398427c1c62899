--------------------------- MODULE StreamRelayProps ----------------------------
(***************************************************************************)
(* Why the relay keeps its promise: the inductive invariant.               *)
(***************************************************************************)
EXTENDS StreamRelay

Kinds == {"text", "tool", "hidden", "usage", "error", "garbled"}
Lines == [is : Kinds, of : Nat]
Piece == [is : Kinds, of : Nat, ends : BOOLEAN]
Chunk == Seq(Piece)

TypeOK ==
    /\ caller \in {"chat", "harness"}
    /\ lines \in Nat /\ said \in Seq(Nat)
    /\ provider \in {"speaking", "ended", "failed"}
    /\ up \in Chunk /\ unread \in Chunk
    /\ gateway \in {"streaming", "closing", "failing", "over", "crashed"}
    /\ row \in {"PENDING", "SETTLED", "FAILED"}
    /\ down \in Chunk /\ relay \in Chunk
    /\ hop \in {"open", "broken"}
    /\ buffer \in Chunk /\ shown \in Seq(Nat)
    /\ reader \in {"reading", "complete", "failed"}

IsBeginning(s, t) == \E n \in 0..Len(t) : s = SubSeq(t, 1, n)

\* Pieces that are nothing but whole lines.
WholeLines(pieces) == pieces = Pieces(Parsed(pieces))
OnlyKinds(found, kinds) == \A k \in DOMAIN found : found[k].is \in kinds

\* All that is between the provider and the adapter, or the route and the reader,
\* what each of the two has kept of it included.
Incoming == unread \o up
Outgoing == (buffer \o relay) \o down

\* What the reader will have once it has read all that is on its way.
Told == shown \o Text(Parsed(Outgoing))

\* While it streams, the text the reader has, the text on its way to it and the
\* text on its way to the gateway are what was said.
GateInv ==
    /\ gateway = "streaming" =>
          /\ row = "PENDING"
          /\ Len(unread) <= 1 /\ WholeLines(Incoming)
          /\ OnlyKinds(Parsed(Incoming), {"text", "tool", "hidden"})
    /\ gateway = "closing" \/ row = "SETTLED" => provider = "ended"
    /\ Harness \/ (relay = <<>> /\ hop = "open")

\* A stream that ended without an error line told everything, and its row is closed.
ReaderInv ==
    /\ reader = "reading" =>
          /\ Len(buffer) <= 1 /\ WholeLines(Outgoing)
          /\ OnlyKinds(Parsed(Outgoing), {"text", "tool", "usage", "error"})
          /\ IsBeginning(Told, said)
          /\ gateway = "streaming" => Told \o Text(Parsed(Incoming)) = said
          /\ gateway = "closing" => Told = said
          /\ gateway = "over" /\ OnlyKinds(Parsed(Outgoing), {"text", "tool", "usage"})
                => Told = said /\ row = "SETTLED"
    /\ reader = "complete" => gateway \in {"over", "crashed"}

\* No word is lost, doubled or made up between the provider and the reader: what is
\* read, what is on its way on either stream and what the two line buffers hold are
\* what was said; and a row is settled only when the whole of it was (deepseek.ts:222-270,
\* chat.ts:195-260, chat.tsx:177-209).
RelayInv == TypeOK /\ GateInv /\ ReaderInv
===============================================================================
