------------------------------ MODULE StreamRelay -------------------------------
(***************************************************************************)
(* GET /v1/chat/stream/:token: a paid answer on its way from the provider   *)
(* to the chat, or to a harness.  The provider's event stream arrives cut   *)
(* anywhere, the DeepSeek adapter puts its lines together again and the     *)
(* route writes each delta as a line of its own stream, which arrives cut   *)
(* elsewhere and is put together once more by the reader; for a harness     *)
(* one more hop passes the bytes on as they come.                          *)
(*                                                                         *)
(* A line is two pieces, of which the second ends it: where inside a line   *)
(* it is cut makes no difference.                                          *)
(***************************************************************************)
EXTENDS Naturals, Sequences, FiniteSetsExt

CONSTANT MaxLines   \* bound: lines the provider sends
ASSUME RelayAssumption == MaxLines \in Nat

VARIABLES
    caller,         \* "chat", or "harness": POST /h/:token/v1/chat/completions
    lines,          \* how many lines the provider has sent
    said,           \* those that carry visible text, in order
    provider,       \* "speaking", then "ended" or "failed"
    up, unread,     \* pieces on the way to the gateway; its reader's buffer
    gateway,        \* where the route's handler is
    row,            \* the inference row
    down, relay,    \* pieces on the way out of the route, and out of the harness handler
    hop,            \* the harness handler's own request: "open" or "broken"
    buffer,         \* the buffer of the reader at the end
    shown,          \* text it has
    reader          \* "reading", then "complete" or "failed"

upVars == <<lines, said, provider>>
gateVars == <<up, unread, gateway, row>>
readerVars == <<buffer, shown, reader>>
hopVars == <<down, relay, hop>>
vars == <<caller, upVars, gateVars, hopVars, readerVars>>

Harness == caller = "harness"

Init ==
    /\ caller \in {"chat", "harness"}
    /\ lines = 0 /\ said = <<>> /\ provider = "speaking"
    /\ up = <<>> /\ unread = <<>> /\ gateway = "streaming" /\ row = "PENDING"
    /\ down = <<>> /\ relay = <<>> /\ hop = "open"
    /\ buffer = <<>> /\ shown = <<>> /\ reader = "reading"
-----------------------------------------------------------------------------
(* Lines and pieces *)

\* What s has at the places in Q, in order.
Select(s, Q) ==
    LET Upto[n \in 0..Len(s)] ==
            IF n = 0 THEN <<>>
            ELSE IF n \in Q THEN Append(Upto[n - 1], s[n]) ELSE Upto[n - 1]
    IN  Upto[Len(s)]

Pieces(found) ==
    [i \in 1..(2 * Len(found)) |->
        [is |-> found[(i + 1) \div 2].is, of |-> found[(i + 1) \div 2].of, ends |-> i % 2 = 0]]
Line(is, n) == Pieces(<<[is |-> is, of |-> n]>>)

\* Where the last line that is complete ends.
LastEnd(pieces) == Max({0} \cup {i \in DOMAIN pieces : pieces[i].ends})

\* Mutant: what follows the last newline is thrown away.
KeptNothing(pieces) == <<>>
\* "The last element may be a partial line; keep it for the next chunk."
Kept(pieces) == SubSeq(pieces, LastEnd(pieces) + 1, Len(pieces))

\* The lines one finds in pieces; one without its beginning is not valid JSON.
Parsed(pieces) ==
    LET LineAt(i) == [is |-> IF i > 1 /\ ~pieces[i - 1].ends THEN pieces[i].is ELSE "garbled",
                      of |-> pieces[i].of]
    IN  Select([i \in DOMAIN pieces |-> LineAt(i)], {i \in DOMAIN pieces : pieces[i].ends})

OfKind(found, kinds) == Select(found, {k \in DOMAIN found : found[k].is \in kinds})
Text(found) ==
    LET text == OfKind(found, {"text"}) IN [k \in DOMAIN text |-> text[k].of]
Rest(pieces, n) == SubSeq(pieces, n + 1, Len(pieces))
-----------------------------------------------------------------------------
(* The provider *)

\* Visible text; tool calls; private reasoning, comments and blank lines.
Speak(is) ==
    /\ provider = "speaking" /\ lines < MaxLines
    /\ lines' = lines + 1
    /\ said' = IF is = "text" THEN Append(said, lines') ELSE said
    /\ up' = IF gateway = "streaming" THEN up \o Line(is, lines') ELSE up
    /\ UNCHANGED <<provider, unread, gateway, row, hopVars, readerVars>>

\* It is done; or it refuses, breaks off, or STREAM_TIMEOUT_MS aborts it.
StopSpeaking ==
    /\ provider = "speaking"
    /\ provider' \in {"ended", "failed"}
    /\ UNCHANGED <<lines, said, gateVars, hopVars, readerVars>>
-----------------------------------------------------------------------------
(* The delivery route and its provider adapter *)

Deltas(pieces) == OfKind(Parsed(pieces), {"text", "tool"})

\* A chunk of the provider's stream, of any length: lines that are not JSON, or
\* carry nothing visible, are skipped.
Receive ==
    /\ gateway = "streaming"
    /\ \E n \in 1..Len(up) :
          LET pieces == unread \o SubSeq(up, 1, n) IN
          /\ up' = Rest(up, n)
          /\ unread' = Kept(pieces)
          /\ down' = down \o Pieces(Deltas(pieces))
    /\ UNCHANGED <<upVars, gateway, row, relay, hop, readerVars>>

ReceiveEnd ==
    /\ gateway = "streaming" /\ provider = "ended" /\ up = <<>>
    /\ gateway' = "closing"
    /\ UNCHANGED <<upVars, up, unread, row, hopVars, readerVars>>

\* The stream rejects; what had arrived but was not read is lost.
ReceiveError ==
    /\ gateway = "streaming" /\ provider = "failed"
    /\ gateway' = "failing" /\ up' = <<>>
    /\ UNCHANGED <<upVars, unread, row, hopVars, readerVars>>

\* closeInferenceRequest, then the last chunk and the end of the stream; or it
\* throws, with or without having committed.
Close ==
    /\ gateway = "closing"
    /\ \/ row' = "SETTLED" /\ gateway' = "over" /\ down' = down \o Line("usage", 0)
       \/ row' \in {row, "SETTLED"} /\ gateway' = "failing" /\ UNCHANGED down
    /\ UNCHANGED <<upVars, up, unread, relay, hop, readerVars>>

\* Mutant: the catch logs the error and leaves the response as it is.
FailSilently ==
    /\ gateway = "failing"
    /\ row' \in {row, "FAILED"}
    /\ gateway' = "logged"
    /\ UNCHANGED <<upVars, up, unread, hopVars, readerVars>>

\* The catch: failInferenceRequest, which only logs that it could not write, then
\* the error in the stream, whose headers are out.
FailDelivery ==
    /\ gateway = "failing"
    /\ row' \in {row, "FAILED"}
    /\ gateway' = "over" /\ down' = down \o Line("error", 0)
    /\ UNCHANGED <<upVars, up, unread, relay, hop, readerVars>>

Crash ==
    /\ gateway # "crashed" /\ gateway' = "crashed"
    /\ UNCHANGED <<upVars, up, unread, row, hopVars, readerVars>>
-----------------------------------------------------------------------------
(* The harness handler *)

\* streamChat passes on what it reads.
Pipe ==
    /\ Harness /\ hop = "open" /\ gateway # "crashed"
    /\ \E n \in 1..Len(down) :
          relay' = relay \o SubSeq(down, 1, n) /\ down' = Rest(down, n)
    /\ UNCHANGED <<upVars, gateVars, hop, readerVars>>

\* Its reader rejects: the catch finds the headers sent and does nothing, not even
\* end the response.
BreakHop ==
    /\ Harness /\ hop = "open" /\ hop' = "broken"
    /\ UNCHANGED <<upVars, gateVars, down, relay, readerVars>>
-----------------------------------------------------------------------------
(* The reader *)

Arriving == IF Harness THEN relay ELSE down

\* chat.tsx: the text of the lines before the first that makes it throw.
ReadChunk ==
    /\ reader = "reading"
    /\ \E n \in 1..Len(Arriving) :
          LET pieces == buffer \o SubSeq(Arriving, 1, n)
              found == Parsed(pieces)
              throws == {k \in DOMAIN found : found[k].is \in {"error", "garbled"}}
              read == IF throws = {} THEN found ELSE SubSeq(found, 1, Min(throws) - 1)
          IN  /\ shown' = shown \o Text(read)
              /\ reader' = IF throws = {} THEN "reading" ELSE "failed"
              /\ buffer' = Kept(pieces)
              /\ IF Harness THEN relay' = Rest(relay, n) /\ UNCHANGED down
                            ELSE down' = Rest(down, n) /\ UNCHANGED relay
    /\ UNCHANGED <<upVars, gateVars, hop>>

\* done: the answer is complete.
ReadEnd ==
    /\ reader = "reading" /\ gateway = "over" /\ hop = "open"
    /\ down = <<>> /\ relay = <<>>
    /\ reader' = "complete"
    /\ UNCHANGED <<upVars, gateVars, hopVars, buffer, shown>>

\* The reader's own connection is lost.
LoseConnection ==
    /\ reader = "reading" /\ reader' = "failed"
    /\ UNCHANGED <<upVars, gateVars, hopVars, buffer, shown>>

\* The gateway is gone, and the connection with it: reading rejects.
ReadError == gateway = "crashed" /\ LoseConnection
-----------------------------------------------------------------------------
Next ==
    /\ \/ \E is \in {"text", "tool", "hidden"} : Speak(is)
       \/ StopSpeaking
       \/ Receive \/ ReceiveEnd \/ ReceiveError \/ Close \/ FailDelivery \/ Crash
       \/ Pipe \/ BreakHop
       \/ ReadChunk \/ ReadEnd \/ LoseConnection
    /\ UNCHANGED caller

Spec == Init /\ [][Next]_vars

\* The provider is aborted after five minutes, what was written arrives, and
\* the database answers.
Fairness ==
    /\ WF_vars(StopSpeaking /\ UNCHANGED caller)
    /\ WF_vars((Receive \/ ReceiveEnd \/ ReceiveError \/ Close \/ FailDelivery) /\ UNCHANGED caller)
    /\ WF_vars(Pipe /\ UNCHANGED caller)
    /\ WF_vars((ReadChunk \/ ReadEnd \/ ReadError) /\ UNCHANGED caller)

FairSpec == Spec /\ Fairness
-----------------------------------------------------------------------------
Outcome == IF reader = "reading" THEN "open" ELSE reader

Promise == INSTANCE StreamPromise
    WITH finished <- provider = "ended", booked <- row = "SETTLED",
         outcome <- Outcome, harness <- Harness,
         mute <- (hop = "broken" /\ gateway # "crashed")

\* However the two streams are cut into chunks and whatever fails on the way: what
\* the reader has is the beginning of what the model said, and "complete" means all
\* of it and booked (deepseek.ts:222-261, chat.ts:195-260, chat.tsx:177-231).
ReadsWhatWasSaid == Promise!Spec

\* The end comes, whatever fails, though not always to a harness
\* (chat.ts:224-260, chat.tsx:211-231, harness/handler.ts:236-246).
ReaderIsAnswered == Promise!Answered
===============================================================================
