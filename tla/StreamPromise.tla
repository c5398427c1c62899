----------------------------- MODULE StreamPromise ------------------------------
(***************************************************************************)
(* What a reader of a paid answer relies on, with no chunk, line or        *)
(* connection in sight: what it has is always the beginning of what the    *)
(* model said; it is told the answer is complete only when it has all of   *)
(* it, the model was done and the request is booked as completed; and it   *)
(* is told something in the end.                                           *)
(***************************************************************************)
EXTENDS Naturals, Sequences

VARIABLES
    said, finished, booked,     \* the model's text; it is done; the row is completed
    shown, outcome,             \* what the reader has, and what it was told
    mute,                       \* nothing will be told any more
    harness                     \* the reader is a harness

promiseVars == <<said, finished, booked, shown, outcome, mute, harness>>

Init ==
    /\ said = <<>> /\ shown = <<>>
    /\ finished = FALSE /\ booked = FALSE /\ mute = FALSE
    /\ outcome = "open"
    /\ harness \in BOOLEAN

Say ==
    /\ ~finished
    /\ Len(said') = Len(said) + 1 /\ SubSeq(said', 1, Len(said)) = said
    /\ UNCHANGED <<finished, booked, shown, outcome, mute>>

Finish ==
    /\ finished' = TRUE
    /\ UNCHANGED <<said, booked, shown, outcome, mute>>

\* The inference row; a failure noted later takes the booking back.
Book ==
    /\ outcome # "complete"
    /\ booked' \in BOOLEAN /\ booked' => finished
    /\ UNCHANGED <<said, finished, shown, outcome, mute>>

Longer == \E n \in Len(shown)..Len(said) : shown' = SubSeq(said, 1, n)

Show ==
    /\ outcome = "open"
    /\ Longer
    /\ UNCHANGED <<said, finished, booked, outcome, mute>>

Complete ==
    /\ outcome = "open" /\ finished /\ booked /\ shown = said
    /\ outcome' = "complete"
    /\ UNCHANGED <<said, finished, booked, shown, mute>>

\* Something went wrong and the reader knows, whatever it has got by then.
Fail ==
    /\ outcome = "open" /\ outcome' = "failed"
    /\ Longer
    /\ UNCHANGED <<said, finished, booked, mute>>

\* A harness may be left without an end (harness/handler.ts:236-246), until the
\* whole process ends.
FallSilent ==
    /\ harness /\ mute' = TRUE
    /\ UNCHANGED <<said, finished, booked, shown, outcome>>

ComeApart ==
    /\ mute /\ mute' = FALSE
    /\ UNCHANGED <<said, finished, booked, shown, outcome>>

Next ==
    /\ Say \/ Finish \/ Book \/ Show \/ Complete \/ Fail \/ FallSilent \/ ComeApart
    /\ UNCHANGED harness

Spec == Init /\ [][Next]_promiseVars

\* The reader is not left waiting, unless nothing will be told any more.
Answered == []<>(mute \/ outcome # "open")
===============================================================================
