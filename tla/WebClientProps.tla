---------------------------- MODULE WebClientProps -----------------------------
(***************************************************************************)
(* What the person at the browser may rely on.                             *)
(***************************************************************************)
EXTENDS WebClient, Integers

SessionOrNull == Sessions \cup {Nothing}
SessionInfo == [id : SessionOrNull, spent : Nat, open : BOOLEAN, failed : BOOLEAN]
Jobs == [op : {"open", "restore", "activate", "wallet", "end", "refresh"},
         of : SessionOrNull, answer : SessionInfo \cup {Nothing},
         by : {"gate", "settings", "load", "none"}]
Turn == [at : InFlight \cup {"unsent", "done", "failed", "gone"}, of : SessionOrNull,
         ceiling : Int, offer : Nat, receipt : BOOLEAN]
Message == [is : {"idle", "probe", "challenge", "payment", "ticket", "delivery",
                  "text", "refusal"}, price : Nat]

PayTypeOK ==
    /\ spent \in [Sessions -> Nat]
    /\ moved \in [Turns -> Nat] /\ charged \in [Turns -> Nat]
    /\ wire \in [Turns -> Message] /\ turn \in [Turns -> Turn]

SessionTypeOK ==
    /\ opened \in 0..MaxSessions
    /\ closed \subseteq Sessions /\ dropped \subseteq 1..opened
    /\ stored \in 1..opened \cup {Nothing} /\ token \in 1..opened \cup {Nothing}
    /\ info \in SessionInfo \cup {Nothing}
    /\ jobs \subseteq Jobs

PageTypeOK ==
    /\ page \in {"chat", "settings"}
    /\ ready \in BOOLEAN /\ wallet \in BOOLEAN
    /\ busy \subseteq {"gate", "settings", "chat"} /\ onScreen \subseteq Turns
    /\ mishaps \in 0..Mishaps /\ visits \in 0..Visits

\* Every variable has its type; in particular the sessions in the browser are
\* ones the gateway opened.
TypeOK == PayTypeOK /\ SessionTypeOK /\ PageTypeOK
-----------------------------------------------------------------------------
\* PaymentFlow shows "settled", then "paid", with the transaction.  (A refused
\* payment is called "settled" too, for a moment and without a transaction.)
SaysPaid(t) == turn[t].receipt /\ turn[t].at \in {"settled", "collecting", "done"}

\* A turn that shows a transaction, as settled or as paid, stands for one transfer of the
\* amount it showed, and no turn ever moves money twice: whatever requests or
\* answers are lost, and whatever the user presses, leaves or reloads meanwhile
\* (x402-flow.ts:104-161, chat.tsx:115-231).
ReceiptIsTrue ==
    \A t \in Turns :
        /\ moved[t] <= 1
        /\ SaysPaid(t) => moved[t] = 1 /\ charged[t] = turn[t].offer

\* Once this tab has disconnected a session, or has heard how its revocation went,
\* the session is not the tab's any more, in memory or in localStorage: not when
\* revoking it failed, not by a late answer, not after a reload.  Turns under way
\* keep its key and token and may still pay with it (chat.tsx:122-141), but no
\* turn begins to (session-context.tsx:160-177).
DroppedStaysDropped == token \notin dropped /\ stored \notin dropped
PayingBy(s) == {t \in Turns : Flying(t) /\ turn[t].of = s}
DroppedWindsDown ==
    [][\A s \in dropped :
          s \notin {token', stored'} /\ PayingBy(s)' \subseteq PayingBy(s)]_vars

-----------------------------------------------------------------------------
(* Why they hold: the inductive invariant *)

\* What a turn has paid is fixed by its leg and by what is on the wire.
TurnInv(t) ==
    /\ Flying(t) => turn[t].of # Nothing
    /\ moved[t] <= 1
    /\ wire[t].is \in {"idle", "probe", "challenge", "payment"} => moved[t] = 0
    /\ turn[t].at = "unsent" => wire[t].is = "idle"
    /\ turn[t].at = "paying" =>
          /\ wire[t].is = "payment" => wire[t].price = turn[t].offer
          /\ wire[t].is = "ticket" => moved[t] = 1 /\ charged[t] = turn[t].offer
    /\ turn[t].at = "settled" => IF turn[t].receipt THEN wire[t].is = "ticket"
                                                    ELSE wire[t].is = "refusal"
    /\ turn[t].at \in {"collecting", "done"} \/ (turn[t].at = "settled" /\ turn[t].receipt)
          => moved[t] = 1 /\ charged[t] = turn[t].offer

\* The session a job makes current when it is done, if it does.
Brings(j, s) ==
    \/ j.op \in {"restore", "activate"} /\ j.of = s
    \/ j.op = "open" /\ j.answer # Nothing /\ ~j.answer.failed /\ j.answer.id = s

\* Sessions on their way into the browser, and those it has, had or is ending.
UnderWay == {s \in SessionOrNull : \E j \in jobs : Brings(j, s)}
Ending == {s \in SessionOrNull : \E j \in jobs : j.op = "end" /\ j.of = s}
Known == {token} \cup dropped \cup Ending

BroughtOnce ==
    \A j, k \in jobs : \A s \in SessionOrNull : Brings(j, s) /\ Brings(k, s) => j = k

\* What a job holds once its call was made and answered.
JobHolds(j) ==
    /\ j.op = "refresh" => j.of # Nothing
    /\ j.op = "activate" => j.answer # Nothing

\* Only a session the browser does not know of yet is under way into it, and
\* one job brings it: no late answer can bring back what the user gave up.
JobsInv ==
    /\ UnderWay \cup Ending \subseteq 1..opened
    /\ UnderWay \cap Known = {}
    /\ BroughtOnce
    /\ \A j \in jobs : JobHolds(j)

PayInv == PayTypeOK /\ \A t \in Turns : TurnInv(t)
SessionInv == SessionTypeOK /\ JobsInv /\ DroppedStaysDropped
WebInv == PayInv /\ SessionInv /\ PageTypeOK
-----------------------------------------------------------------------------
(* Progress *)

\* No button stays disabled: each busy flag is taken back, however the call that
\* set it ends (chat.tsx:230, connect-gate.tsx:39, settings.tsx:159).
NothingHangs ==
    \A component \in {"gate", "settings", "chat"} :
        component \in busy ~> component \notin busy
===============================================================================
