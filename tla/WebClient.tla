------------------------------- MODULE WebClient --------------------------------
(***************************************************************************)
(* One tab of the web client (apps/web): the session it keeps in memory and *)
(* in localStorage, the connect gate, the settings page and the chat, whose *)
(* every turn is a payment.  The gateway is what its endpoints answer.      *)
(*                                                                         *)
(* Each await of the code is a job or a leg of a turn, and in between the   *)
(* user may press anything that is on screen and enabled, change the page   *)
(* or reload.  Timers, layout and the waits inside one SDK call are left    *)
(* out; so are a second tab and the polling of /live and /analytics, which  *)
(* only read.                                                              *)
(***************************************************************************)
EXTENDS Naturals, FiniteSets

CONSTANTS
    MaxTurns,       \* bound: prompts the user sends
    MaxSessions,    \* bound: sessions the gateway opens for this wallet
    Prices,         \* what a challenge may ask, in atomic units
    SpendCap,       \* the total cap each session is opened with
    Mishaps,        \* bound: fetches and imports that throw, sessions that expire
    Visits,         \* bound: page changes and reloads
    Nothing         \* null

ASSUME WebAssumption ==
    /\ MaxTurns \in Nat /\ MaxSessions \in Nat /\ SpendCap \in Nat \ {0}
    /\ Prices \subseteq Nat \ {0}
    /\ Mishaps \in Nat /\ Visits \in Nat

VARIABLES
    \* at the gateway and on the chain
    opened,     \* sessions created so far, numbered in that order
    closed,     \* those revoked or expired
    spent,      \* spentAtomic of each session
    moved,      \* transfers executed for each turn
    charged,    \* amount of the latest of them
    wire,       \* the request a turn has under way, or its response
    \* in the browser
    stored,     \* localStorage: the session whose token and key it holds
    page,       \* "chat" or "settings"
    ready,      \* the restore of a reload is over
    wallet,     \* a LocalKeyWallet is in memory
    token,      \* the session whose token is in memory
    info,       \* the SessionInfo in memory
    busy,       \* components of this page whose busy flag is set
    jobs,       \* what the session provider is awaiting
    turn,       \* what each send has done
    onScreen,   \* turns of the Chat that is mounted
    dropped,    \* history: sessions the user ended or disconnected
    mishaps, visits

gateVars == <<opened, closed, spent>>
payVars == <<moved, charged>>
sessionVars == <<stored, ready, wallet, token, info>>
boundVars == <<mishaps, visits>>
vars == <<gateVars, payVars, wire, sessionVars, page, busy, jobs, turn, onScreen,
          dropped, boundVars>>

Turns == 1..MaxTurns
Sessions == 1..MaxSessions
ASSUME NullAssumption == Nothing \notin Sessions

Idle == [is |-> "idle", price |-> 0]
Unsent == [at |-> "unsent", of |-> Nothing, ceiling |-> 0, offer |-> 0, receipt |-> FALSE]
InFlight == {"probing", "paying", "settled", "collecting"}
Flying(t) == turn[t].at \in InFlight

\* by: the component that waits for the job, "none" once it is unmounted.
Job(op, s, by) == [op |-> op, of |-> s, answer |-> Nothing, by |-> by]
InfoOf(s) == [id |-> s, spent |-> spent[s], open |-> TRUE, failed |-> FALSE]
Failed == [id |-> Nothing, spent |-> 0, open |-> FALSE, failed |-> TRUE]

Status ==
    CASE ~ready -> "loading"
      [] ready /\ token # Nothing /\ info # Nothing /\ info.open -> "session"
      [] OTHER -> IF wallet THEN "connected" ELSE "disconnected"

\* ConnectGate renders the chat while the status is "session", else unmounts it,
\* and with it the turns shown and its busy flag.
ChatShown == page = "chat" /\ Status = "session"
KeepChat(flags) ==
    IF ChatShown' THEN busy' = flags /\ UNCHANGED onScreen
                  ELSE busy' = flags \ {"chat"} /\ onScreen' = {}

Init ==
    /\ opened = 0 /\ closed = {}
    /\ spent = [s \in Sessions |-> 0]
    /\ moved = [t \in Turns |-> 0]
    /\ charged = [t \in Turns |-> 0]
    /\ wire = [t \in Turns |-> Idle]
    /\ stored = Nothing /\ page = "chat" /\ ready = TRUE /\ wallet = FALSE
    /\ token = Nothing /\ info = Nothing
    /\ busy = {} /\ jobs = {} /\ onScreen = {} /\ dropped = {}
    /\ turn = [t \in Turns |-> Unsent]
    /\ mishaps = 0 /\ visits = 0
-----------------------------------------------------------------------------
(* The gateway *)

\* requireSession: an exhausted session is refused like a closed one.
Admits(s) == s \notin closed /\ spent[s] < SpendCap

GatewayProbe(t) ==
    /\ wire[t].is = "probe"
    /\ \/ Admits(turn[t].of) /\ \E p \in Prices :
             wire' = [wire EXCEPT ![t] = [is |-> "challenge", price |-> p]]
       \/ wire' = [wire EXCEPT ![t].is = "refusal"]
    /\ UNCHANGED <<gateVars, payVars>>

\* The signed amount moves, and the response carries the receipt; or it moves
\* and the response is an error, the settlement having timed out (PaidCalls).
GatewayPay(t) ==
    /\ wire[t].is = "payment"
    /\ \/ /\ Admits(turn[t].of)
          /\ moved' = [moved EXCEPT ![t] = @ + 1]
          /\ charged' = [charged EXCEPT ![t] = wire[t].price]
          /\ \/ /\ spent' = [spent EXCEPT ![turn[t].of] = @ + wire[t].price]
                /\ wire' = [wire EXCEPT ![t].is = "ticket"]
             \/ wire' = [wire EXCEPT ![t].is = "refusal"] /\ UNCHANGED spent
       \/ wire' = [wire EXCEPT ![t].is = "refusal"] /\ UNCHANGED <<payVars, spent>>
    /\ UNCHANGED <<opened, closed>>

GatewayDeliver(t) ==
    /\ wire[t].is = "delivery"
    /\ \E answer \in {"text", "refusal"} : wire' = [wire EXCEPT ![t].is = answer]
    /\ UNCHANGED <<gateVars, payVars>>

GatewayTurn(t) ==
    /\ GatewayProbe(t) \/ GatewayPay(t) \/ GatewayDeliver(t)
    /\ UNCHANGED <<sessionVars, page, busy, jobs, turn, onScreen, dropped, boundVars>>

Answer(j, a) == jobs' = (jobs \ {j}) \cup {[j EXCEPT !.answer = a]}

\* createSession's three calls; GET current and revoke, both behind requireSession.
GatewayJob(j) ==
    /\ j.answer = Nothing
    /\ \/ /\ j.op = "open" /\ opened < MaxSessions
          /\ opened' = opened + 1
          /\ Answer(j, InfoOf(opened + 1)) /\ UNCHANGED closed
       \/ /\ j.op = "open" /\ opened = MaxSessions
          /\ Answer(j, Failed) /\ UNCHANGED <<opened, closed>>
       \/ /\ j.op \in {"restore", "refresh"}
          /\ Answer(j, IF Admits(j.of) THEN InfoOf(j.of) ELSE Failed)
          /\ UNCHANGED <<opened, closed>>
       \/ /\ j.op = "end" /\ Admits(j.of)
          /\ closed' = closed \cup {j.of}
          /\ Answer(j, [InfoOf(j.of) EXCEPT !.open = FALSE]) /\ UNCHANGED opened
       \/ /\ j.op = "end" /\ ~Admits(j.of)
          /\ Answer(j, Failed) /\ UNCHANGED <<opened, closed>>
    /\ UNCHANGED <<spent, payVars, wire, sessionVars, page, busy, turn, onScreen,
                   dropped, boundVars>>

\* The session expires, or its name is burnt elsewhere.
Expire(s) ==
    /\ s <= opened /\ s \notin closed
    /\ mishaps < Mishaps /\ mishaps' = mishaps + 1
    /\ closed' = closed \cup {s}
    /\ UNCHANGED <<opened, spent, payVars, wire, sessionVars, page, busy, jobs, turn,
                   onScreen, dropped, visits>>
-----------------------------------------------------------------------------
(* Pages *)

Visit(p) ==
    /\ page # p /\ visits < Visits
    /\ page' = p /\ visits' = visits + 1
    /\ busy' = {} /\ onScreen' = {}
    /\ jobs' = {IF j.by = "load" THEN j ELSE [j EXCEPT !.by = "none"] : j \in jobs}
    /\ UNCHANGED <<gateVars, payVars, wire, sessionVars, turn, dropped, mishaps>>

\* All memory is lost; what was sent stays sent.  The provider mounts anew.
Reload ==
    /\ visits < Visits /\ visits' = visits + 1
    /\ wallet' = FALSE /\ token' = Nothing /\ info' = Nothing
    /\ ready' = (stored = Nothing)
    /\ jobs' = IF stored = Nothing THEN {} ELSE {Job("restore", stored, "load")}
    /\ turn' = [t \in Turns |-> IF Flying(t) THEN [turn[t] EXCEPT !.at = "gone"] ELSE turn[t]]
    /\ busy' = {} /\ onScreen' = {}
    /\ UNCHANGED <<gateVars, payVars, wire, stored, page, dropped, mishaps>>
-----------------------------------------------------------------------------
(* The connect gate and the settings page *)

Connect ==
    /\ page = "chat" /\ Status = "disconnected" /\ "gate" \notin busy
    /\ wallet' = TRUE
    /\ UNCHANGED <<gateVars, payVars, wire, stored, ready, token, info, page, busy, jobs,
                   turn, onScreen, dropped, boundVars>>

PressOpen ==
    /\ page = "chat" /\ Status = "connected" /\ "gate" \notin busy
    /\ jobs' = jobs \cup {Job("open", Nothing, "gate")}
    /\ busy' = busy \cup {"gate"}
    /\ UNCHANGED <<gateVars, payVars, wire, sessionVars, page, turn, onScreen, dropped,
                   boundVars>>

PressRevoke ==
    /\ page = "settings" /\ "settings" \notin busy
    /\ token # Nothing /\ info # Nothing /\ info.open
    /\ jobs' = jobs \cup {Job("end", token, "settings")}
    /\ busy' = busy \cup {"settings"}
    /\ UNCHANGED <<gateVars, payVars, wire, sessionVars, page, turn, onScreen, dropped,
                   boundVars>>

Disconnect ==
    /\ page = "settings" /\ wallet
    /\ stored' = Nothing /\ wallet' = FALSE /\ info' = Nothing /\ token' = Nothing
    /\ dropped' = dropped \cup ({token} \ {Nothing})
    /\ UNCHANGED <<gateVars, payVars, wire, ready, page, busy, jobs, turn, onScreen, boundVars>>
-----------------------------------------------------------------------------
(* The session provider's awaits *)

\* The component that pressed the button takes its busy flag back.
Release(j) == KeepChat(busy \ {j.by})

\* openSession: stored before it is activated; a refusal is shown by the gate.
Opened(j) ==
    /\ j.op = "open" /\ j.answer # Nothing
    /\ UNCHANGED <<ready, wallet, token, info, dropped, mishaps>>
    /\ IF j.answer.failed
       THEN /\ jobs' = jobs \ {j} /\ UNCHANGED stored
            /\ Release(j)
       ELSE /\ stored' = j.answer.id
            /\ jobs' = (jobs \ {j}) \cup {[j EXCEPT !.op = "activate", !.of = j.answer.id]}
            /\ UNCHANGED <<busy, onScreen>>

\* A session the gateway does not admit is refused, never described: any throw
\* clears what is stored.
Restored(j) ==
    /\ j.op = "restore" /\ j.answer # Nothing
    /\ IF j.answer.failed
       THEN stored' = Nothing /\ ready' = TRUE /\ jobs' = jobs \ {j}
       ELSE /\ jobs' = (jobs \ {j}) \cup {[j EXCEPT !.op = "activate"]}
            /\ UNCHANGED <<stored, ready>>
    /\ UNCHANGED <<wallet, token, info, busy, onScreen, dropped, mishaps>>

\* activate, up to its second await.
Activate(j) ==
    /\ j.op = "activate"
    /\ token' = j.of /\ info' = j.answer
    /\ jobs' = (jobs \ {j}) \cup {[j EXCEPT !.op = "wallet"]}
    /\ UNCHANGED <<stored, ready, wallet, dropped, mishaps>>
    /\ KeepChat(busy)

\* createPayingFetch throws: its modules cannot be loaded.
ActivateFails(j) ==
    /\ j.op = "activate"
    /\ mishaps < Mishaps /\ mishaps' = mishaps + 1
    /\ jobs' = jobs \ {j}
    /\ IF j.by = "load" THEN stored' = Nothing /\ ready' = TRUE ELSE UNCHANGED <<stored, ready>>
    /\ UNCHANGED <<wallet, token, info, dropped>>
    /\ Release(j)

SetWallet(j) ==
    /\ j.op = "wallet"
    /\ wallet' = TRUE
    /\ ready' = (ready \/ j.by = "load")
    /\ jobs' = jobs \ {j}
    /\ UNCHANGED <<stored, token, info, dropped, mishaps>>
    /\ Release(j)

\* Mutant: the session is forgotten only once the gateway has revoked it.
ForgetOnceRevoked(j) ==
    IF j.answer.failed THEN UNCHANGED <<stored, token>>
                       ELSE stored' = Nothing /\ token' = Nothing
\* endSession's finally: the browser forgets the session either way.
Forget(j) == stored' = Nothing /\ token' = Nothing

\* endSession, which acts on whatever session is current by now.
SessionEnded(j) ==
    /\ j.op = "end" /\ j.answer # Nothing
    /\ info' = IF j.answer.failed THEN info ELSE j.answer
    /\ Forget(j)
    /\ dropped' = dropped \cup {j.of}
    /\ jobs' = jobs \ {j}
    /\ UNCHANGED <<ready, wallet, mishaps>>
    /\ Release(j)

\* refresh shows what it was told, whichever session is current by now.
Refreshed(j) ==
    /\ j.op = "refresh" /\ j.answer # Nothing
    /\ info' = IF j.answer.failed THEN info ELSE j.answer
    /\ jobs' = jobs \ {j}
    /\ UNCHANGED <<stored, ready, wallet, token, dropped, mishaps>>
    /\ KeepChat(busy)

\* The call throws: the request is lost, or its answer is.
JobOutage(j) ==
    /\ j.op \notin {"activate", "wallet"}
    /\ j.answer # Failed
    /\ mishaps < Mishaps /\ mishaps' = mishaps + 1
    /\ Answer(j, Failed)
    /\ UNCHANGED <<sessionVars, busy, onScreen, dropped>>

Continues(j) ==
    /\ UNCHANGED <<gateVars, payVars, wire, page, turn, visits>>
    /\ \/ Opened(j) \/ Restored(j) \/ Activate(j) \/ SetWallet(j)
       \/ SessionEnded(j) \/ Refreshed(j)

JobThrows(j) ==
    /\ UNCHANGED <<gateVars, payVars, wire, page, turn, visits>>
    /\ JobOutage(j) \/ ActivateFails(j)
-----------------------------------------------------------------------------
(* The chat *)

Request(t, what, p) == wire' = [wire EXCEPT ![t] = [is |-> what, price |-> p]]

\* send: key, token and ceiling are those of this moment, to the end.
Send(t) ==
    /\ ChatShown /\ "chat" \notin busy
    /\ turn[t] = Unsent /\ \A before \in 1..(t - 1) : turn[before] # Unsent
    /\ onScreen' = onScreen \cup {t}
    /\ IF wallet
       THEN /\ turn' = [turn EXCEPT ![t].at = "probing", ![t].of = token,
                                    ![t].ceiling = SpendCap - info.spent]
            /\ Request(t, "probe", 0)
            /\ busy' = busy \cup {"chat"}
       ELSE turn' = [turn EXCEPT ![t].at = "failed"] /\ UNCHANGED <<wire, busy>>
    /\ UNCHANGED <<jobs, mishaps>>

\* Mutant: the flag is taken back at the end of the try block.
SentAwayOnSuccess(t, to) == IF t \in onScreen /\ to = "done" THEN busy \ {"chat"} ELSE busy
\* send's finally: setBusy(false), heard by the Chat that is mounted if it is its own.
SentAway(t, to) == IF t \in onScreen THEN busy \ {"chat"} ELSE busy

Finish(t, to) ==
    /\ turn' = [turn EXCEPT ![t].at = to]
    /\ busy' = SentAway(t, to)
    /\ UNCHANGED <<wire, onScreen>>

\* The signer refuses to sign above its ceiling.
Challenged(t) ==
    /\ turn[t].at = "probing" /\ wire[t].is = "challenge"
    /\ IF wire[t].price <= turn[t].ceiling
       THEN /\ turn' = [turn EXCEPT ![t].at = "paying", ![t].offer = wire[t].price]
            /\ Request(t, "payment", wire[t].price)
            /\ UNCHANGED <<busy, onScreen>>
       ELSE Finish(t, "failed")
    /\ UNCHANGED <<jobs, mishaps>>

\* payWithProgress says "settled" of any response to the paid request; one that
\* carries no settlement shows no transaction.
Settled(t) ==
    /\ turn[t].at = "paying" /\ wire[t].is \in {"ticket", "refusal"}
    /\ turn' = [turn EXCEPT ![t].at = "settled", ![t].receipt = (wire[t].is = "ticket")]
    /\ UNCHANGED <<wire, busy, onScreen, jobs, mishaps>>

\* The ticket has been read from the response: the second leg begins.
Redeemed(t) ==
    /\ turn[t].at = "settled" /\ wire[t].is = "ticket"
    /\ turn' = [turn EXCEPT ![t].at = "collecting"]
    /\ Request(t, "delivery", wire[t].price)
    /\ UNCHANGED <<busy, onScreen, jobs, mishaps>>

Collected(t) ==
    /\ turn[t].at = "collecting" /\ wire[t].is = "text"
    /\ Finish(t, "done")
    /\ jobs' = jobs \cup {Job("refresh", turn[t].of, "none")}
    /\ UNCHANGED mishaps

\* The text of a refusal has been read, and is shown.
Refused(t) ==
    /\ turn[t].at \in InFlight \ {"paying"} /\ wire[t].is = "refusal"
    /\ Finish(t, "failed")
    /\ UNCHANGED <<jobs, mishaps>>

\* Mutant: a fetch that threw is tried again from the start.
GiveUpOrRetry(t) ==
    /\ turn' = [turn EXCEPT ![t].at = "probing"]
    /\ Request(t, "probe", 0)
    /\ UNCHANGED <<busy, onScreen>>
GiveUp(t) == Finish(t, "failed")

\* fetch or the reader throws: the gateway may have handled the request, may
\* do so later, or never sees it.
FetchThrows(t) ==
    /\ Flying(t)
    /\ mishaps < Mishaps /\ mishaps' = mishaps + 1
    /\ GiveUp(t)
    /\ UNCHANGED jobs

TurnStep(t) ==
    /\ Challenged(t) \/ Settled(t) \/ Redeemed(t) \/ Collected(t) \/ Refused(t)
    /\ UNCHANGED <<gateVars, payVars, sessionVars, page, dropped, visits>>

UserSends(t) ==
    /\ Send(t) \/ FetchThrows(t)
    /\ UNCHANGED <<gateVars, payVars, sessionVars, page, dropped, visits>>
-----------------------------------------------------------------------------
Next ==
    \/ \E t \in Turns : UserSends(t) \/ TurnStep(t) \/ GatewayTurn(t)
    \/ \E j \in jobs : GatewayJob(j) \/ Continues(j) \/ JobThrows(j)
    \/ \E s \in Sessions : Expire(s)
    \/ \E p \in {"chat", "settings"} : Visit(p)
    \/ Reload \/ Connect \/ PressOpen \/ PressRevoke \/ Disconnect

Spec == Init /\ [][Next]_vars

\* Requests are answered and promises settle; the user need not do anything.
Fairness ==
    /\ \A t \in Turns : WF_vars(GatewayTurn(t)) /\ WF_vars(TurnStep(t))
    /\ WF_vars(\E j \in jobs : GatewayJob(j) \/ Continues(j))

FairSpec == Spec /\ Fairness
===============================================================================
