------------------------------- MODULE Dashboard -------------------------------
(***************************************************************************)
(* The pages of the web client that only show what the gateway tells them:  *)
(* Live, which polls GET /v1/analytics, Analytics, which asks it once per   *)
(* window, and the list of harness credentials in Settings, which is asked  *)
(* for again after every change.  Answers take any time and arrive in any   *)
(* order; meanwhile the ledger grows and the user moves about.              *)
(*                                                                         *)
(* The session is open throughout: what ends it is in WebClient.  Figures   *)
(* are counts, and a window is its number of days.                          *)
(***************************************************************************)
EXTENDS Naturals, FiniteSets

CONSTANTS
    Slots,          \* bound: questions of a page under way at once
    Windows,        \* the windows of the Analytics page
    MaxRows,        \* bound: rows of each table of the ledger
    Credentials,    \* harness credentials the wallet may come to have
    Mishaps,        \* bound: fetches that throw
    Visits,         \* bound: page changes, windows chosen, sessions switched
    Nothing

ASSUME DashboardAssumption ==
    /\ IsFiniteSet(Slots) /\ Slots # {}
    /\ Windows \subseteq Nat /\ MaxRows \in Nat /\ Mishaps \in Nat /\ Visits \in Nat

VARIABLES
    rows,       \* at the gateway: rows of each table the account has
    creds,      \* at the gateway: what became of each credential
    page,
    token,      \* the session in memory, numbered as they are opened
    days,       \* the window selected on Analytics
    asks,       \* the questions of the page's effects that are under way
    data,       \* the figures shown
    error,      \* an error is shown instead of, or above, the figures
    list,       \* the credentials shown
    url,        \* the credential whose access URL is shown
    handlers,   \* what the buttons of Settings are awaiting
    mishaps, visits

pageVars == <<page, token, days>>
shownVars == <<data, error, list, url>>
boundVars == <<mishaps, visits>>
vars == <<rows, creds, pageVars, asks, shownVars, handlers, boundVars>>

Pages == {"chat", "live", "analytics", "settings"}
LIVE_DAYS == 1

\* The endpoint queries them side by side, outside any transaction: totals and
\* the request table read inferenceRequest, the third reads payment.
Parts == {"totals", "requests", "payments"}
TableOf(part) == IF part = "payments" THEN "payment" ELSE "inferenceRequest"

Idle == [what |-> "nothing"]
Figures(s, d) == [what |-> "figures", of |-> s, days |-> d, got |-> [part \in Parts |-> Nothing]]
Listing(s) == [what |-> "list", of |-> s, got |-> Nothing]
WindowOf(p) == IF p = "live" THEN LIVE_DAYS ELSE days

\* The effects that run when a page is mounted or what they depend on changes.
Effects(p, s, d) ==
    CASE p = "live" -> {Figures(s, LIVE_DAYS)}
      [] p = "analytics" -> {Figures(s, d)}
      [] p = "settings" -> {Listing(s)}
      [] OTHER -> {}

Init ==
    /\ rows = [table \in {"inferenceRequest", "payment"} |-> 0]
    /\ creds = [c \in Credentials |-> "none"]
    /\ page = "chat" /\ token = 1 /\ days \in Windows
    /\ asks = [s \in Slots |-> Idle]
    /\ data = Nothing /\ error = FALSE /\ list = Nothing /\ url = Nothing
    /\ handlers = {}
    /\ mishaps = 0 /\ visits = 0
-----------------------------------------------------------------------------
(* The gateway *)

\* A request is served or a payment booked, by the chat or a harness.
LedgerGrows(table) ==
    /\ rows[table] < MaxRows
    /\ rows' = [rows EXCEPT ![table] = @ + 1]
    /\ UNCHANGED <<creds, pageVars, asks, shownVars, handlers, boundVars>>

\* One of the queries of GET /v1/analytics.
Query(s, part) ==
    /\ asks[s].what = "figures" /\ asks[s].got[part] = Nothing
    /\ asks' = [asks EXCEPT ![s].got[part] = rows[TableOf(part)]]
    /\ UNCHANGED <<rows, creds, pageVars, shownVars, handlers, boundVars>>

\* GET /v1/harness/tokens for the question of a page.
ListQuery(s) ==
    /\ asks[s].what = "list" /\ asks[s].got = Nothing
    /\ asks' = [asks EXCEPT ![s].got = creds]
    /\ UNCHANGED <<rows, creds, pageVars, shownVars, handlers, boundVars>>

Advance(h, k) == handlers' = (handlers \ {h}) \cup {k}

\* POST /v1/harness/tokens, and .../revoke, which may find it revoked already.
HarnessWrite(h) ==
    /\ h.step = "sent"
    /\ \/ /\ h.op = "create"
          /\ \E c \in Credentials :
                /\ creds[c] = "none"
                /\ creds' = [creds EXCEPT ![c] = "active"]
                /\ Advance(h, [h EXCEPT !.step = "written", !.cred = c])
       \/ /\ h.op = "revoke"
          /\ creds' = [creds EXCEPT ![h.cred] = "revoked"]
          /\ Advance(h, [h EXCEPT !.step = "written"])
    /\ UNCHANGED <<rows, pageVars, asks, shownVars, boundVars>>

\* Mutant: the list is asked for together with the change.
ListsAtOnce(h) == h.got = Nothing
ListsNow(h) == h.got = Nothing /\ h.step = "listing"
HarnessList(h) ==
    /\ ListsNow(h)
    /\ Advance(h, [h EXCEPT !.got = creds])
    /\ UNCHANGED <<rows, creds, pageVars, asks, shownVars, boundVars>>
-----------------------------------------------------------------------------
(* Pages, windows and sessions *)

\* Mutant: the effect returns no cleanup.
NotCancelled(what) == asks
\* The cleanup of an effect of Live or Analytics: its answers are dropped.
Cancelled(what) ==
    [s \in Slots |-> IF asks[s].what = what THEN Idle ELSE asks[s]]

\* The effect runs again, when there is a slot left for its question.
Rerun(kept, effects) ==
    LET free == {s \in Slots : kept[s] = Idle}
    IN  IF effects = {} THEN asks' = kept
        ELSE \E s \in free, ask \in effects : asks' = [kept EXCEPT ![s] = ask]

\* A page is a new component: what it showed, asked and awaited is gone, though
\* the gateway may still do what a button asked for.
Visit(p) ==
    /\ p # page /\ visits < Visits /\ visits' = visits + 1
    /\ page' = p
    /\ Rerun([s \in Slots |-> Idle], Effects(p, token, days))
    /\ data' = Nothing /\ error' = FALSE /\ list' = Nothing /\ url' = Nothing
    /\ handlers' = {[h EXCEPT !.mounted = FALSE] : h \in handlers}
    /\ UNCHANGED <<rows, creds, token, days, mishaps>>

\* A window button: the figures shown stay until the new ones come.
ChooseWindow(d) ==
    /\ page = "analytics" /\ ~error /\ data # Nothing
    /\ d # days /\ visits < Visits /\ visits' = visits + 1
    /\ days' = d
    /\ Rerun(Cancelled("figures"), {Figures(token, d)})
    /\ UNCHANGED <<rows, creds, page, token, shownVars, handlers, mishaps>>

\* A second openSession of this tab comes in: every page's effect runs again,
\* but Settings does not cancel the question of the session before.
SwitchSession ==
    /\ visits < Visits /\ visits' = visits + 1
    /\ token' = token + 1
    /\ Rerun(Cancelled("figures"), Effects(page, token + 1, days))
    /\ UNCHANGED <<rows, creds, page, days, shownVars, handlers, mishaps>>

\* Mutants: the feed is loaded once, or polled until the first error.
TicksOnce == FALSE
Ticks == page = "live"

\* LiveFeed's interval, whether or not the question before has been answered.
Tick(s) ==
    /\ Ticks
    /\ asks[s] = Idle
    /\ asks' = [asks EXCEPT ![s] = Figures(token, LIVE_DAYS)]
    /\ UNCHANGED <<rows, creds, pageVars, shownVars, handlers, boundVars>>

\* Whatever comes last is shown; Live takes its error back, Analytics does not.
ShowFigures(s) ==
    /\ asks[s].what = "figures" /\ \A part \in Parts : asks[s].got[part] # Nothing
    /\ data' = [of |-> asks[s].of, days |-> asks[s].days, got |-> asks[s].got]
    /\ error' = (error /\ page = "analytics")
    /\ asks' = [asks EXCEPT ![s] = Idle]
    /\ UNCHANGED <<rows, creds, pageVars, list, url, handlers, boundVars>>

ShowList(s) ==
    /\ asks[s].what = "list" /\ asks[s].got # Nothing
    /\ list' = asks[s].got
    /\ asks' = [asks EXCEPT ![s] = Idle]
    /\ UNCHANGED <<rows, creds, pageVars, data, error, url, handlers, boundVars>>

\* A question's fetch throws.  Settings shows nothing of it.
AskThrows(s) ==
    /\ asks[s] # Idle
    /\ mishaps < Mishaps /\ mishaps' = mishaps + 1
    /\ error' = (error \/ asks[s].what = "figures")
    /\ asks' = [asks EXCEPT ![s] = Idle]
    /\ UNCHANGED <<rows, creds, pageVars, data, list, url, handlers, visits>>
-----------------------------------------------------------------------------
(* The harness buttons of Settings *)

Busy == \E h \in handlers : h.mounted
Press(op, c) ==
    /\ page = "settings" /\ ~Busy
    /\ handlers' = handlers \cup
          {[op |-> op, cred |-> c, step |-> "sent", got |-> Nothing, mounted |-> TRUE]}
    /\ UNCHANGED <<rows, creds, pageVars, asks, data, list, url, boundVars>>

Used == {c \in Credentials : creds[c] # "none"}
Creating == {h \in handlers : h.op = "create" /\ h.step = "sent"}
PressGenerate ==
    /\ Cardinality(Used) + Cardinality(Creating) < Cardinality(Credentials)
    /\ Press("create", Nothing)
    /\ error' = FALSE

PressRevoke(c) ==
    /\ list # Nothing /\ list[c] = "active"
    /\ Press("revoke", c)
    /\ UNCHANGED error

\* The change is answered; the URL is shown, and the list asked for.
Written(h) ==
    /\ h.step = "written"
    /\ Advance(h, [h EXCEPT !.step = "listing"])
    /\ url' = IF h.op = "create" /\ h.mounted THEN h.cred ELSE url
    /\ UNCHANGED <<rows, creds, pageVars, asks, data, error, list, boundVars>>

Listed(h) ==
    /\ h.step = "listing" /\ h.got # Nothing
    /\ list' = IF h.mounted THEN h.got ELSE list
    /\ handlers' = handlers \ {h}
    /\ UNCHANGED <<rows, creds, pageVars, asks, data, error, url, boundVars>>

\* A fetch throws, or is refused; only generateHarness shows it.
HandlerThrows(h) ==
    /\ mishaps < Mishaps /\ mishaps' = mishaps + 1
    /\ handlers' = handlers \ {h}
    /\ error' = (error \/ (h.op = "create" /\ h.mounted))
    /\ UNCHANGED <<rows, creds, pageVars, asks, data, list, url, visits>>
-----------------------------------------------------------------------------
Answers(s) == (\E part \in Parts : Query(s, part)) \/ ListQuery(s)
Shows(s) == ShowFigures(s) \/ ShowList(s)
Continues(h) == HarnessWrite(h) \/ HarnessList(h) \/ Written(h) \/ Listed(h)

Next ==
    \/ \E table \in DOMAIN rows : LedgerGrows(table)
    \/ \E s \in Slots : Answers(s) \/ Shows(s) \/ Tick(s) \/ AskThrows(s)
    \/ \E h \in handlers : Continues(h) \/ HandlerThrows(h)
    \/ \E p \in Pages : Visit(p)
    \/ \E d \in Windows : ChooseWindow(d)
    \/ \E c \in Credentials : PressRevoke(c)
    \/ PressGenerate \/ SwitchSession

Spec == Init /\ [][Next]_vars

\* Questions are answered and the interval fires; nothing makes the user act.
Fairness ==
    /\ \A s \in Slots : WF_vars(Answers(s)) /\ WF_vars(Shows(s))
    /\ WF_vars(\E s \in Slots : Tick(s))
    /\ WF_vars(\E h \in handlers : Continues(h))

FairSpec == Spec /\ Fairness
===============================================================================
