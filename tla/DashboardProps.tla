---------------------------- MODULE DashboardProps ----------------------------
(***************************************************************************)
(* What the pages that only show may be trusted with.                      *)
(***************************************************************************)
EXTENDS Dashboard

\* New figures are those of the session in memory and of the window whose title
\* they appear under, however late the answers to earlier questions come
\* (analytics.tsx:16-33, live-feed.tsx:30-58).
FiguresAreTheOnesAsked ==
    [][data' \notin {data, Nothing}
          => data'.of = token' /\ data'.days = WindowOf(page')]_vars

\* The feed catches up: whatever was overtaken, torn between queries or lost on
\* the way, once the ledger rests an open Live page comes to show what is in it,
\* all figures agreeing, with no error left (live-feed.tsx:30-58).
FeedIsCurrent ==
    /\ data # Nothing /\ ~error
    /\ \A part \in Parts : data.got[part] = rows[TableOf(part)]
FeedCatchesUp == <>[](page = "live" => FeedIsCurrent)

\* The list that follows a button shows what the button did: it is asked for
\* only after the gateway answered (settings.tsx:49-71).
ListShowsTheChange ==
    [][\A h \in handlers : Listed(h) /\ h.mounted
          => list'[h.cred] = "revoked" \/ (h.op = "create" /\ list'[h.cred] = "active")]_vars
-----------------------------------------------------------------------------
(* Why new figures are the ones asked for: the inductive invariant *)

Snapshots == [Credentials -> {"none", "active", "revoked"}]
Questions ==
    [what : {"nothing"}]
    \cup [what : {"figures"}, of : Nat, days : Nat, got : [Parts -> Nat \cup {Nothing}]]
    \cup [what : {"list"}, of : Nat, got : Snapshots \cup {Nothing}]

AskTypeOK ==
    /\ rows \in [{"inferenceRequest", "payment"} -> Nat]
    /\ creds \in Snapshots
    /\ page \in Pages /\ token \in Nat /\ days \in Windows
    /\ asks \in [Slots -> Questions]

\* Every question for figures under way is the one the page would ask now.
AskedInv ==
    AskTypeOK /\ \A s \in Slots :
        asks[s].what = "figures" => asks[s].of = token /\ asks[s].days = WindowOf(page)

(* Why the list shows the change: the inductive invariant *)

Handlers ==
    [op : {"create", "revoke"}, cred : Credentials \cup {Nothing},
     step : {"sent", "written", "listing"}, got : Snapshots \cup {Nothing}, mounted : BOOLEAN]

\* What the button did is in this picture of the credentials.
ShowsChange(h, picture) ==
    picture[h.cred] = "revoked" \/ (h.op = "create" /\ picture[h.cred] = "active")

\* A handler whose change was answered finds it at the gateway from then on, and
\* what the gateway listed for it, after that answer, shows it.
ChangesLast(h) ==
    /\ h.op = "revoke" \/ h.step # "sent" => h.cred \in Credentials
    /\ h.step # "sent" => ShowsChange(h, creds)
    /\ h.got # Nothing => h.step = "listing" /\ ShowsChange(h, h.got)

ListInv ==
    /\ creds \in Snapshots /\ handlers \subseteq Handlers
    /\ \A h \in handlers : ChangesLast(h)
===============================================================================
