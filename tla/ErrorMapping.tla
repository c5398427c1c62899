----------------------------- MODULE ErrorMapping -----------------------------
(***************************************************************************)
(* What the caller is told of an error a handler threw: middleware/error.ts *)
(* over the errors of providers/.  An error is known by its class, by the   *)
(* number in its `status` and, for a provider's, by the numbers in the JSON *)
(* error documents nested in its message, outermost first.  Wording is left *)
(* out; a body cut short by upstreamError holds no document.                *)
(***************************************************************************)
EXTENDS Integers, Sequences

CONSTANTS
    UpstreamCodes,   \* numbers a provider may report, on the error or in a document
    NoCode           \* no number was given

ASSUME CodesAssumption == UpstreamCodes \subseteq Int /\ NoCode \notin Int

\* Documents unwrapProviderMessage opens.
MAX_DEPTH == 3

Codes == UpstreamCodes \cup {NoCode}

\* The statuses HttpError, InvalidRequestError, WalletAuthError and
\* ProviderUnavailableError are thrown with.
OwnStatuses == {400, 401, 402, 404, 500, 503}

\* A provider's error may hold one document more than the loop opens.
OwnErrors == [class : {"own"}, status : OwnStatuses, nested : {<<>>}]
UpstreamErrors == [class : {"upstream"}, status : Codes,
                   nested : UNION {[1..n -> Codes] : n \in 0..MAX_DEPTH + 1}]
Errors == OwnErrors \cup UpstreamErrors

\* unwrapProviderMessage: the innermost number wins over the outer ones and over
\* the status of the error itself.
CodeOf(e) ==
    LET coded == {i \in DOMAIN e.nested : i <= MAX_DEPTH /\ e.nested[i] # NoCode}
    IN  IF coded = {} THEN e.status
        ELSE e.nested[CHOOSE i \in coded : \A j \in coded : j <= i]

\* classifyUpstream, and classify's 500 for what it does not know: an error without
\* a status of its own is not looked into.
UpstreamStatus(e) ==
    IF e.status = NoCode THEN 500
    ELSE CASE CodeOf(e) = 429 -> 429
           [] CodeOf(e) = 400 -> 400
           [] CodeOf(e) \in {401, 403} -> 503
           [] CodeOf(e) >= 500 -> 503
           [] OTHER -> 500

\* Mutant: the caller is told what the provider said.
StatusPassedThrough(e) == IF CodeOf(e) = NoCode THEN 500 ELSE CodeOf(e)

Status(e) == IF e.class = "own" THEN e.status ELSE UpstreamStatus(e)

\* The statuses an error can be answered with.
ErrorStatuses == {Status(e) : e \in Errors}
===============================================================================
