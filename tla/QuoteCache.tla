------------------------------ MODULE QuoteCache ------------------------------
(***************************************************************************)
(* apps/gateway/src/quote.ts: the in-memory cache priceRequest() consults.  *)
(* A miss awaits the provider's token counter, so several misses for one   *)
(* body can be under way at once, each holding the catalogue price it read *)
(* before the await.                                                       *)
(***************************************************************************)
EXTENDS Naturals, Sequences, FiniteSets

CONSTANTS
    Calls,               \* the requests that ask for a price
    Bodies,              \* request bodies, told apart by their cache key
    MaxPrice,            \* bound: no quote exceeds it
    CACHE_MAX_ENTRIES,
    Nothing              \* "undefined" / "null" of the source

ASSUME PriceAssumption == MaxPrice \in Nat \ {0}
ASSUME CacheAssumption == CACHE_MAX_ENTRIES \in Nat \ {0}
ASSUME UndefinedAssumption == Nothing \notin [body : Bodies, quote : 1..MaxPrice]

VARIABLES
    price,      \* what quoteRequest computes for a body from today's catalogue
    cache,      \* the Map, in insertion order
    counting    \* per call: the price request suspended in countInputTokens

quoteVars == <<price, cache, counting>>

Prices == 1..MaxPrice
Entry == [body : Bodies, quote : Prices, fresh : BOOLEAN]

QuoteInit ==
    /\ price \in [Bodies -> Prices]
    /\ cache = <<>>
    /\ counting = [c \in Calls |-> Nothing]

At(b) == {i \in DOMAIN cache : cache[i].body = b}

\* readCache: an entry answers until its TTL has passed.
Hit(c, b, q) ==
    /\ counting[c] = Nothing
    /\ \E i \in At(b) : cache[i].fresh /\ cache[i].quote = q
    /\ UNCHANGED quoteVars

Without(i) == [j \in 1..(Len(cache) - 1) |-> cache[IF j < i THEN j ELSE j + 1]]

\* readCache deletes an expired entry; priceRequest then looks the model up
\* and awaits the provider's token count.
Miss(c, b) ==
    /\ counting[c] = Nothing
    /\ \A i \in At(b) : ~cache[i].fresh
    /\ \/ At(b) = {} /\ UNCHANGED cache
       \/ \E i \in At(b) : cache' = Without(i)
    /\ counting' = [counting EXCEPT ![c] = [body |-> b, quote |-> price[b]]]
    /\ UNCHANGED price

\* Mutant: the size is compared after the insertion it should make room for.
FullOffByOne == Len(cache) > CACHE_MAX_ENTRIES
Full == Len(cache) >= CACHE_MAX_ENTRIES

\* A Map iterates in insertion order, so its first key is the oldest.
\* Mutant: the newest entry makes room.
WithoutNewest == SubSeq(cache, 1, Len(cache) - 1)
WithoutOldest == Tail(cache)

\* writeCache: a full map first loses its oldest entry, also when the key is
\* already present; setting a present key keeps its place.
Write(b, q) ==
    LET kept == IF Full THEN WithoutOldest ELSE cache
        entry == [body |-> b, quote |-> q, fresh |-> TRUE]
        present == \E i \in DOMAIN kept : kept[i].body = b
    IN  cache' = IF present
                 THEN [i \in DOMAIN kept |->
                          IF kept[i].body = b THEN entry ELSE kept[i]]
                 ELSE Append(kept, entry)

\* The count arrived: the price read before the await is cached and returned.
Counted(c, b, q) ==
    /\ counting[c] = [body |-> b, quote |-> q]
    /\ Write(b, q)
    /\ counting' = [counting EXCEPT ![c] = Nothing]
    /\ UNCHANGED price

\* priceRequest(b) returns q to call c.
Quoted(c, b, q) == Hit(c, b, q) \/ Counted(c, b, q)

\* Counting failed, or the prompt exceeds the context window: priceRequest throws.
CountFailed(c) ==
    /\ counting[c] # Nothing
    /\ counting' = [counting EXCEPT ![c] = Nothing]
    /\ UNCHANGED <<price, cache>>

\* CACHE_TTL_MS passes over an entry.
Age(b) ==
    /\ \E i \in At(b) :
       /\ cache[i].fresh
       /\ cache' = [cache EXCEPT ![i] = [body |-> b, quote |-> cache[i].quote, fresh |-> FALSE]]
    /\ UNCHANGED <<price, counting>>

\* A catalogue refresh changes what the body costs; quoteRequest never goes
\* below the minimum charge.
Reprice(b, p) ==
    /\ p # price[b]
    /\ price' = [price EXCEPT ![b] = p]
    /\ UNCHANGED <<cache, counting>>

\* The process restarts: the Map and every suspended request are gone.
QuoteRestart ==
    /\ cache' = <<>>
    /\ counting' = [c \in Calls |-> Nothing]
    /\ UNCHANGED price

QuoteTypeOK ==
    /\ price \in [Bodies -> Prices]
    /\ cache \in Seq(Entry)
    /\ counting \in [Calls -> [body : Bodies, quote : Prices] \cup {Nothing}]
-----------------------------------------------------------------------------
(* priceRequest on its own: callers that price any body, again and again *)

QuoteNext ==
    \/ \E c \in Calls, b \in Bodies :
          Miss(c, b) \/ \E q \in Prices : Quoted(c, b, q)
    \/ \E c \in Calls : CountFailed(c)
    \/ \E b \in Bodies : Age(b) \/ \E p \in Prices : Reprice(b, p)
    \/ QuoteRestart

QuoteSpec == QuoteInit /\ [][QuoteNext]_quoteVars

\* The limits writeCache keeps although misses for one body race: at most
\* CACHE_MAX_ENTRIES entries, and one entry per body, so that a price request
\* cannot find an older quote than the one written last (quote.ts:60-67).
CacheWithinLimit ==
    /\ Len(cache) <= CACHE_MAX_ENTRIES
    /\ \A i, j \in DOMAIN cache : cache[i].body = cache[j].body => i = j

\* Why a body's live quote may stop being the answer to the next price request,
\* which is all that stands between the 402 challenge and the paid retry
\* (quote.ts:35-41): its TTL passed, another call was already counting the
\* same body when it was written, it was the oldest entry of a full map, or
\* the process restarted.  A catalogue refresh alone never changes it.
LiveQuoteIsKept ==
    [][\A i \in DOMAIN cache :
          LET b == cache[i].body IN
          cache[i].fresh =>
              \/ \E j \in DOMAIN cache' : cache'[j].body = b /\ cache'[j].quote = cache[i].quote
              \/ \E c \in Calls : counting[c] # Nothing /\ counting[c].body = b
              \/ i = 1 /\ Len(cache) = CACHE_MAX_ENTRIES
              \/ cache' = <<>>]_quoteVars
===============================================================================
