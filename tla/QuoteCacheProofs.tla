---------------------------- MODULE QuoteCacheProofs ----------------------------
(***************************************************************************)
(* The quote cache keeps its type and its limits for every number of       *)
(* callers, bodies and entries.                                            *)
(***************************************************************************)
EXTENDS QuoteCache, SequenceTheorems, TLAPS

\* readCache, on a miss, only ever drops an entry: the cache stays within its
\* type and its limits.
LEMMA MissKeepsCache ==
    ASSUME QuoteTypeOK, NEW c \in Calls, NEW b \in Bodies, Miss(c, b)
    PROVE  QuoteTypeOK' /\ (CacheWithinLimit => CacheWithinLimit')
<1>1. counting' \in [Calls -> [body : Bodies, quote : Prices] \cup {Nothing}]
  BY DEF QuoteTypeOK, Miss
<1>2. CASE UNCHANGED cache
  BY <1>1, <1>2 DEF QuoteTypeOK, Miss, CacheWithinLimit
<1>3. CASE \E i \in At(b) : cache' = Without(i)
  <2>1. PICK i \in DOMAIN cache : cache' = Without(i)
    BY <1>3 DEF At
  <2>2. /\ cache \in Seq(Entry)
        /\ Len(cache) \in Nat /\ DOMAIN cache = 1..Len(cache)
        /\ cache \in [1..Len(cache) -> Entry]
    BY LenProperties DEF QuoteTypeOK
  <2>3. /\ cache' \in Seq(Entry)
        /\ Len(cache') = Len(cache) - 1
        /\ \A j \in DOMAIN cache' :
              cache'[j] = IF j < i THEN cache[j] ELSE cache[j + 1]
    <3>1. Len(cache) - 1 \in Nat
      BY <2>1, <2>2
    <3>2. \A j \in 1..(Len(cache) - 1) : cache[IF j < i THEN j ELSE j + 1] \in Entry
      BY <2>1, <2>2
    <3>3. Without(i) \in Seq(Entry)
      BY <3>1, <3>2, IsASeq DEF Without
    <3>4. QED
      BY <2>1, <3>1, <3>3, LenProperties DEF Without
  <2>4. DOMAIN cache' = 1..(Len(cache) - 1) /\ i \in 1..Len(cache)
    BY <2>2, <2>1, <2>3, LenProperties
  <2>5. ASSUME CacheWithinLimit PROVE CacheWithinLimit'
    <3>1. Len(cache') <= CACHE_MAX_ENTRIES
      BY <2>3, <2>5, <2>2, <2>4, CacheAssumption DEF CacheWithinLimit
    <3>2. ASSUME NEW j \in DOMAIN cache', NEW k \in DOMAIN cache',
                 cache'[j].body = cache'[k].body
          PROVE  j = k
      <4> DEFINE old(n) == IF n < i THEN n ELSE n + 1
      <4>1. old(j) \in DOMAIN cache /\ old(k) \in DOMAIN cache
        BY <2>2, <2>4
      <4>2. cache[old(j)].body = cache[old(k)].body
        BY <2>3, <3>2
      <4>3. old(j) = old(k)
        BY <2>5, <4>1, <4>2 DEF CacheWithinLimit
      <4>4. QED
        BY <2>2, <2>4, <4>3
    <3>3. QED
      BY <3>1, <3>2 DEF CacheWithinLimit
  <2>6. QED
    BY <1>1, <2>3, <2>5 DEF QuoteTypeOK, Miss
<1>4. QED
  BY <1>2, <1>3 DEF Miss

\* writeCache evicts before it inserts and never inserts a second entry.
LEMMA WriteKeepsCache ==
    ASSUME cache \in Seq(Entry), NEW b \in Bodies, NEW q \in Prices, Write(b, q)
    PROVE  cache' \in Seq(Entry) /\ (CacheWithinLimit => CacheWithinLimit')
<1> DEFINE kept == IF Len(cache) >= CACHE_MAX_ENTRIES THEN Tail(cache) ELSE cache
           entry == [body |-> b, quote |-> q, fresh |-> TRUE]
           present == \E i \in DOMAIN kept : kept[i].body = b
           inPlace == [i \in DOMAIN kept |->
                          IF kept[i].body = b THEN entry ELSE kept[i]]
<1>1. entry \in Entry
  BY DEF Entry
<1>2. /\ kept \in Seq(Entry)
      /\ CacheWithinLimit =>
            /\ Len(kept) < CACHE_MAX_ENTRIES
            /\ \A i, j \in DOMAIN kept : kept[i].body = kept[j].body => i = j
  <2>1. CASE Len(cache) >= CACHE_MAX_ENTRIES
    <3>1. cache # <<>>
      BY <2>1, CacheAssumption
    <3>2. /\ Tail(cache) \in Seq(Entry)
          /\ Len(Tail(cache)) = Len(cache) - 1
          /\ \A i \in 1..Len(Tail(cache)) : Tail(cache)[i] = cache[i + 1]
      BY <3>1, HeadTailProperties
    <3>3. QED
      BY <2>1, <3>2, CacheAssumption DEF CacheWithinLimit
  <2>2. CASE ~(Len(cache) >= CACHE_MAX_ENTRIES)
    BY <2>2, CacheAssumption DEF CacheWithinLimit
  <2>3. QED
    BY <2>1, <2>2
<1>3. cache' = IF present THEN inPlace ELSE Append(kept, entry)
  BY DEF Write, Full, WithoutOldest
<1> HIDE DEF kept, entry
<1>4. CASE present
  <2>1. cache' = inPlace
    BY <1>3, <1>4
  <2>2. inPlace \in Seq(Entry) /\ Len(inPlace) = Len(kept)
    <3>1. DOMAIN kept = 1..Len(kept) /\ Len(kept) \in Nat
      BY <1>2
    <3>2. \A i \in 1..Len(kept) : inPlace[i] \in Entry
      BY <1>1, <1>2, <3>1
    <3>3. QED
      BY <3>1, <3>2, IsASeq
  <2>3. \A i \in DOMAIN inPlace : inPlace[i].body = kept[i].body
    BY <1>2 DEF entry
  <2>4. QED
    BY <1>2, <2>1, <2>2, <2>3, CacheAssumption DEF CacheWithinLimit
<1>5. CASE ~present
  <2>1. cache' = Append(kept, entry)
    BY <1>3, <1>5
  <2>2. /\ Append(kept, entry) \in Seq(Entry)
        /\ Len(Append(kept, entry)) = Len(kept) + 1
        /\ \A i \in 1..Len(kept) : Append(kept, entry)[i] = kept[i]
        /\ Append(kept, entry)[Len(kept) + 1] = entry
    BY <1>1, <1>2, AppendProperties
  <2>3. \A i \in 1..Len(kept) : kept[i].body # entry.body
    BY <1>2, <1>5 DEF entry
  <2>4. QED
    BY <1>2, <2>1, <2>2, <2>3, CacheAssumption DEF CacheWithinLimit
<1>6. QED
  BY <1>4, <1>5

\* What every step on the quote cache preserves.
LEMMA QuoteStepKeepsCache ==
    ASSUME QuoteTypeOK,
           \/ \E c \in Calls, b \in Bodies :
                 Miss(c, b) \/ \E q \in Prices : Quoted(c, b, q)
           \/ \E c \in Calls : CountFailed(c)
           \/ \E b \in Bodies : Age(b) \/ \E p \in Prices : Reprice(b, p)
           \/ QuoteRestart
           \/ UNCHANGED quoteVars
    PROVE  QuoteTypeOK' /\ (CacheWithinLimit => CacheWithinLimit')
<1>1. ASSUME NEW c \in Calls, NEW b \in Bodies, Miss(c, b)
      PROVE  QuoteTypeOK' /\ (CacheWithinLimit => CacheWithinLimit')
  BY <1>1, MissKeepsCache
<1>2. ASSUME NEW c \in Calls, NEW b \in Bodies, NEW q \in Prices, Hit(c, b, q)
      PROVE  QuoteTypeOK' /\ (CacheWithinLimit => CacheWithinLimit')
  BY <1>2 DEF Hit, quoteVars, QuoteTypeOK, CacheWithinLimit
<1>3. ASSUME NEW c \in Calls, NEW b \in Bodies, NEW q \in Prices, Counted(c, b, q)
      PROVE  QuoteTypeOK' /\ (CacheWithinLimit => CacheWithinLimit')
  <2>1. cache' \in Seq(Entry) /\ (CacheWithinLimit => CacheWithinLimit')
    BY <1>3, WriteKeepsCache DEF Counted, QuoteTypeOK
  <2>2. QED
    BY <1>3, <2>1 DEF Counted, QuoteTypeOK
<1>4. ASSUME NEW c \in Calls, CountFailed(c)
      PROVE  QuoteTypeOK' /\ (CacheWithinLimit => CacheWithinLimit')
  BY <1>4 DEF CountFailed, QuoteTypeOK, CacheWithinLimit
<1>5. ASSUME NEW b \in Bodies, Age(b)
      PROVE  QuoteTypeOK' /\ (CacheWithinLimit => CacheWithinLimit')
  <2> DEFINE aged(i) == [body |-> b, quote |-> cache[i].quote, fresh |-> FALSE]
  <2>1. PICK i \in DOMAIN cache :
               cache[i].body = b /\ cache' = [cache EXCEPT ![i] = aged(i)]
    BY <1>5 DEF Age, At
  <2>2. cache \in Seq(Entry) /\ cache \in [DOMAIN cache -> Entry]
    BY LenProperties DEF QuoteTypeOK
  <2>3. aged(i) \in Entry
    BY <2>2 DEF Entry
  <2>4. cache' \in Seq(Entry) /\ Len(cache') = Len(cache)
        /\ \A j \in DOMAIN cache' : cache'[j].body = cache[j].body
    <3> HIDE DEF aged
    <3>1. cache' \in Seq(Entry) /\ Len(cache') = Len(cache)
      BY <2>1, <2>2, <2>3, ExceptSeq, LenProperties
    <3>2. ASSUME NEW j \in DOMAIN cache' PROVE cache'[j].body = cache[j].body
      BY <2>1, <2>2, <3>2 DEF aged
    <3>3. QED
      BY <3>1, <3>2
  <2>5. QED
    BY <1>5, <2>1, <2>2, <2>4 DEF Age, QuoteTypeOK, CacheWithinLimit
<1>6. ASSUME NEW b \in Bodies, NEW p \in Prices, Reprice(b, p)
      PROVE  QuoteTypeOK' /\ (CacheWithinLimit => CacheWithinLimit')
  BY <1>6 DEF Reprice, QuoteTypeOK, CacheWithinLimit
<1>7. CASE QuoteRestart
  BY <1>7, CacheAssumption DEF QuoteRestart, QuoteTypeOK, CacheWithinLimit
<1>8. CASE UNCHANGED quoteVars
  BY <1>8 DEF quoteVars, QuoteTypeOK, CacheWithinLimit
<1>9. QED
  BY <1>1, <1>2, <1>3, <1>4, <1>5, <1>6, <1>7, <1>8 DEF Quoted

\* The empty Map the process starts with.
LEMMA QuoteInitOK == QuoteInit => QuoteTypeOK /\ CacheWithinLimit
  BY CacheAssumption DEF QuoteInit, QuoteTypeOK, CacheWithinLimit

\* The cache's type and its two limits hold in every execution of
\* priceRequest, for any number of racing misses (quote.ts:60-67).
THEOREM CacheStaysWithinLimit == QuoteSpec => [](QuoteTypeOK /\ CacheWithinLimit)
<1>1. QuoteTypeOK /\ CacheWithinLimit /\ [QuoteNext]_quoteVars
      => (QuoteTypeOK /\ CacheWithinLimit)'
  BY QuoteStepKeepsCache DEF QuoteNext
<1>2. QED
  BY QuoteInitOK, <1>1, PTL DEF QuoteSpec
-----------------------------------------------------------------------------
(* When a live quote may stop answering *)

\* Entry i of the cache, live before the step, is accounted for after it.
Kept(i) ==
    \/ \E j \in DOMAIN cache' :
          cache'[j].body = cache[i].body /\ cache'[j].quote = cache[i].quote
    \/ \E c \in Calls : counting[c] # Nothing /\ counting[c].body = cache[i].body
    \/ i = 1 /\ Len(cache) = CACHE_MAX_ENTRIES
    \/ cache' = <<>>

\* Deleting an expired entry moves the live ones up and loses none of them.
LEMMA MissKeepsLive ==
    ASSUME QuoteTypeOK, NEW c \in Calls, NEW b \in Bodies, Miss(c, b),
           NEW i \in DOMAIN cache, cache[i].fresh
    PROVE  Kept(i)
<1>1. CASE UNCHANGED cache
  BY <1>1 DEF Kept
<1>2. CASE \E k \in At(b) : cache' = Without(k)
  <2>1. PICK k \in At(b) : cache' = Without(k)
    BY <1>2
  <2>2. k \in DOMAIN cache /\ k # i
    BY <2>1 DEF Miss, At
  <2>3. DOMAIN cache = 1..Len(cache) /\ Len(cache) \in Nat
    BY LenProperties DEF QuoteTypeOK
  <2>4. DOMAIN cache' = 1..(Len(cache) - 1)
        /\ \A j \in DOMAIN cache' : cache'[j] = cache[IF j < k THEN j ELSE j + 1]
    BY <2>1 DEF Without
  <2>5. CASE i < k
    <3>1. i \in DOMAIN cache' /\ cache'[i] = cache[i]
      BY <2>2, <2>3, <2>4, <2>5
    <3>2. QED
      BY <3>1 DEF Kept
  <2>6. CASE i > k
    <3>1. i - 1 \in DOMAIN cache' /\ cache'[i - 1] = cache[i]
      BY <2>2, <2>3, <2>4, <2>6
    <3>2. QED
      BY <3>1 DEF Kept
  <2>7. QED
    BY <2>2, <2>3, <2>5, <2>6
<1>3. QED
  BY <1>1, <1>2 DEF Miss

\* writeCache changes the quote of its own body only, and loses at most the
\* oldest entry of a full map.
LEMMA WriteKeepsLive ==
    ASSUME QuoteTypeOK, CacheWithinLimit, NEW c \in Calls, NEW b \in Bodies,
           NEW q \in Prices, Counted(c, b, q), NEW i \in DOMAIN cache
    PROVE  Kept(i)
<1> DEFINE kept == IF Full THEN WithoutOldest ELSE cache
           entry == [body |-> b, quote |-> q, fresh |-> TRUE]
           present == \E k \in DOMAIN kept : kept[k].body = b
<1>1. cache \in Seq(Entry) /\ DOMAIN cache = 1..Len(cache) /\ Len(cache) \in Nat
  BY LenProperties DEF QuoteTypeOK
<1>2. counting[c] = [body |-> b, quote |-> q]
  BY DEF Counted
<1>3. counting[c] # Nothing
  BY <1>2, UndefinedAssumption DEF Prices
<1>4. CASE cache[i].body = b
  BY <1>2, <1>3, <1>4 DEF Kept
<1>5. CASE i = 1 /\ Full
  <2>1. Len(cache) = CACHE_MAX_ENTRIES
    <3>1. Len(cache) <= CACHE_MAX_ENTRIES
      BY DEF CacheWithinLimit
    <3>2. Len(cache) >= CACHE_MAX_ENTRIES
      BY <1>5 DEF Full
    <3>3. Len(cache) \in Nat /\ CACHE_MAX_ENTRIES \in Nat
      BY <1>1, CacheAssumption
    <3> HIDE DEF kept, entry, present
    <3>4. QED
      BY <3>1, <3>2, <3>3
  <2>2. QED
    BY <1>5, <2>1, Zenon DEF Kept
<1>6. CASE cache[i].body # b /\ ~(i = 1 /\ Full)
  <2>1. PICK k \in DOMAIN kept : kept[k] = cache[i]
    <3>1. CASE Full
      <4>1. cache # <<>>
        BY <1>1
      <4>2. /\ Len(Tail(cache)) = Len(cache) - 1
            /\ \A j \in 1..Len(Tail(cache)) : Tail(cache)[j] = cache[j + 1]
            /\ DOMAIN Tail(cache) = 1..Len(Tail(cache))
        BY <1>1, <4>1, HeadTailProperties, LenProperties
      <4>3. i - 1 \in DOMAIN Tail(cache) /\ Tail(cache)[i - 1] = cache[i]
        BY <1>1, <1>6, <3>1, <4>2
      <4>4. QED
        BY <3>1, <4>3 DEF WithoutOldest
    <3>2. CASE ~Full
      BY <3>2
    <3>3. QED
      BY <3>1, <3>2
  <2>2. cache' = IF present
                 THEN [j \in DOMAIN kept |-> IF kept[j].body = b THEN entry ELSE kept[j]]
                 ELSE Append(kept, entry)
    BY DEF Counted, Write
  <2>3. kept \in Seq(Entry) /\ DOMAIN kept = 1..Len(kept) /\ Len(kept) \in Nat
    <3>1. Full => cache # <<>>
      BY CacheAssumption DEF Full
    <3>2. kept \in Seq(Entry)
      BY <1>1, <3>1, HeadTailProperties DEF WithoutOldest
    <3>3. QED
      BY <3>2, LenProperties
  <2>4. entry \in Entry
    BY DEF Entry
  <2> HIDE DEF kept, entry
  <2>5. k \in DOMAIN cache' /\ cache'[k] = cache[i]
    <3>1. CASE present
      BY <1>6, <2>1, <2>2, <3>1
    <3>2. CASE ~present
      <4>1. /\ Len(Append(kept, entry)) = Len(kept) + 1
            /\ \A j \in 1..Len(kept) : Append(kept, entry)[j] = kept[j]
            /\ DOMAIN Append(kept, entry) = 1..(Len(kept) + 1)
        BY <2>3, <2>4, AppendProperties, LenProperties
      <4>2. QED
        BY <2>1, <2>2, <2>3, <3>2, <4>1
    <3>3. QED
      BY <3>1, <3>2
  <2>6. QED
    BY <2>5 DEF Kept
<1>7. QED
  BY <1>4, <1>5, <1>6

\* Nothing but expiry, a write of the same body, eviction of the oldest entry
\* of a full map and a restart stops a quote from answering the paid retry
\* (quote.ts:35-41), however many misses race.
THEOREM LiveQuotesAreKept == QuoteSpec => LiveQuoteIsKept
<1> DEFINE Live == \A i \in DOMAIN cache :
          LET b == cache[i].body IN
          cache[i].fresh =>
              \/ \E j \in DOMAIN cache' : cache'[j].body = b /\ cache'[j].quote = cache[i].quote
              \/ \E c \in Calls : counting[c] # Nothing /\ counting[c].body = b
              \/ i = 1 /\ Len(cache) = CACHE_MAX_ENTRIES
              \/ cache' = <<>>
<1>1. QuoteTypeOK /\ CacheWithinLimit /\ [QuoteNext]_quoteVars => [Live]_quoteVars
  <2> SUFFICES ASSUME QuoteTypeOK, CacheWithinLimit, QuoteNext,
                      NEW i \in DOMAIN cache, cache[i].fresh
               PROVE  Kept(i)
    BY DEF Kept
  <2>1. ASSUME NEW c \in Calls, NEW b \in Bodies, Miss(c, b)
        PROVE  Kept(i)
    BY <2>1, MissKeepsLive
  <2>2. ASSUME NEW c \in Calls, NEW b \in Bodies, NEW q \in Prices, Quoted(c, b, q)
        PROVE  Kept(i)
    <3>1. CASE Hit(c, b, q)
      BY <3>1 DEF Hit, quoteVars, Kept
    <3>2. CASE Counted(c, b, q)
      BY <3>2, WriteKeepsLive
    <3>3. QED
      BY <2>2, <3>1, <3>2 DEF Quoted
  <2>3. ASSUME NEW b \in Bodies, Age(b)
        PROVE  Kept(i)
    <3>1. PICK k \in DOMAIN cache :
                 /\ cache[k].body = b
                 /\ cache' = [cache EXCEPT ![k] =
                                 [body |-> b, quote |-> cache[k].quote, fresh |-> FALSE]]
      BY <2>3 DEF Age, At
    <3>2. DOMAIN cache' = DOMAIN cache
          /\ cache'[i].body = cache[i].body /\ cache'[i].quote = cache[i].quote
      BY <3>1
    <3>3. QED
      BY <3>2 DEF Kept
  <2>4. CASE QuoteRestart
    BY <2>4 DEF QuoteRestart, Kept
  <2>5. CASE \/ \E c \in Calls : CountFailed(c)
             \/ \E b \in Bodies, p \in Prices : Reprice(b, p)
    BY <2>5 DEF CountFailed, Reprice, Kept
  <2>6. QED
    BY <2>1, <2>2, <2>3, <2>4, <2>5 DEF QuoteNext
<1>2. QED
  BY <1>1, CacheStaysWithinLimit, PTL DEF QuoteSpec, LiveQuoteIsKept
===============================================================================
