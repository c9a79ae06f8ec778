-------------------------- MODULE PriceCacheProofs --------------------------
(***************************************************************************)
(* Proofs about PriceCache: how old the offers can be that a listing shows,*)
(* for any number of callers, any time to live and any timeout.            *)
(*                                                                         *)
(* AgeInv speaks of what callers got; what carries it is how far the stamp *)
(* of the cache and the callers' waits may be from the answers themselves. *)
(***************************************************************************)
EXTENDS PriceCache, TLAPS

\* The stamp of what is kept is late by no more than a caller waits: the answer
\* was on its way that long (line 144 stamps it when it arrives).
StampedInv ==
  /\ cache.data <= cache.time
  /\ cache.time <= now
  /\ cache.time - cache.data <= Timeout

\* A caller waits no longer than his time, and his answer was given meanwhile.
WaitInv ==
  \A c \in Caller :
    LET a == asking[c] IN
    /\ a.pc # "none" =>
         /\ a.since <= now
         /\ now <= a.since + Timeout
         /\ a.kept <= now
    /\ a.pc = "answered" => a.since <= a.data /\ a.data <= now

\* The inductive invariant.
CacheInv == CacheTypeOK /\ StampedInv /\ WaitInv /\ AgeInv

Asking == [pc : {"none", "asked", "answered"}, since : Data, kept : Data, data : Data]

-----------------------------------------------------------------------------
\* The process starts with an empty map and nobody waiting.
LEMMA CacheInitInv == CacheInit => CacheInv
  BY PriceCacheAssumption
  DEF CacheInit, CacheInv, CacheTypeOK, StampedInv, WaitInv, AgeInv, NotAsking, Nothing,
      Served, Time, Data

\* A step that serves caller c what it should, with the cache well stamped and
\* the others left as they are, keeps the invariant.
LEMMA ServeStep ==
  ASSUME CacheInv, NEW c \in Caller,
         NEW how \in {"offers", "kept", "nothing"}, NEW data \in Data, data <= now,
         NEW a \in Asking, asking' = [asking EXCEPT ![c] = a],
         a.pc = "none" \/ (a.pc = "asked" /\ a.since = now /\ a.kept <= now),
         Serves(c, how, data), how = "offers" => now - data < Ttl + Timeout,
         UNCHANGED now,
         cache' \in [data : Data, time : Data], StampedInv'
  PROVE  CacheInv'
<1> USE PriceCacheAssumption DEF Time, Data
<1>1. now - data \in Data
  BY DEF CacheInv, CacheTypeOK
<1>2. CacheTypeOK'
  BY <1>1 DEF CacheInv, CacheTypeOK, Serves, Served, Asking
<1>3. WaitInv'
  <2> SUFFICES ASSUME NEW d \in Caller
               PROVE  LET b == asking'[d] IN
                      /\ b.pc # "none" => /\ b.since <= now
                                          /\ now <= b.since + Timeout
                                          /\ b.kept <= now
                      /\ b.pc = "answered" => b.since <= b.data /\ b.data <= now
    BY DEF WaitInv
  <2>1. CASE d = c
    BY <2>1 DEF CacheInv, CacheTypeOK, Asking
  <2>2. CASE d # c
    BY <2>2 DEF CacheInv, CacheTypeOK, WaitInv
  <2> QED BY <2>1, <2>2
<1>4. AgeInv'
  BY DEF CacheInv, CacheTypeOK, AgeInv, Serves
<1> QED BY <1>2, <1>3, <1>4 DEF CacheInv

\* What a caller becomes when he waits no longer.
LEMMA NotAskingType == NotAsking \in Asking /\ NotAsking.pc = "none"
  BY PriceCacheAssumption DEF NotAsking, Asking, Data, Time

\* Every step of the cache keeps the invariant.
LEMMA CacheStep ==
  ASSUME CacheInv, [CacheNext]_cacheVars
  PROVE  CacheInv'
<1> USE PriceCacheAssumption DEF Time, Data
<1>1. CASE UNCHANGED cacheVars
  BY <1>1 DEF cacheVars, CacheInv, CacheTypeOK, StampedInv, WaitInv, AgeInv
<1>2. CASE Tick
  BY <1>2 DEF Tick, CacheInv, CacheTypeOK, StampedInv, WaitInv, AgeInv
<1>3. ASSUME NEW c \in Caller, TakeKept(c) PROVE CacheInv'
  <2>1. /\ cache.data \in Data
        /\ cache.data <= now
        /\ now - cache.data < Ttl + Timeout
    BY <1>3 DEF TakeKept, Fresh, CacheInv, CacheTypeOK, StampedInv
  <2>2. asking[c] \in Asking /\ asking' = [asking EXCEPT ![c] = asking[c]]
    BY <1>3 DEF TakeKept, CacheInv, CacheTypeOK, Asking
  <2>3. StampedInv' /\ cache' \in [data : Data, time : Data]
    BY <1>3 DEF TakeKept, CacheInv, CacheTypeOK, StampedInv
  <2> QED BY <1>3, <2>1, <2>2, <2>3, ServeStep DEF TakeKept
<1>4. ASSUME NEW c \in Caller, Ask(c) PROVE CacheInv'
  <2> DEFINE a == [NotAsking EXCEPT !.pc = "asked", !.since = now, !.kept = cache.data]
  <2>0. /\ now \in Data /\ now - now = 0
        /\ cache.data \in Data /\ cache.data <= now
    BY DEF CacheInv, CacheTypeOK, StampedInv
  <2>1. /\ a \in Asking
        /\ a.pc = "asked" /\ a.since = now /\ a.kept <= now
    BY <2>0, NotAskingType DEF Asking
  <2>2. Serves(c, "nothing", now) /\ now \in Data
    BY <1>4, <2>0 DEF Ask, Serves, Nothing
  <2>3. StampedInv' /\ cache' \in [data : Data, time : Data]
    BY <1>4 DEF Ask, CacheInv, CacheTypeOK, StampedInv
  <2>4. asking' = [asking EXCEPT ![c] = a] /\ UNCHANGED now
    BY <1>4 DEF Ask
  <2> HIDE DEF a
  <2>5. now <= now
    BY <2>0
  <2> QED BY <2>1, <2>2, <2>3, <2>4, <2>5, ServeStep
<1>5. ASSUME NEW c \in Caller, SourceAnswers(c) PROVE CacheInv'
  <2> DEFINE a == [asking[c] EXCEPT !.pc = "answered", !.data = now]
  <2>1. /\ asking' = [asking EXCEPT ![c] = a]
        /\ UNCHANGED <<now, cache, served>>
    BY <1>5 DEF SourceAnswers
  <2>2. /\ asking[c] \in Asking /\ now \in Data
        /\ asking[c].since <= now
        /\ now <= asking[c].since + Timeout
        /\ asking[c].kept <= now
    BY <1>5 DEF SourceAnswers, CacheInv, CacheTypeOK, Asking, WaitInv
  <2>3. /\ a \in Asking
        /\ a.since = asking[c].since /\ a.kept = asking[c].kept /\ a.data = now
    BY <2>2 DEF Asking
  <2> HIDE DEF a
  <2>4. CacheTypeOK' /\ StampedInv' /\ AgeInv'
    BY <2>1, <2>3 DEF CacheInv, CacheTypeOK, Asking, StampedInv, AgeInv
  <2>5. WaitInv'
    BY <2>1, <2>2, <2>3 DEF CacheInv, CacheTypeOK, Asking, WaitInv
  <2> QED BY <2>4, <2>5 DEF CacheInv
<1>6. ASSUME NEW c \in Caller, Receive(c) PROVE CacheInv'
  <2>1. /\ asking[c].data \in Data
        /\ asking[c].data <= now
        /\ now - asking[c].data <= Timeout
    BY <1>6 DEF Receive, CacheInv, CacheTypeOK, WaitInv
  <2>2. StampedInv' /\ cache' \in [data : Data, time : Data]
    BY <1>6, <2>1 DEF Receive, Stamped, CacheInv, CacheTypeOK, StampedInv
  <2>3. now - asking[c].data < Ttl + Timeout
    BY <2>1 DEF CacheInv, CacheTypeOK
  <2> QED BY <1>6, <2>1, <2>2, <2>3, NotAskingType, ServeStep DEF Receive, Ends
<1>7. ASSUME NEW c \in Caller, ReceiveError(c) PROVE CacheInv'
  <2>1. asking[c].kept \in Data /\ asking[c].kept <= now
    BY <1>7 DEF ReceiveError, CacheInv, CacheTypeOK, WaitInv
  <2>2. StampedInv' /\ cache' \in [data : Data, time : Data]
    BY <1>7 DEF ReceiveError, AfterError, CacheInv, CacheTypeOK, StampedInv
  <2> QED BY <1>7, <2>1, <2>2, NotAskingType, ServeStep DEF ReceiveError, Ends
<1>8. ASSUME NEW c \in Caller, Reject(c) PROVE CacheInv'
  <2>1. StampedInv' /\ cache' \in [data : Data, time : Data]
    BY <1>8 DEF Reject, CacheInv, CacheTypeOK, StampedInv
  <2>2. now \in Data /\ now <= now
    BY DEF CacheInv, CacheTypeOK
  <2> QED BY <1>8, <2>1, <2>2, NotAskingType, ServeStep DEF Reject, Ends
<1> QED BY <1>1, <1>2, <1>3, <1>4, <1>5, <1>6, <1>7, <1>8 DEF CacheNext

\* The inductive invariant holds in every state of every behaviour.
LEMMA CacheInvAlways == CacheSpec => []CacheInv
<1>1. CacheInit => CacheInv
  BY CacheInitInv
<1>2. CacheInv /\ [CacheNext]_cacheVars => CacheInv'
  BY CacheStep
<1> QED BY <1>1, <1>2, PTL DEF CacheSpec

\* The clock, the cache and its callers stay well formed, for any number of
\* callers: no answer is dated after the clock, and no age is negative.
THEOREM CacheTypeCorrect == CacheSpec => []CacheTypeOK
<1>1. CacheInv => CacheTypeOK
  BY DEF CacheInv
<1> QED BY <1>1, CacheInvAlways, PTL

\* Whatever the order in which answers arrive and replace each other, no caller
\* is given offers of the source older than an answer may take and the cache may
\* keep it (getPrices, lines 124-148).
THEOREM OffersAge == CacheSpec => []AgeInv
<1>1. CacheInv => AgeInv
  BY DEF CacheInv
<1> QED BY <1>1, CacheInvAlways, PTL
=============================================================================
