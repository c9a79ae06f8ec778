----------------------------- MODULE PriceCache -----------------------------
(***************************************************************************)
(* SmsActivateClient.getPrices: what the SMS source offers, asked for at   *)
(* most every few seconds and kept in one variable of the process.         *)
(*                                                                         *)
(* Callers find the kept answer fresh, or ask the source; while one waits, *)
(* others may ask too, and the answers come back in any order, each of     *)
(* them replacing what is kept.  An answer is named by the time at which   *)
(* the source gave it; 0 stands for the empty map the process starts with. *)
(***************************************************************************)
EXTENDS Integers

CONSTANTS
  Caller,    \* listings that need the offers
  Ttl,       \* how long a kept answer is fresh (five seconds)
  Timeout,   \* how long a caller waits for the source (thirty seconds)
  MaxTime    \* bound: the clock stops there

ASSUME PriceCacheAssumption ==
  /\ {Ttl, Timeout} \subseteq Nat \ {0}
  /\ MaxTime \in Nat \ {0}

VARIABLES
  now,      \* the clock of the process
  cache,    \* cacheGetPricesAllCountries
  asking,   \* asking[c]: the request caller c is waiting for
  served    \* served[c]: what caller c got last, until he asks again

cacheVars == <<now, cache, asking, served>>

-----------------------------------------------------------------------------
Time == 1..MaxTime
Data == 0..MaxTime

\* data is the answer; kept is the one that was kept when the caller asked.
NotAsking == [pc |-> "none", since |-> 0, kept |-> 0, data |-> 0]

\* "offers": the caller got an answer of the source; "kept": the source
\* answered an error, and the caller got what was kept; "nothing": the source
\* did not answer in time, and the listing goes on without counts.
\* age is that of the answer when the caller got it.
Served == [how : {"offers", "kept", "nothing"}, age : Data]

Nothing == [how |-> "nothing", age |-> 0]

CacheInit ==
  /\ now = 1
  /\ cache = [data |-> 0, time |-> 0]
  /\ asking = [c \in Caller |-> NotAsking]
  /\ served = [c \in Caller |-> Nothing]

-----------------------------------------------------------------------------
\* The cache holds an answer, and it has not aged.
Fresh == cache.time # 0 /\ cache.time + Ttl > now

Serves(c, how, data) ==
  served' = [served EXCEPT ![c] = [how |-> how, age |-> now - data]]

Ends(c) == asking' = [asking EXCEPT ![c] = NotAsking]

TakeKept(c) ==
  /\ asking[c].pc = "none"
  /\ Fresh
  /\ Serves(c, "offers", cache.data)
  /\ UNCHANGED <<now, cache, asking>>

Ask(c) ==
  /\ asking[c].pc = "none"
  /\ ~Fresh
  /\ asking' = [asking EXCEPT ![c] = [NotAsking EXCEPT !.pc = "asked", !.since = now,
                                        !.kept = cache.data]]
  /\ served' = [served EXCEPT ![c] = Nothing]
  /\ UNCHANGED <<now, cache>>

\* The source answers; the answer travels.
SourceAnswers(c) ==
  /\ asking[c].pc = "asked"
  /\ asking' = [asking EXCEPT ![c].pc = "answered", ![c].data = now]
  /\ UNCHANGED <<now, cache, served>>

\* Mutant of Stamped.
StampedLate(c) == [data |-> asking[c].data, time |-> now + Ttl]

\* What is kept of an answer: the later one replaces the earlier, whichever is
\* newer.
Stamped(c) == [data |-> asking[c].data, time |-> now]

Receive(c) ==
  /\ asking[c].pc = "answered"
  /\ cache' = Stamped(c)
  /\ Serves(c, "offers", asking[c].data)
  /\ Ends(c)
  /\ UNCHANGED now

\* Mutant of AfterError.
AfterErrorRenewed(c) == [data |-> asking[c].kept, time |-> now]

\* An error does not renew what is kept.
AfterError(c) == cache

\* The source answers an error, as a string.
ReceiveError(c) ==
  /\ asking[c].pc = "answered"
  /\ cache' = AfterError(c)
  /\ Serves(c, "kept", asking[c].kept)
  /\ Ends(c)
  /\ UNCHANGED now

\* The call rejects, at the latest when its time is over.
Reject(c) ==
  /\ asking[c].pc # "none"
  /\ Serves(c, "nothing", now)
  /\ Ends(c)
  /\ UNCHANGED <<now, cache>>

\* Time passes no caller by whose time is over.
Tick ==
  /\ now < MaxTime
  /\ \A c \in Caller : asking[c].pc # "none" => now < asking[c].since + Timeout
  /\ now' = now + 1
  /\ UNCHANGED <<cache, asking, served>>

CacheNext ==
  \/ Tick
  \/ \E c \in Caller :
       \/ TakeKept(c)
       \/ Ask(c)
       \/ SourceAnswers(c)
       \/ Receive(c)
       \/ ReceiveError(c)
       \/ Reject(c)

CacheSpec == CacheInit /\ [][CacheNext]_cacheVars

-----------------------------------------------------------------------------
(* Properties.                                                              *)

\* The clock, the cache and its callers are well formed.
CacheTypeOK ==
  /\ now \in Time
  /\ cache \in [data : Data, time : Data]
  /\ asking \in [Caller -> [pc : {"none", "asked", "answered"}, since : Data,
                            kept : Data, data : Data]]
  /\ served \in [Caller -> Served]

\* A slow answer may replace a newer one and count as fresh (line 144), and
\* callers may share it.  Still no caller is given offers older than the time
\* an answer may take and the time it is fresh, unless the source has answered
\* him an error: then the offers are as old as they were when he asked.
AgeInv ==
  \A c \in Caller :
    served[c].how = "offers" => served[c].age < Ttl + Timeout

=============================================================================
