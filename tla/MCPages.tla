------------------------------ MODULE MCPages ------------------------------
(***************************************************************************)
(* Small instances of PriceCache and Articles for TLC.  The two share no   *)
(* state and no caller, so one run checks both: a behaviour exercises      *)
(* either, and the other rests.                                            *)
(***************************************************************************)
EXTENDS PriceCache, Articles, TLC

VARIABLE exercised

vars == <<cacheVars, articleVars, exercised>>

PagesInit ==
  /\ CacheInit
  /\ ArticlesInit
  /\ exercised \in {"PriceCache", "Articles"}

PagesNext ==
  /\ \/ exercised = "PriceCache" /\ CacheNext /\ UNCHANGED articleVars
     \/ exercised = "Articles" /\ ArticlesNext /\ UNCHANGED cacheVars
  /\ UNCHANGED exercised

PagesSpec == PagesInit /\ [][PagesNext]_vars

Symmetry ==
  Permutations(Caller) \cup Permutations(Editor) \cup Permutations(Alias) \cup Permutations(Text)
=============================================================================
