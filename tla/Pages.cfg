\* Two callers of the price cache; two editors of two articles.
SPECIFICATION PagesSpec
CONSTANTS
  Caller = {c1, c2, c3}
  Ttl = 2
  Timeout = 3
  MaxTime = 8
  Alias = {a1, a2}
  Text = {t1, t2}
  Editor = {e1, e2}
  MaxArticles = 2
CHECK_DEADLOCK FALSE
SYMMETRY Symmetry
INVARIANTS CacheTypeOK AgeInv ArticlesTypeOK RefusedInv
PROPERTY ArticlesKept
