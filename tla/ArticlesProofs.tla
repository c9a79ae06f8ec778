--------------------------- MODULE ArticlesProofs ---------------------------
(***************************************************************************)
(* Proofs about Articles, for any number of aliases, texts and requests.   *)
(*                                                                         *)
(* The invariant ties what a request carries between two queries to the    *)
(* table: what its lookup of the alias told it (as long as nobody wrote    *)
(* since), and what save() read of the row (as long as nobody else works   *)
(* on the article).                                                        *)
(***************************************************************************)
EXTENDS Articles, SequenceTheorems, TLAPS

\* What a request carries fits its place in the handler.
Fits(w) ==
  /\ w.id \in 0..Len(articles)
  /\ w.pc \in {"alias", "read", "update", "reinsert", "remove"} => w.id # 0
  /\ w.pc \in {"none", "insert"} => w.id = 0
  /\ w.pc \in {"insert", "alias", "read", "update", "reinsert"} =>
       w.alias \in Alias /\ w.text \in Text

\* What the lookup and save() found is still so, unless another request wrote.
LookedUp(w) ==
  /\ w.pc = "insert" => w.overtaken \/ Taken(w.alias) = {}
  /\ w.pc \in {"read", "update", "reinsert"} =>
       w.overtaken \/ Taken(w.alias) \subseteq {w.id}
  /\ w.pc = "reinsert" => w.overtaken \/ w.id \notin Live
  /\ w.pc = "refused" => w.overtaken

\* A request that works on an article alone finds it as it read it.
KnowsRow(w) ==
  w.id # 0 /\ w.id \notin disturbed =>
    /\ w.pc # "reinsert"
    /\ w.pc \in {"alias", "read", "update", "remove"} => articles[w.id].live
    /\ w.pc = "update" =>
         w.columns = {c \in {"alias", "text"} : articles[w.id][c] # w[c]}

AloneInv ==
  \A d, e \in Editor :
    editing[d].id = editing[e].id /\ editing[d].id # 0 /\ editing[d].id \notin disturbed
      => d = e

\* The inductive invariant.
ArticlesInv ==
  /\ ArticlesTypeOK
  /\ \A e \in Editor : Fits(editing[e]) /\ LookedUp(editing[e]) /\ KnowsRow(editing[e])
  /\ AloneInv

-----------------------------------------------------------------------------
\* A request that is not served fits any table.
LEMMA NotEditingFits ==
  ASSUME ArticlesTypeOK
  PROVE  /\ NotEditing \in Editing /\ NotEditing.id = 0 /\ NotEditing.pc = "none"
         /\ Fits(NotEditing) /\ LookedUp(NotEditing) /\ KnowsRow(NotEditing)
<1>1. Len(articles) \in Nat
  BY LenProperties DEF ArticlesTypeOK
<1> QED BY <1>1 DEF NotEditing, Editing, Fits, LookedUp, KnowsRow

\* There is no article yet, and no request.
LEMMA ArticlesInitInv == ArticlesInit => ArticlesInv
<1> SUFFICES ASSUME ArticlesInit PROVE ArticlesInv
  OBVIOUS
<1>1. articles = <<>> /\ articles \in Seq(Article) /\ disturbed = {}
  BY EmptySeq DEF ArticlesInit
<1>2. \A e \in Editor : editing[e] = NotEditing
  BY DEF ArticlesInit
<1>3. NotEditing \in Editing /\ NotEditing.id = 0
  BY DEF NotEditing, Editing
<1>4. ArticlesTypeOK
  BY <1>1, <1>3 DEF ArticlesTypeOK, ArticlesInit
<1>5. AloneInv
  BY <1>2, <1>3 DEF AloneInv
<1> QED BY <1>2, <1>4, <1>5, NotEditingFits DEF ArticlesInv

\* A request that goes on without touching the table, with what fits its new
\* place, disturbs nothing.
LEMMA GoesStep ==
  ASSUME ArticlesInv, NEW e \in Editor, NEW w \in Editing, Goes(e, w),
         Fits(w), LookedUp(w), KnowsRow(w), w.id \in {0, editing[e].id}
  PROVE  ArticlesInv'
<1>1. \A g \in Editor : editing'[g] = IF g = e THEN w ELSE editing[g]
  BY DEF Goes, ArticlesInv, ArticlesTypeOK
<1>2. ArticlesTypeOK'
  BY DEF Goes, ArticlesInv, ArticlesTypeOK
<1>3. ASSUME NEW g \in Editor
      PROVE  (Fits(editing[g]) /\ LookedUp(editing[g]) /\ KnowsRow(editing[g]))'
  <2>1. CASE g = e
    BY <1>1, <2>1 DEF Goes, Fits, LookedUp, KnowsRow, Taken, Live
  <2>2. CASE g # e
    BY <1>1, <2>2 DEF Goes, ArticlesInv, Fits, LookedUp, KnowsRow, Taken, Live
  <2> QED BY <2>1, <2>2
<1>4. AloneInv'
  BY <1>1 DEF Goes, ArticlesInv, AloneInv
<1> QED BY <1>2, <1>3, <1>4 DEF ArticlesInv

\* A request that starts on an article another works on disturbs it; the other
\* articles are as they were.
LEMMA StartsStep ==
  ASSUME ArticlesInv, NEW e \in Editor, NEW w \in Editing, Starts(e, w),
         Fits(w), LookedUp(w), KnowsRow(w)
  PROVE  ArticlesInv'
<1>1. \A g \in Editor : editing'[g] = IF g = e THEN w ELSE editing[g]
  BY DEF Starts, ArticlesInv, ArticlesTypeOK
<1>2. Len(articles) \in Nat
  BY LenProperties DEF ArticlesInv, ArticlesTypeOK
<1>3. disturbed' \subseteq 1..Len(articles) /\ UNCHANGED articles
  <2>1. w.id # 0 => w.id \in 1..Len(articles)
    BY <1>2 DEF Fits
  <2>2. disturbed \subseteq 1..Len(articles)
    BY DEF ArticlesInv, ArticlesTypeOK
  <2>3. \/ disturbed' = disturbed
        \/ w.id # 0 /\ disturbed' = disturbed \cup {w.id}
    BY DEF Starts
  <2> QED BY <2>1, <2>2, <2>3 DEF Starts
<1>4. \A i : i \in disturbed => i \in disturbed'
  BY DEF Starts
<1>5. ArticlesTypeOK'
  BY <1>3 DEF Starts, ArticlesInv, ArticlesTypeOK
<1>6. ASSUME NEW g \in Editor
      PROVE  (Fits(editing[g]) /\ LookedUp(editing[g]) /\ KnowsRow(editing[g]))'
  <2>1. CASE g = e
    BY <1>1, <1>3, <1>4, <2>1 DEF Fits, LookedUp, KnowsRow, Taken, Live
  <2>2. CASE g # e
    BY <1>1, <1>3, <1>4, <2>2 DEF ArticlesInv, Fits, LookedUp, KnowsRow, Taken, Live
  <2> QED BY <2>1, <2>2
<1>7. ASSUME w.id # 0, w.id \notin disturbed'
      PROVE  \A g \in Editor : editing[g].id # w.id
  BY <1>7 DEF Starts
<1>8. AloneInv'
  BY <1>1, <1>4, <1>7 DEF ArticlesInv, AloneInv
<1> QED BY <1>5, <1>6, <1>8 DEF ArticlesInv

\* A request that writes one row and ends: the requests that looked the table up
\* are overtaken, and none of the others works alone on the row.
LEMMA WritesStep ==
  ASSUME ArticlesInv, NEW e \in Editor, NEW table \in Seq(Article), Writes(e, table),
         Len(articles) <= Len(table),
         \A i \in 1..Len(articles) : i # editing[e].id => table[i] = articles[i]
  PROVE  ArticlesInv'
<1>0. Len(articles) \in Nat /\ Len(table) \in Nat
  BY LenProperties DEF ArticlesInv, ArticlesTypeOK
<1>1. articles' = table /\ disturbed' = disturbed /\ editing'[e] = NotEditing
  BY DEF Writes
<1>2. ASSUME NEW g \in Editor, g # e
      PROVE  /\ editing'[g].pc = editing[g].pc
             /\ editing'[g].id = editing[g].id
             /\ editing'[g].alias = editing[g].alias
             /\ editing'[g].text = editing[g].text
             /\ editing'[g].columns = editing[g].columns
             /\ editing'[g].pc \in {"insert", "read", "update", "reinsert"}
                  => editing'[g].overtaken
             /\ editing[g].overtaken => editing'[g].overtaken
             /\ editing'[g] \in Editing
  <2> DEFINE over == editing[g].overtaken \/ editing[g].pc
                       \in {"insert", "read", "update", "reinsert"}
  <2>1. editing'[g] = [editing[g] EXCEPT !.overtaken = over]
    BY <1>2 DEF Writes
  <2>2. editing[g] \in Editing /\ over \in BOOLEAN
    BY DEF ArticlesInv, ArticlesTypeOK, Editing
  <2>3. editing'[g] \in Editing
    BY <2>1, <2>2 DEF Editing
  <2>4. editing'[g].overtaken = over
    BY <2>1, <2>2 DEF Editing
  <2>5. /\ editing'[g].pc = editing[g].pc
        /\ editing'[g].id = editing[g].id
        /\ editing'[g].alias = editing[g].alias
        /\ editing'[g].text = editing[g].text
        /\ editing'[g].columns = editing[g].columns
    BY <2>1, <2>2 DEF Editing
  <2> QED BY <2>3, <2>4, <2>5
<1>3. /\ NotEditing \in Editing /\ NotEditing.id = 0 /\ NotEditing.pc = "none"
      /\ Fits(NotEditing) /\ LookedUp(NotEditing) /\ KnowsRow(NotEditing)
  BY NotEditingFits DEF ArticlesInv
<1>4. ArticlesTypeOK'
  <2>1. editing' \in [Editor -> Editing]
    BY <1>1, <1>2, <1>3 DEF Writes
  <2>2. disturbed \subseteq 1..Len(table)
    BY <1>0 DEF ArticlesInv, ArticlesTypeOK
  <2> QED BY <1>1, <2>1, <2>2 DEF ArticlesTypeOK
<1>5. ASSUME NEW g \in Editor
      PROVE  (Fits(editing[g]) /\ LookedUp(editing[g]) /\ KnowsRow(editing[g]))'
  <2>1. CASE g = e
    BY <1>1, <1>3, <2>1, <1>0 DEF Fits, LookedUp, KnowsRow
  <2>2. CASE g # e
    <3>1. Fits(editing[g])'
      BY <1>0, <1>1, <1>2, <2>2 DEF ArticlesInv, Fits
    <3>2. LookedUp(editing[g])'
      BY <1>1, <1>2, <2>2 DEF ArticlesInv, LookedUp
    <3>3. ASSUME editing[g].id # 0, editing[g].id \notin disturbed
          PROVE  table[editing[g].id] = articles[editing[g].id]
      BY <1>0, <2>2, <3>3 DEF ArticlesInv, AloneInv, Fits
    <3>4. KnowsRow(editing[g])'
      <4> SUFFICES ASSUME editing'[g].id # 0, editing'[g].id \notin disturbed'
                   PROVE  /\ editing'[g].pc # "reinsert"
                          /\ editing'[g].pc \in {"alias", "read", "update", "remove"}
                               => articles'[editing'[g].id].live
                          /\ editing'[g].pc = "update" =>
                               editing'[g].columns =
                                 {c \in {"alias", "text"} :
                                    articles'[editing'[g].id][c] # editing'[g][c]}
        BY DEF KnowsRow
      <4>1. editing'[g]["alias"] = editing[g]["alias"] /\ editing'[g]["text"] = editing[g]["text"]
        BY <1>2, <2>2
      <4> QED BY <1>1, <1>2, <2>2, <3>3, <4>1 DEF ArticlesInv, KnowsRow
    <3> QED BY <3>1, <3>2, <3>4
  <2> QED BY <2>1, <2>2
<1>6. AloneInv'
  BY <1>1, <1>2, <1>3 DEF ArticlesInv, AloneInv
<1> QED BY <1>4, <1>5, <1>6 DEF ArticlesInv

-----------------------------------------------------------------------------
(* One lemma per query.                                                     *)

\* A request becomes another of the same article: only its place changes.
LEMMA WorkType ==
  ASSUME ArticlesInv, NEW e \in Editor,
         NEW pc \in {"none", "insert", "alias", "read", "update", "reinsert", "remove", "refused"}
  PROVE  LET w == [editing[e] EXCEPT !.pc = pc] IN
         /\ editing[e] \in Editing /\ w \in Editing
         /\ w.pc = pc /\ w.id = editing[e].id /\ w.alias = editing[e].alias
         /\ w.text = editing[e].text /\ w.columns = editing[e].columns
         /\ (w.overtaken <=> editing[e].overtaken)
  BY DEF ArticlesInv, ArticlesTypeOK, Editing

\* The table, its length and its rows.
LEMMA TableType ==
  ASSUME ArticlesInv
  PROVE  /\ articles \in Seq(Article) /\ Len(articles) \in Nat
         /\ \A i \in 1..Len(articles) :
              articles[i] \in Article /\ (articles[i].live <=> i \in Live)
<1>1. articles \in Seq(Article)
  BY DEF ArticlesInv, ArticlesTypeOK
<1>2. \A i \in 1..Len(articles) : articles[i] \in Article
  BY <1>1, ElementOfSeq
<1> QED BY <1>1, <1>2, LenProperties DEF Live, Article

\* createArticle looks the alias up (lines 20-29).
LEMMA CreateArticleStep ==
  ASSUME ArticlesInv, NEW e \in Editor, NEW alias \in Alias, NEW text \in Text,
         CreateArticle(e, alias, text)
  PROVE  ArticlesInv'
<1> DEFINE w == [NotEditing EXCEPT !.pc = "insert", !.alias = alias, !.text = text]
<1>1. /\ w \in Editing /\ w.pc = "insert" /\ w.id = 0
      /\ w.alias = alias /\ w.text = text
  BY DEF NotEditing, Editing
<1>2. Taken(alias) = {} /\ Starts(e, w)
  BY DEF CreateArticle
<1> HIDE DEF w
<1>3. Fits(w) /\ LookedUp(w) /\ KnowsRow(w)
  BY <1>1, <1>2, TableType DEF Fits, LookedUp, KnowsRow
<1> QED BY <1>1, <1>2, <1>3, StartsStep

\* updateArticle finds the article.
LEMMA UpdateArticleStep ==
  ASSUME ArticlesInv, NEW e \in Editor, NEW i \in 1..MaxArticles,
         NEW alias \in Alias, NEW text \in Text, UpdateArticle(e, i, alias, text)
  PROVE  ArticlesInv'
<1> DEFINE w == [NotEditing EXCEPT !.pc = "alias", !.id = i, !.alias = alias, !.text = text]
<1>0. i \in Live /\ i \in 1..Len(articles) /\ i \in Nat /\ i # 0
  BY TableType DEF UpdateArticle, Live
<1>1. /\ w \in Editing /\ w.pc = "alias" /\ w.id = i
      /\ w.alias = alias /\ w.text = text
  BY <1>0 DEF NotEditing, Editing
<1>2. Starts(e, w)
  BY DEF UpdateArticle
<1> HIDE DEF w
<1>3. Fits(w) /\ LookedUp(w) /\ KnowsRow(w)
  BY <1>0, <1>1, TableType DEF Fits, LookedUp, KnowsRow
<1> QED BY <1>1, <1>2, <1>3, StartsStep

\* deleteArticle finds the article.
LEMMA DeleteArticleStep ==
  ASSUME ArticlesInv, NEW e \in Editor, NEW i \in 1..MaxArticles, DeleteArticle(e, i)
  PROVE  ArticlesInv'
<1> DEFINE w == [NotEditing EXCEPT !.pc = "remove", !.id = i]
<1>0. i \in Live /\ i \in 1..Len(articles) /\ i \in Nat /\ i # 0
  BY TableType DEF DeleteArticle, Live
<1>1. w \in Editing /\ w.pc = "remove" /\ w.id = i
  BY <1>0 DEF NotEditing, Editing
<1>2. Starts(e, w)
  BY DEF DeleteArticle
<1> HIDE DEF w
<1>3. Fits(w) /\ LookedUp(w) /\ KnowsRow(w)
  BY <1>0, <1>1, TableType DEF Fits, LookedUp, KnowsRow
<1> QED BY <1>1, <1>2, <1>3, StartsStep

\* A request that ends leaves the table alone.
LEMMA EndsStep ==
  ASSUME ArticlesInv, NEW e \in Editor, Goes(e, NotEditing)
  PROVE  ArticlesInv'
  BY NotEditingFits, GoesStep DEF ArticlesInv

\* The index refuses only a request that was overtaken.
LEMMA RefusedStep ==
  ASSUME ArticlesInv, NEW e \in Editor, Refused(e), editing[e].overtaken
  PROVE  ArticlesInv'
<1> DEFINE w == [editing[e] EXCEPT !.pc = "refused"]
<1>1. /\ w \in Editing /\ w.pc = "refused" /\ w.id = editing[e].id
      /\ w.overtaken
  BY WorkType
<1>2. Goes(e, w)
  BY DEF Refused
<1>3. Fits(editing[e])
  BY DEF ArticlesInv
<1> HIDE DEF w
<1>4. Fits(w) /\ LookedUp(w) /\ KnowsRow(w)
  BY <1>1, <1>3 DEF Fits, LookedUp, KnowsRow
<1> QED BY <1>1, <1>2, <1>4, GoesStep

\* The row a request asks for is an article.
LEMMA AskedType ==
  ASSUME ArticlesInv, NEW e \in Editor,
         editing[e].pc \in {"insert", "alias", "read", "update", "reinsert"}
  PROVE  Asked(e) \in Article
  BY DEF ArticlesInv, Fits, Asked, Article

\* save() of a new article.
LEMMA InsertStep ==
  ASSUME ArticlesInv, NEW e \in Editor, Insert(e)
  PROVE  ArticlesInv'
<1>1. editing[e].pc = "insert" /\ editing[e].id = 0
  BY DEF Insert, ArticlesInv, Fits
<1>2. CASE IndexRefuses(e)
  <2>1. editing[e].overtaken
    BY <1>1, <1>2 DEF ArticlesInv, LookedUp, IndexRefuses
  <2> QED BY <1>2, <2>1, RefusedStep DEF Insert
<1>3. CASE ~IndexRefuses(e)
  <2>1. Asked(e) \in Article
    BY <1>1, AskedType
  <2>2. /\ Append(articles, Asked(e)) \in Seq(Article)
        /\ Len(Append(articles, Asked(e))) = Len(articles) + 1
        /\ \A i \in 1..Len(articles) : Append(articles, Asked(e))[i] = articles[i]
    BY <2>1, TableType, AppendProperties
  <2>3. Writes(e, Append(articles, Asked(e)))
    BY <1>3 DEF Insert
  <2>4. Len(articles) <= Len(Append(articles, Asked(e)))
    BY <2>2, TableType
  <2> QED BY <2>2, <2>3, <2>4, WritesStep
<1> QED BY <1>2, <1>3

\* updateArticle looks the alias up (lines 43-47).
LEMMA LookUpAliasStep ==
  ASSUME ArticlesInv, NEW e \in Editor, LookUpAlias(e)
  PROVE  ArticlesInv'
<1>1. CASE Goes(e, NotEditing)
  BY <1>1, EndsStep
<1>2. CASE AliasFree(e) /\ Goes(e, [editing[e] EXCEPT !.pc = "read"])
  <2> DEFINE w == [editing[e] EXCEPT !.pc = "read"]
  <2>1. /\ w \in Editing /\ w.pc = "read" /\ w.id = editing[e].id
        /\ w.alias = editing[e].alias /\ w.text = editing[e].text
    BY WorkType
  <2>2. Goes(e, w) /\ Taken(editing[e].alias) \subseteq {editing[e].id}
    BY <1>2 DEF AliasFree
  <2>3. editing[e].pc = "alias" /\ Fits(editing[e]) /\ KnowsRow(editing[e])
    BY DEF LookUpAlias, ArticlesInv
  <2> HIDE DEF w
  <2>4. Fits(w) /\ LookedUp(w) /\ KnowsRow(w)
    BY <2>1, <2>2, <2>3 DEF Fits, LookedUp, KnowsRow
  <2> QED BY <2>1, <2>2, <2>4, GoesStep
<1> QED BY <1>1, <1>2 DEF LookUpAlias

\* save() reads the row: what differs is what it will write, and only a row that
\* is gone is inserted once more.
LEMMA ReadRowStep ==
  ASSUME ArticlesInv, NEW e \in Editor, ReadRow(e)
  PROVE  ArticlesInv'
<1>1. /\ editing[e].pc = "read"
      /\ Fits(editing[e]) /\ LookedUp(editing[e]) /\ KnowsRow(editing[e])
  BY DEF ReadRow, ArticlesInv
<1>2. CASE Goes(e, NotEditing)
  BY <1>2, EndsStep
<1>3. CASE Goes(e, [editing[e] EXCEPT !.pc = "update", !.columns = Differing(e)])
  <2> DEFINE w == [editing[e] EXCEPT !.pc = "update", !.columns = Differing(e)]
  <2>1. Differing(e) \in SUBSET {"alias", "text"}
    BY DEF Differing
  <2>2. /\ w \in Editing /\ w.pc = "update" /\ w.id = editing[e].id
        /\ w.alias = editing[e].alias /\ w.text = editing[e].text
        /\ w.columns = Differing(e) /\ (w.overtaken <=> editing[e].overtaken)
    BY <2>1 DEF ArticlesInv, ArticlesTypeOK, Editing
  <2>4. Goes(e, w)
    BY <1>3
  <2> HIDE DEF w
  <2>6. \A c \in {"alias", "text"} : Asked(e)[c] = w[c]
    BY <2>2 DEF Asked
  <2>3. Differing(e) = {c \in {"alias", "text"} : articles[w.id][c] # w[c]}
    BY <2>2, <2>6 DEF Differing
  <2>5. Fits(w) /\ LookedUp(w) /\ KnowsRow(w)
    BY <1>1, <2>2, <2>3 DEF Fits, LookedUp, KnowsRow
  <2> QED BY <2>2, <2>4, <2>5, GoesStep
<1>4. CASE /\ editing[e].id \notin Live
           /\ Goes(e, [editing[e] EXCEPT !.pc = "reinsert"])
  <2> DEFINE w == [editing[e] EXCEPT !.pc = "reinsert"]
  <2>1. /\ w \in Editing /\ w.pc = "reinsert" /\ w.id = editing[e].id
        /\ w.alias = editing[e].alias /\ w.text = editing[e].text
        /\ (w.overtaken <=> editing[e].overtaken)
    BY WorkType
  <2>2. editing[e].id \in 1..Len(articles) /\ ~articles[editing[e].id].live
    BY <1>1, <1>4, TableType DEF Fits
  <2>3. Goes(e, w)
    BY <1>4
  <2> HIDE DEF w
  <2>4. Fits(w) /\ LookedUp(w) /\ KnowsRow(w)
    BY <1>1, <1>4, <2>1, <2>2 DEF Fits, LookedUp, KnowsRow
  <2> QED BY <2>1, <2>3, <2>4, GoesStep
<1> QED BY <1>2, <1>3, <1>4 DEF ReadRow

\* A request that writes its own row writes the table.
LEMMA WritesRowStep ==
  ASSUME ArticlesInv, NEW e \in Editor, NEW row \in Article,
         editing[e].id \in 1..Len(articles),
         Writes(e, [articles EXCEPT ![editing[e].id] = row])
  PROVE  ArticlesInv'
<1> DEFINE table == [articles EXCEPT ![editing[e].id] = row]
<1>1. /\ table \in Seq(Article) /\ Len(table) = Len(articles)
      /\ \A i \in 1..Len(articles) : i # editing[e].id => table[i] = articles[i]
  BY TableType, ExceptSeq
<1>2. Len(articles) <= Len(table) /\ Writes(e, table)
  BY <1>1, TableType
<1> HIDE DEF table
<1> QED BY <1>1, <1>2, WritesStep

\* The updated row is an article: each column is the asked one or the old one.
LEMMA UpdatedType ==
  ASSUME ArticlesInv, NEW e \in Editor, editing[e].pc = "update",
         editing[e].id \in 1..Len(articles)
  PROVE  Updated(e) \in Article
<1>1. Asked(e) \in Article /\ articles[editing[e].id] \in Article
  BY AskedType, TableType
<1>2. \A c \in {"alias", "text", "live"} :
        Updated(e)[c] = Asked(e)[c] \/ Updated(e)[c] = articles[editing[e].id][c]
  BY DEF Updated
<1>3. /\ Updated(e).alias \in Alias
      /\ Updated(e).text \in Text
      /\ Updated(e).live \in BOOLEAN
  BY <1>1, <1>2 DEF Article
<1>4. Updated(e) = [alias |-> Updated(e).alias, text |-> Updated(e).text,
                    live |-> Updated(e).live]
  BY DEF Updated
<1> QED BY <1>3, <1>4 DEF Article

\* UPDATE of the columns that differed.
LEMMA UpdateRowStep ==
  ASSUME ArticlesInv, NEW e \in Editor, UpdateRow(e)
  PROVE  ArticlesInv'
<1>1. editing[e].pc = "update" /\ Fits(editing[e]) /\ LookedUp(editing[e])
  BY DEF UpdateRow, ArticlesInv
<1>2. editing[e].id \in 1..Len(articles)
  BY <1>1, TableType DEF Fits
<1>3. CASE Goes(e, NotEditing)
  BY <1>3, EndsStep
<1>4. CASE IndexRefuses(e) /\ Refused(e)
  <2>1. editing[e].overtaken
    BY <1>1, <1>4 DEF LookedUp, IndexRefuses
  <2> QED BY <1>4, <2>1, RefusedStep
<1>5. CASE Writes(e, [articles EXCEPT ![editing[e].id] = Updated(e)])
  BY <1>1, <1>2, <1>5, UpdatedType, WritesRowStep
<1> QED BY <1>3, <1>4, <1>5 DEF UpdateRow

\* INSERT of a row that was gone.
LEMMA ReinsertStep ==
  ASSUME ArticlesInv, NEW e \in Editor, Reinsert(e)
  PROVE  ArticlesInv'
<1>1. editing[e].pc = "reinsert" /\ Fits(editing[e]) /\ LookedUp(editing[e])
  BY DEF Reinsert, ArticlesInv
<1>2. editing[e].id \in 1..Len(articles) /\ Asked(e) \in Article
  BY <1>1, TableType, AskedType DEF Fits
<1>3. CASE (editing[e].id \in Live \/ IndexRefuses(e)) /\ Refused(e)
  <2>1. editing[e].overtaken
    BY <1>1, <1>3 DEF LookedUp, IndexRefuses
  <2> QED BY <1>3, <2>1, RefusedStep
<1>4. CASE Writes(e, [articles EXCEPT ![editing[e].id] = Asked(e)])
  BY <1>2, <1>4, WritesRowStep
<1> QED BY <1>3, <1>4 DEF Reinsert

\* DELETE of the row.
LEMMA RemoveStep ==
  ASSUME ArticlesInv, NEW e \in Editor, Remove(e)
  PROVE  ArticlesInv'
<1> DEFINE i == editing[e].id
           row == [articles[i] EXCEPT !.live = FALSE]
<1>1. i \in 1..Len(articles)
  BY TableType DEF Remove, ArticlesInv, Fits
<1>2. row \in Article
  BY <1>1, TableType DEF Article
<1>3. Writes(e, [articles EXCEPT ![i] = row])
  BY DEF Remove
<1> QED BY <1>1, <1>2, <1>3, WritesRowStep

\* Every step of the service keeps the invariant.
LEMMA ArticlesStep ==
  ASSUME ArticlesInv, [ArticlesNext]_articleVars
  PROVE  ArticlesInv'
<1>1. CASE UNCHANGED articleVars
  BY <1>1 DEF articleVars, ArticlesInv, ArticlesTypeOK, AloneInv, Fits, LookedUp,
      KnowsRow, Taken, Live
<1>2. ASSUME NEW e \in Editor, GiveUp(e) PROVE ArticlesInv'
  BY <1>2, EndsStep DEF GiveUp
<1> QED
  BY <1>1, <1>2, CreateArticleStep, UpdateArticleStep, DeleteArticleStep, InsertStep,
     LookUpAliasStep, ReadRowStep, UpdateRowStep, ReinsertStep, RemoveStep
  DEF ArticlesNext

\* The inductive invariant holds in every state of every behaviour.
LEMMA ArticlesInvAlways == ArticlesSpec => []ArticlesInv
<1>1. ArticlesInit => ArticlesInv
  BY ArticlesInitInv
<1>2. ArticlesInv /\ [ArticlesNext]_articleVars => ArticlesInv'
  BY ArticlesStep
<1> QED BY <1>1, <1>2, PTL DEF ArticlesSpec

\* The table and what the requests carry stay well formed, although rows are
\* written column by column.
THEOREM ArticlesTypeCorrect == ArticlesSpec => []ArticlesTypeOK
<1>1. ArticlesInv => ArticlesTypeOK
  BY DEF ArticlesInv
<1> QED BY <1>1, ArticlesInvAlways, PTL

\* The unique index refuses only a request that another overtook: everybody else
\* is told by createArticle's and updateArticle's own lookups.
THEOREM RefusedOvertaken == ArticlesSpec => []RefusedInv
<1>1. ArticlesInv => RefusedInv
  BY DEF ArticlesInv, LookedUp, RefusedInv
<1> QED BY <1>1, ArticlesInvAlways, PTL

-----------------------------------------------------------------------------
(* What happens to an article on which no two requests worked together.     *)

\* UPDATE of the columns save() found to differ makes the row what is asked.
LEMMA UpdatedWhole ==
  ASSUME ArticlesInv, NEW e \in Editor, editing[e].pc = "update",
         editing[e].id \notin disturbed
  PROVE  /\ editing[e].id \in 1..Len(articles)
         /\ articles[editing[e].id].live
         /\ Updated(e) = Asked(e)
<1>1. Fits(editing[e]) /\ KnowsRow(editing[e])
  BY DEF ArticlesInv
<1>2. /\ editing[e].id \in 1..Len(articles)
      /\ articles[editing[e].id].live
      /\ articles[editing[e].id] \in Article
      /\ editing[e].columns =
           {c \in {"alias", "text"} : articles[editing[e].id][c] # editing[e][c]}
  BY <1>1, TableType DEF Fits, KnowsRow
<1>3. \A c \in {"alias", "text"} : Asked(e)[c] = editing[e][c]
  BY DEF Asked
<1>4. articles[editing[e].id].live = TRUE
  BY <1>2 DEF Article
<1>5. /\ Updated(e).alias = Asked(e).alias
      /\ Updated(e).text = Asked(e).text
      /\ Updated(e).live = Asked(e).live
  BY <1>2, <1>3, <1>4 DEF Updated, Asked
<1>6. Updated(e) = [alias |-> Updated(e).alias, text |-> Updated(e).text,
                    live |-> Updated(e).live]
  BY DEF Updated
<1> QED BY <1>2, <1>5, <1>6 DEF Asked

\* A request that writes its own row leaves every other row alone.
LEMMA OtherRows ==
  ASSUME ArticlesInv, NEW e \in Editor, NEW row,
         Writes(e, [articles EXCEPT ![editing[e].id] = row])
  PROVE  /\ disturbed' = disturbed
         /\ \A i \in 1..Len(articles) :
              articles'[i] = IF i = editing[e].id THEN row ELSE articles[i]
<1>1. \A i \in 1..Len(articles) : i \in DOMAIN articles
  BY TableType, LenProperties
<1> QED BY <1>1 DEF Writes

\* What one step does to an undisturbed article.
LEMMA KeptStep ==
  ASSUME ArticlesInv, [ArticlesNext]_articleVars,
         NEW i \in 1..Len(articles), i \notin disturbed'
  PROVE  \/ articles'[i] = articles[i]
         \/ /\ articles[i].live
            /\ \/ ~articles'[i].live
               \/ \E e \in Editor : editing[e].id = i /\ articles'[i] = Asked(e)
<1> SUFFICES ASSUME articles' # articles
             PROVE  \/ articles'[i] = articles[i]
                    \/ /\ articles[i].live
                       /\ \/ ~articles'[i].live
                          \/ \E e \in Editor : editing[e].id = i /\ articles'[i] = Asked(e)
  OBVIOUS
<1>1. PICK e \in Editor : Insert(e) \/ UpdateRow(e) \/ Reinsert(e) \/ Remove(e)
  BY DEF ArticlesNext, articleVars, CreateArticle, UpdateArticle, DeleteArticle, Starts,
     LookUpAlias, ReadRow, GiveUp, Goes
<1>2. /\ Fits(editing[e]) /\ KnowsRow(editing[e])
  BY DEF ArticlesInv
<1>3. CASE Insert(e)
  <2>1. Asked(e) \in Article
    BY <1>3, AskedType DEF Insert
  <2>2. Append(articles, Asked(e))[i] = articles[i]
    BY <2>1, TableType, AppendProperties
  <2>3. articles' = Append(articles, Asked(e))
    BY <1>3 DEF Insert, Refused, Goes, Writes
  <2> QED BY <2>2, <2>3
<1>4. CASE UpdateRow(e)
  <2>1. Writes(e, [articles EXCEPT ![editing[e].id] = Updated(e)])
    BY <1>4 DEF UpdateRow, Refused, Goes
  <2>2. editing[e].pc = "update"
    BY <1>4 DEF UpdateRow
  <2> QED BY <2>1, <2>2, OtherRows, UpdatedWhole
<1>5. CASE Reinsert(e)
  <2>1. Writes(e, [articles EXCEPT ![editing[e].id] = Asked(e)])
    BY <1>5 DEF Reinsert, Refused, Goes
  <2>2. editing[e].id # 0 /\ editing[e].id \in disturbed
    BY <1>2, <1>5 DEF Reinsert, Fits, KnowsRow
  <2> QED BY SMTT(30), <2>1, <2>2, OtherRows
<1>6. CASE Remove(e)
  <2> DEFINE row == [articles[editing[e].id] EXCEPT !.live = FALSE]
  <2>1. Writes(e, [articles EXCEPT ![editing[e].id] = row])
    BY <1>6 DEF Remove
  <2>2. /\ disturbed' = disturbed
        /\ articles'[i] = IF i = editing[e].id THEN row ELSE articles[i]
    BY <2>1, OtherRows
  <2>3. CASE i = editing[e].id
    <3>1. articles[i].live
      BY <1>2, <1>6, <2>2, <2>3, TableType DEF Remove, KnowsRow
    <3>2. ~row.live
      BY <2>3, TableType DEF Article
    <3> QED BY <2>2, <2>3, <3>1, <3>2
  <2> QED BY <2>2, <2>3
<1> QED BY <1>1, <1>3, <1>4, <1>5, <1>6

\* An article on which no two requests ever worked together changes only as a
\* whole, into what one request asked for, and once removed stays removed,
\* although save() reads and writes it by two queries (updateArticle, lines 36-57).
THEOREM ArticlesKeptWhole == ArticlesSpec => ArticlesKept
<1>1. ArticlesInv /\ [ArticlesNext]_articleVars =>
        \A i \in 1..Len(articles) \ disturbed' :
          \/ articles'[i] = articles[i]
          \/ /\ articles[i].live
             /\ \/ ~articles'[i].live
                \/ \E e \in Editor : editing[e].id = i /\ articles'[i] = Asked(e)
  BY KeptStep
<1> QED BY <1>1, ArticlesInvAlways, PTL DEF ArticlesSpec, ArticlesKept
=============================================================================
