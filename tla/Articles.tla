------------------------------ MODULE Articles ------------------------------
(***************************************************************************)
(* The articles of the site: ArticlesService, query by query.              *)
(*                                                                         *)
(* An alias names one article: createArticle and updateArticle look it up, *)
(* and the table has a unique index should they be overtaken.  save()      *)
(* reads the row again and writes the columns that differ from it; a row   *)
(* that is gone by then is inserted once more, under its old id.           *)
(*                                                                         *)
(* disturbed names the articles two requests ever worked on together.      *)
(***************************************************************************)
EXTENDS Integers, Sequences

CONSTANTS
  Alias,
  Text,          \* title and text, as one
  Editor,        \* requests being served at the same time
  MaxArticles    \* bound: articles ever created

ASSUME ArticlesAssumption == MaxArticles \in Nat

VARIABLES
  articles,    \* table "article_orm", by id
  editing,     \* editing[e]: what request e is doing
  disturbed    \* history: articles that were disturbed

articleVars == <<articles, editing, disturbed>>

-----------------------------------------------------------------------------
Article == [alias : Alias, text : Text, live : BOOLEAN]

\* overtaken is a history: another request has written an article since this
\* one looked its alias up.
Editing == [pc : {"none", "insert", "alias", "read", "update", "reinsert", "remove", "refused"},
            id : Nat, alias : Alias \cup {"none"}, text : Text \cup {"none"},
            columns : SUBSET {"alias", "text"}, overtaken : BOOLEAN]

NotEditing == [pc |-> "none", id |-> 0, alias |-> "none", text |-> "none",
               columns |-> {}, overtaken |-> FALSE]

ArticlesInit ==
  /\ articles = <<>>
  /\ editing = [e \in Editor |-> NotEditing]
  /\ disturbed = {}

Live == {i \in 1..Len(articles) : articles[i].live}
Taken(alias) == {i \in Live : articles[i].alias = alias}

\* Mutant of Asked.
AskedWithoutAlias(e) == [alias |-> "none", text |-> editing[e].text, live |-> TRUE]

\* The row request e asks for.
Asked(e) == [alias |-> editing[e].alias, text |-> editing[e].text, live |-> TRUE]

Starts(e, work) ==
  /\ editing[e].pc = "none"
  /\ editing' = [editing EXCEPT ![e] = work]
  /\ disturbed' = IF work.id # 0 /\ \E g \in Editor : editing[g].id = work.id
                    THEN disturbed \cup {work.id} ELSE disturbed
  /\ UNCHANGED articles

\* Request e goes on, or ends, without touching the table.
Goes(e, work) ==
  /\ editing' = [editing EXCEPT ![e] = work]
  /\ UNCHANGED <<articles, disturbed>>

\* Request e writes the table and ends: the others are overtaken.
Writes(e, table) ==
  /\ articles' = table
  /\ editing' = [g \in Editor |->
                   IF g = e THEN NotEditing
                   ELSE [editing[g] EXCEPT !.overtaken = @ \/ editing[g].pc
                           \in {"insert", "read", "update", "reinsert"}]]
  /\ UNCHANGED disturbed

Refused(e) == Goes(e, [editing[e] EXCEPT !.pc = "refused"])

-----------------------------------------------------------------------------
\* createArticle: no article of this alias is found.
CreateArticle(e, alias, text) ==
  /\ Taken(alias) = {}
  /\ Starts(e, [NotEditing EXCEPT !.pc = "insert", !.alias = alias, !.text = text])

\* updateArticle: the article is found.
UpdateArticle(e, i, alias, text) ==
  /\ i \in Live
  /\ Starts(e, [NotEditing EXCEPT !.pc = "alias", !.id = i, !.alias = alias, !.text = text])

\* deleteArticle: the article is found.
DeleteArticle(e, i) ==
  /\ i \in Live
  /\ Starts(e, [NotEditing EXCEPT !.pc = "remove", !.id = i])

\* The unique index refuses a second row of an alias.
IndexRefuses(e) == Taken(editing[e].alias) \ {editing[e].id} # {}

\* save() of a new article.
Insert(e) ==
  /\ editing[e].pc = "insert"
  /\ Len(articles) < MaxArticles
  /\ IF IndexRefuses(e) THEN Refused(e) ELSE Writes(e, Append(articles, Asked(e)))

\* Mutant of AliasFree.
AliasAlwaysFree(e) == TRUE

\* The alias is no other article's.
AliasFree(e) == Taken(editing[e].alias) \subseteq {editing[e].id}

\* updateArticle looks the alias up.
LookUpAlias(e) ==
  /\ editing[e].pc = "alias"
  /\ \/ AliasFree(e) /\ Goes(e, [editing[e] EXCEPT !.pc = "read"])
     \/ ~AliasFree(e) /\ Goes(e, NotEditing)

\* Mutant of Differing.
DifferingText(e) == {"text"}

\* The columns of the row that differ from what is asked.
Differing(e) ==
  {c \in {"alias", "text"} : articles[editing[e].id][c] # Asked(e)[c]}

\* save() reads the row.
ReadRow(e) ==
  /\ editing[e].pc = "read"
  /\ IF editing[e].id \in Live
       THEN IF Differing(e) = {}
              THEN Goes(e, NotEditing)
              ELSE Goes(e, [editing[e] EXCEPT !.pc = "update", !.columns = Differing(e)])
       ELSE Goes(e, [editing[e] EXCEPT !.pc = "reinsert"])

Updated(e) ==
  [c \in {"alias", "text", "live"} |->
     IF c \in editing[e].columns THEN Asked(e)[c] ELSE articles[editing[e].id][c]]

\* UPDATE by id: a row that is gone is not updated.
UpdateRow(e) ==
  LET i == editing[e].id IN
  /\ editing[e].pc = "update"
  /\ IF i \notin Live THEN Goes(e, NotEditing)
     ELSE IF "alias" \in editing[e].columns /\ IndexRefuses(e) THEN Refused(e)
     ELSE Writes(e, [articles EXCEPT ![i] = Updated(e)])

\* INSERT of a row that was gone, under its old id.
Reinsert(e) ==
  LET i == editing[e].id IN
  /\ editing[e].pc = "reinsert"
  /\ IF i \in Live \/ IndexRefuses(e) THEN Refused(e)
     ELSE Writes(e, [articles EXCEPT ![i] = Asked(e)])

\* remove(): DELETE by id.
Remove(e) ==
  /\ editing[e].pc = "remove"
  /\ Writes(e, [articles EXCEPT ![editing[e].id].live = FALSE])

\* The error is sent; or a query rejects, or the process dies.
GiveUp(e) ==
  /\ editing[e].pc # "none"
  /\ Goes(e, NotEditing)

ArticlesNext ==
  \E e \in Editor :
    \/ \E alias \in Alias, text \in Text :
         CreateArticle(e, alias, text)
    \/ \E i \in 1..MaxArticles, alias \in Alias, text \in Text :
         UpdateArticle(e, i, alias, text)
    \/ \E i \in 1..MaxArticles : DeleteArticle(e, i)
    \/ Insert(e)
    \/ LookUpAlias(e)
    \/ ReadRow(e)
    \/ UpdateRow(e)
    \/ Reinsert(e)
    \/ Remove(e)
    \/ GiveUp(e)

ArticlesSpec == ArticlesInit /\ [][ArticlesNext]_articleVars

-----------------------------------------------------------------------------
(* Properties.                                                              *)

\* The table and the requests are well formed.
ArticlesTypeOK ==
  /\ articles \in Seq(Article)
  /\ editing \in [Editor -> Editing]
  /\ disturbed \subseteq 1..Len(articles)

\* The index refuses, with a server error, only what was overtaken: a request
\* nobody overtook is told by a validation error, as lines 21-29 and 44-47
\* mean to, whatever happens before its lookup.
RefusedInv ==
  \A e \in Editor : editing[e].pc = "refused" => editing[e].overtaken

\* An article on which no two requests worked together changes only as a
\* whole, into what one request asked for, and once removed stays removed,
\* although save() reads and writes it by two queries and would insert it again.
ArticlesKept ==
  [][\A i \in 1..Len(articles) \ disturbed' :
       \/ articles'[i] = articles[i]
       \/ /\ articles[i].live
          /\ \/ ~articles'[i].live
             \/ \E e \in Editor : editing[e].id = i /\ articles'[i] = Asked(e)]_articleVars

=============================================================================
