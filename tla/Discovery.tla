------------------------------- MODULE Discovery -------------------------------
(***************************************************************************)
(* The discovery screen: hooks/discovery/useDiscovery.ts with the controls *)
(* of DiscoveryWorkspace.  Its rows come in pages, its projects and saved  *)
(* rules in one load, and each change of either asks for all of it again.  *)
(*                                                                         *)
(* A tab stands for a tab with its filters: it is what the query asks for. *)
(***************************************************************************)
EXTENDS UiBase

CONSTANTS
  Tabs, Projects, Rules,
  FullPages    \* for each query, how many pages of 100 rows are full

Targets == Tabs \cup Projects \cup {None}

ASSUME DiscoveryAssumption ==
  FullPages \in [Targets -> Nat] /\ {"ranking", "projects", "smart"} \subseteq Tabs

VARIABLES
  tab, projectId, savedId,
  pages,       \* rows, as the pages they consist of
  pageOffset, hasMore, loading,
  queries,     \* query_discovery calls
  error,       \* an error is shown, with a button to retry
  stored,      \* the database: the projects and the rules it holds
  offered,     \* projects and saved
  loads,       \* loads of both lists
  mutation,    \* the change under way: busy
  missed       \* history: a first page or the lists could not be loaded

choice == <<tab, projectId, savedId>>
rowVars == <<pages, pageOffset, hasMore, loading, queries>>
discoveryVars == <<choice, rowVars, error, stored, offered, loads, mutation, missed>>

Query == [of : Targets, page : Nat, newest : BOOLEAN]
Load == [newest : BOOLEAN]

\* The query of the chosen tab, with a project only in its own tab.
Asked(t, p) == IF t = "projects" THEN p ELSE t

LastPage(of) == FullPages[of]

-----------------------------------------------------------------------------
\* The query effect, run for a new query or a new revision.

AskFirst(of) ==
  /\ queries' = Overtaken(queries) \cup {[of |-> of, page |-> 0, newest |-> TRUE]}
  /\ loading' = TRUE
  /\ pages' = << >>
  /\ pageOffset' = 0
  /\ error' = FALSE
  /\ UNCHANGED hasMore

\* A choice makes a new query, even one that asks for the same.
Choose(t, p) == tab' = t /\ projectId' = p /\ AskFirst(Asked(t, p))

\* refresh: the query and both lists again.
Revise(t, p) ==
  /\ tab' = t /\ projectId' = p
  /\ AskFirst(Asked(t, p))
  /\ loads' = Overtaken(loads) \cup {[newest |-> TRUE]}

-----------------------------------------------------------------------------
\* The user.

ChooseTab(t) ==
  /\ t # tab /\ Room(queries \cup loads)
  /\ Choose(t, projectId)
  /\ UNCHANGED <<savedId, stored, offered, loads, mutation, missed>>

ChooseProject(p) ==
  /\ p # projectId /\ p \in offered \cup {None} /\ Room(queries \cup loads)
  /\ Choose(tab, p)
  /\ UNCHANGED <<savedId, stored, offered, loads, mutation, missed>>

\* Saved rules become those of the query; "new rules" leaves them as they are.
ChooseRules(r) ==
  /\ tab = "smart" /\ r \in offered \cup {None} /\ r # savedId /\ Room(queries \cup loads)
  /\ savedId' = r
  /\ IF r = None
       THEN UNCHANGED <<tab, projectId, rowVars, error>>
       ELSE Choose(tab, projectId)
  /\ UNCHANGED <<stored, offered, loads, mutation, missed>>

RefreshDiscovery ==
  /\ ~loading \/ error
  /\ Room(queries \cup loads)
  /\ Revise(tab, projectId)
  /\ UNCHANGED <<savedId, stored, offered, mutation, missed>>

\* The number of the request is not a new one.
LoadMoreRows ==
  /\ hasMore /\ ~loading
  /\ loading' = TRUE
  /\ queries' = queries \cup
       {[of |-> Asked(tab, projectId), page |-> pageOffset + 1, newest |-> TRUE]}
  /\ UNCHANGED <<choice, pages, pageOffset, hasMore, error, stored, offered, loads,
                 mutation, missed>>

\* mutate: a project is created, rules are saved or deleted, or a member changes.
Mutate(kind, item) ==
  /\ mutation = None
  /\ mutation' = [kind |-> kind, item |-> item]
  /\ error' = FALSE
  /\ UNCHANGED <<choice, rowVars, stored, offered, loads, missed>>

\* Outside the tab of the projects the first one stands in for a choice.
TargetProjects ==
  IF tab = "projects" \/ projectId # None THEN {projectId} \ {None} ELSE offered \cap Projects

CreateProject(p) == tab = "projects" /\ p \notin stored /\ Mutate("create", p)

StartMutation ==
  \/ \E p \in Projects : CreateProject(p)
  \/ tab = "smart" /\ \E r \in Rules : Mutate("save", r)
  \/ tab = "smart" /\ savedId # None /\ Mutate("delete", savedId)
  \/ \E p \in TargetProjects : Mutate("member", p)

-----------------------------------------------------------------------------
\* The backend.

Applied(m) ==
  CASE m.kind \in {"create", "save"} -> stored \cup {m.item}
    [] m.kind = "delete" -> stored \ {m.item}
    [] m.kind = "member" -> stored

MutationReturns ==
  /\ mutation # None /\ Room(queries \cup loads)
  /\ stored' = Applied(mutation)
  /\ Revise(tab, IF mutation.kind = "create" THEN mutation.item ELSE projectId)
  /\ savedId' = IF mutation.kind = "delete" THEN None ELSE savedId
  /\ mutation' = None
  /\ UNCHANGED <<offered, missed>>

MutationFails ==
  /\ mutation # None
  /\ mutation' = None
  /\ error' = TRUE
  /\ UNCHANGED <<choice, rowVars, stored, offered, loads, missed>>

ListsReturn(l) ==
  /\ loads' = loads \ {l}
  /\ offered' = IF l.newest THEN stored ELSE offered
  /\ missed' = IF l.newest THEN missed \ {"lists"} ELSE missed
  /\ UNCHANGED <<choice, rowVars, error, stored, mutation>>

ListsFail(l) ==
  /\ loads' = loads \ {l}
  /\ missed' = IF l.newest THEN missed \cup {"lists"} ELSE missed
  /\ error' = (error \/ l.newest)
  /\ UNCHANGED <<choice, rowVars, stored, offered, mutation>>

EndQuery(q) ==
  /\ queries' = queries \ {q}
  /\ loading' = IF q.newest THEN FALSE ELSE loading

RowsReturn(q) ==
  /\ EndQuery(q)
  /\ IF q.newest
       THEN /\ pages' = Append(pages, [of |-> q.of, page |-> q.page])
            /\ pageOffset' = q.page
            /\ hasMore' = (q.page < LastPage(q.of))
            /\ missed' = IF q.page = 0 THEN missed \ {"rows"} ELSE missed
       ELSE UNCHANGED <<pages, pageOffset, hasMore, missed>>
  /\ UNCHANGED <<choice, error, stored, offered, loads, mutation>>

\* hasMore keeps what the last page of an earlier query said.
RowsFail(q) ==
  /\ EndQuery(q)
  /\ missed' = IF q.newest /\ q.page = 0 THEN missed \cup {"rows"} ELSE missed
  /\ error' = (error \/ q.newest)
  /\ UNCHANGED <<choice, pages, pageOffset, hasMore, stored, offered, loads, mutation>>

-----------------------------------------------------------------------------
DiscoveryInit ==
  /\ tab = "ranking" /\ projectId = None /\ savedId = None
  /\ pages = << >> /\ pageOffset = 0 /\ hasMore = FALSE /\ loading = TRUE /\ error = FALSE
  /\ queries = {[of |-> Asked(tab, None), page |-> 0, newest |-> TRUE]}
  /\ stored \in SUBSET (Projects \cup Rules) /\ offered = {}
  /\ loads = {[newest |-> TRUE]}
  /\ mutation = None
  /\ missed = {}

DiscoveryUser ==
  \/ \E t \in Tabs : ChooseTab(t)
  \/ \E p \in Projects \cup {None} : ChooseProject(p)
  \/ \E r \in Rules \cup {None} : ChooseRules(r)
  \/ RefreshDiscovery \/ LoadMoreRows \/ StartMutation

DiscoveryNext ==
  \/ DiscoveryUser
  \/ MutationReturns \/ MutationFails
  \/ \E l \in loads : ListsReturn(l) \/ ListsFail(l)
  \/ \E q \in queries : RowsReturn(q) \/ RowsFail(q)

DiscoverySpec == DiscoveryInit /\ [][DiscoveryNext]_discoveryVars

-----------------------------------------------------------------------------
\* Each variable of the screen has its type.
DiscoveryTypeOK ==
  /\ tab \in Tabs
  /\ projectId \in Projects \cup {None} /\ savedId \in Rules \cup {None}
  /\ pages \in Seq([of : Targets, page : Nat])
  /\ pageOffset \in Nat /\ hasMore \in BOOLEAN /\ loading \in BOOLEAN /\ error \in BOOLEAN
  /\ queries \subseteq Query /\ loads \subseteq Load
  /\ stored \subseteq Projects \cup Rules /\ offered \subseteq Projects \cup Rules
  /\ mutation # None => mutation.item \in Projects \cup Rules
  /\ missed \subseteq {"rows", "lists"}

\* The rows show as loading exactly while the newest query is under way: queries that
\* were overtaken, in any order, neither end it nor keep it.
LoadingIsQuery == loading <=> \E q \in queries : q.newest

\* The rows are those of the query, from the first page on without a gap, and
\* more are offered exactly as long as there are more.
RowsOfQuery ==
  "rows" \notin missed =>
    /\ \A k \in DOMAIN pages : pages[k] = [of |-> Asked(tab, projectId), page |-> k - 1]
    /\ ~loading => hasMore = (pageOffset < LastPage(Asked(tab, projectId)))

\* Once no change and no load is under way, the lists offer what is stored.
ListsCurrent == mutation = None /\ loads = {} /\ "lists" \notin missed => offered = stored
===============================================================================
