---------------------------- MODULE TaskListing ----------------------------
(***************************************************************************)
(* GET /tasks, page by page, while other clients create tasks: get_tasks   *)
(* of the endpoint and of TaskRepository.  One client lists its tasks: it  *)
(* asks for the first page and then for the page after each                *)
(* next_page_token until the answer is empty.                              *)
(***************************************************************************)
EXTENDS Naturals, Sequences, FiniteSets

CONSTANTS
  MaxId,      \* ObjectIds are 1..MaxId, in the order MongoDB compares them
  PageSize    \* page_size of the requests; 0 is no limit

ASSUME MaxIdAssumption == MaxId \in Nat \ {0}

ASSUME PageSizeAssumption == PageSize \in Nat

ObjectId == 1..MaxId

VARIABLES
  tasks,     \* the collection in the order of insertion
  token,     \* what the client sends as page_token next
  pages,     \* the pages it got, as sets of ids
  existing   \* history: its tasks when it asked for the first page

listingVars == <<token, pages, existing>>

\* page_token is absent, an id, or str(None), which next_page_token is after an
\* empty page.
NoPageToken == 0
NonePageToken == MaxId + 1

Stored == {tasks[i] : i \in 1..Len(tasks)}

InitListing ==
  /\ token = NoPageToken
  /\ pages = <<>>
  /\ existing = {}

(***************************************************************************)
(* The driver makes the _id, of the seconds, a random number of the        *)
(* process and a counter, in the thread that sends the document.  Two      *)
(* threads of a worker may send in the other order, and two workers of     *)
(* gunicorn have two random numbers: a task may be stored after one with a *)
(* greater id.                                                             *)
(***************************************************************************)
InsertTask(id) ==
  /\ id \notin Stored
  /\ tasks' = Append(tasks, id)

\* Mutant: $gte.
AfterTokenOrAt(id) == id >= token

\* Mutant: one id is left out.
AfterTokenSkipping(id) == id > token + 1

\* {'_id': {'$gt': page_token}}
AfterToken(id) == id > token

\* .limit(x): Just(0) does not exist, so page_size 0 means no limit.
Limit(n) == IF PageSize = 0 \/ n < PageSize THEN n ELSE PageSize

\* One page of what a query found, in the order of rank; next_page_token is the
\* id of the last task on it.
TurnPage(found, rank) ==
  LET page == {id \in found : Cardinality({other \in found : rank[other] <= rank[id]})
                                <= Limit(Cardinality(found))}
  IN /\ pages' = Append(pages, page)
     /\ token' = IF page = {} THEN NonePageToken
                 ELSE CHOOSE id \in page : \A other \in page : rank[other] <= rank[id]

Position == [id \in Stored |-> CHOOSE i \in 1..Len(tasks) : tasks[i] = id]

(***************************************************************************)
(* No query sorts.  Without a token MongoDB scans the collection in its    *)
(* own order, that of insertion; a condition on _id is answered from the   *)
(* index on _id, in the order of the ids.  The filter on the author leaves *)
(* the tasks in mine.                                                      *)
(***************************************************************************)
FirstPage(mine) ==
  /\ token = NoPageToken /\ pages = <<>>
  /\ TurnPage(mine, Position)
  /\ existing' = mine

NextPage(mine) ==
  /\ token \in ObjectId
  /\ TurnPage({id \in mine : AfterToken(id)}, [id \in ObjectId |-> id])
  /\ UNCHANGED existing

GetTasks(mine) == FirstPage(mine) \/ NextPage(mine)

-----------------------------------------------------------------------------
\* The values every variable takes.
ListingTypeOK ==
  /\ tasks \in Seq(ObjectId)
  /\ token \in 0..(MaxId + 1)
  /\ pages \in Seq(SUBSET ObjectId)
  /\ existing \subseteq ObjectId

\* These tasks were stored in the order of their ids.
InOrder(ids) ==
  \A i, j \in 1..Len(tasks) : {tasks[i], tasks[j]} \subseteq ids /\ i < j => tasks[i] < tasks[j]

\* A page in the order of the ids: any but the first, and the first one when
\* what it is taken from was stored so.
Sorted(i) == i # 1 \/ InOrder(existing)

\* A listing shows no task twice, in whatever order tasks are created between its
\* pages; its first page repeats later only when the tasks it is taken from were
\* not stored in the order of their ids.
NothingListedTwice ==
  \A i, j \in 1..Len(pages) :
    i # j /\ Sorted(i) /\ Sorted(j) => pages[i] \cap pages[j] = {}

\* A listing that reached its end showed every task of the client's there was
\* when it began, if those were stored in the order of their ids, and in whatever
\* order others came meanwhile: next_page_token retrieves the next page of results
\* (endpoint_utils.py:38).
NothingSkipped ==
  token = NonePageToken /\ InOrder(existing) =>
    existing \subseteq UNION {pages[i] : i \in 1..Len(pages)}

=============================================================================
