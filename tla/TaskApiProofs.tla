--------------------------- MODULE TaskApiProofs ---------------------------
(***************************************************************************)
(* For every set of subjects and issuers, whatever clients send along and  *)
(* under all settings: a client reaches all of its own tasks, and no       *)
(* others than those of people with its name.  A listing is exact, for     *)
(* every page size, when the tasks it begins with were stored in the order *)
(* of their ids: the pages of the two kinds of query then follow each      *)
(* other in that order, in whatever order other tasks come meanwhile.      *)
(***************************************************************************)
EXTENDS TaskApi, TLAPS, FiniteSetTheorems

-----------------------------------------------------------------------------
(***************************************************************************)
(* The inductive invariant: the author in a document is the name of        *)
(* whoever created the task, and so the filter on the author leaves a      *)
(* client the tasks created under its name.                                *)
(***************************************************************************)
ApiInv ==
  /\ settings \in Settings
  /\ Authenticated(Lister).status = 200
  /\ tasks \in Seq(ObjectId)
  /\ pages \in Seq(SUBSET ObjectId)
  /\ author \in [ObjectId -> Author]
  /\ owner \in [ObjectId -> Person]
  /\ \A id \in ObjectId : author[id] = owner[id].sub
  /\ answer.id \in ObjectId \cup {Malformed}
  /\ OnlyTasksOfOwnSubject
  /\ OwnTasksAreReached

\* A request that is let in has its sender's name for a subject.
LEMMA ClientIsSubject ==
  ASSUME settings \in Settings, NEW request \in Request,
         Authenticated(request).status = 200
  PROVE  /\ Client(request).subject = Client(request).is.sub
         /\ Client(request).is \in Person
         /\ settings.basic \/ settings.oauth => Client(request).subject # Nobody
         /\ ~(settings.basic \/ settings.oauth) => Client(request).subject = Nobody
  <1>1. CASE settings.basic
    <2>1. request.basic \in Credentials
      BY DEF Request
    <2>2. request.basic = "right"
      BY <1>1, <2>1 DEF Authenticated, ParseVerifyToken, VerifyBasicAuth, Rejected, Credentials
    <2> QED
      BY <1>1, <2>2, SubjectAssumption
         DEF Client, Authenticated, ParseVerifyToken, VerifyBasicAuth, Accepted, Sender,
             Vouched, Person, Author
  <1>2. CASE ~settings.basic /\ settings.oauth
    <2>1. \A check : StatusOf(check) # 200
      BY DEF StatusOf
    <2>2. request.token.fails = {}
      BY <1>2, <2>1 DEF Authenticated, ParseVerifyToken, VerifyToken, Rejected
    <2>3. request.token.sub \in Subject /\ request.token.iss \in Issuer
      BY DEF Request, Token
    <2> QED
      BY <1>2, <2>2, <2>3, SubjectAssumption
         DEF Client, Authenticated, ParseVerifyToken, VerifyToken, Accepted, Sender,
             Vouched, Person, Author
  <1>3. CASE ~settings.basic /\ ~settings.oauth
    BY <1>3 DEF Client, Authenticated, ParseVerifyToken, Accepted, Sender, Vouched, Person, Author
  <1> QED
    BY <1>1, <1>2, <1>3

\* The tasks of people with the sender's name, or all without authentication.
OfName(sender, id) == settings.basic \/ settings.oauth => owner[id].sub = sender.sub

\* The filter on the author leaves exactly the tasks of people with the client's
\* name, and its own are among them.
LEMMA FilterIsOwn ==
  ASSUME ApiInv, NEW client \in Clients
  PROVE  /\ client.is \in Person /\ client.is # Stranger
         /\ client.subject = client.is.sub
         /\ Filter(client.subject) = {id \in Stored : OfName(client.is, id)}
         /\ \A id \in Stored : Owns(client.is, id) => id \in Filter(client.subject)
  <1>1. PICK request \in Requests : Authenticated(request).status = 200 /\ client = Client(request)
    BY DEF Clients
  <1>2. request \in Request
    BY <1>1, RequestsAssumption
  <1>3. /\ client.subject = client.is.sub
        /\ client.is \in Person
        /\ settings.basic \/ settings.oauth => client.subject # Nobody
        /\ ~(settings.basic \/ settings.oauth) => client.subject = Nobody
    BY <1>1, <1>2, ClientIsSubject DEF ApiInv
  <1>4. Stored \subseteq ObjectId
    BY DEF ApiInv, Stored
  <1>5. Filter(client.subject) = {id \in Stored : OfName(client.is, id)}
    BY <1>3, <1>4 DEF Filter, OfName, ApiInv
  <1>6. \A id \in Stored : Owns(client.is, id) => id \in Filter(client.subject)
    BY <1>5 DEF OfName, Owns
  <1>7. client.is # Stranger
    BY <1>3, StrangerAssumption DEF Stranger, Person, Vouched
  <1> QED
    BY <1>3, <1>5, <1>6, <1>7

\* No task has the malformed id.
LEMMA StoredIds ==
  ASSUME tasks \in Seq(ObjectId)
  PROVE  Stored \subseteq ObjectId /\ Malformed \notin Stored
  BY MaxIdAssumption DEF Stored, Malformed, ObjectId

\* The part of ApiInv about the documents is kept by everything but create_task.
LEMMA DocumentsKept ==
  ASSUME ApiInv, UNCHANGED <<tasks, author, owner, settings>>
  PROVE  /\ Stored' = Stored
         /\ \A sender, id : Owns(sender, id)' = Owns(sender, id)
         /\ \A sender, id : OfName(sender, id)' = OfName(sender, id)
  BY DEF Stored, Owns, OfName

\* An answer that shows nothing and names no task is anybody's.
LEMMA FailureIsHarmless ==
  ASSUME ApiInv, tasks' \in Seq(ObjectId),
         NEW op, NEW sender, NEW status, Answer(op, sender, Malformed, status, {})
  PROVE  /\ answer'.id \in ObjectId \cup {Malformed}
         /\ OnlyTasksOfOwnSubject' /\ OwnTasksAreReached'
  <1>1. answer'.id = Malformed /\ answer'.reached = {}
    BY DEF Answer
  <1>2. Malformed \notin Stored'
    BY MaxIdAssumption DEF Stored, Malformed, ObjectId
  <1> QED
    BY <1>1, <1>2 DEF OnlyTasksOfOwnSubject, OwnTasksAreReached

-----------------------------------------------------------------------------
(***************************************************************************)
(* ApiInv holds at the start and is kept by every action.                  *)
(***************************************************************************)
LEMMA InitInv == Init => ApiInv
  <1> SUFFICES ASSUME Init PROVE ApiInv
    OBVIOUS
  <1>1. tasks \in Seq(ObjectId)
    <2>1. 1 \in ObjectId
      BY MaxIdAssumption DEF ObjectId
    <2> QED
      BY <2>1 DEF Init
  <1>5. /\ owner \in [ObjectId -> Person] /\ author \in [ObjectId -> Author]
        /\ \A id \in ObjectId : author[id] = owner[id].sub
    <2>1. Vouched(Nobody, NoIssuer) \in Person
      BY DEF Vouched, Person, Author
    <2>2. owner \in [ObjectId -> Person]
      BY <2>1 DEF Init
    <2>3. \A id \in ObjectId : owner[id].sub \in Author
      BY <2>2 DEF Person
    <2>4. author = [id \in ObjectId |-> owner[id].sub]
      BY DEF Init
    <2> QED
      BY <2>2, <2>3, <2>4
  <1>2. pages \in Seq(SUBSET ObjectId)
    BY DEF Init, InitListing
  <1>3. OnlyTasksOfOwnSubject
    BY DEF Init, OnlyTasksOfOwnSubject
  <1>4. OwnTasksAreReached
    BY <1>1, StoredIds DEF Init, OwnTasksAreReached
  <1> QED
    BY <1>1, <1>2, <1>3, <1>4, <1>5 DEF Init, ApiInv

\* A request that is turned away.
LEMMA RefuseInv ==
  ASSUME ApiInv, NEW request \in Requests, Refuse(request), UNCHANGED <<settings, listingVars>>
  PROVE  ApiInv'
  <1>1. tasks' \in Seq(ObjectId)
    BY DEF ApiInv, Refuse, docVars
  <1>2. answer'.id \in ObjectId \cup {Malformed} /\ OnlyTasksOfOwnSubject' /\ OwnTasksAreReached'
    BY <1>1, FailureIsHarmless DEF Refuse, Failure
  <1> QED
    BY <1>1, <1>2 DEF ApiInv, Authenticated, Refuse, docVars, listingVars, Malformed

\* create_task: the author of the new document is its creator.
LEMMA CreateTaskInv ==
  ASSUME ApiInv, NEW client \in Clients, NEW id \in ObjectId, CreateTask(client, id),
         UNCHANGED <<settings, listingVars>>
  PROVE  ApiInv'
  <1>1. CASE Failure(client.is, "CustomDataLayerError", {}) /\ UNCHANGED docVars
    <2>1. tasks' \in Seq(ObjectId)
      BY <1>1 DEF ApiInv, docVars
    <2>2. answer'.id \in ObjectId \cup {Malformed} /\ OnlyTasksOfOwnSubject' /\ OwnTasksAreReached'
      BY <1>1, <2>1, FailureIsHarmless DEF Failure
    <2> QED
      BY <1>1, <2>1, <2>2 DEF ApiInv, Authenticated, docVars, listingVars, Malformed
  <1>2. CASE /\ InsertTask(id)
             /\ author' = [author EXCEPT ![id] = client.subject]
             /\ owner' = [owner EXCEPT ![id] = client.is]
             /\ \/ Answer("create", client.is, id, 200, {id})
                \/ Failure(client.is, "CustomDataLayerError", {id})
    <2>1. /\ client.is \in Person /\ client.is # Stranger
          /\ client.subject = client.is.sub /\ client.subject \in Author
      BY FilterIsOwn DEF Person
    <2>2. tasks' \in Seq(ObjectId)
      BY <1>2 DEF ApiInv, InsertTask
    <2>3. /\ author' \in [ObjectId -> Author] /\ owner' \in [ObjectId -> Person]
          /\ owner'[id] = client.is
          /\ \A other \in ObjectId : author'[other] = owner'[other].sub
      BY <1>2, <2>1 DEF ApiInv
    <2>4. answer'.from = client.is /\ answer'.reached = {id} /\ answer'.op # "cancel"
          /\ answer'.status # 404 /\ answer'.id \in {id, Malformed}
      BY <1>2 DEF Answer, Failure, ErrorStatus
    <2>5. OnlyTasksOfOwnSubject'
      BY <2>1, <2>3, <2>4 DEF OnlyTasksOfOwnSubject
    <2>6. OwnTasksAreReached'
      BY <2>4 DEF OwnTasksAreReached
    <2> QED
      BY <2>2, <2>3, <2>4, <2>5, <2>6 DEF ApiInv, Authenticated, listingVars, Malformed
  <1> QED
    BY <1>1, <1>2 DEF CreateTask

\* get_task: 404 only for a task that is not there or not the client's.
LEMMA GetTaskInv ==
  ASSUME ApiInv, NEW client \in Clients, NEW id \in ObjectId \cup {Malformed},
         GetTask(client, id), UNCHANGED <<settings, listingVars>>
  PROVE  ApiInv'
  <1> DEFINE found == {id} \cap Filter(client.subject)
  <1>1. tasks' \in Seq(ObjectId) /\ UNCHANGED <<tasks, author, owner>>
    BY DEF ApiInv, GetTask, docVars
  <1>2. answer'.id \in ObjectId \cup {Malformed} /\ OnlyTasksOfOwnSubject' /\ OwnTasksAreReached'
    <2>1. CASE \E error : Failure(client.is, error, {})
      BY <2>1, <1>1, FailureIsHarmless DEF Failure
    <2>2. CASE Answer("get", client.is, id, IF found = {} THEN 404 ELSE 200, found)
      <3>1. /\ client.is # Stranger /\ Filter(client.subject) = {i \in Stored : OfName(client.is, i)}
            /\ \A i \in Stored : Owns(client.is, i) => i \in Filter(client.subject)
        BY FilterIsOwn
      <3>2. /\ Stored' = Stored /\ UNCHANGED <<owner, settings>>
            /\ \A sender, i : Owns(sender, i)' = Owns(sender, i)
        BY <1>1, DocumentsKept
      <3>3. /\ answer'.from = client.is /\ answer'.id = id /\ answer'.reached = found
            /\ answer'.op = "get" /\ answer'.status = IF found = {} THEN 404 ELSE 200
        BY <2>2 DEF Answer
      <3>4. OnlyTasksOfOwnSubject'
        BY <3>1, <3>2, <3>3 DEF OnlyTasksOfOwnSubject, OfName
      <3>5. OwnTasksAreReached'
        BY <3>1, <3>2, <3>3 DEF OwnTasksAreReached
      <3> QED
        BY <3>3, <3>4, <3>5
    <2> QED
      BY <2>1, <2>2 DEF GetTask
  <1> QED
    BY <1>1, <1>2 DEF ApiInv, Authenticated, listingVars, Malformed

\* cancel_task: what is canceled is the client's, and over afterwards.
LEMMA CancelTaskInv ==
  ASSUME ApiInv, NEW client \in Clients, NEW id \in ObjectId \cup {Malformed},
         CancelTask(client, id), UNCHANGED <<settings, listingVars>>
  PROVE  ApiInv'
  <1> DEFINE found == CancelableOf(client, id)
  <1>1. tasks' \in Seq(ObjectId) /\ UNCHANGED <<tasks, author, owner>>
    BY DEF ApiInv, CancelTask
  <1>2. answer'.id \in ObjectId \cup {Malformed} /\ OnlyTasksOfOwnSubject' /\ OwnTasksAreReached'
    <2>1. CASE \E error : Failure(client.is, error, {})
      BY <2>1, <1>1, FailureIsHarmless DEF Failure
    <2>2. CASE \/ Failure(client.is, "CustomDataLayerError", found)
               \/ Answer("cancel", client.is, id, 200, found) /\ live' = live \ found
      <3>1. /\ client.is # Stranger /\ Filter(client.subject) = {i \in Stored : OfName(client.is, i)}
            /\ \A i \in Stored : Owns(client.is, i) => i \in Filter(client.subject)
        BY FilterIsOwn
      <3>2. /\ Stored' = Stored /\ UNCHANGED <<owner, settings>>
            /\ \A sender, i : Owns(sender, i)' = Owns(sender, i)
        BY <1>1, DocumentsKept
      <3>3. /\ answer'.from = client.is /\ answer'.id \in {id, Malformed}
            /\ answer'.reached = found /\ answer'.status \in {200, 500}
        BY <2>2 DEF Answer, Failure, ErrorStatus
      <3>4. OnlyTasksOfOwnSubject'
        BY <3>1, <3>2, <3>3 DEF OnlyTasksOfOwnSubject, OfName, CancelableOf
      <3>5. answer'.op = "cancel" => answer'.id = id /\ live' = live \ found
        BY <2>2 DEF Answer, Failure
      <3>6. OwnTasksAreReached'
        BY <3>1, <3>2, <3>3, <3>5 DEF OwnTasksAreReached, CancelableOf
      <3> QED
        BY <3>3, <3>4, <3>6
    <2> QED
      BY <2>1, <2>2 DEF CancelTask
  <1> QED
    BY <1>1, <1>2 DEF ApiInv, Authenticated, listingVars, Malformed

\* get_tasks: a page holds what the filter left.
LEMMA ListTasksInv ==
  ASSUME ApiInv, ListTasks, UNCHANGED settings
  PROVE  ApiInv'
  <1> DEFINE mine == Filter(Client(Lister).subject)
  <1>1. tasks' \in Seq(ObjectId) /\ UNCHANGED <<tasks, author, owner>>
    BY DEF ApiInv, ListTasks, docVars
  <1>2. CASE /\ GetTasks(mine)
             /\ Answer("list", Client(Lister).is, Malformed, 200, pages'[Len(pages')])
    <2>1. PICK found, rank : found \subseteq mine /\ TurnPage(found, rank)
      BY <1>2 DEF GetTasks, FirstPage, NextPage
    <2>2. PICK page : page \subseteq found /\ pages' = Append(pages, page)
      BY <2>1 DEF TurnPage
    <2>3. mine \subseteq Stored /\ Stored \subseteq ObjectId
      BY StoredIds DEF Filter, ApiInv
    <2>4. page \subseteq ObjectId
      BY <2>1, <2>2, <2>3
    <2>5. pages' \in Seq(SUBSET ObjectId) /\ pages'[Len(pages')] = page
      BY <2>2, <2>4 DEF ApiInv
    <2>6. Lister \in Requests /\ Authenticated(Lister).status = 200
      BY RequestsAssumption DEF ApiInv
    <2>7. Client(Lister).is # Stranger /\ mine = {i \in Stored : OfName(Client(Lister).is, i)}
      BY <2>6, FilterIsOwn DEF Clients
    <2>8. Stored' = Stored /\ UNCHANGED <<owner, settings>>
      BY <1>1, DocumentsKept
    <2>9. answer'.from = Client(Lister).is /\ answer'.reached = page /\ answer'.id = Malformed
      BY <1>2, <2>5 DEF Answer
    <2>10. OnlyTasksOfOwnSubject'
      BY <2>1, <2>2, <2>7, <2>8, <2>9 DEF OnlyTasksOfOwnSubject, OfName
    <2>11. OwnTasksAreReached'
      BY <2>8, <2>9, StoredIds DEF OwnTasksAreReached, ApiInv
    <2> QED
      BY <1>1, <2>5, <2>9, <2>10, <2>11 DEF ApiInv, Authenticated, Malformed
  <1>3. CASE (\E error : Failure(Client(Lister).is, error, {})) /\ UNCHANGED listingVars
    <2>1. answer'.id \in ObjectId \cup {Malformed} /\ OnlyTasksOfOwnSubject' /\ OwnTasksAreReached'
      BY <1>1, <1>3, FailureIsHarmless DEF Failure
    <2> QED
      BY <1>1, <1>3, <2>1 DEF ApiInv, Authenticated, listingVars, Malformed
  <1> QED
    BY <1>1, <1>2, <1>3 DEF ListTasks

\* A handler that ends a task: an answer about it stays true.
LEMMA ProgressInv ==
  ASSUME ApiInv, NEW id \in ObjectId, Progress(id), UNCHANGED <<settings, listingVars>>
  PROVE  ApiInv'
  <1>1. live' \subseteq live /\ UNCHANGED <<tasks, author, owner, answer>>
    BY DEF Progress
  <1>2. Stored' = Stored /\ \A sender, i : Owns(sender, i)' = Owns(sender, i)
    BY <1>1, DocumentsKept
  <1>3. OnlyTasksOfOwnSubject' /\ OwnTasksAreReached'
    BY <1>1, <1>2 DEF ApiInv, OnlyTasksOfOwnSubject, OwnTasksAreReached
  <1> QED
    BY <1>1, <1>3 DEF ApiInv, Authenticated, listingVars, Malformed

\* Every step keeps ApiInv.
LEMMA ApiStepInv == ApiInv /\ [Next]_vars => ApiInv'
  <1> SUFFICES ASSUME ApiInv, [Next]_vars PROVE ApiInv'
    OBVIOUS
  <1>1. CASE ListTasks /\ UNCHANGED settings
    BY <1>1, ListTasksInv
  <1>2. CASE /\ \E request \in Requests : Refuse(request)
             /\ UNCHANGED <<settings, listingVars>>
    BY <1>2, RefuseInv
  <1>3. CASE (\E client \in Clients : OneTask(client)) /\ UNCHANGED <<settings, listingVars>>
    BY <1>3, CreateTaskInv, GetTaskInv, CancelTaskInv DEF OneTask
  <1>4. CASE (\E id \in ObjectId : Progress(id)) /\ UNCHANGED <<settings, listingVars>>
    BY <1>4, ProgressInv
  <1>5. CASE UNCHANGED vars
    <2>1. Stored' = Stored /\ \A sender, i : Owns(sender, i)' = Owns(sender, i)
      BY <1>5, DocumentsKept DEF vars, docVars
    <2>2. OnlyTasksOfOwnSubject' /\ OwnTasksAreReached'
      BY <1>5, <2>1 DEF ApiInv, OnlyTasksOfOwnSubject, OwnTasksAreReached, vars, docVars
    <2> QED
      BY <1>5, <2>2 DEF ApiInv, Authenticated, vars, docVars, listingVars, Malformed
  <1> QED
    BY <1>1, <1>2, <1>3, <1>4, <1>5 DEF Next

-----------------------------------------------------------------------------
(***************************************************************************)
(* Theorems about who reaches what.                                        *)
(***************************************************************************)
\* The author in a document is the name of its creator, at all times.
THEOREM ApiInvHolds == Spec => []ApiInv
  BY InitInv, ApiStepInv, PTL DEF Spec

\* With authentication on, no answer of the API shows or changes a task of
\* somebody with another name, for any subjects and any issuers.
THEOREM OnlyTasksOfOwnSubjectHolds == Spec => []OnlyTasksOfOwnSubject
  <1>1. ApiInv => OnlyTasksOfOwnSubject
    BY DEF ApiInv
  <1> QED
    BY <1>1, ApiInvHolds, PTL

\* No client is told that a task of its own is not there, and none that it
\* canceled by an answer of 200 goes on.
THEOREM OwnTasksAreReachedHolds == Spec => []OwnTasksAreReached
  <1>1. ApiInv => OwnTasksAreReached
    BY DEF ApiInv
  <1> QED
    BY <1>1, ApiInvHolds, PTL

-----------------------------------------------------------------------------
(***************************************************************************)
(* Sets of ids.                                                            *)
(***************************************************************************)
\* A set of natural numbers has a least element.
LEMMA LeastExists ==
  ASSUME NEW T \in SUBSET Nat, T # {}
  PROVE  \E least \in T : \A x \in T : least <= x
  <1>1. PICK least \in T : \A x \in T : ~(<<x, least>> \in OpToRel(<, Nat))
    BY WFMin, NatLessThanWellFounded
  <1>2. ASSUME NEW x \in T PROVE least <= x
    <2>1. <<x, least>> \in Nat \X Nat /\ <<x, least>>[1] = x /\ <<x, least>>[2] = least
      OBVIOUS
    <2>2. ~(x < least)
      BY <1>1, <2>1 DEF OpToRel
    <2> QED
      BY <2>2
  <1> QED
    BY <1>2

\* Some numbers up to a bound have a greatest one among them.
LEMMA GreatestUpTo ==
  ASSUME NEW n \in Nat, NEW T \in SUBSET (1..n), T # {}
  PROVE  \E greatest \in T : \A x \in T : x <= greatest
  <1> DEFINE Distances == {n - x : x \in T}
  <1>1. Distances \in SUBSET Nat /\ Distances # {}
    <2>1. \A x \in T : n - x \in Nat
      OBVIOUS
    <2> QED
      BY <2>1
  <1>2. PICK least \in Distances : \A d \in Distances : least <= d
    BY <1>1, LeastExists
  <1>3. PICK greatest \in T : least = n - greatest
    BY <1>2
  <1>4. \A x \in T : x <= greatest
    BY <1>2, <1>3
  <1> QED
    BY <1>4

\* A set of ids has a greatest element.
LEMMA GreatestExists ==
  ASSUME NEW T \in SUBSET ObjectId, T # {}
  PROVE  \E greatest \in T : \A x \in T : x <= greatest
  BY GreatestUpTo, MaxIdAssumption DEF ObjectId

\* Sets of ids are finite.
LEMMA IdsFinite ==
  ASSUME NEW S \in SUBSET ObjectId
  PROVE  IsFiniteSet(S) /\ Cardinality(S) \in Nat
  <1>1. IsFiniteSet(ObjectId)
    BY MaxIdAssumption, FS_Interval DEF ObjectId
  <1> QED
    BY <1>1, FS_Subset, FS_CardinalityType

\* The token after a page is one of its tasks, or none.
LEMMA TokenIsOfPage ==
  ASSUME NEW found, NEW rank, NEW n \in Nat, \A id \in found : rank[id] \in 1..n,
         TurnPage(found, rank)
  PROVE  \E page \in SUBSET found :
           pages' = Append(pages, page) /\ token' \in page \cup {NonePageToken}
  <1> DEFINE page == {id \in found : Cardinality({other \in found : rank[other] <= rank[id]})
                                      <= Limit(Cardinality(found))}
  <1>1. /\ pages' = Append(pages, page)
        /\ token' = IF page = {} THEN NonePageToken
                    ELSE CHOOSE id \in page : \A other \in page : rank[other] <= rank[id]
    BY Zenon DEF TurnPage
  <1>2. page \in SUBSET found
    OBVIOUS
  <1> HIDE DEF page
  <1>3. ASSUME page # {} PROVE token' \in page
    <2> DEFINE Ranks == {rank[id] : id \in page}
    <2>1. Ranks \in SUBSET (1..n) /\ Ranks # {}
      BY <1>2, <1>3
    <2>2. PICK greatest \in Ranks : \A x \in Ranks : x <= greatest
      BY <2>1, GreatestUpTo
    <2>3. PICK id \in page : greatest = rank[id]
      BY <2>2
    <2>4. \A other \in page : rank[other] <= rank[id]
      BY <2>2, <2>3
    <2> QED
      BY <1>1, <1>3, <2>4
  <1> QED
    BY <1>1, <1>2, <1>3

-----------------------------------------------------------------------------
(***************************************************************************)
(* A page in the order of the ids.                                         *)
(***************************************************************************)
\* A page is empty only when nothing was found; else it ends with the task the
\* token names, and holds everything found up to it.
LEMMA PageIsPrefix ==
  ASSUME NEW found \in SUBSET ObjectId, NEW rank,
         \A a, b \in found : rank[a] <= rank[b] <=> a <= b,
         TurnPage(found, rank)
  PROVE  \E page \in SUBSET found :
           /\ pages' = Append(pages, page)
           /\ page = {} => found = {} /\ token' = NonePageToken
           /\ page # {} => /\ token' \in page
                           /\ \A id \in page : id <= token'
                           /\ \A id \in found : id <= token' => id \in page
  <1> DEFINE UpTo(id) == {other \in found : other <= id}
             page == {id \in found : Cardinality(UpTo(id)) <= Limit(Cardinality(found))}
  <1>1. \A id \in found : {other \in found : rank[other] <= rank[id]} = UpTo(id)
    OBVIOUS
  <1> DEFINE shown == {id \in found : Cardinality({other \in found : rank[other] <= rank[id]})
                                       <= Limit(Cardinality(found))}
  <1>2. /\ pages' = Append(pages, shown)
        /\ token' = IF shown = {} THEN NonePageToken
                    ELSE CHOOSE id \in shown : \A other \in shown : rank[other] <= rank[id]
    BY Zenon DEF TurnPage
  <1>3. shown = page
    BY <1>1
  <1> HIDE DEF page, shown
  <1>4. ASSUME page = {} PROVE found = {}
    <2> SUFFICES ASSUME found # {} PROVE page # {}
      BY <1>4
    <2> USE DEF page
    <2>1. PICK least \in found : \A x \in found : least <= x
      BY LeastExists, MaxIdAssumption DEF ObjectId
    <2>2. UpTo(least) = {least}
      <3>1. \A x \in found : x \in Int
        BY DEF ObjectId
      <3> QED
        BY <2>1, <3>1
    <2>3. Cardinality(UpTo(least)) = 1
      BY <2>2, FS_Singleton
    <2>4. Cardinality(found) \in Nat /\ Cardinality(found) # 0
      BY IdsFinite, FS_EmptySet
    <2>5. 1 <= Limit(Cardinality(found))
      BY <2>4, PageSizeAssumption DEF Limit
    <2> QED
      BY <2>1, <2>3, <2>5
  <1>5. ASSUME page # {} PROVE /\ token' \in page
                               /\ \A id \in page : id <= token'
                               /\ \A id \in found : id <= token' => id \in page
    <2>1. PICK greatest \in page : \A x \in page : x <= greatest
      BY <1>5, GreatestExists DEF page
    <2>2. \A other \in page : rank[other] <= rank[greatest]
      BY <2>1 DEF page
    <2>3. token' \in page /\ \A other \in page : rank[other] <= rank[token']
      BY <1>2, <1>3, <1>5, <2>1, <2>2
    <2>4. \A id \in page : id <= token'
      BY <2>3 DEF page
    <2>5. ASSUME NEW id \in found, id <= token' PROVE id \in page
      <3>1. UpTo(id) \subseteq UpTo(token')
        <4>1. token' \in found
          BY <2>3 DEF page
        <4>2. \A x \in found : x \in Int
          BY DEF ObjectId
        <4> QED
          BY <2>5, <4>1, <4>2
      <3>2. /\ IsFiniteSet(UpTo(token')) /\ Cardinality(UpTo(token')) \in Nat
            /\ Cardinality(UpTo(id)) \in Nat
        BY IdsFinite
      <3>3. Cardinality(UpTo(id)) <= Cardinality(UpTo(token'))
        BY <3>1, <3>2, FS_Subset
      <3>4. Limit(Cardinality(found)) \in Nat
        BY IdsFinite, PageSizeAssumption DEF Limit
      <3> QED
        BY <2>3, <3>2, <3>3, <3>4 DEF page
    <2> QED
      BY <2>3, <2>4, <2>5
  <1>6. page \in SUBSET found
    BY DEF page
  <1> QED
    BY <1>2, <1>3, <1>4, <1>5, <1>6

-----------------------------------------------------------------------------
(***************************************************************************)
(* The inductive invariant: the token is a mark that all sorted pages are  *)
(* below of, and below which nothing is left out; for the first page,      *)
(* which is in the order of insertion, that rests on this being the order  *)
(* of the ids among the tasks it is taken from.                            *)
(***************************************************************************)
Mine == Filter(Client(Lister).subject)

\* What the client of the listing could see is still there.
ExistingKept == existing \subseteq Mine

\* No sorted page has a task beyond the token.
PagesUpToToken ==
  \A i \in 1..Len(pages) : Sorted(i) => \A id \in pages[i] : id <= token

\* Nothing up to the token is missing from the pages.
CompleteUpToToken ==
  token # NoPageToken /\ InOrder(existing) =>
    \A id \in existing : id <= token => \E i \in 1..Len(pages) : id \in pages[i]

ListInv ==
  /\ tasks \in Seq(ObjectId)
  /\ token \in 0..(MaxId + 1)
  /\ pages \in Seq(SUBSET ObjectId)
  /\ token = NoPageToken <=> pages = <<>>
  /\ ExistingKept
  /\ PagesUpToToken
  /\ CompleteUpToToken
  /\ NothingListedTwice

\* What the client sees are stored tasks, and they have ids.
LEMMA MineIsStored ==
  ASSUME tasks \in Seq(ObjectId)
  PROVE  Mine \subseteq Stored /\ Stored \in SUBSET ObjectId
  BY DEF Mine, Filter, Stored

\* The positions of tasks stored in order grow with their ids.
LEMMA PositionGrows ==
  ASSUME tasks \in Seq(ObjectId), NEW ids \in SUBSET Stored, InOrder(ids),
         NEW a \in ids, NEW b \in ids
  PROVE  Position[a] <= Position[b] <=> a <= b
  <1>1. \A id \in Stored : Position[id] \in 1..Len(tasks) /\ tasks[Position[id]] = id
    <2> SUFFICES ASSUME NEW id \in Stored
                 PROVE  Position[id] \in 1..Len(tasks) /\ tasks[Position[id]] = id
      OBVIOUS
    <2>1. \E i \in 1..Len(tasks) : tasks[i] = id
      BY DEF Stored
    <2>2. Position[id] = CHOOSE i \in 1..Len(tasks) : tasks[i] = id
      BY DEF Position
    <2> QED
      BY <2>1, <2>2
  <1> DEFINE i == Position[a]
             j == Position[b]
  <1>2. i \in 1..Len(tasks) /\ j \in 1..Len(tasks) /\ tasks[i] = a /\ tasks[j] = b
    BY <1>1
  <1>3. a \in Int /\ b \in Int /\ Len(tasks) \in Nat
    BY MineIsStored DEF ObjectId
  <1> HIDE DEF i, j
  <1>4. i < j \/ i = j \/ j < i
    BY <1>2, <1>3
  <1>5. (i < j => a < b) /\ (j < i => b < a)
    BY <1>2 DEF InOrder
  <1>6. i <= j <=> a <= b
    BY <1>2, <1>3, <1>4, <1>5
  <1> QED
    BY <1>6 DEF i, j

-----------------------------------------------------------------------------
(***************************************************************************)
(* ListInv holds at the start and is kept by every action.                 *)
(***************************************************************************)
LEMMA InitListInv == Init => ListInv
  <1> SUFFICES ASSUME Init PROVE ListInv
    OBVIOUS
  <1>1. tasks = <<>> \/ tasks = <<1>>
    BY DEF Init
  <1>2. tasks \in Seq(ObjectId)
    <2>1. 1 \in ObjectId
      BY MaxIdAssumption DEF ObjectId
    <2>2. <<>> \in Seq(ObjectId) /\ <<1>> \in Seq(ObjectId)
      BY <2>1
    <2> QED
      BY <1>1, <2>2
  <1>3. token = 0 /\ pages = <<>> /\ existing = {}
    BY DEF Init, InitListing, NoPageToken
  <1>4. Len(pages) = 0
    BY <1>3
  <1> QED
    BY <1>2, <1>3, <1>4, MaxIdAssumption
       DEF ListInv, NoPageToken, ExistingKept, PagesUpToToken, CompleteUpToToken,
           NothingListedTwice

\* A new page that lies beyond the old token and leaves nothing out up to the new,
\* or an unsorted first one.
LEMMA PageInv ==
  ASSUME ListInv, NEW page \in SUBSET ObjectId, pages' = Append(pages, page),
         UNCHANGED <<tasks, author, settings>>,
         pages = <<>> \/ UNCHANGED existing,
         existing' \subseteq Mine,
         token' \in 1..(MaxId + 1), token <= token',
         pages # <<>> \/ InOrder(existing)' => \A id \in page : token < id /\ id <= token',
         InOrder(existing)' =>
           \A id \in existing' :
             id <= token' => id \in page \/ \E i \in 1..Len(pages) : id \in pages[i]
  PROVE  ListInv'
  <1>1. /\ pages' \in Seq(SUBSET ObjectId)
        /\ Len(pages) \in Nat
        /\ Len(pages') = Len(pages) + 1
        /\ pages'[Len(pages) + 1] = page
        /\ \A i \in 1..Len(pages) : pages'[i] = pages[i] /\ pages'[i] \subseteq ObjectId
    BY DEF ListInv
  <1>2. token \in Int /\ token' \in Int /\ \A id \in ObjectId : id \in Int
    BY MaxIdAssumption DEF ListInv, ObjectId
  <1>3. \A i \in 1..Len(pages) : Sorted(i)' => Sorted(i)
    <2>1. pages # <<>> /\ InOrder(existing)' => InOrder(existing)
      BY DEF InOrder
    <2>2. ASSUME NEW i \in 1..Len(pages), Sorted(i)' PROVE Sorted(i)
      <3>1. pages # <<>>
        BY <1>1
      <3> QED
        BY <2>1, <2>2, <3>1 DEF Sorted
    <2> QED
      BY <2>2
  <1>4. ASSUME NEW i, i = Len(pages) + 1, Sorted(i)'
        PROVE  \A id \in page : token < id /\ id <= token'
    <2>1. i = 1 => pages = <<>>
      BY <1>1, <1>4 DEF ListInv
    <2>2. pages # <<>> \/ InOrder(existing)'
      BY <1>4, <2>1 DEF Sorted
    <2> QED
      BY <2>2
  <1>5. PagesUpToToken'
    <2> SUFFICES ASSUME NEW i \in 1..Len(pages'), Sorted(i)', NEW id \in pages'[i]
                 PROVE  id <= token'
      BY DEF PagesUpToToken
    <2>1. CASE i = Len(pages) + 1
      BY <2>1, <1>1, <1>4
    <2>2. CASE i \in 1..Len(pages)
      <3>1. id \in pages[i] /\ id \in ObjectId
        BY <2>2, <1>1
      <3>2. id <= token
        BY <2>2, <3>1, <1>3 DEF ListInv, PagesUpToToken
      <3> QED
        BY <3>1, <3>2, <1>2
    <2> QED
      BY <2>1, <2>2, <1>1
  <1>6. CompleteUpToToken'
    <2> SUFFICES ASSUME InOrder(existing)', NEW id \in existing', id <= token'
                 PROVE  \E i \in 1..Len(pages') : id \in pages'[i]
      BY DEF CompleteUpToToken
    <2>1. CASE id \in page
      <3>1. Len(pages) + 1 \in 1..Len(pages')
        BY <1>1
      <3> QED
        BY <2>1, <3>1, <1>1
    <2>2. CASE \E i \in 1..Len(pages) : id \in pages[i]
      <3>1. PICK i \in 1..Len(pages) : id \in pages[i]
        BY <2>2
      <3>2. i \in 1..Len(pages')
        BY <1>1
      <3> QED
        BY <3>1, <3>2, <1>1
    <2> QED
      BY <2>1, <2>2
  <1>7. NothingListedTwice'
    <2>1. ASSUME NEW i \in 1..Len(pages), NEW j, j = Len(pages) + 1, Sorted(i)', Sorted(j)'
          PROVE  pages[i] \cap page = {}
      <3> SUFFICES ASSUME NEW id \in pages[i], id \in page PROVE FALSE
        OBVIOUS
      <3>1. id <= token
        BY <1>3, <2>1 DEF ListInv, PagesUpToToken
      <3> QED
        BY <2>1, <3>1, <1>2, <1>4
    <2>2. \A i, j \in 1..Len(pages) :
            i # j /\ Sorted(i)' /\ Sorted(j)' => pages[i] \cap pages[j] = {}
      BY <1>3 DEF ListInv, NothingListedTwice
    <2> SUFFICES ASSUME NEW i \in 1..Len(pages'), NEW j \in 1..Len(pages'), i # j,
                        Sorted(i)', Sorted(j)'
                 PROVE  pages'[i] \cap pages'[j] = {}
      BY DEF NothingListedTwice
    <2>3. (i \in 1..Len(pages) \/ i = Len(pages) + 1) /\ (j \in 1..Len(pages) \/ j = Len(pages) + 1)
      BY <1>1
    <2>4. CASE i \in 1..Len(pages) /\ j \in 1..Len(pages)
      BY <2>2, <2>4, <1>1
    <2>5. CASE i \in 1..Len(pages) /\ j = Len(pages) + 1
      BY <2>1, <2>5, <1>1
    <2>6. CASE i = Len(pages) + 1 /\ j \in 1..Len(pages)
      BY <2>1, <2>6, <1>1
    <2> QED
      BY <2>3, <2>4, <2>5, <2>6
  <1>8. tasks' \in Seq(ObjectId) /\ ExistingKept'
    <2>1. Mine' = Mine
      BY DEF Mine, Filter, Client, Authenticated, Sender, Stored
    <2> QED
      BY <2>1 DEF ListInv, ExistingKept
  <1>9. token' \in 0..(MaxId + 1) /\ token' # NoPageToken /\ pages' # <<>>
    BY <1>1, MaxIdAssumption DEF NoPageToken
  <1> QED
    BY <1>1, <1>5, <1>6, <1>7, <1>8, <1>9 DEF ListInv, NoPageToken

\* The first page is a prefix of all the client has, if that was stored in order;
\* if not, the token is still one of its tasks.
LEMMA FirstPageInv ==
  ASSUME ListInv, FirstPage(Mine), UNCHANGED <<tasks, author, settings>>
  PROVE  ListInv'
  <1>1. /\ token = NoPageToken /\ pages = <<>> /\ existing' = Mine
        /\ TurnPage(Mine, Position)
    BY DEF FirstPage
  <1>2. Mine \subseteq Stored /\ Mine \in SUBSET ObjectId
    BY MineIsStored DEF ListInv
  <1>3. Len(tasks) \in Nat /\ \A id \in Mine : Position[id] \in 1..Len(tasks)
    <2> SUFFICES ASSUME NEW id \in Mine PROVE Position[id] \in 1..Len(tasks)
      BY DEF ListInv
    <2>1. \E i \in 1..Len(tasks) : tasks[i] = id
      BY <1>2 DEF Stored
    <2>2. Position[id] = CHOOSE i \in 1..Len(tasks) : tasks[i] = id
      BY <1>2 DEF Position
    <2> QED
      BY <2>1, <2>2
  <1>4. InOrder(existing)' = InOrder(Mine)
    BY <1>1 DEF InOrder
  <1>5. \E page \in SUBSET Mine :
          /\ pages' = Append(pages, page)
          /\ token' \in page \cup {NonePageToken}
          /\ InOrder(Mine) => /\ \A id \in page : id <= token'
                             /\ \A id \in Mine : id <= token' => id \in page
    <2>1. CASE ~InOrder(Mine)
      BY <1>1, <1>3, <2>1, TokenIsOfPage
    <2>2. CASE InOrder(Mine)
      <3>1. \A a, b \in Mine : Position[a] <= Position[b] <=> a <= b
        BY <1>2, <2>2, PositionGrows DEF ListInv
      <3>2. PICK page \in SUBSET Mine :
              /\ pages' = Append(pages, page)
              /\ page = {} => Mine = {} /\ token' = NonePageToken
              /\ page # {} => /\ token' \in page
                              /\ \A id \in page : id <= token'
                              /\ \A id \in Mine : id <= token' => id \in page
        BY <1>1, <1>2, <3>1, PageIsPrefix
      <3> QED
        BY <3>2
    <2> QED
      BY <2>1, <2>2
  <1>6. PICK page \in SUBSET Mine :
          /\ pages' = Append(pages, page)
          /\ token' \in page \cup {NonePageToken}
          /\ InOrder(Mine) => /\ \A id \in page : id <= token'
                             /\ \A id \in Mine : id <= token' => id \in page
    BY <1>5
  <1>7. token = 0 /\ token' \in 1..(MaxId + 1)
    BY <1>1, <1>2, <1>6, MaxIdAssumption DEF NoPageToken, NonePageToken, ObjectId
  <1>8. page \in SUBSET ObjectId /\ \A id \in page : 0 < id
    BY <1>2 DEF ObjectId
  <1>9. InOrder(existing)' => \A id \in page : token < id /\ id <= token'
    BY <1>4, <1>6, <1>7, <1>8
  <1>10. InOrder(existing)' => \A id \in existing' : id <= token' => id \in page
    BY <1>1, <1>4, <1>6
  <1>11. existing' \subseteq Mine /\ token <= token'
    BY <1>1, <1>7
  <1> QED
    BY <1>1, <1>6, <1>7, <1>8, <1>9, <1>10, <1>11, PageInv

\* A later page is a prefix of what lies beyond the token.
LEMMA NextPageInv ==
  ASSUME ListInv, NextPage(Mine), UNCHANGED <<tasks, author, settings>>
  PROVE  ListInv'
  <1> DEFINE beyond == {id \in Mine : AfterToken(id)}
             rank == [id \in ObjectId |-> id]
  <1>1. token \in ObjectId /\ existing' = existing /\ TurnPage(beyond, rank)
    BY DEF NextPage
  <1>2. beyond \in SUBSET ObjectId
    BY MineIsStored DEF ListInv
  <1>3. \A a, b \in beyond : rank[a] <= rank[b] <=> a <= b
    BY <1>2
  <1>4. beyond = {id \in Mine : id > token}
    BY DEF AfterToken
  <1> HIDE DEF beyond, rank
  <1>5. PICK page \in SUBSET beyond :
          /\ pages' = Append(pages, page)
          /\ page = {} => beyond = {} /\ token' = NonePageToken
          /\ page # {} => /\ token' \in page
                          /\ \A id \in page : id <= token'
                          /\ \A id \in beyond : id <= token' => id \in page
    BY <1>1, <1>2, <1>3, PageIsPrefix
  <1>6. page \in SUBSET ObjectId /\ \A id \in page : token < id
    <2>1. \A id \in page : id > token
      BY <1>4
    <2>2. page \in SUBSET ObjectId
      BY <1>2
    <2> QED
      BY <1>1, <2>1, <2>2 DEF ObjectId
  <1>7. token' \in 1..(MaxId + 1) /\ token <= token'
    <2>1. CASE page = {}
      BY <1>1, <1>5, <2>1, MaxIdAssumption DEF NonePageToken, ObjectId
    <2>2. CASE page # {}
      <3>1. token' \in ObjectId /\ token < token'
        BY <1>5, <1>6, <2>2
      <3> QED
        BY <1>1, <3>1, MaxIdAssumption DEF ObjectId
    <2> QED
      BY <2>1, <2>2
  <1>8. \A id \in page : token < id /\ id <= token'
    BY <1>5, <1>6
  <1>9. existing' \subseteq Mine
    BY <1>1 DEF ListInv, ExistingKept
  <1>10. ASSUME InOrder(existing)', NEW id \in existing', id <= token'
        PROVE  id \in page \/ \E i \in 1..Len(pages) : id \in pages[i]
    <2>1. CASE id <= token
      <3>1. token # NoPageToken /\ InOrder(existing)
        BY <1>1, <1>10 DEF NoPageToken, ObjectId, InOrder
      <3> QED
        BY <1>1, <1>10, <2>1, <3>1 DEF ListInv, CompleteUpToToken
    <2>2. CASE ~(id <= token)
      <3>1. id \in Mine /\ id \in ObjectId
        BY <1>9, <1>10, MineIsStored DEF ListInv
      <3>2. id \in beyond
        BY <1>1, <1>4, <2>2, <3>1 DEF ObjectId
      <3> QED
        BY <1>5, <1>10, <3>2
    <2> QED
      BY <2>1, <2>2
  <1> QED
    BY <1>1, <1>5, <1>6, <1>7, <1>8, <1>9, <1>10, PageInv

\* What is none of the listing's: the collection is kept, or gets a new task.
LEMMA OthersInv ==
  ASSUME ListInv, UNCHANGED <<listingVars, settings>>,
         UNCHANGED <<tasks, author>>
  PROVE  ListInv'
  <1>1. Mine' = Mine
    BY DEF Mine, Filter, Client, Authenticated, Sender, Stored
  <1>2. /\ UNCHANGED <<token, pages, existing>>
        /\ InOrder(existing)' = InOrder(existing) /\ \A i : Sorted(i)' = Sorted(i)
    BY DEF listingVars, InOrder, Sorted
  <1> QED
    BY <1>1, <1>2 DEF ListInv, ExistingKept, PagesUpToToken, CompleteUpToToken, NothingListedTwice

\* A new task hides none of the others, and leaves the order of those the first
\* page was taken from as it is.
LEMMA InsertTaskInv ==
  ASSUME ListInv, UNCHANGED <<listingVars, settings>>,
         NEW id \in ObjectId, InsertTask(id),
         NEW subject, author' = [author EXCEPT ![id] = subject],
         author \in [ObjectId -> Author]
  PROVE  ListInv'
  <1>1. /\ tasks' \in Seq(ObjectId)
        /\ Len(tasks) \in Nat
        /\ Len(tasks') = Len(tasks) + 1
        /\ tasks'[Len(tasks) + 1] = id
        /\ \A i \in 1..Len(tasks) : tasks'[i] = tasks[i] /\ tasks[i] \in Stored
    BY DEF ListInv, InsertTask, Stored
  <1>2. id \notin Stored /\ Stored \subseteq Stored'
    BY <1>1 DEF InsertTask, Stored
  <1>3. Mine \subseteq Mine'
    <2>1. Client(Lister).subject' = Client(Lister).subject
      BY DEF Client, Authenticated
    <2>2. \A other \in Stored : author'[other] = author[other]
      BY <1>2, MineIsStored DEF ListInv
    <2> QED
      BY <1>2, <2>1, <2>2 DEF Mine, Filter
  <1>4. existing \subseteq Stored /\ UNCHANGED <<token, pages, existing>>
    BY MineIsStored DEF ListInv, ExistingKept, listingVars
  <1>5. InOrder(existing)' => InOrder(existing)
    BY <1>1, <1>4 DEF InOrder
  <1>6. \A i : Sorted(i)' => Sorted(i)
    BY <1>5 DEF Sorted
  <1>7. ExistingKept'
    BY <1>3, <1>4 DEF ListInv, ExistingKept
  <1> QED
    BY <1>1, <1>4, <1>5, <1>6, <1>7
       DEF ListInv, PagesUpToToken, CompleteUpToToken, NothingListedTwice

\* Every step keeps ListInv; author takes only authors, as the module of the API says.
LEMMA ListStepInv == ListInv /\ ApiInv /\ [Next]_vars => ListInv'
  <1> SUFFICES ASSUME ListInv, ApiInv, [Next]_vars PROVE ListInv'
    OBVIOUS
  <1>1. CASE ListTasks /\ UNCHANGED settings
    <2>1. CASE GetTasks(Mine) /\ UNCHANGED docVars
      BY <1>1, <2>1, FirstPageInv, NextPageInv DEF GetTasks, docVars
    <2>2. CASE UNCHANGED <<listingVars, docVars>>
      BY <1>1, <2>2, OthersInv DEF docVars
    <2> QED
      BY <1>1, <2>1, <2>2 DEF ListTasks, Mine
  <1>2. CASE /\ \E request \in Requests : Refuse(request)
             /\ UNCHANGED <<settings, listingVars>>
    BY <1>2, OthersInv DEF Refuse, docVars
  <1>3. CASE (\E client \in Clients : OneTask(client)) /\ UNCHANGED <<settings, listingVars>>
    <2>1. PICK client \in Clients : OneTask(client)
      BY <1>3
    <2>2. CASE \E id \in ObjectId : CreateTask(client, id)
      <3>1. PICK id \in ObjectId : CreateTask(client, id)
        BY <2>2
      <3>2. CASE UNCHANGED docVars
        BY <1>3, <3>2, OthersInv DEF docVars
      <3>3. CASE InsertTask(id) /\ author' = [author EXCEPT ![id] = client.subject]
        BY <1>3, <3>3, InsertTaskInv DEF ApiInv
      <3> QED
        BY <3>1, <3>2, <3>3 DEF CreateTask
    <2>3. CASE \E id \in ObjectId \cup {Malformed} : GetTask(client, id) \/ CancelTask(client, id)
      BY <1>3, <2>3, OthersInv DEF GetTask, CancelTask, docVars
    <2> QED
      BY <2>1, <2>2, <2>3 DEF OneTask
  <1>4. CASE (\E id \in ObjectId : Progress(id)) /\ UNCHANGED <<settings, listingVars>>
    BY <1>4, OthersInv DEF Progress
  <1>5. CASE UNCHANGED vars
    BY <1>5, OthersInv DEF vars, docVars
  <1> QED
    BY <1>1, <1>2, <1>3, <1>4, <1>5 DEF Next

-----------------------------------------------------------------------------
(***************************************************************************)
(* Theorems about listings.                                                *)
(***************************************************************************)
\* The token is a mark below which the sorted pages are complete.
THEOREM ListInvHolds == Spec => []ListInv
  BY InitListInv, ListStepInv, ApiInvHolds, PTL DEF Spec

\* No task is on two sorted pages of a listing, for any page size and in whatever
\* order tasks are stored.
THEOREM NothingListedTwiceHolds == Spec => []NothingListedTwice
  <1>1. ListInv => NothingListedTwice
    BY DEF ListInv
  <1> QED
    BY <1>1, ListInvHolds, PTL

\* If the tasks there were when a listing began were stored in the order of their
\* ids, all of them are on its pages at its end, for any page size and in whatever
\* order others come meanwhile.
THEOREM NothingSkippedHolds == Spec => []NothingSkipped
  <1>1. ListInv => NothingSkipped
    <2> SUFFICES ASSUME ListInv, token = NonePageToken, InOrder(existing), NEW id \in existing
                 PROVE  id \in UNION {pages[i] : i \in 1..Len(pages)}
      BY DEF NothingSkipped
    <2>1. token # NoPageToken
      BY MaxIdAssumption DEF NoPageToken, NonePageToken
    <2>2. id <= token
      BY MineIsStored, MaxIdAssumption DEF ListInv, ExistingKept, NonePageToken, ObjectId
    <2> QED
      BY <2>1, <2>2 DEF ListInv, CompleteUpToToken
  <1> QED
    BY <1>1, ListInvHolds, PTL

-----------------------------------------------------------------------------
(***************************************************************************)
(* Types, in whatever order tasks are stored.                              *)
(***************************************************************************)
\* Every step of the listing keeps its variables in their types.
LEMMA GetTasksTypes ==
  ASSUME ListingTypeOK, NEW mine \in SUBSET Stored, GetTasks(mine), UNCHANGED tasks
  PROVE  ListingTypeOK' /\ pages'[Len(pages')] \in SUBSET Stored
  <1>1. mine \in SUBSET ObjectId /\ Stored \in SUBSET ObjectId
    BY StoredIds DEF ListingTypeOK
  <1>2. CASE FirstPage(mine)
    <2>1. \A id \in mine : Position[id] \in 1..Len(tasks)
      <3> SUFFICES ASSUME NEW id \in mine PROVE Position[id] \in 1..Len(tasks)
        OBVIOUS
      <3>1. \E i \in 1..Len(tasks) : tasks[i] = id
        BY DEF Stored
      <3>2. Position[id] = CHOOSE i \in 1..Len(tasks) : tasks[i] = id
        BY DEF Position
      <3> QED
        BY <3>1, <3>2
    <2>2. Len(tasks) \in Nat
      BY DEF ListingTypeOK
    <2>3. PICK page \in SUBSET mine :
            pages' = Append(pages, page) /\ token' \in page \cup {NonePageToken}
      BY <1>2, <2>1, <2>2, TokenIsOfPage DEF FirstPage
    <2>4. pages' \in Seq(SUBSET ObjectId) /\ pages'[Len(pages')] = page
      BY <1>1, <2>3 DEF ListingTypeOK
    <2>5. token' \in 0..(MaxId + 1)
      BY <1>1, <2>3, MaxIdAssumption DEF NonePageToken, ObjectId
    <2> QED
      BY <1>1, <1>2, <2>3, <2>4, <2>5 DEF ListingTypeOK, FirstPage
  <1>3. CASE NextPage(mine)
    <2> DEFINE beyond == {id \in mine : AfterToken(id)}
               rank == [id \in ObjectId |-> id]
    <2>1. \A id \in beyond : rank[id] \in 1..MaxId
      BY <1>1 DEF ObjectId
    <2>2. TurnPage(beyond, rank) /\ existing' = existing
      BY <1>3 DEF NextPage
    <2>3. beyond \in SUBSET mine
      OBVIOUS
    <2> HIDE DEF beyond, rank
    <2>4. PICK page \in SUBSET beyond :
            pages' = Append(pages, page) /\ token' \in page \cup {NonePageToken}
      BY <2>1, <2>2, TokenIsOfPage, MaxIdAssumption
    <2>5. pages' \in Seq(SUBSET ObjectId) /\ pages'[Len(pages')] = page
      BY <1>1, <2>3, <2>4 DEF ListingTypeOK
    <2>6. token' \in 0..(MaxId + 1)
      BY <1>1, <2>3, <2>4, MaxIdAssumption DEF NonePageToken, ObjectId
    <2> QED
      BY <2>2, <2>3, <2>4, <2>5, <2>6 DEF ListingTypeOK
  <1> QED
    BY <1>2, <1>3 DEF GetTasks

\* The statuses of all answers.
LEMMA Statuses ==
  /\ \A error : ErrorStatus(error) \in {400, 422, 500}
  /\ settings \in Settings =>
       \A request \in Request : Authenticated(request).status \in {200, 401, 500}
  <1>1. \A check : StatusOf(check) \in {401, 500}
    BY DEF StatusOf
  <1>2. \A tok : VerifyToken(tok).status \in {200, 401, 500}
    BY <1>1 DEF VerifyToken, Accepted, Rejected
  <1>3. \A credentials \in Credentials : VerifyBasicAuth(credentials).status \in {200, 401, 500}
    BY DEF VerifyBasicAuth, Credentials, Accepted, Rejected
  <1>4. \A request \in Request : request.basic \in Credentials
    BY DEF Request
  <1>5. Accepted(Nobody).status = 200
    BY DEF Accepted
  <1> QED
    BY <1>2, <1>3, <1>4, <1>5 DEF Authenticated, ParseVerifyToken, ErrorStatus

\* What TypeOK says beyond ApiInv.
AnswerTypes ==
  /\ ListingTypeOK
  /\ live \subseteq Stored
  /\ answer.status \in {200, 400, 401, 404, 422, 500} /\ answer.reached \subseteq Stored

\* An answer keeps the types when what it shows is stored.
LEMMA AnsweredTypes ==
  ASSUME ListingTypeOK', live' \subseteq Stored',
         NEW op, NEW sender, NEW id, NEW status \in {200, 400, 401, 404, 422, 500},
         NEW reached \in SUBSET Stored', Answer(op, sender, id, status, reached)
  PROVE  AnswerTypes'
  BY DEF Answer, AnswerTypes

\* One client creates, gets or cancels a task.
LEMMA OneTaskTypes ==
  ASSUME AnswerTypes, NEW client \in Clients, OneTask(client), UNCHANGED listingVars
  PROVE  AnswerTypes'
  <1>1. \A error : ErrorStatus(error) \in {200, 400, 401, 404, 422, 500}
    BY Statuses
  <1>2. UNCHANGED tasks => ListingTypeOK' /\ Stored' = Stored
    BY DEF AnswerTypes, ListingTypeOK, listingVars, Stored
  <1>3. ASSUME NEW id \in ObjectId, CreateTask(client, id) PROVE AnswerTypes'
    <2>1. CASE Failure(client.is, "CustomDataLayerError", {}) /\ UNCHANGED docVars
      <3>1. ListingTypeOK' /\ live' \subseteq Stored' /\ {} \in SUBSET Stored'
        BY <1>2, <2>1 DEF docVars, AnswerTypes
      <3> QED
        BY <1>1, <2>1, <3>1, AnsweredTypes DEF Failure
    <2>2. CASE /\ InsertTask(id) /\ live' = live \cup {id}
               /\ \/ Answer("create", client.is, id, 200, {id})
                  \/ Failure(client.is, "CustomDataLayerError", {id})
      <3>1. tasks' = Append(tasks, id) /\ tasks \in Seq(ObjectId)
        BY <2>2 DEF InsertTask, AnswerTypes, ListingTypeOK
      <3>2. /\ tasks' \in Seq(ObjectId) /\ Len(tasks) \in Nat
            /\ Len(tasks') = Len(tasks) + 1 /\ tasks'[Len(tasks) + 1] = id
            /\ \A i \in 1..Len(tasks) : tasks'[i] = tasks[i]
        BY <3>1
      <3>3. Stored \subseteq Stored' /\ id \in Stored'
        BY <3>2 DEF Stored
      <3>4. ListingTypeOK'
        BY <3>2 DEF AnswerTypes, ListingTypeOK, listingVars
      <3>5. live' \subseteq Stored'
        BY <2>2, <3>3 DEF AnswerTypes
      <3> QED
        BY <1>1, <2>2, <3>3, <3>4, <3>5, AnsweredTypes DEF Failure
    <2> QED
      BY <1>3, <2>1, <2>2 DEF CreateTask
  <1>4. ASSUME NEW id, GetTask(client, id) PROVE AnswerTypes'
    <2>1. UNCHANGED <<tasks, live>> /\ Filter(client.subject) \subseteq Stored
      BY <1>4 DEF GetTask, docVars, Filter
    <2>2. ListingTypeOK' /\ live' \subseteq Stored' /\ Stored' = Stored
      BY <1>2, <2>1 DEF AnswerTypes
    <2>3. CASE \E error : Failure(client.is, error, {})
      BY <1>1, <2>2, <2>3, AnsweredTypes DEF Failure
    <2>4. CASE \E status \in {200, 404}, found \in SUBSET Stored :
                 Answer("get", client.is, id, status, found)
      BY <2>2, <2>4, AnsweredTypes
    <2> QED
      BY <1>4, <2>1, <2>3, <2>4 DEF GetTask
  <1>5. ASSUME NEW id, CancelTask(client, id) PROVE AnswerTypes'
    <2>1. /\ UNCHANGED tasks /\ live' \subseteq live
          /\ CancelableOf(client, id) \subseteq Stored
      BY <1>5 DEF CancelTask, CancelableOf, AnswerTypes
    <2>2. ListingTypeOK' /\ live' \subseteq Stored' /\ Stored' = Stored
      BY <1>2, <2>1 DEF AnswerTypes
    <2>3. CASE \E error : \E found \in SUBSET Stored : Failure(client.is, error, found)
      BY <1>1, <2>2, <2>3, AnsweredTypes DEF Failure
    <2>4. CASE Answer("cancel", client.is, id, 200, CancelableOf(client, id))
      BY <2>1, <2>2, <2>4, AnsweredTypes
    <2> QED
      BY <1>5, <2>1, <2>3, <2>4 DEF CancelTask
  <1> QED
    BY <1>3, <1>4, <1>5 DEF OneTask

\* Every step keeps the types.
LEMMA ApiStepTypes == ApiInv /\ AnswerTypes /\ [Next]_vars => AnswerTypes'
  <1> SUFFICES ASSUME ApiInv, AnswerTypes, [Next]_vars PROVE AnswerTypes'
    OBVIOUS
  <1>1. UNCHANGED <<tasks, listingVars>> => ListingTypeOK' /\ Stored' = Stored
    BY DEF AnswerTypes, ListingTypeOK, listingVars, Stored
  <1>2. CASE ListTasks
    <2>1. UNCHANGED <<tasks, live>> /\ Stored' = Stored
      BY <1>2 DEF ListTasks, docVars, Stored
    <2>2. CASE /\ GetTasks(Mine)
               /\ Answer("list", Client(Lister).is, Malformed, 200, pages'[Len(pages')])
      <3>1. Mine \in SUBSET Stored
        BY DEF Mine, Filter
      <3>2. ListingTypeOK' /\ pages'[Len(pages')] \in SUBSET Stored
        BY <2>1, <2>2, <3>1, GetTasksTypes DEF AnswerTypes
      <3>3. live' \subseteq Stored' /\ pages'[Len(pages')] \in SUBSET Stored'
        BY <2>1, <3>2 DEF AnswerTypes
      <3> QED
        BY <2>2, <3>2, <3>3, AnsweredTypes
    <2>3. CASE /\ \E error : Failure(Client(Lister).is, error, {})
               /\ UNCHANGED listingVars
      <3>1. ListingTypeOK' /\ live' \subseteq Stored' /\ {} \in SUBSET Stored'
        BY <2>1, <2>3 DEF AnswerTypes, ListingTypeOK, listingVars, ListTasks
      <3>2. PICK error : Answer("any", Client(Lister).is, Malformed, ErrorStatus(error), {})
        BY <2>3 DEF Failure
      <3>3. ErrorStatus(error) \in {200, 400, 401, 404, 422, 500}
        BY Statuses
      <3> QED
        BY <3>1, <3>2, <3>3, AnsweredTypes
    <2> QED
      BY <1>2, <2>2, <2>3 DEF ListTasks, Mine
  <1>3. CASE (\E request \in Requests : Refuse(request)) /\ UNCHANGED listingVars
    <2>1. PICK request \in Requests : Refuse(request)
      BY <1>3
    <2>2. Authenticated(request).status \in {200, 401, 500}
      BY Statuses, RequestsAssumption DEF ApiInv
    <2>3. ListingTypeOK' /\ live' \subseteq Stored' /\ {} \in SUBSET Stored'
      BY <1>1, <1>3, <2>1 DEF Refuse, docVars, AnswerTypes
    <2>4. PICK status \in {200, 400, 401, 404, 422, 500} :
            Answer("any", Sender(request), Malformed, status, {})
      BY <2>1, <2>2, Statuses DEF Refuse, Failure
    <2> QED
      BY <2>3, <2>4, AnsweredTypes
  <1>4. CASE (\E client \in Clients : OneTask(client)) /\ UNCHANGED listingVars
    BY <1>4, OneTaskTypes
  <1>5. CASE (\E id \in ObjectId : Progress(id)) /\ UNCHANGED listingVars
    BY <1>1, <1>5 DEF Progress, AnswerTypes
  <1>6. CASE UNCHANGED vars
    BY <1>1, <1>6 DEF vars, docVars, AnswerTypes
  <1> QED
    BY <1>2, <1>3, <1>4, <1>5, <1>6 DEF Next

\* All variables have their types, every status is one of 200, 400, 401, 404, 422
\* and 500, and an answer shows stored tasks only, for any page size and whoever asks.
THEOREM TypesHold == Spec => []TypeOK
  <1>1. Init => AnswerTypes
    <2> SUFFICES ASSUME Init PROVE AnswerTypes
      OBVIOUS
    <2>1. tasks \in Seq(ObjectId)
      BY InitInv DEF ApiInv
    <2> QED
      BY <2>1, MaxIdAssumption
         DEF Init, InitListing, AnswerTypes, ListingTypeOK, NoPageToken
  <1>2. ApiInv /\ AnswerTypes => TypeOK
    BY DEF ApiInv, AnswerTypes, TypeOK
  <1> QED
    BY <1>1, <1>2, ApiStepTypes, ApiInvHolds, PTL DEF Spec

=============================================================================
