------------------------------ MODULE TaskApi ------------------------------
(***************************************************************************)
(* The task endpoints as their clients see them: create_task, get_task,    *)
(* get_tasks and cancel_task with the authentication before them, the      *)
(* filter on the author behind them and the status each answer has.  What  *)
(* the handlers do to a task is one step here, Progress; EventHandlers has *)
(* the rest.                                                               *)
(***************************************************************************)
EXTENDS Authentication, TaskListing

CONSTANTS
  Requests,  \* what clients send along
  Lister     \* what the client of the listing sends along

ASSUME RequestsAssumption == Requests \subseteq Request /\ Lister \in Requests

VARIABLES
  settings,  \* which authentication is on
  author,    \* the author in each document
  live,      \* the tasks in a state that can be canceled
  owner,     \* history: the person who created each task
  answer     \* the last answer

docVars == <<tasks, author, live, owner>>
vars == <<docVars, listingVars, settings, answer>>

\* An id that is not 24 hexadecimal digits, for which ObjectId raises InvalidId.
Malformed == MaxId + 1

-----------------------------------------------------------------------------
(***************************************************************************)
(* Who a request is really from, apart from what the code makes of it: the *)
(* one a good token was made out to by its issuer.  A person is a name and *)
(* who vouches for it.                                                     *)
(***************************************************************************)
Vouched(sub, iss) == [sub |-> sub, iss |-> iss]

\* Nobody signs for the user of Basic authentication.
NoIssuer == "none"

Stranger == Vouched("a stranger", NoIssuer)

Author == Subject \cup {Username, Nobody}

ASSUME StrangerAssumption == Stranger.sub \notin Author

Person == [sub : Author, iss : Issuer \cup {NoIssuer}]

Sender(request) ==
  IF settings.basic THEN IF request.basic = "right" THEN Vouched(Username, NoIssuer) ELSE Stranger
  ELSE IF settings.oauth
       THEN IF request.token.fails = {} THEN Vouched(request.token.sub, request.token.iss)
            ELSE Stranger
  ELSE Vouched(Nobody, NoIssuer)

\* Whose tasks a sender may reach: without authentication there is no difference.
Owns(sender, id) == settings.basic \/ settings.oauth => owner[id] = sender

-----------------------------------------------------------------------------
Authenticated(request) == ParseVerifyToken(settings, request)

\* A client whose request is let in: its token_subject, and who it is.
Client(request) == [subject |-> Authenticated(request).subject, is |-> Sender(request)]

Clients == {Client(request) : request \in {r \in Requests : Authenticated(r).status = 200}}

Answer(op, sender, id, status, reached) ==
  answer' = [op |-> op, from |-> sender, id |-> id, status |-> status, reached |-> reached]

\* api_handle_error
ErrorStatus(error) ==
  CASE error = "CustomDataLayerError" -> 500
    [] error = "ValidationError"      -> 422
    [] error = "InvalidId"            -> 400
    [] OTHER                          -> 500

\* An answer that says nothing of a task; what it changed nevertheless is reached.
Failure(sender, error, reached) ==
  Answer("any", sender, Malformed, ErrorStatus(error), reached)

\* Mutant: a client without a subject is looked for as the author None.
FilterNobody(subject) == {id \in Stored : author[id] = subject}

\* author.maybe({}, ...): the documents the filter on the author leaves;
\* maybe_of(None) is Nothing, which filters nothing.
Filter(subject) ==
  IF subject = Nobody THEN Stored ELSE {id \in Stored : author[id] = subject}

\* Settings do not change while the service runs.  The collection is empty, or
\* has a task of a time with other settings.
Init ==
  /\ settings \in Settings
  /\ Authenticated(Lister).status = 200
  /\ \E old \in SUBSET {1}, whose \in Person :
       /\ tasks = IF old = {} THEN <<>> ELSE <<1>>
       /\ owner = [id \in ObjectId |-> IF id \in old THEN whose ELSE Vouched(Nobody, NoIssuer)]
  /\ author = [id \in ObjectId |-> owner[id].sub]
  /\ live = {}
  /\ answer = [op |-> "none", from |-> Stranger, id |-> Malformed, status |-> 200, reached |-> {}]
  /\ InitListing

\* Nothing of a handler runs when its dependency raises, or when a task or a
\* parameter of the query does not validate.  A body that is no JSON is found out
\* before the dependency runs, anything else after it.
Refuse(request) ==
  /\ \/ /\ Authenticated(request).status # 200
        /\ Answer("any", Sender(request), Malformed, Authenticated(request).status, {})
     \/ Failure(Sender(request), "ValidationError", {})
  /\ UNCHANGED docVars

\* Mutant: the chain goes on with a task that was not stored.
CreateTaskUnstored(client, id) ==
  /\ Failure(client.is, "CustomDataLayerError", {})
  /\ live' = live \cup {id}
  /\ UNCHANGED <<tasks, author, owner>>

\* create_task; the author is the token_subject.
CreateTask(client, id) ==
  \/ /\ Failure(client.is, "CustomDataLayerError", {})
     /\ UNCHANGED docVars
  \/ /\ InsertTask(id)
     /\ author' = [author EXCEPT ![id] = client.subject]
     /\ owner' = [owner EXCEPT ![id] = client.is]
     /\ live' = live \cup {id}
     /\ \/ Answer("create", client.is, id, 200, {id})
        \/ Failure(client.is, "CustomDataLayerError", {id})

\* get_task
GetTask(client, id) ==
  LET found == {id} \cap Filter(client.subject) IN
    /\ \/ id = Malformed /\ Failure(client.is, "InvalidId", {})
       \/ id # Malformed /\ Failure(client.is, "CustomDataLayerError", {})
       \/ id # Malformed /\ Answer("get", client.is, id, IF found = {} THEN 404 ELSE 200, found)
    /\ UNCHANGED docVars

\* Mutant: the filter on the author is forgotten.
CancelableOfAny(client, id) == {id} \cap live

\* cancel_task of the repository: what find_one_and_update finds.
CancelableOf(client, id) == {id} \cap live \cap Filter(client.subject)

\* cancel_task: 200 whether or not a task was found.
CancelTask(client, id) ==
  LET found == CancelableOf(client, id) IN
    /\ \/ id = Malformed /\ Failure(client.is, "InvalidId", {}) /\ UNCHANGED live
       \/ id # Malformed /\ Failure(client.is, "CustomDataLayerError", {}) /\ UNCHANGED live
       \/ id # Malformed /\ Failure(client.is, "CustomDataLayerError", found) /\ live' = live \ found
       \/ id # Malformed /\ Answer("cancel", client.is, id, 200, found) /\ live' = live \ found
    /\ UNCHANGED <<tasks, author, owner>>

\* get_tasks: one page of the listing, or an error, after which the client asks
\* for the same page again.  ObjectId("None") raises InvalidId: the page after an
\* empty one is never had.
ListTasks ==
  /\ \/ /\ GetTasks(Filter(Client(Lister).subject))
        /\ Answer("list", Client(Lister).is, Malformed, 200, pages'[Len(pages')])
     \/ /\ token # NonePageToken
        /\ Failure(Client(Lister).is, "CustomDataLayerError", {})
        /\ UNCHANGED listingVars
     \/ /\ token = NonePageToken
        /\ Failure(Client(Lister).is, "InvalidId", {})
        /\ UNCHANGED listingVars
  /\ UNCHANGED docVars

\* A handler ends a task.
Progress(id) ==
  /\ id \in live
  /\ live' = live \ {id}
  /\ UNCHANGED <<tasks, author, owner, answer>>

OneTask(client) ==
  \/ \E id \in ObjectId : CreateTask(client, id)
  \/ \E id \in ObjectId \cup {Malformed} : GetTask(client, id) \/ CancelTask(client, id)

Next ==
  /\ \/ ListTasks
     \/ (\E request \in Requests : Refuse(request)) /\ UNCHANGED listingVars
     \/ (\E client \in Clients : OneTask(client)) /\ UNCHANGED listingVars
     \/ (\E id \in ObjectId : Progress(id)) /\ UNCHANGED listingVars
  /\ UNCHANGED settings

Spec == Init /\ [][Next]_vars

-----------------------------------------------------------------------------
\* The values every variable takes; the statuses are those of the endpoints.
TypeOK ==
  /\ ListingTypeOK
  /\ settings \in Settings
  /\ author \in [ObjectId -> Author]
  /\ owner \in [ObjectId -> Person]
  /\ live \subseteq Stored
  /\ answer.status \in {200, 400, 401, 404, 422, 500} /\ answer.reached \subseteq Stored

\* With authentication on, no answer shows or changes a task whose creator has
\* another name, whatever was sent along and whoever created, canceled or listed
\* tasks before, and none shows anything to one whose token or credentials are bad:
\* "Verify validity of given JWT token" (token_validator.py:12), "Invalid BasicAuth
\* credentials" (basic_auth.py:12).  It says no more, for the validator "Accepts any
\* valid tokens from any issuer including owns!" (token_validator.py:13): people who
\* have one name from two issuers reach each other's tasks, and one who runs an
\* issuer reaches anybody's.
OnlyTasksOfOwnSubject ==
  \A id \in answer.reached :
    /\ answer.from # Stranger
    /\ settings.basic \/ settings.oauth => owner[id].sub = answer.from.sub

\* A client reaches all of its tasks, under the settings it created them with or,
\* once authentication is off, any others: "Task[{id}] not found"
\* (task_endpoints.py:77) is never said of one of them, and one whose
\* cancellation was answered by 200 is over (task_endpoints.py:116).
OwnTasksAreReached ==
  answer.id \in Stored /\ Owns(answer.from, answer.id) =>
    /\ answer.status # 404
    /\ answer.op = "cancel" /\ answer.status = 200 => answer.id \notin live

=============================================================================
