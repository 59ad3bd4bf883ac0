------------------------------- MODULE Directory -------------------------------
(***************************************************************************)
(* The user and role services over their Mongo collections: concurrent      *)
(* creation against a unique index (user/service.go, role/service.go, their *)
(* repositories and handlers, migrations/) and the walk of a client over    *)
(* the pages of a collection that grows meanwhile (user/service.go List,    *)
(* pagination/cursor.go).                                                   *)
(*                                                                         *)
(* Requests are served by any number of server processes; each repository   *)
(* call is atomic in the database.  Document ids are numbers: ObjectIDs     *)
(* are made by the driver before the insert, and those of two processes     *)
(* compare in no particular order.                                          *)
(***************************************************************************)
EXTENDS Integers, FiniteSets

CONSTANTS
  Request,       \* creation requests
  UserRequest,   \* those for users; the others create roles
  KeyOf,         \* [Request -> e-mails and role names]
  MaxId,         \* bounds the ids
  Limits,        \* the page sizes a client may ask for
  DefaultLimit,  \* pagination.DefaultLimit
  MaxLimit,      \* pagination.MaxLimit
  Failures       \* whether the database may fail

Id     == 1 .. MaxId
NoId   == 0      \* the zero ObjectID: not yet made, or the cursor of the first page
Answer == {"none", "created", "conflict", "error"}

ASSUME DirectoryAssumption ==
  /\ UserRequest \subseteq Request
  /\ MaxId \in Nat
  /\ Limits \subseteq Int
  /\ MaxLimit \in Nat \ {0}
  /\ DefaultLimit \in 1 .. MaxLimit
  /\ Failures \in BOOLEAN

VARIABLES
  docs,      \* stored documents
  pc,        \* where each request is
  id,        \* the id its document has been given
  answer,    \* what it was told
  walk,      \* where the client that lists the users is
  cursor,    \* the cursor of its next page
  seen,      \* ids it was given
  repeated,  \* ids it was given twice
  present    \* history: ids of the users stored when the walk began

walker == <<walk, cursor, seen, repeated, present>>
vars   == <<docs, pc, id, answer, walk, cursor, seen, repeated, present>>

CollOf(r) == IF r \in UserRequest THEN "users" ELSE "roles"
NameOf    == [r \in Request |-> <<CollOf(r), KeyOf[r]>>]
Doc       == [id : Id, name : {NameOf[r] : r \in Request}]

Taken   == {d.name : d \in docs}
UserIds == {d.id : d \in {e \in docs : e.name[1] = "users"}}

Conclude(r, a) == /\ pc' = [pc EXCEPT ![r] = "done"]
                  /\ answer' = [answer EXCEPT ![r] = a]

--------------------------------------------------------------------------------
(* Register and Create.                                                     *)

\* ExistsByEmail or ExistsByName finds a document: 409.
FindTaken(r) == /\ pc[r] = "lookup"
                /\ NameOf[r] \in Taken
                /\ Conclude(r, "conflict")
                /\ UNCHANGED <<docs, id, walker>>

\* It finds none: the document is built and InsertOne called, which makes its id.
FindFree(r) ==
  /\ pc[r] = "lookup"
  /\ NameOf[r] \notin Taken
  /\ \E i \in Id : /\ \A q \in Request : id[q] # i
                   /\ id' = [id EXCEPT ![r] = i]
  /\ pc' = [pc EXCEPT ![r] = "insert"]
  /\ UNCHANGED <<docs, answer, walker>>

\* Seeded fault: the zero id is sent (no omitempty on the _id field).
ZeroIdDocument(r) == [id |-> NoId, name |-> NameOf[r]]

Document(r) == [id |-> id[r], name |-> NameOf[r]]

\* Seeded fault: the migrations have not created the unique indexes.
InsertUnindexed(r) ==
  /\ pc[r] = "insert"
  /\ docs' = docs \cup {Document(r)}
  /\ Conclude(r, "created") \/ (Failures /\ Conclude(r, "error"))
  /\ UNCHANGED <<id, walker>>

\* The unique index admits the document; the answer may be lost on its way.
Insert(r) ==
  /\ pc[r] = "insert"
  /\ NameOf[r] \notin Taken
  /\ docs' = docs \cup {Document(r)}
  /\ Conclude(r, "created") \/ (Failures /\ Conclude(r, "error"))
  /\ UNCHANGED <<id, walker>>

\* The unique index rejects it.  The driver's duplicate-key error is none of the
\* errors the handlers know: 500.
InsertDuplicate(r) == /\ pc[r] = "insert"
                      /\ NameOf[r] \in Taken
                      /\ Conclude(r, "error")
                      /\ UNCHANGED <<docs, id, walker>>

\* A database call fails, or the handler's deadline passes, without effect.
Fail(r) == /\ Failures
           /\ pc[r] \in {"lookup", "insert"}
           /\ Conclude(r, "error")
           /\ UNCHANGED <<docs, id, walker>>

--------------------------------------------------------------------------------
(* List.  A failed page changes nothing: the client asks again.             *)

\* Seeded fault: the page size is passed on as the client gave it.
ClampAbove(n) == IF n > MaxLimit THEN MaxLimit ELSE n

ClampLimit(n) == IF n <= 0 THEN DefaultLimit ELSE IF n > MaxLimit THEN MaxLimit ELSE n

\* Find with _id > c, ascending, at most n rows.
IsQuery(rows, c, n) ==
  LET later == {i \in UserIds : i > c}
  IN  /\ rows \subseteq later
      /\ \A i \in rows, j \in later \ rows : i < j
      /\ Cardinality(rows) = n \/ (Cardinality(rows) < n /\ rows = later)

Last(S) == CHOOSE i \in S : \A j \in S : j <= i

\* The rows beyond the limit only tell that there are more pages.
HasMore(rows, n) == Cardinality(rows) > n
Items(rows, n)   == IF HasMore(rows, n) THEN rows \ {Last(rows)} ELSE rows

\* Seeded fault: the cursor is the extra row, which no page then holds.
CursorPastPage(rows, n) == Last(rows)

NextCursor(rows, n) == Last(Items(rows, n))

\* The client's first request is served.
BeginWalk == /\ walk = "idle"
             /\ walk' = "paging"
             /\ present' = UserIds
             /\ UNCHANGED <<docs, pc, id, answer, cursor, seen, repeated>>

NextPage ==
  /\ walk = "paging"
  /\ \E asked \in Limits :
       LET n == ClampLimit(asked)
       IN  \E rows \in SUBSET UserIds :
             /\ IsQuery(rows, cursor, n + 1)
             /\ seen' = seen \cup Items(rows, n)
             /\ repeated' = repeated \cup (seen \cap Items(rows, n))
             /\ IF HasMore(rows, n)
                THEN /\ walk' = walk
                     /\ cursor' = IF Items(rows, n) = {} THEN NoId ELSE NextCursor(rows, n)
                ELSE walk' = "end" /\ UNCHANGED cursor
  /\ UNCHANGED <<docs, pc, id, answer, present>>

--------------------------------------------------------------------------------
Init == /\ docs = {}
        /\ pc = [r \in Request |-> "lookup"]
        /\ id = [r \in Request |-> NoId]
        /\ answer = [r \in Request |-> "none"]
        /\ walk = "idle"
        /\ cursor = NoId
        /\ seen = {}
        /\ repeated = {}
        /\ present = {}

Serve(r) == FindTaken(r) \/ FindFree(r) \/ Insert(r) \/ InsertDuplicate(r) \/ Fail(r)

\* All requests are answered and the walk is over.
Finished == /\ \A r \in Request : pc[r] = "done"
            /\ walk = "end"
            /\ UNCHANGED vars

Next == \/ \E r \in Request : Serve(r)
        \/ BeginWalk
        \/ NextPage
        \/ Finished

Spec == Init /\ [][Next]_vars

\* The client goes on asking for the next page.
FairSpec == Spec /\ WF_vars(NextPage)

--------------------------------------------------------------------------------
(* Properties.                                                              *)

TypeOK ==
  /\ docs \subseteq Doc
  /\ pc \in [Request -> {"lookup", "insert", "done"}]
  /\ id \in [Request -> Id \cup {NoId}]
  /\ answer \in [Request -> Answer]
  /\ walk \in {"idle", "paging", "end"}
  /\ cursor \in Id \cup {NoId}
  /\ seen \subseteq Id /\ repeated \subseteq Id /\ present \subseteq Id

\* A walk over the pages gives no user twice and, when it ends, has given every user
\* stored when it began, however many are registered meanwhile and with whatever ids.
WalkExact == /\ repeated = {}
             /\ walk = "end" => present \subseteq seen

\* A client that follows the cursors reaches the last page, whatever page size it asks.
WalkEnds == walk = "paging" ~> walk = "end"

Atomic == INSTANCE AtomicDirectory WITH taken <- Taken

\* Looking up a name and then inserting under a unique index, with failures and lost
\* answers, is claiming the name atomically.
ImplementsAtomic == Atomic!Spec
================================================================================
