---------------------------- MODULE DirectoryProofs ----------------------------
(***************************************************************************)
(* The walk over the users and the atomic claiming of names, proved for     *)
(* every set of requests, every number of ids and every page size.          *)
(***************************************************************************)
EXTENDS Directory, FiniteSetTheorems, WellFoundedInduction, TLAPS

\* A non-empty set of ids has a greatest member, which is its last one.
LEMMA LastId ==
  ASSUME NEW S \in SUBSET Id, S # {}
  PROVE  Last(S) \in S /\ \A j \in S : j <= Last(S)
<1> DEFINE R == {p \in Nat \X Nat : p[1] < p[2]}
           T == {MaxId - i : i \in S}
<1>1. IsWellFoundedOn(R, Nat)
  <2>1. R = OpToRel(<, Nat)
    BY DEF OpToRel
  <2>2. QED
    BY <2>1, NatLessThanWellFounded
<1>2. T \subseteq Nat /\ T # {}
  <2>1. \A i \in S : MaxId - i \in Nat
    BY DirectoryAssumption DEF Id
  <2>2. T \subseteq Nat
    BY <2>1
  <2>3. PICK i \in S : TRUE
    OBVIOUS
  <2>4. QED
    BY <2>2, <2>3
<1>3. PICK x \in T : \A y \in T : ~(<<y, x>> \in R)
  <2> HIDE DEF R, T
  <2> QED
    BY <1>1, <1>2, WFMin
<1>4. PICK i \in S : x = MaxId - i
  OBVIOUS
<1>5. ASSUME NEW j \in S
      PROVE  j <= i
  <2>1. MaxId - j \in T /\ MaxId - i \in Nat /\ MaxId - j \in Nat
    BY <1>2
  <2>2. ~(MaxId - j < MaxId - i)
    <3>1. ~(<<MaxId - j, x>> \in R)
      BY <1>3, <2>1
    <3>2. <<MaxId - j, x>> \in Nat \X Nat
      BY <1>4, <2>1
    <3>3. QED
      BY <1>4, <3>1, <3>2
  <2>3. i \in Int /\ j \in Int /\ MaxId \in Int
    BY DirectoryAssumption DEF Id
  <2>4. QED
    BY <2>2, <2>3
<1>6. QED
  BY <1>5 DEF Last

--------------------------------------------------------------------------------
(* Types.                                                                   *)

\* A document that is about to be inserted has its id.
IdMade == \A r \in Request : pc[r] = "insert" => id[r] \in Id

TypeInv == TypeOK /\ IdMade

\* A page size is positive, whatever the client asks for.
LEMMA PageSize == ASSUME NEW asked \in Limits
                  PROVE  ClampLimit(asked) \in Nat \ {0}
BY DirectoryAssumption DEF ClampLimit

\* Users are stored under ids.
LEMMA UserIdsType == TypeOK => UserIds \subseteq Id
BY DEF TypeOK, UserIds, Doc

\* When there are more rows than the page holds, the page is not empty; its rows are
\* below the extra one, and the next cursor is the greatest of them.
LEMMA PageItems ==
  ASSUME NEW n \in Nat \ {0}, NEW rows \in SUBSET Id, HasMore(rows, n)
  PROVE  /\ Items(rows, n) # {}
         /\ NextCursor(rows, n) \in Items(rows, n)
         /\ \A i \in Items(rows, n) : i <= NextCursor(rows, n)
         /\ \A i \in rows \ Items(rows, n) : NextCursor(rows, n) < i
<1>1. IsFiniteSet(rows)
  <2>1. IsFiniteSet(1 .. MaxId)
    BY FS_Interval, DirectoryAssumption
  <2>2. QED
    BY <2>1, FS_Subset DEF Id
<1>2. Cardinality(rows) \in Nat /\ Cardinality(rows) > n
  BY <1>1, FS_CardinalityType DEF HasMore
<1>3. rows # {}
  BY <1>1, <1>2, FS_EmptySet
<1>4. Last(rows) \in rows /\ \A j \in rows : j <= Last(rows)
  BY <1>3, LastId
<1>5. Items(rows, n) = rows \ {Last(rows)}
  BY DEF Items
<1>6. Items(rows, n) # {}
  <2>1. Cardinality(rows \ {Last(rows)}) = Cardinality(rows) - 1
    BY <1>1, <1>4, FS_RemoveElement
  <2>2. Cardinality(rows \ {Last(rows)}) # 0
    BY <1>2, <2>1
  <2>3. QED
    BY <1>5, <2>2, FS_EmptySet
<1>7. /\ NextCursor(rows, n) \in Items(rows, n)
      /\ \A i \in Items(rows, n) : i <= NextCursor(rows, n)
  BY <1>5, <1>6, LastId DEF NextCursor
<1>8. ASSUME NEW i \in rows \ Items(rows, n)
      PROVE  NextCursor(rows, n) < i
  <2>1. i = Last(rows)
    BY <1>5
  <2>2. /\ NextCursor(rows, n) \in rows /\ NextCursor(rows, n) # i
        /\ NextCursor(rows, n) <= i
    BY <1>4, <1>5, <1>7, <2>1
  <2>3. NextCursor(rows, n) \in Int /\ i \in Int
    <3>1. Id \subseteq Int
      BY DirectoryAssumption DEF Id
    <3>2. QED
      BY <2>2, <3>1
  <2>4. QED
    BY <2>2, <2>3
<1>9. QED
  BY <1>6, <1>7, <1>8

\* What reading a page does to the walk.
PageRead(n, rows) ==
  /\ IsQuery(rows, cursor, n + 1)
  /\ seen' = seen \cup Items(rows, n)
  /\ repeated' = repeated \cup (seen \cap Items(rows, n))
  /\ IF HasMore(rows, n)
     THEN /\ walk' = walk
          /\ cursor' = IF Items(rows, n) = {} THEN NoId ELSE NextCursor(rows, n)
     ELSE walk' = "end" /\ UNCHANGED cursor

\* Every step keeps every variable in its type, and makes an id before an insert.
LEMMA TypeStep == TypeInv /\ [Next]_vars => TypeInv'
<1> SUFFICES ASSUME TypeInv, [Next]_vars
             PROVE  TypeInv'
  OBVIOUS
<1> USE DEF TypeInv, TypeOK, IdMade
<1>1. ASSUME NEW r \in Request, FindTaken(r)
      PROVE  TypeInv'
  BY <1>1 DEF FindTaken, Conclude, Answer, walker
<1>2. ASSUME NEW r \in Request, FindFree(r)
      PROVE  TypeInv'
  BY <1>2 DEF FindFree, walker
<1>3. ASSUME NEW r \in Request, Insert(r)
      PROVE  TypeInv'
  <2>1. Document(r) \in Doc
    BY <1>3 DEF Insert, Document, Doc
  <2>2. docs' \subseteq Doc
    BY <1>3, <2>1 DEF Insert
  <2>3. PICK a \in Answer : Conclude(r, a)
    BY <1>3 DEF Insert, Answer
  <2>4. UNCHANGED <<id, walker>>
    BY <1>3 DEF Insert
  <2>5. QED
    BY <2>2, <2>3, <2>4 DEF Conclude, walker
<1>4. ASSUME NEW r \in Request, InsertDuplicate(r)
      PROVE  TypeInv'
  BY <1>4 DEF InsertDuplicate, Conclude, Answer, walker
<1>5. ASSUME NEW r \in Request, Fail(r)
      PROVE  TypeInv'
  BY <1>5 DEF Fail, Conclude, Answer, walker
<1>6. CASE BeginWalk
  BY <1>6, UserIdsType DEF BeginWalk
<1>7. CASE NextPage
  <2>1. PICK asked \in Limits, rows \in SUBSET UserIds : PageRead(ClampLimit(asked), rows)
    BY <1>7 DEF NextPage, PageRead
  <2> DEFINE n == ClampLimit(asked)
  <2>2. n \in Nat \ {0} /\ rows \in SUBSET Id
    BY PageSize, UserIdsType
  <2>3. Items(rows, n) \subseteq Id
    BY <2>2 DEF Items
  <2>4. HasMore(rows, n) => NextCursor(rows, n) \in Id
    BY <2>2, <2>3, PageItems
  <2>5. PageRead(n, rows)
    BY <2>1
  <2>6. UNCHANGED <<docs, pc, id, answer, present>>
    BY <1>7 DEF NextPage
  <2>7. /\ seen' \subseteq Id /\ repeated' \subseteq Id
        /\ walk' \in {"idle", "paging", "end"} /\ cursor' \in Id \cup {NoId}
    <3> HIDE DEF n
    <3> QED
      BY <2>3, <2>4, <2>5 DEF PageRead
  <2>8. QED
    BY <2>6, <2>7
<1>8. CASE UNCHANGED vars
  BY <1>8 DEF vars
<1>9. QED
  BY <1>1, <1>2, <1>3, <1>4, <1>5, <1>6, <1>7, <1>8 DEF Next, Serve, Finished

\* The initial state is well typed.
LEMMA TypeInit == Init => TypeInv
BY DEF Init, TypeInv, TypeOK, IdMade, Answer

\* Every variable always has its type: documents are stored under proper ids only.
THEOREM TypeCorrect == Spec => []TypeOK
<1>1. TypeInv => TypeOK
  BY DEF TypeInv
<1>2. QED
  BY <1>1, TypeInit, TypeStep, PTL DEF Spec

--------------------------------------------------------------------------------
(* The walk.                                                                *)

\* The cursor separates what the client was given from what it was not; users are
\* never removed, and no page is given before the walk begins.
WalkInv ==
  /\ repeated = {}
  /\ walk = "idle" => seen = {} /\ cursor = NoId
  /\ walk # "end" => \A i \in seen : i <= cursor
  /\ walk = "paging" => \A i \in present : i <= cursor => i \in seen
  /\ walk = "end" => present \subseteq seen
  /\ present \subseteq UserIds

\* Reading a page moves the cursor over the ids it gives, all of them new; the last
\* page holds every id beyond the cursor.
LEMMA PageStep ==
  ASSUME TypeOK, WalkInv, walk = "paging", NEW n \in Nat \ {0},
         NEW rows \in SUBSET UserIds, PageRead(n, rows),
         UNCHANGED <<docs, pc, id, answer, present>>
  PROVE  WalkInv'
<1> DEFINE later == {i \in UserIds : i > cursor}
<1>1. /\ UserIds \subseteq Id /\ rows \in SUBSET Id /\ rows \subseteq later
      /\ Items(rows, n) \subseteq rows
  BY UserIdsType DEF PageRead, IsQuery, Items
<1>2. Id \subseteq Int /\ cursor \in Int /\ seen \subseteq Int
  BY DirectoryAssumption DEF Id, NoId, TypeOK
<1>3. repeated' = {}
  <2>1. ASSUME NEW i \in Items(rows, n)
        PROVE  ~(i <= cursor)
    <3>1. i \in later /\ i \in Int
      BY <1>1, <1>2
    <3>2. QED
      BY <1>2, <3>1
  <2>2. \A i \in seen : i <= cursor
    BY DEF WalkInv
  <2>3. QED
    BY <2>1, <2>2 DEF PageRead, WalkInv
<1>4. present' \subseteq UserIds' /\ present' = present
  BY DEF WalkInv, UserIds
<1>5. seen' = seen \cup Items(rows, n)
  BY DEF PageRead
<1>6. CASE HasMore(rows, n)
  <2> DEFINE k == NextCursor(rows, n)
  <2>1. /\ Items(rows, n) # {} /\ k \in Items(rows, n)
        /\ \A i \in Items(rows, n) : i <= k
        /\ \A i \in rows \ Items(rows, n) : k < i
    BY <1>1, <1>6, PageItems
  <2>2. walk' = "paging" /\ cursor' = k
    BY <1>6, <2>1 DEF PageRead
  <2>3. k \in Int /\ k > cursor /\ k \in rows
    BY <1>1, <1>2, <2>1
  <2> HIDE DEF k
  <2>4. \A i \in seen' : i <= k
    BY <1>2, <1>5, <2>1, <2>3 DEF WalkInv
  <2>5. ASSUME NEW i \in present, i <= k, i \notin seen
        PROVE  i \in Items(rows, n)
    <3>1. i \in Int /\ i \in UserIds
      BY <1>1, <1>2 DEF WalkInv
    <3>2. ~(i <= cursor)
      BY <2>5 DEF WalkInv
    <3>3. i \in later
      BY <1>2, <3>1, <3>2
    <3>4. i \in rows
      <4>1. i \notin rows => k < i
        BY <2>3, <3>3 DEF PageRead, IsQuery
      <4>2. QED
        BY <2>3, <2>5, <3>1, <4>1
    <3>5. QED
      BY <2>1, <2>3, <2>5, <3>1, <3>4
  <2>6. QED
    BY <1>3, <1>4, <1>5, <2>2, <2>4, <2>5 DEF WalkInv
<1>7. CASE ~HasMore(rows, n)
  <2>1. walk' = "end"
    BY <1>7 DEF PageRead
  <2>2. rows = later
    BY <1>7 DEF PageRead, IsQuery, HasMore
  <2>3. Items(rows, n) = rows
    BY <1>7 DEF Items
  <2>4. ASSUME NEW i \in present, i \notin seen
        PROVE  i \in later
    <3>1. ~(i <= cursor)
      BY <2>4 DEF WalkInv
    <3>2. i \in Int /\ i \in UserIds
      BY <1>1, <1>2 DEF WalkInv
    <3>3. QED
      BY <1>2, <3>1, <3>2
  <2>5. present' \subseteq seen'
    BY <1>4, <1>5, <2>2, <2>3, <2>4
  <2>6. QED
    BY <1>3, <1>4, <2>1, <2>5 DEF WalkInv
<1>8. QED
  BY <1>6, <1>7

\* Every step keeps the cursor's meaning.
LEMMA WalkStep == TypeInv /\ WalkInv /\ [Next]_vars => WalkInv'
<1> SUFFICES ASSUME TypeInv, WalkInv, [Next]_vars
             PROVE  WalkInv'
  OBVIOUS
<1>1. ASSUME docs \subseteq docs', UNCHANGED walker
      PROVE  WalkInv'
  <2>1. UserIds \subseteq UserIds'
    BY <1>1 DEF UserIds
  <2>2. QED
    BY <1>1, <2>1 DEF WalkInv, walker
<1>2. ASSUME NEW r \in Request, Serve(r)
      PROVE  WalkInv'
  <2>1. docs \subseteq docs' /\ UNCHANGED walker
    BY <1>2 DEF Serve, FindTaken, FindFree, Insert, InsertDuplicate, Fail
  <2>2. QED
    BY <1>1, <2>1
<1>3. CASE BeginWalk
  <2>1. /\ walk' = "paging" /\ present' = UserIds /\ UserIds' = UserIds
        /\ seen' = {} /\ cursor' = NoId /\ repeated' = {}
    BY <1>3 DEF BeginWalk, WalkInv, UserIds
  <2>2. \A i \in UserIds : i \in Int /\ i > 0
    BY UserIdsType, DirectoryAssumption DEF Id, TypeInv
  <2>3. \A i \in present' : ~(i <= cursor')
    BY <2>1, <2>2 DEF NoId
  <2>4. QED
    BY <2>1, <2>3 DEF WalkInv
<1>4. CASE NextPage
  <2>1. PICK asked \in Limits, rows \in SUBSET UserIds : PageRead(ClampLimit(asked), rows)
    BY <1>4 DEF NextPage, PageRead
  <2>2. ClampLimit(asked) \in Nat \ {0}
    BY PageSize
  <2>3. walk = "paging" /\ UNCHANGED <<docs, pc, id, answer, present>>
    BY <1>4 DEF NextPage
  <2>4. QED
    BY <2>1, <2>2, <2>3, PageStep DEF TypeInv
<1>5. CASE UNCHANGED vars
  BY <1>1, <1>5 DEF vars, walker
<1>6. QED
  BY <1>2, <1>3, <1>4, <1>5 DEF Next, Finished

\* A walk over the pages gives no user twice and misses none that was stored when it
\* began: the extra row decides that there is a next page, and the cursor is the last
\* row given (user/service.go List).
THEOREM WalkIsExact == Spec => []WalkExact
<1>1. Init => WalkInv
  BY DEF Init, WalkInv, UserIds
<1>2. WalkInv => WalkExact
  BY DEF WalkInv, WalkExact
<1>3. QED
  BY <1>1, <1>2, TypeInit, TypeStep, WalkStep, PTL DEF Spec

--------------------------------------------------------------------------------
(* Names are claimed atomically.                                            *)

\* A request that is being served has not been answered.
Unanswered == \A r \in Request : pc[r] # "done" => answer[r] = "none"

\* Only the last step of a request answers it.
LEMMA UnansweredStep == TypeInv /\ Unanswered /\ [Next]_vars => Unanswered'
<1> SUFFICES ASSUME TypeInv, Unanswered, [Next]_vars
             PROVE  Unanswered'
  OBVIOUS
<1> USE DEF TypeInv, TypeOK, Unanswered
<1>1. ASSUME NEW r \in Request, NEW a \in Answer, Conclude(r, a)
      PROVE  Unanswered'
  BY <1>1 DEF Conclude
<1>2. ASSUME NEW r \in Request, FindFree(r)
      PROVE  Unanswered'
  BY <1>2 DEF FindFree
<1>3. ASSUME NEW r \in Request,
             FindTaken(r) \/ Insert(r) \/ InsertDuplicate(r) \/ Fail(r)
      PROVE  Unanswered'
  <2>1. \E a \in Answer : Conclude(r, a)
    BY <1>3 DEF FindTaken, Insert, InsertDuplicate, Fail, Answer
  <2>2. QED
    BY <1>1, <2>1
<1>4. CASE BeginWalk \/ NextPage \/ UNCHANGED vars
  BY <1>4 DEF BeginWalk, NextPage, vars
<1>5. QED
  BY <1>2, <1>3, <1>4 DEF Next, Serve, Finished

\* Every step claims a name, refuses a request, or changes neither.
LEMMA AtomicStep == TypeInv /\ Unanswered /\ [Next]_vars => [Atomic!Next]_(Atomic!vars)
<1> SUFFICES ASSUME TypeInv, Unanswered, [Next]_vars
             PROVE  Atomic!Next \/ UNCHANGED Atomic!vars
  OBVIOUS
<1> USE DEF TypeInv, TypeOK, Unanswered
<1>1. ASSUME NEW r \in Request, FindTaken(r)
      PROVE  Atomic!Refuse(r)
  BY <1>1 DEF FindTaken, Conclude, Taken, Atomic!Refuse
<1>2. ASSUME NEW r \in Request, Insert(r)
      PROVE  Atomic!Claim(r)
  <2>1. Taken' = Taken \cup {NameOf[r]}
    <3>1. docs' = docs \cup {Document(r)} /\ Document(r).name = NameOf[r]
      BY <1>2 DEF Insert, Document
    <3> HIDE DEF TypeInv, TypeOK, Unanswered
    <3>2. QED
      BY <3>1 DEF Taken
  <2>2. \E a \in {"created", "error"} : answer' = [answer EXCEPT ![r] = a]
    BY <1>2 DEF Insert, Conclude
  <2>3. answer[r] = "none" /\ NameOf[r] \notin Taken
    BY <1>2 DEF Insert
  <2>4. QED
    BY <2>1, <2>2, <2>3 DEF Atomic!Claim
<1>3. ASSUME NEW r \in Request, InsertDuplicate(r) \/ Fail(r)
      PROVE  Atomic!Refuse(r)
  BY <1>3 DEF InsertDuplicate, Fail, Conclude, Taken, Atomic!Refuse
<1>4. ASSUME UNCHANGED <<docs, answer>>
      PROVE  UNCHANGED Atomic!vars
  BY <1>4 DEF Taken, Atomic!vars
<1>5. ASSUME NEW r \in Request, FindFree(r)
      PROVE  UNCHANGED Atomic!vars
  BY <1>4, <1>5 DEF FindFree
<1>6. CASE BeginWalk \/ NextPage \/ UNCHANGED vars
  BY <1>4, <1>6 DEF BeginWalk, NextPage, vars
<1>7. QED
  BY <1>1, <1>2, <1>3, <1>5, <1>6 DEF Next, Serve, Finished, Atomic!Next

\* Checking for the name and then inserting under a unique index claims the name
\* atomically: of two racing requests one is told "created", and none is told so whose
\* name another holds (user/service.go Register, role/service.go Create).
THEOREM ClaimsAreAtomic == Spec => ImplementsAtomic
<1>1. Init => Unanswered /\ Atomic!Init
  BY DEF Init, Unanswered, Taken, Atomic!Init
<1>2. QED
  BY <1>1, TypeInit, TypeStep, UnansweredStep, AtomicStep, PTL
     DEF Spec, ImplementsAtomic, Atomic!Spec
================================================================================
