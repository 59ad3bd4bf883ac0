--------------------------- MODULE SqsConsumerProofs ---------------------------
(***************************************************************************)
(* Theorems about SqsConsumer, for every set of messages, workers and       *)
(* MessageIds, every retry budget and every combination of failures: types  *)
(* and no loss, then on top of that invariant a bounded shutdown, a         *)
(* justified dead-letter queue, the refinement of MessageDelivery, and      *)
(* what holds until the first failure.                                      *)
(***************************************************************************)
EXTENDS SqsConsumer, FiniteSetTheorems, TLAPS

\* An effective retry budget is a natural number, whatever was configured.
LEMMA MaxRetriesNat == MaxRetries \in Nat
  BY SqsAssumption DEF MaxRetries, EffectiveMaxRetries

\* The attributes republish and the forwarding handler publish are well typed.
LEMMA HeadersType ==
  ASSUME NEW c \in Copy, NEW r
  PROVE  /\ RepublishHeaders(c, r) \in Headers
         /\ ForwardHeaders(c) \in Headers
         /\ RepublishHeaders(c, r).msg = c.msg
         /\ ForwardHeaders(c).msg = c.msg
<1>1. c.msg \in Msg /\ c.rc \in Nat
  BY DEF Copy
<1>2. RepublishHeaders(c, r) = IF r = "DLQ" THEN [msg |-> c.msg, rc |-> 0, reason |-> TRUE]
                                            ELSE [msg |-> c.msg, rc |-> 0 + 1, reason |-> FALSE]
  BY DEF RepublishHeaders, SetErrorReason, IncRetryCount, SanitizeForRepublish
<1>3. QED
  BY <1>1, <1>2 DEF Headers, ForwardHeaders

\* Sending keeps the queues well typed, and stores a copy under a fresh id or
\* dead-letters the message.
LEMMA SendEffect ==
  ASSUME TypeOK, NEW h \in Headers, NEW q \in Loop \cup {"dlq"}, Send(h, q)
  PROVE  /\ copies' \subseteq Copy /\ hidden' \subseteq Id /\ dlq' \subseteq Msg
         /\ \/ q = "dlq" /\ copies' = copies /\ dlq' = dlq \cup {h.msg}
            \/ /\ q \in Loop /\ dlq' = dlq
               /\ \E i \in FreeIds :
                    copies' = copies \cup {[id |-> i, queue |-> q, msg |-> h.msg, rc |-> h.rc]}
<1>1. CASE q = "dlq"
  BY <1>1 DEF Send, TypeOK, Headers
<1>2. CASE q # "dlq"
  <2> DEFINE i == CHOOSE i \in FreeIds : TRUE
  <2>1. i \in FreeIds
    BY <1>2 DEF Send
  <2>2. i \in Id
    BY <2>1 DEF FreeIds
  <2>3. /\ copies' = copies \cup {[id |-> i, queue |-> q, msg |-> h.msg, rc |-> h.rc]}
        /\ hidden' = IF q = "retry" THEN hidden \cup {i} ELSE hidden
        /\ dlq' = dlq
    BY <1>2 DEF Send
  <2>4. [id |-> i, queue |-> q, msg |-> h.msg, rc |-> h.rc] \in Copy
    BY <1>2, <2>2 DEF Copy, Headers
  <2> HIDE DEF i
  <2>5. QED
    BY <1>2, <2>1, <2>2, <2>3, <2>4 DEF TypeOK
<1>3. QED
  BY <1>1, <1>2

\* A fault is counted within its bound.
LEMMA SpendType == ASSUME TypeOK, NEW kind, Spend(kind)
                   PROVE  faults' \in 0 .. MaxFaults
  BY SqsAssumption DEF Spend, TypeOK

LoopsType == /\ pc \in [Proc -> PC]
             /\ batch \in [Proc -> SUBSET Copy]
             /\ cur \in [Proc -> Id \cup {NoId}]
             /\ route \in [Proc -> Route]
             /\ attempt \in [Proc -> 0 .. Attempts]

\* Leaving a copy keeps the loops typed.
LEMMA FinishType == ASSUME TypeOK, NEW p \in Proc, NEW c, Finish(p, c)
                    PROVE  LoopsType'
<1>1. "check" \in PC /\ "Commit" \in Route /\ 0 \in 0 .. Attempts
  BY DEF PC, Route, Attempts
<1>2. QED
  BY <1>1 DEF Finish, TypeOK, LoopsType

\* A Publish call, whatever its outcome, keeps the queues and the history typed.
LEMMA PublishType ==
  ASSUME TypeOK, NEW h \in Headers, NEW q \in Loop \cup {"dlq"}, NEW w,
         PublishOk(h, q) \/ PublishError(w, h, q)
  PROVE  /\ copies' \subseteq Copy /\ hidden' \subseteq Id /\ dlq' \subseteq Msg
         /\ faults' \in 0 .. MaxFaults
<1>1. CASE PublishOk(h, q)
  BY <1>1, SendEffect DEF PublishOk, TypeOK
<1>2. CASE Spend("ackLost") /\ Send(h, q)
  BY <1>2, SendEffect, SpendType
<1>3. CASE UNCHANGED <<queues, faults>>
  BY <1>3 DEF queues, TypeOK
<1>4. QED
  BY <1>1, <1>2, <1>3 DEF PublishError

\* Every step keeps every variable in its type.
LEMMA TypeStep == TypeOK /\ [Next]_vars => TypeOK'
<1> SUFFICES ASSUME TypeOK, [Next]_vars PROVE TypeOK'
  OBVIOUS
<1>p. \A p \in Proc : p[1] \in Worker /\ p[2] \in Loop
  BY DEF Proc
<1>0. MaxRetries \in Nat /\ FailCap \in Nat
  BY MaxRetriesNat DEF FailCap
<1>1. ASSUME NEW m \in Msg, Submit(m) PROVE TypeOK'
  <2> DEFINE h == [msg |-> m, rc |-> 0, reason |-> FALSE]
  <2>1. h \in Headers /\ "main" \in Loop
    BY DEF Headers, Loop
  <2>2. PublishOk(h, "main")
    BY <1>1 DEF Submit
  <2> HIDE DEF h
  <2>3. /\ copies' \subseteq Copy /\ hidden' \subseteq Id /\ dlq' \subseteq Msg
        /\ faults' \in 0 .. MaxFaults
    BY <2>1, <2>2, PublishType
  <2>4. submitted' \subseteq Msg /\ UNCHANGED <<live, loops, done, refused, fails, late>>
    BY <1>1 DEF Submit, TypeOK
  <2>5. QED
    BY <2>3, <2>4 DEF TypeOK, loops
<1>2. ASSUME NEW i \in Id, Expire(i) PROVE TypeOK'
  <2>1. faults' \in 0 .. MaxFaults
    BY <1>2, SpendType DEF Expire, TypeOK
  <2>2. QED
    BY <1>2, <2>1 DEF Expire, TypeOK, loops, history
<1>3. ASSUME NEW p \in Proc, Receive(p) PROVE TypeOK'
  <2>1. PICK B \in SUBSET Visible(p[2]) : /\ batch' = [batch EXCEPT ![p] = B]
                                          /\ hidden' = hidden \cup {c.id : c \in B}
    BY <1>3 DEF Receive
  <2>2. B \subseteq Copy /\ \A c \in Copy : c.id \in Id
    BY DEF Visible, TypeOK, Copy
  <2>3. "handle" \in PC /\ pc' = [pc EXCEPT ![p] = "handle"]
    BY <1>3 DEF Receive, PC
  <2>4. UNCHANGED <<copies, dlq, live, cur, route, attempt, history, faults>>
    BY <1>3 DEF Receive
  <2>5. QED
    BY <2>1, <2>2, <2>3, <2>4 DEF TypeOK, history
<1>4. ASSUME NEW p \in Proc, NextMessage(p) PROVE TypeOK'
  BY <1>4 DEF NextMessage, TypeOK, PC, queues, history
<1>5. ASSUME NEW p \in Proc, StopLoop(p) PROVE TypeOK'
  BY <1>5 DEF StopLoop, TypeOK, PC, queues, history
<1>6. ASSUME NEW p \in Proc, NoteLate(p) PROVE late' \in [Proc -> 0 .. 2]
  BY <1>6 DEF NoteLate, TypeOK
<1>7. ASSUME NEW p \in Proc, Handle(p) PROVE TypeOK'
  <2>0. PICK c \in batch[p] : \E o \in Answers(p, c.msg) : HandleAs(p, c, o)
    BY <1>7 DEF Handle
  <2>1. PICK o \in Answers(p, c.msg) : HandleAs(p, c, o)
    BY <2>0
  <2>2. c \in Copy /\ c.id \in Id /\ c.msg \in Msg
    BY DEF TypeOK, Copy
  <2>3. done' \subseteq Msg /\ refused' \subseteq Msg /\ fails' \in [Msg -> 0 .. FailCap]
    <3>1. NoteOutcome(c.msg, o)
      BY <2>1 DEF HandleAs
    <3>2. done' \subseteq Msg /\ refused' \subseteq Msg
      BY <2>2, <3>1 DEF NoteOutcome, TypeOK
    <3>3. fails[c.msg] < FailCap => fails[c.msg] + 1 \in 0 .. FailCap
      BY <1>0, <2>2 DEF TypeOK
    <3>4. fails' \in [Msg -> 0 .. FailCap]
      BY <2>2, <3>1, <3>3 DEF NoteOutcome, TypeOK
    <3>5. QED
      BY <3>2, <3>4
  <2>4. LoopsType'
    <3> DEFINE r == SqsDecideRoute(o, c.rc, MaxRetries)
    <3>1. r \in Route
      BY DEF SqsDecideRoute, Route
    <3>2. CASE Finish(p, c)
      BY <3>2, FinishType
    <3>3. CASE ~Finish(p, c)
      <4>1. /\ pc' = [pc EXCEPT ![p] = IF r = "Commit" THEN "delete" ELSE "publish"]
            /\ cur' = [cur EXCEPT ![p] = c.id]
            /\ route' = [route EXCEPT ![p] = r]
            /\ attempt' = [attempt EXCEPT ![p] = IF r = "Commit" THEN 0 ELSE 1]
            /\ UNCHANGED batch
        BY <2>1, <3>3 DEF HandleAs
      <4> HIDE DEF r
      <4>2. (IF r = "Commit" THEN "delete" ELSE "publish") \in PC
        BY DEF PC
      <4>3. (IF r = "Commit" THEN 0 ELSE 1) \in 0 .. Attempts
        BY DEF Attempts
      <4>4. QED
        BY <2>2, <3>1, <4>1, <4>2, <4>3 DEF TypeOK, LoopsType
    <3>4. QED
      BY <3>2, <3>3
  <2>5. late' \in [Proc -> 0 .. 2] /\ UNCHANGED <<queues, live, submitted, faults>>
    BY <1>6, <2>1 DEF HandleAs
  <2>6. QED
    BY <2>3, <2>4, <2>5 DEF TypeOK, LoopsType, queues
<1>8. \A r : DestQueue(r) \in Loop \cup {"dlq"} /\ \A q : ForwardQueue(q) \in Loop \cup {"dlq"}
  BY DEF DestQueue, ForwardQueue, Loop
<1>9. ASSUME NEW p \in Proc, RepublishOk(p) PROVE TypeOK'
  <2>1. PICK c \in batch[p] : PublishOk(RepublishHeaders(c, route[p]), DestQueue(route[p]))
    BY <1>9 DEF RepublishOk
  <2>2. c \in Copy
    BY DEF TypeOK
  <2>3. RepublishHeaders(c, route[p]) \in Headers
    BY <2>2, HeadersType
  <2>4. /\ copies' \subseteq Copy /\ hidden' \subseteq Id /\ dlq' \subseteq Msg
        /\ faults' \in 0 .. MaxFaults
    BY <1>8, <2>1, <2>3, PublishType
  <2>5. pc' = [pc EXCEPT ![p] = "delete"] /\ "delete" \in PC
    BY <1>9 DEF RepublishOk, PC
  <2>6. UNCHANGED <<live, batch, cur, route, attempt, history>>
    BY <1>9 DEF RepublishOk
  <2>7. QED
    BY <2>4, <2>5, <2>6 DEF TypeOK, history
<1>10. ASSUME NEW p \in Proc, RepublishFails(p) PROVE TypeOK'
  <2>1. PICK c \in batch[p] :
          /\ PublishError(p[1], RepublishHeaders(c, route[p]), DestQueue(route[p]))
          /\ \/ GivesUp(p) /\ LeaveForRedrive(p, c)
             \/ /\ ~GivesUp(p)
                /\ attempt' = [attempt EXCEPT ![p] = @ + 1]
                /\ UNCHANGED <<pc, batch, cur, route>>
    BY <1>10 DEF RepublishFails
  <2>2. RepublishHeaders(c, route[p]) \in Headers
    BY HeadersType DEF TypeOK
  <2>3. /\ copies' \subseteq Copy /\ hidden' \subseteq Id /\ dlq' \subseteq Msg
        /\ faults' \in 0 .. MaxFaults
    BY <1>8, <2>1, <2>2, PublishType
  <2>4. LoopsType'
    <3>1. CASE LeaveForRedrive(p, c)
      BY <3>1, FinishType DEF LeaveForRedrive
    <3>2. CASE ~LeaveForRedrive(p, c)
      <4>1. attempt[p] \in 0 .. Attempts /\ attempt[p] # Attempts
        BY <2>1, <3>2 DEF GivesUp, TypeOK
      <4>2. attempt[p] + 1 \in 0 .. Attempts
        BY <4>1 DEF Attempts
      <4>3. attempt' = [attempt EXCEPT ![p] = attempt[p] + 1] /\ UNCHANGED <<pc, batch, cur, route>>
        BY <2>1, <3>2
      <4>4. QED
        BY <4>2, <4>3 DEF TypeOK, LoopsType
    <3>3. QED
      BY <3>1, <3>2
  <2>5. UNCHANGED <<live, history>>
    BY <1>10 DEF RepublishFails
  <2>6. QED
    BY <2>3, <2>4, <2>5 DEF TypeOK, LoopsType, history
<1>11. ASSUME NEW p \in Proc, ForwardOk(p) PROVE TypeOK'
  <2>1. PICK c \in batch[p] : /\ PublishOk(ForwardHeaders(c), ForwardQueue(p[2]))
                              /\ cur' = [cur EXCEPT ![p] = c.id]
    BY <1>11 DEF ForwardOk
  <2>2. ForwardHeaders(c) \in Headers /\ c.id \in Id
    BY HeadersType DEF TypeOK, Copy
  <2>3. /\ copies' \subseteq Copy /\ hidden' \subseteq Id /\ dlq' \subseteq Msg
        /\ faults' \in 0 .. MaxFaults
    BY <1>8, <2>1, <2>2, PublishType
  <2>4. late' \in [Proc -> 0 .. 2] /\ pc' = [pc EXCEPT ![p] = "delete"] /\ "delete" \in PC
    BY <1>6, <1>11 DEF ForwardOk, PC
  <2>5. UNCHANGED <<live, batch, route, attempt, submitted, done, refused, fails>>
    BY <1>11 DEF ForwardOk
  <2>6. QED
    BY <2>1, <2>2, <2>3, <2>4, <2>5 DEF TypeOK
<1>12. ASSUME NEW p \in Proc, ForwardFails(p) PROVE TypeOK'
  <2>1. PICK c \in batch[p] : /\ PublishError(p[1], ForwardHeaders(c), ForwardQueue(p[2]))
                              /\ LeaveForRedrive(p, c)
    BY <1>12 DEF ForwardFails
  <2>2. ForwardHeaders(c) \in Headers
    BY HeadersType DEF TypeOK
  <2>3. /\ copies' \subseteq Copy /\ hidden' \subseteq Id /\ dlq' \subseteq Msg
        /\ faults' \in 0 .. MaxFaults
    BY <1>8, <2>1, <2>2, PublishType
  <2>4. LoopsType'
    BY <2>1, FinishType DEF LeaveForRedrive
  <2>5. late' \in [Proc -> 0 .. 2] /\ UNCHANGED <<live, submitted, done, refused, fails>>
    BY <1>6, <1>12 DEF ForwardFails
  <2>6. QED
    BY <2>3, <2>4, <2>5 DEF TypeOK, LoopsType
<1>13. ASSUME NEW p \in Proc, Delete(p) PROVE TypeOK'
  <2>1. PICK c \in batch[p] : /\ \/ Remove(c) /\ UNCHANGED faults
                                 \/ DeleteIgnored(p, c)
                              /\ Finish(p, c)
    BY <1>13 DEF Delete
  <2>2. faults' \in 0 .. MaxFaults
    BY <2>1, SpendType DEF DeleteIgnored, TypeOK
  <2>3. copies' \subseteq Copy /\ hidden' \subseteq Id
    BY <2>1 DEF Remove, DeleteIgnored, TypeOK
  <2>4. LoopsType'
    BY <2>1, FinishType
  <2>5. UNCHANGED <<dlq, live, history>>
    BY <1>13 DEF Delete
  <2>6. QED
    BY <2>2, <2>3, <2>4, <2>5 DEF TypeOK, LoopsType, history
<1>14. ASSUME NEW w \in Worker, Cancel(w) PROVE TypeOK'
  <2>1. faults' \in 0 .. MaxFaults
    BY <1>14, SpendType DEF Cancel
  <2>2. QED
    BY <1>14, <2>1 DEF Cancel, TypeOK, queues, loops, history
<1>15. ASSUME NEW w \in Worker, Crash(w) PROVE TypeOK'
  <2>1. faults' \in 0 .. MaxFaults
    BY <1>15, SpendType DEF Crash
  <2>2. "stopped" \in PC /\ "Commit" \in Route /\ 0 \in 0 .. Attempts
    BY DEF PC, Route, Attempts
  <2>3. LoopsType'
    BY <1>15, <2>2 DEF Crash, TypeOK, LoopsType
  <2>4. UNCHANGED <<queues, history>> /\ live' \in [Worker -> BOOLEAN]
    BY <1>15 DEF Crash, TypeOK
  <2>5. QED
    BY <2>1, <2>3, <2>4 DEF TypeOK, LoopsType, queues, history
<1>16. ASSUME NEW w \in Worker, Restart(w) PROVE TypeOK'
  <2>1. "poll" \in PC
    BY DEF PC
  <2>2. pc' \in [Proc -> PC] /\ late' \in [Proc -> 0 .. 2] /\ live' \in [Worker -> BOOLEAN]
    BY <1>16, <2>1 DEF Restart, TypeOK
  <2>3. QED
    BY <1>16, <2>2 DEF Restart, TypeOK, queues
<1>17. CASE UNCHANGED vars
  BY <1>17 DEF TypeOK, vars
<1>18. QED
  BY <1>1, <1>2, <1>3, <1>4, <1>5, <1>7, <1>9, <1>10, <1>11, <1>12, <1>13, <1>14, <1>15,
     <1>16, <1>17 DEF Next, Step, PollNothing

\* Every variable always has its type: in particular a loop makes at most three
\* attempts to republish a message.
THEOREM TypeCorrect == Spec => []TypeOK
<1>1. Init => TypeOK
  <2>1. /\ "poll" \in PC /\ "Commit" \in Route /\ 0 \in 0 .. Attempts /\ 0 \in 0 .. 2
        /\ 0 \in 0 .. FailCap /\ 0 \in 0 .. MaxFaults
    BY MaxRetriesNat, SqsAssumption DEF PC, Route, Attempts, FailCap
  <2>2. QED
    BY <2>1 DEF Init, TypeOK
<1>2. QED
  BY <1>1, TypeStep, PTL DEF Spec

--------------------------------------------------------------------------------
(* No message is lost.  NoMessageLost is not inductive by itself: a loop     *)
(* that begins to delete a copy must be known to hold that copy and not      *)
(* another one with its id, and a fresh copy must be out of reach of the     *)
(* deletions under way.                                                      *)

IdsUnique    == \A c, d \in copies : c.id = d.id => c = d
HeldMatches  == \A p \in Proc : \A c \in batch[p], d \in copies : c.id = d.id => c = d
DeletingHeld == \A p \in Proc : pc[p] = "delete" => cur[p] \in Held(p)

IInv == /\ TypeOK
        /\ IdsUnique
        /\ HeldMatches
        /\ DeletingHeld
        /\ NoMessageLost

\* A step that drops no copy, unsettles nothing and dooms no further copy loses
\* no message.
LEMMA KeepsMessages ==
  ASSUME NoMessageLost, copies \subseteq copies', submitted' = submitted,
         done \subseteq done', dlq \subseteq dlq',
         \A c \in copies : Doomed(c)' => Doomed(c)
  PROVE  NoMessageLost'
<1> SUFFICES ASSUME NEW m \in submitted' \ settled'
             PROVE  \E c \in copies' : c.msg = m /\ ~Doomed(c)'
  BY DEF NoMessageLost
<1>1. m \in submitted \ settled
  BY DEF settled
<1>2. PICK c \in copies : c.msg = m /\ ~Doomed(c)
  BY <1>1 DEF NoMessageLost
<1>3. QED
  BY <1>2

\* A loop that leaves the copy it processes, or never had one, dooms no copy.
LEMMA NoDoom ==
  ASSUME TypeOK, NEW p \in Proc, NEW x, x # "delete", NEW y,
         pc' = [pc EXCEPT ![p] = x], cur' = [cur EXCEPT ![p] = y],
         NEW c
  PROVE  Doomed(c)' => Doomed(c)
  BY DEF Doomed, TypeOK

\* A loop that begins to delete the copy c it holds loses no message, provided
\* c's message is settled by then or was just stored again under a fresh id.
LEMMA BeginDelete ==
  ASSUME IInv, NEW p \in Proc, NEW c \in batch[p],
         pc' = [pc EXCEPT ![p] = "delete"], cur' = [cur EXCEPT ![p] = c.id],
         submitted' = submitted, done \subseteq done', dlq \subseteq dlq',
         copies \subseteq copies',
         \/ c.msg \in settled'
         \/ \E d \in copies' : d.id \in FreeIds /\ d.msg = c.msg
  PROVE  NoMessageLost'
<1> USE DEF IInv
<1> SUFFICES ASSUME NEW m \in submitted' \ settled'
             PROVE  \E d \in copies' : d.msg = m /\ ~Doomed(d)'
  BY DEF NoMessageLost
<1>1. m \in submitted \ settled
  BY DEF settled
<1>2. ASSUME NEW d, Doomed(d)' PROVE Doomed(d) \/ d.id = c.id
  BY <1>2 DEF Doomed, TypeOK
<1>3. CASE m = c.msg
  <2>1. PICK d \in copies' : d.id \in FreeIds /\ d.msg = c.msg
    BY <1>3
  <2>2. d.id # c.id
    BY <2>1 DEF FreeIds, HeldIds, Held
  <2>3. ~Doomed(d)
    BY <2>1 DEF Doomed, DeletingHeld, FreeIds, HeldIds
  <2>4. QED
    BY <1>2, <1>3, <2>1, <2>2, <2>3
<1>4. CASE m # c.msg
  <2>1. PICK d \in copies : d.msg = m /\ ~Doomed(d)
    BY <1>1 DEF NoMessageLost
  <2>2. d.id # c.id
    BY <1>4, <2>1 DEF HeldMatches
  <2>3. QED
    BY <1>2, <2>1, <2>2
<1>5. QED
  BY <1>3, <1>4

\* Storing a copy under a fresh id, or deleting copies, keeps ids unique and the
\* held copies identical to the stored ones, while no loop receives anything.
LEMMA StoreKeeps ==
  ASSUME IdsUnique, HeldMatches, \A p \in Proc : batch'[p] \subseteq batch[p],
         \/ copies' \subseteq copies
         \/ \E f : f.id \in FreeIds /\ copies' = copies \cup {f}
  PROVE  IdsUnique' /\ HeldMatches'
<1>1. CASE copies' \subseteq copies
  BY <1>1 DEF IdsUnique, HeldMatches
<1>2. CASE \E f : f.id \in FreeIds /\ copies' = copies \cup {f}
  <2>1. PICK f : f.id \in FreeIds /\ copies' = copies \cup {f}
    BY <1>2
  <2>2. \A c \in copies : c.id # f.id
    BY <2>1 DEF FreeIds
  <2>3. \A p \in Proc : \A c \in batch[p] : c.id # f.id
    BY <2>1 DEF FreeIds, HeldIds, Held
  <2>4. QED
    BY <2>1, <2>2, <2>3 DEF IdsUnique, HeldMatches
<1>3. QED
  BY <1>1, <1>2

\* What a Publish call of a well-typed message does to the queues.
LEMMA PublishEffect ==
  ASSUME TypeOK, NEW h \in Headers, NEW q \in Loop \cup {"dlq"}, NEW w,
         PublishOk(h, q) \/ PublishError(w, h, q)
  PROVE  /\ \/ copies' \subseteq copies
            \/ \E f : f.id \in FreeIds /\ copies' = copies \cup {f}
         /\ copies \subseteq copies' /\ dlq \subseteq dlq'
         /\ PublishOk(h, q) => \/ q = "dlq" /\ h.msg \in dlq'
                               \/ \E d \in copies' : d.id \in FreeIds /\ d.msg = h.msg
<1>1. CASE Send(h, q)
  <2>1. CASE q = "dlq" /\ copies' = copies /\ dlq' = dlq \cup {h.msg}
    BY <2>1
  <2>2. CASE /\ q \in Loop /\ dlq' = dlq
             /\ \E i \in FreeIds :
                  copies' = copies \cup {[id |-> i, queue |-> q, msg |-> h.msg, rc |-> h.rc]}
    <3>1. PICK i \in FreeIds :
            copies' = copies \cup {[id |-> i, queue |-> q, msg |-> h.msg, rc |-> h.rc]}
      BY <2>2
    <3> DEFINE f == [id |-> i, queue |-> q, msg |-> h.msg, rc |-> h.rc]
    <3>2. f.id = i /\ f.msg = h.msg /\ copies' = copies \cup {f}
      BY <3>1
    <3> HIDE DEF f
    <3>3. QED
      BY <2>2, <3>2
  <2>3. QED
    BY <1>1, <2>1, <2>2, SendEffect
<1>2. CASE ~Send(h, q)
  BY <1>2 DEF PublishOk, PublishError, queues
<1>3. QED
  BY <1>1, <1>2

\* Finish drops the copy from the loop's batch and takes the loop off deletion.
LEMMA FinishEffect ==
  ASSUME IInv, NEW p \in Proc, NEW c, Finish(p, c)
  PROVE  /\ \A q \in Proc : batch'[q] \subseteq batch[q]
         /\ DeletingHeld'
         /\ \A d : Doomed(d)' => Doomed(d)
<1>1. /\ pc' = [pc EXCEPT ![p] = "check"] /\ cur' = [cur EXCEPT ![p] = NoId]
      /\ batch' = [batch EXCEPT ![p] = batch[p] \ {c}]
  BY DEF Finish
<1>2. \A q \in Proc : q # p => pc'[q] = pc[q] /\ cur'[q] = cur[q] /\ batch'[q] = batch[q]
  BY <1>1 DEF IInv, TypeOK
<1>3. pc'[p] = "check" /\ batch'[p] = batch[p] \ {c}
  BY <1>1 DEF IInv, TypeOK
<1>4. \A q \in Proc : batch'[q] \subseteq batch[q]
  BY <1>2, <1>3
<1>5. DeletingHeld'
  BY <1>2, <1>3 DEF IInv, DeletingHeld, Held
<1>6. \A d : Doomed(d)' => Doomed(d)
  BY <1>2, <1>3 DEF Doomed
<1>7. QED
  BY <1>4, <1>5, <1>6

\* A loop that begins to delete a copy of its batch holds that copy.
LEMMA BeginDeleteHeld ==
  ASSUME IInv, NEW p \in Proc, NEW c \in batch[p],
         pc' = [pc EXCEPT ![p] = "delete"], cur' = [cur EXCEPT ![p] = c.id], batch' = batch
  PROVE  DeletingHeld'
<1>1. \A q \in Proc : q # p => pc'[q] = pc[q] /\ cur'[q] = cur[q]
  BY DEF IInv, TypeOK
<1>2. cur'[p] = c.id
  BY DEF IInv, TypeOK
<1>3. QED
  BY <1>1, <1>2 DEF IInv, DeletingHeld, Held

\* Every step preserves the inductive invariant.
LEMMA InvStep == IInv /\ [Next]_vars => IInv'
<1> SUFFICES ASSUME IInv, [Next]_vars PROVE IInv'
  OBVIOUS
<1>t. TypeOK /\ TypeOK'
  BY TypeStep DEF IInv
<1>p. "main" \in Loop /\ \A r, q : /\ DestQueue(r) \in Loop \cup {"dlq"}
                                   /\ ForwardQueue(q) \in Loop \cup {"dlq"}
  BY DEF DestQueue, ForwardQueue, Loop
<1>1. ASSUME NEW m \in Msg, Submit(m) PROVE IInv'
  <2> DEFINE h == [msg |-> m, rc |-> 0, reason |-> FALSE]
  <2>1. h \in Headers /\ h.msg = m
    BY DEF Headers
  <2>2. PublishOk(h, "main") /\ submitted' = submitted \cup {m}
    BY <1>1 DEF Submit
  <2> HIDE DEF h
  <2>3. UNCHANGED <<pc, batch, cur, done>>
    BY <1>1 DEF Submit, loops
  <2>4. /\ \/ copies' \subseteq copies
           \/ \E f : f.id \in FreeIds /\ copies' = copies \cup {f}
        /\ copies \subseteq copies' /\ dlq \subseteq dlq'
        /\ m \in dlq' \/ \E d \in copies' : d.id \in FreeIds /\ d.msg = m
    BY <1>p, <1>t, <2>1, <2>2, PublishEffect
  <2>5. IdsUnique' /\ HeldMatches'
    BY <2>3, <2>4, StoreKeeps DEF IInv
  <2>6. DeletingHeld'
    BY <2>3 DEF IInv, DeletingHeld, Held
  <2>7. NoMessageLost'
    <3> SUFFICES ASSUME NEW n \in submitted' \ settled'
                 PROVE  \E c \in copies' : c.msg = n /\ ~Doomed(c)'
      BY DEF NoMessageLost
    <3>1. \A c : Doomed(c)' <=> Doomed(c)
      BY <2>3 DEF Doomed
    <3>2. CASE n = m
      <4>1. PICK d \in copies' : d.id \in FreeIds /\ d.msg = m
        BY <2>4, <3>2 DEF settled
      <4>2. ~Doomed(d)
        BY <4>1 DEF IInv, Doomed, DeletingHeld, FreeIds, HeldIds
      <4>3. QED
        BY <3>1, <3>2, <4>1, <4>2
    <3>3. CASE n # m
      <4>1. n \in submitted \ settled
        BY <2>2, <2>3, <2>4, <3>3 DEF settled
      <4>2. QED
        BY <2>4, <3>1, <4>1 DEF IInv, NoMessageLost
    <3>4. QED
      BY <3>2, <3>3
  <2>8. QED
    BY <1>t, <2>5, <2>6, <2>7 DEF IInv
<1>2. ASSUME UNCHANGED <<copies, dlq, pc, batch, cur, submitted, done>> PROVE IInv'
  <2>1. IdsUnique' /\ HeldMatches'
    BY <1>2, StoreKeeps DEF IInv
  <2>2. DeletingHeld' /\ \A c : Doomed(c)' => Doomed(c)
    BY <1>2 DEF IInv, DeletingHeld, Held, Doomed
  <2>3. NoMessageLost'
    BY <1>2, <2>2, KeepsMessages DEF IInv
  <2>4. QED
    BY <1>t, <2>1, <2>2, <2>3 DEF IInv
<1>3. ASSUME NEW p \in Proc, Receive(p) PROVE IInv'
  <2>1. PICK B \in SUBSET Visible(p[2]) : batch' = [batch EXCEPT ![p] = B]
    BY <1>3 DEF Receive
  <2>2. /\ pc' = [pc EXCEPT ![p] = "handle"]
        /\ UNCHANGED <<copies, dlq, cur, submitted, done>>
    BY <1>3 DEF Receive, history
  <2>3. \A q \in Proc : batch'[q] = IF q = p THEN B ELSE batch[q]
    BY <1>t, <2>1 DEF TypeOK
  <2>4. B \subseteq copies
    BY DEF Visible
  <2>5. IdsUnique' /\ HeldMatches'
    BY <2>2, <2>3, <2>4 DEF IInv, IdsUnique, HeldMatches
  <2>6. \A q \in Proc : pc'[q] = IF q = p THEN "handle" ELSE pc[q]
    BY <1>t, <2>2 DEF TypeOK
  <2>7. DeletingHeld'
    BY <2>2, <2>3, <2>6 DEF IInv, DeletingHeld, Held
  <2>8. \A c : Doomed(c)' => Doomed(c)
    BY <2>2, <2>6 DEF Doomed
  <2>9. NoMessageLost'
    BY <2>2, <2>8, KeepsMessages DEF IInv
  <2>10. QED
    BY <1>t, <2>5, <2>7, <2>9 DEF IInv
<1>4. ASSUME NEW p \in Proc, NextMessage(p) \/ StopLoop(p) PROVE IInv'
  <2>1. /\ \E x \in {"poll", "handle", "stopped"} : pc' = [pc EXCEPT ![p] = x]
        /\ batch' = batch \/ batch' = [batch EXCEPT ![p] = {}]
        /\ UNCHANGED <<copies, dlq, cur, submitted, done>>
    BY <1>4 DEF NextMessage, StopLoop, queues, history
  <2>2. \A q \in Proc : batch'[q] \subseteq batch[q]
    BY <1>t, <2>1 DEF TypeOK
  <2>3. IdsUnique' /\ HeldMatches'
    BY <2>1, <2>2, StoreKeeps DEF IInv
  <2>4. /\ pc'[p] # "delete"
        /\ \A q \in Proc : q # p => pc'[q] = pc[q] /\ batch'[q] = batch[q]
    BY <1>t, <2>1 DEF TypeOK
  <2>5. DeletingHeld' /\ \A c : Doomed(c)' => Doomed(c)
    BY <2>1, <2>4 DEF IInv, DeletingHeld, Held, Doomed
  <2>6. NoMessageLost'
    BY <2>1, <2>5, KeepsMessages DEF IInv
  <2>7. QED
    BY <1>t, <2>3, <2>5, <2>6 DEF IInv
<1>5. ASSUME NEW p \in Proc, Handle(p) PROVE IInv'
  <2>0. PICK c \in batch[p] : \E o \in Answers(p, c.msg) : HandleAs(p, c, o)
    BY <1>5 DEF Handle
  <2>1. PICK o \in Answers(p, c.msg) : HandleAs(p, c, o)
    BY <2>0
  <2> DEFINE r == SqsDecideRoute(o, c.rc, MaxRetries)
  <2>2. r = "Commit" => o = "ok"
    BY DEF SqsDecideRoute
  <2>3. UNCHANGED <<copies, dlq, submitted>> /\ done \subseteq done' /\ (o = "ok" => c.msg \in done')
    BY <2>1 DEF HandleAs, NoteOutcome, queues
  <2>4. CASE Finish(p, c)
    <3>1. IdsUnique' /\ HeldMatches'
      BY <2>3, <2>4, FinishEffect, StoreKeeps DEF IInv
    <3>2. DeletingHeld' /\ NoMessageLost'
      BY <2>3, <2>4, FinishEffect, KeepsMessages DEF IInv
    <3>3. QED
      BY <1>t, <3>1, <3>2 DEF IInv
  <2>5. CASE ~Finish(p, c)
    <3>1. /\ pc' = [pc EXCEPT ![p] = IF r = "Commit" THEN "delete" ELSE "publish"]
          /\ cur' = [cur EXCEPT ![p] = c.id]
          /\ batch' = batch
      BY <2>1, <2>5 DEF HandleAs
    <3> HIDE DEF r
    <3>2. IdsUnique' /\ HeldMatches'
      BY <2>3, <3>1, StoreKeeps DEF IInv
    <3>3. CASE r = "Commit"
      <4>1. c.msg \in settled'
        BY <2>2, <2>3, <3>3 DEF settled
      <4>2. DeletingHeld' /\ NoMessageLost'
        BY <2>3, <3>1, <3>3, <4>1, BeginDelete, BeginDeleteHeld
      <4>3. QED
        BY <1>t, <3>2, <4>2 DEF IInv
    <3>4. CASE r # "Commit"
      <4>1. pc' = [pc EXCEPT ![p] = "publish"]
        BY <3>1, <3>4
      <4>2. \A d : Doomed(d)' => Doomed(d)
        BY <1>t, <3>1, <4>1, NoDoom
      <4>3. NoMessageLost'
        BY <2>3, <4>2, KeepsMessages DEF IInv
      <4>4. \A q \in Proc : pc'[q] = "delete" => pc[q] = "delete" /\ cur'[q] = cur[q]
        BY <1>t, <3>1, <4>1 DEF TypeOK
      <4>5. DeletingHeld'
        BY <3>1, <4>4 DEF IInv, DeletingHeld, Held
      <4>6. QED
        BY <1>t, <3>2, <4>3, <4>5 DEF IInv
    <3>5. QED
      BY <3>3, <3>4
  <2>6. QED
    BY <2>4, <2>5

<1>6. ASSUME NEW p \in Proc, RepublishOk(p) PROVE IInv'
  <2>1. PICK c \in batch[p] :
          c.id = cur[p] /\ PublishOk(RepublishHeaders(c, route[p]), DestQueue(route[p]))
    BY <1>6 DEF RepublishOk
  <2> DEFINE h == RepublishHeaders(c, route[p])
  <2>2. h \in Headers /\ h.msg = c.msg
    BY <1>t, HeadersType DEF TypeOK
  <2>3. pc' = [pc EXCEPT ![p] = "delete"] /\ UNCHANGED <<batch, cur, submitted, done>>
    BY <1>6 DEF RepublishOk, history
  <2> HIDE DEF h
  <2>4. /\ \/ copies' \subseteq copies
           \/ \E f : f.id \in FreeIds /\ copies' = copies \cup {f}
        /\ copies \subseteq copies' /\ dlq \subseteq dlq'
        /\ c.msg \in dlq' \/ \E d \in copies' : d.id \in FreeIds /\ d.msg = c.msg
    BY <1>p, <1>t, <2>1, <2>2, PublishEffect DEF h
  <2>5. cur' = [cur EXCEPT ![p] = c.id]
    BY <1>t, <2>1, <2>3 DEF TypeOK
  <2>6. IdsUnique' /\ HeldMatches'
    BY <2>3, <2>4, StoreKeeps DEF IInv
  <2>7. c.msg \in settled' \/ \E d \in copies' : d.id \in FreeIds /\ d.msg = c.msg
    BY <2>4 DEF settled
  <2>8. DeletingHeld' /\ NoMessageLost'
    BY <2>3, <2>4, <2>5, <2>7, BeginDelete, BeginDeleteHeld
  <2>9. QED
    BY <1>t, <2>6, <2>8 DEF IInv
<1>7. ASSUME NEW p \in Proc, RepublishFails(p) PROVE IInv'
  <2>1. PICK c \in batch[p] :
          /\ PublishError(p[1], RepublishHeaders(c, route[p]), DestQueue(route[p]))
          /\ \/ GivesUp(p) /\ LeaveForRedrive(p, c)
             \/ /\ ~GivesUp(p)
                /\ attempt' = [attempt EXCEPT ![p] = @ + 1]
                /\ UNCHANGED <<pc, batch, cur, route>>
    BY <1>7 DEF RepublishFails
  <2>2. RepublishHeaders(c, route[p]) \in Headers
    BY <1>t, HeadersType DEF TypeOK
  <2>3. /\ \/ copies' \subseteq copies
           \/ \E f : f.id \in FreeIds /\ copies' = copies \cup {f}
        /\ copies \subseteq copies' /\ dlq \subseteq dlq'
    BY <1>p, <1>t, <2>1, <2>2, PublishEffect
  <2>4. UNCHANGED <<submitted, done>>
    BY <1>7 DEF RepublishFails, history
  <2>5. Finish(p, c) \/ UNCHANGED <<pc, batch, cur>>
    BY <2>1 DEF LeaveForRedrive
  <2>6. /\ \A q \in Proc : batch'[q] \subseteq batch[q]
        /\ DeletingHeld'
        /\ \A d : Doomed(d)' => Doomed(d)
    BY <2>5, FinishEffect DEF IInv, DeletingHeld, Held, Doomed
  <2>7. IdsUnique' /\ HeldMatches'
    BY <2>3, <2>6, StoreKeeps DEF IInv
  <2>8. NoMessageLost'
    BY <2>3, <2>4, <2>6, KeepsMessages DEF IInv
  <2>9. QED
    BY <1>t, <2>6, <2>7, <2>8 DEF IInv
<1>8. ASSUME NEW p \in Proc, ForwardOk(p) PROVE IInv'
  <2>1. PICK c \in batch[p] : /\ PublishOk(ForwardHeaders(c), ForwardQueue(p[2]))
                              /\ cur' = [cur EXCEPT ![p] = c.id]
    BY <1>8 DEF ForwardOk
  <2> DEFINE h == ForwardHeaders(c)
  <2>2. h \in Headers /\ h.msg = c.msg
    BY <1>t, HeadersType DEF TypeOK
  <2>3. pc' = [pc EXCEPT ![p] = "delete"] /\ UNCHANGED <<batch, submitted, done>>
    BY <1>8 DEF ForwardOk
  <2> HIDE DEF h
  <2>4. /\ \/ copies' \subseteq copies
           \/ \E f : f.id \in FreeIds /\ copies' = copies \cup {f}
        /\ copies \subseteq copies' /\ dlq \subseteq dlq'
        /\ c.msg \in dlq' \/ \E d \in copies' : d.id \in FreeIds /\ d.msg = c.msg
    BY <1>p, <1>t, <2>1, <2>2, PublishEffect DEF h
  <2>5. IdsUnique' /\ HeldMatches'
    BY <2>3, <2>4, StoreKeeps DEF IInv
  <2>6. c.msg \in settled' \/ \E d \in copies' : d.id \in FreeIds /\ d.msg = c.msg
    BY <2>4 DEF settled
  <2>7. DeletingHeld' /\ NoMessageLost'
    BY <2>1, <2>3, <2>4, <2>6, BeginDelete, BeginDeleteHeld
  <2>8. QED
    BY <1>t, <2>5, <2>7 DEF IInv
<1>9. ASSUME NEW p \in Proc, ForwardFails(p) PROVE IInv'
  <2>1. PICK c \in batch[p] : /\ PublishError(p[1], ForwardHeaders(c), ForwardQueue(p[2]))
                              /\ LeaveForRedrive(p, c)
    BY <1>9 DEF ForwardFails
  <2>2. ForwardHeaders(c) \in Headers
    BY <1>t, HeadersType DEF TypeOK
  <2>3. /\ \/ copies' \subseteq copies
           \/ \E f : f.id \in FreeIds /\ copies' = copies \cup {f}
        /\ copies \subseteq copies' /\ dlq \subseteq dlq'
    BY <1>p, <1>t, <2>1, <2>2, PublishEffect
  <2>4. UNCHANGED <<submitted, done>>
    BY <1>9 DEF ForwardFails
  <2>5. /\ \A q \in Proc : batch'[q] \subseteq batch[q]
        /\ DeletingHeld'
        /\ \A d : Doomed(d)' => Doomed(d)
    BY <2>1, FinishEffect DEF LeaveForRedrive
  <2>6. IdsUnique' /\ HeldMatches'
    BY <2>3, <2>5, StoreKeeps DEF IInv
  <2>7. NoMessageLost'
    BY <2>3, <2>4, <2>5, KeepsMessages DEF IInv
  <2>8. QED
    BY <1>t, <2>5, <2>6, <2>7 DEF IInv
<1>10. ASSUME NEW p \in Proc, Delete(p) PROVE IInv'
  <2>1. PICK c \in batch[p] : /\ c.id = cur[p]
                              /\ \/ Remove(c) /\ UNCHANGED faults
                                 \/ DeleteIgnored(p, c)
                              /\ Finish(p, c)
    BY <1>10 DEF Delete
  <2>2. pc[p] = "delete" /\ UNCHANGED <<dlq, submitted, done>>
    BY <1>10 DEF Delete, history
  <2>3. copies' \subseteq copies /\ \A d \in copies : d.id # cur[p] => d \in copies'
    BY <2>1 DEF Remove, DeleteIgnored
  <2>4. /\ \A q \in Proc : batch'[q] \subseteq batch[q]
        /\ DeletingHeld'
        /\ \A d : Doomed(d)' => Doomed(d)
    BY <2>1, FinishEffect
  <2>5. IdsUnique' /\ HeldMatches'
    BY <2>3, <2>4, StoreKeeps DEF IInv
  <2>6. NoMessageLost'
    <3> SUFFICES ASSUME NEW m \in submitted' \ settled'
                 PROVE  \E d \in copies' : d.msg = m /\ ~Doomed(d)'
      BY DEF NoMessageLost
    <3>1. PICK d \in copies : d.msg = m /\ ~Doomed(d)
      BY <2>2 DEF IInv, NoMessageLost, settled
    <3>2. d.id # cur[p]
      BY <2>2, <3>1 DEF Doomed
    <3>3. QED
      BY <2>3, <2>4, <3>1, <3>2
  <2>7. QED
    BY <1>t, <2>4, <2>5, <2>6 DEF IInv
<1>11. ASSUME NEW w \in Worker, Crash(w) \/ Restart(w) PROVE IInv'
  <2>1. /\ UNCHANGED <<copies, dlq, submitted, done>>
        /\ \A q \in Proc : batch'[q] \subseteq batch[q]
        /\ \A q \in Proc : pc'[q] = "delete" =>
             pc[q] = "delete" /\ cur'[q] = cur[q] /\ batch'[q] = batch[q]
    BY <1>11 DEF Crash, Restart, queues, history
  <2>2. IdsUnique' /\ HeldMatches'
    BY <2>1, StoreKeeps DEF IInv
  <2>3. DeletingHeld' /\ \A c : Doomed(c)' => Doomed(c)
    BY <2>1 DEF IInv, DeletingHeld, Held, Doomed
  <2>4. NoMessageLost'
    BY <2>1, <2>3, KeepsMessages DEF IInv
  <2>5. QED
    BY <1>t, <2>2, <2>3, <2>4 DEF IInv
<1>12. ASSUME NEW i \in Id, Expire(i) PROVE IInv'
  BY <1>2, <1>12 DEF Expire, loops, history
<1>13. ASSUME NEW w \in Worker, Cancel(w) PROVE IInv'
  BY <1>2, <1>13 DEF Cancel, queues, loops, history
<1>14. CASE UNCHANGED vars
  BY <1>2, <1>14 DEF vars
<1>15. QED
  BY <1>1, <1>3, <1>4, <1>5, <1>6, <1>7, <1>8, <1>9, <1>10, <1>11, <1>12, <1>13, <1>14
     DEF Next, Step, PollNothing

\* No accepted message is ever lost, whatever fails and however often messages are
\* duplicated: until it is handled or dead-lettered, some stored copy of it is safe
\* from every deletion under way.
THEOREM MessagesSurvive == Spec => []NoMessageLost
<1>1. Init => IInv
  <2>1. Init => TypeOK
    BY TypeCorrect, MaxRetriesNat, SqsAssumption
       DEF Init, TypeOK, PC, Route, Attempts, FailCap
  <2>2. Init => IdsUnique /\ HeldMatches /\ DeletingHeld /\ NoMessageLost
    BY DEF Init, IdsUnique, HeldMatches, DeletingHeld, NoMessageLost
  <2>3. QED
    BY <2>1, <2>2 DEF IInv
<1>2. IInv => NoMessageLost
  BY DEF IInv
<1>3. QED
  BY <1>1, <1>2, InvStep, PTL DEF Spec

--------------------------------------------------------------------------------
(* Shutdown.  A handler call that begins after the cancellation is the last: *)
(* the loop leaves "handle", and only a live loop comes back to it.          *)

LateInv == \A p \in Proc : /\ late[p] <= 1
                           /\ live[p[1]] \/ pc[p] = "handle" => late[p] = 0

\* A loop that is cancelled before or during its handler call notes it once.
LEMMA LateOnce ==
  ASSUME TypeOK, LateInv, NEW p \in Proc, pc[p] = "handle", NoteLate(p), live' = live,
         NEW x, x # "handle", pc' = [pc EXCEPT ![p] = x]
  PROVE  LateInv'
<1>1. late[p] = 0
  BY DEF LateInv
<1>2. \A q \in Proc : late'[q] = IF q = p /\ ~live[p[1]] THEN 1 ELSE late[q]
  BY <1>1 DEF NoteLate, TypeOK
<1>3. \A q \in Proc : pc'[q] = IF q = p THEN x ELSE pc[q]
  BY DEF TypeOK
<1>4. QED
  BY <1>1, <1>2, <1>3 DEF LateInv

\* Every step preserves the count of late handler calls.
LEMMA LateStep == TypeOK /\ LateInv /\ [Next]_vars => LateInv'
<1> SUFFICES ASSUME TypeOK, LateInv, [Next]_vars PROVE LateInv'
  OBVIOUS
<1>1. ASSUME late' = late, live' = live,
             \A p \in Proc : pc'[p] = "handle" => pc[p] = "handle" \/ live[p[1]]
      PROVE  LateInv'
  BY <1>1 DEF LateInv
<1>2. ASSUME NEW p \in Proc, Handle(p) PROVE LateInv'
  <2>1. PICK c \in batch[p] : \E o \in Answers(p, c.msg) : HandleAs(p, c, o)
    BY <1>2 DEF Handle
  <2>2. PICK o : HandleAs(p, c, o)
    BY <2>1
  <2>3. pc[p] = "handle" /\ NoteLate(p) /\ live' = live
    BY <2>2 DEF HandleAs
  <2>4. \E x \in {"check", "delete", "publish"} : pc' = [pc EXCEPT ![p] = x]
    BY <2>2 DEF HandleAs, Finish
  <2>5. QED
    BY <2>3, <2>4, LateOnce
<1>3. ASSUME NEW p \in Proc, ForwardOk(p) \/ ForwardFails(p) PROVE LateInv'
  <2>1. pc[p] = "handle" /\ NoteLate(p) /\ live' = live
    BY <1>3 DEF ForwardOk, ForwardFails
  <2>2. \E x \in {"check", "delete"} : pc' = [pc EXCEPT ![p] = x]
    BY <1>3 DEF ForwardOk, ForwardFails, LeaveForRedrive, Finish
  <2>3. QED
    BY <2>1, <2>2, LateOnce
<1>4. ASSUME NEW p \in Proc, Receive(p) \/ NextMessage(p) \/ StopLoop(p) PROVE LateInv'
  <2>1. late' = late /\ live' = live
    BY <1>4 DEF Receive, NextMessage, StopLoop, history
  <2>2. \E x \in {"handle", "poll", "stopped"} :
          pc' = [pc EXCEPT ![p] = x] /\ (x = "handle" => live[p[1]])
    BY <1>4 DEF Receive, NextMessage, StopLoop
  <2>3. QED
    BY <1>1, <2>1, <2>2 DEF TypeOK
<1>5. ASSUME NEW p \in Proc, RepublishOk(p) \/ RepublishFails(p) \/ Delete(p) PROVE LateInv'
  <2>1. late' = late /\ live' = live
    BY <1>5 DEF RepublishOk, RepublishFails, Delete, history
  <2>2. pc' = pc \/ \E x \in {"check", "delete"} : pc' = [pc EXCEPT ![p] = x]
    BY <1>5 DEF RepublishOk, RepublishFails, LeaveForRedrive, Delete, Finish
  <2>3. QED
    BY <1>1, <2>1, <2>2 DEF TypeOK
<1>6. ASSUME NEW w \in Worker, Cancel(w) PROVE LateInv'
  <2>1. late' = late /\ pc' = pc /\ live' = [live EXCEPT ![w] = FALSE]
    BY <1>6 DEF Cancel, loops, history
  <2>2. \A p \in Proc : live'[p[1]] => live[p[1]]
    BY <2>1 DEF TypeOK, Proc
  <2>3. QED
    BY <2>1, <2>2 DEF LateInv
<1>7. ASSUME NEW w \in Worker, Crash(w) PROVE LateInv'
  <2>1. late' = late /\ live' = [live EXCEPT ![w] = FALSE]
    BY <1>7 DEF Crash, history
  <2>2. \A p \in Proc : /\ live'[p[1]] => live[p[1]]
                        /\ pc'[p] = "handle" => pc[p] = "handle"
    BY <1>7, <2>1 DEF Crash, TypeOK, Proc
  <2>3. QED
    BY <2>1, <2>2 DEF LateInv
<1>8. ASSUME NEW w \in Worker, Restart(w) PROVE LateInv'
  <2>1. \A p \in Proc : p[1] = w <=> p \in ProcsOf(w)
    BY DEF Proc, ProcsOf
  <2>2. ASSUME NEW p \in Proc
        PROVE  IF p[1] = w THEN late'[p] = 0
               ELSE live'[p[1]] = live[p[1]] /\ pc'[p] = pc[p] /\ late'[p] = late[p]
    BY <1>8, <2>1 DEF Restart, TypeOK, Proc
  <2>3. QED
    BY <2>2 DEF LateInv
<1>9. ASSUME UNCHANGED <<late, live, pc>> PROVE LateInv'
  BY <1>9 DEF LateInv
<1>10. QED
  BY <1>2, <1>3, <1>4, <1>5, <1>6, <1>7, <1>8, <1>9
     DEF Next, Step, PollNothing, Submit, Expire, loops, history, vars

\* Once a worker's context is cancelled each of its loops begins at most one more
\* handler call, however many messages of a batch it still holds.
THEOREM ShutdownIsBounded == Spec => []ShutdownBounded
<1>1. Init => LateInv
  BY DEF Init, LateInv
<1>2. LateInv => ShutdownBounded
  BY DEF LateInv, ShutdownBounded
<1>3. QED
  BY <1>1, <1>2, LateStep, TypeCorrect, PTL DEF Spec

--------------------------------------------------------------------------------
(* What is known of a message wherever it is.  A retry count is never larger *)
(* than the number of transient errors its message has met, so a decision    *)
(* for the dead-letter queue was earned before it is carried out.            *)

Justified(m) == m \in refused \/ fails[m] > MaxRetries
Earned(c)    == c.msg \in submitted /\ c.rc <= fails[c.msg]

\* The decision a loop is about to publish for the copy it works on.
RouteEarned(p) ==
  \A c \in batch[p] :
    c.id = cur[p] => IF route[p] = "DLQ" THEN Justified(c.msg) ELSE fails[c.msg] >= 1

BatchIdsUnique == \A p \in Proc : \A c, d \in batch[p] : c.id = d.id => c = d

Provenance ==
  /\ \A c \in copies : Earned(c)
  /\ \A p \in Proc : \A c \in batch[p] : Earned(c)
  /\ \A p \in Proc : pc[p] = "publish" => RouteEarned(p)
  /\ BatchIdsUnique
  /\ done \subseteq submitted
  /\ \A m \in dlq : m \in submitted /\ Justified(m)

HistoryGrows == /\ submitted \subseteq submitted'
                /\ refused \subseteq refused'
                /\ \A m \in Msg : fails[m] <= fails'[m]

\* What was earned stays earned.
LEMMA EarnedStable ==
  ASSUME TypeOK, TypeOK', HistoryGrows
  PROVE  /\ \A c \in Copy : Earned(c) => Earned(c)'
         /\ \A m \in Msg : Justified(m) => Justified(m)'
         /\ \A m \in Msg : fails[m] >= 1 => fails'[m] >= 1
<1>1. \A m \in Msg : fails[m] \in Nat /\ fails'[m] \in Nat
  BY MaxRetriesNat DEF TypeOK, FailCap
<1>2. \A c \in Copy : c.msg \in Msg /\ c.rc \in Nat
  BY DEF Copy
<1>3. QED
  BY <1>1, <1>2, MaxRetriesNat DEF HistoryGrows, Earned, Justified

\* A step preserves Provenance when what it stores, decides and dead-letters is earned.
LEMMA ProvenanceKept ==
  ASSUME TypeOK, TypeOK', IdsUnique, Provenance, HistoryGrows,
         \A c \in copies' : c \in copies \/ Earned(c)',
         \A p \in Proc : batch'[p] \subseteq batch[p] \/ batch'[p] \subseteq copies,
         \A p \in Proc : pc'[p] = "publish" =>
           \/ /\ pc[p] = "publish" /\ cur'[p] = cur[p] /\ route'[p] = route[p]
              /\ batch'[p] \subseteq batch[p]
           \/ RouteEarned(p)',
         done' \subseteq submitted',
         \A m \in dlq' : m \in dlq \/ (m \in submitted' /\ Justified(m)')
  PROVE  Provenance'
<1>t. /\ copies \subseteq Copy /\ copies' \subseteq Copy /\ dlq \subseteq Msg
      /\ \A p \in Proc : batch[p] \subseteq Copy /\ batch'[p] \subseteq Copy
  BY DEF TypeOK
<1>m. \A c \in Copy : c.msg \in Msg
  BY DEF Copy
<1>1. \A c \in copies' : Earned(c)'
  BY <1>t, EarnedStable DEF Provenance
<1>2. \A p \in Proc : \A c \in batch'[p] : Earned(c)'
  BY <1>t, EarnedStable DEF Provenance
<1>3. ASSUME NEW p \in Proc, pc'[p] = "publish" PROVE RouteEarned(p)'
  <2>1. CASE /\ pc[p] = "publish" /\ cur'[p] = cur[p] /\ route'[p] = route[p]
             /\ batch'[p] \subseteq batch[p]
    <3>1. RouteEarned(p)
      BY <2>1 DEF Provenance
    <3>2. QED
      BY <1>t, <1>m, <2>1, <3>1, EarnedStable DEF RouteEarned
  <2>2. QED
    BY <1>3, <2>1
<1>4. BatchIdsUnique'
  BY DEF Provenance, BatchIdsUnique, IdsUnique
<1>5. \A m \in dlq' : m \in submitted' /\ Justified(m)'
  BY <1>t, EarnedStable DEF Provenance, HistoryGrows
<1>6. QED
  BY <1>1, <1>2, <1>3, <1>4, <1>5 DEF Provenance

\* What a Publish call, whatever its outcome, can add to the queues.
LEMMA PublishStores ==
  ASSUME TypeOK, NEW h \in Headers, NEW q \in Loop \cup {"dlq"}, NEW w,
         PublishOk(h, q) \/ PublishError(w, h, q)
  PROVE  /\ \A c \in copies' : c \in copies \/ (q # "dlq" /\ c.msg = h.msg /\ c.rc = h.rc)
         /\ \A m \in dlq' : m \in dlq \/ (q = "dlq" /\ m = h.msg)
<1>1. CASE Send(h, q)
  <2>1. CASE q = "dlq"
    BY <1>1, <2>1 DEF Send
  <2>2. CASE q # "dlq"
    <3> DEFINE f == [id |-> CHOOSE i \in FreeIds : TRUE, queue |-> q, msg |-> h.msg, rc |-> h.rc]
    <3>1. copies' = copies \cup {f} /\ dlq' = dlq
      BY <1>1, <2>2 DEF Send
    <3>2. f.msg = h.msg /\ f.rc = h.rc
      OBVIOUS
    <3> HIDE DEF f
    <3>3. QED
      BY <2>2, <3>1, <3>2
  <2>3. QED
    BY <2>1, <2>2
<1>2. CASE ~Send(h, q)
  BY <1>2 DEF PublishOk, PublishError, queues
<1>3. QED
  BY <1>1, <1>2

\* Leaving a copy leaves the decisions of the other loops alone.
LEMMA FinishLoops ==
  ASSUME TypeOK, NEW p \in Proc, NEW c, Finish(p, c)
  PROVE  /\ \A q \in Proc : batch'[q] \subseteq batch[q]
         /\ \A q \in Proc : pc'[q] = "publish" =>
              pc[q] = "publish" /\ cur'[q] = cur[q] /\ route'[q] = route[q]
<1>1. \A q \in Proc : q # p => /\ pc'[q] = pc[q] /\ cur'[q] = cur[q]
                               /\ route'[q] = route[q] /\ batch'[q] = batch[q]
  BY DEF Finish, TypeOK
<1>2. pc'[p] = "check" /\ batch'[p] = batch[p] \ {c}
  BY DEF Finish, TypeOK
<1>3. QED
  BY <1>1, <1>2

\* A decision is earned when it is taken: the routing of outcome o for copy c.
LEMMA DecisionEarned ==
  ASSUME TypeOK, NEW c \in Copy, NEW o \in Outcome, Earned(c), NoteOutcome(c.msg, o),
         NEW r, r = SqsDecideRoute(o, c.rc, MaxRetries)
  PROVE  /\ r = "DLQ" => Justified(c.msg)'
         /\ r = "Retry" => fails'[c.msg] >= 1
<1>1. c.msg \in Msg /\ c.rc \in Nat /\ fails[c.msg] \in 0 .. FailCap
  BY DEF Copy, TypeOK
<1>2. MaxRetries \in Nat /\ FailCap = MaxRetries + 2
  BY MaxRetriesNat DEF FailCap
<1>3. CASE o = "permanent"
  BY <1>3 DEF SqsDecideRoute, NoteOutcome, Justified
<1>4. CASE o = "transient"
  <2>1. fails'[c.msg] = IF fails[c.msg] < FailCap THEN fails[c.msg] + 1 ELSE fails[c.msg]
    BY <1>1, <1>4 DEF NoteOutcome, TypeOK
  <2>2. r = "DLQ" => c.rc >= MaxRetries
    BY <1>4 DEF SqsDecideRoute
  <2>3. QED
    BY <1>1, <1>2, <2>1, <2>2 DEF Earned, Justified
<1>5. CASE o \in {"ok", "cancelled"}
  BY <1>5 DEF SqsDecideRoute
<1>6. QED
  BY <1>3, <1>4, <1>5 DEF Outcome

\* Every step preserves Provenance.
LEMMA ProvenanceStep == IInv /\ Provenance /\ [Next]_vars => Provenance'
<1> SUFFICES ASSUME IInv, Provenance, [Next]_vars PROVE Provenance'
  OBVIOUS
<1>t. TypeOK /\ TypeOK' /\ IdsUnique
  BY TypeStep DEF IInv
<1>c. /\ copies \subseteq Copy /\ \A p \in Proc : batch[p] \subseteq Copy
      /\ \A c \in Copy : c.msg \in Msg /\ c.rc \in Nat
      /\ \A m \in Msg : fails[m] \in Nat
  BY <1>t, MaxRetriesNat DEF TypeOK, Copy, FailCap
<1>d. \A r, q : DestQueue(r) \in Loop \cup {"dlq"} /\ ForwardQueue(q) \in Loop \cup {"dlq"}
  BY DEF DestQueue, ForwardQueue, Loop
<1>1. ASSUME NEW m \in Msg, Submit(m) PROVE Provenance'
  <2> DEFINE h == [msg |-> m, rc |-> 0, reason |-> FALSE]
  <2>1. h \in Headers /\ "main" \in Loop \cup {"dlq"} /\ PublishOk(h, "main")
    BY <1>1 DEF Headers, Loop, Submit
  <2>2. /\ submitted' = submitted \cup {m}
        /\ UNCHANGED <<pc, batch, cur, route, done, refused, fails>>
    BY <1>1 DEF Submit, loops
  <2>3. /\ \A c \in copies' : c \in copies \/ (c.msg = m /\ c.rc = 0)
        /\ \A n \in dlq' : n \in dlq
    BY <1>t, <2>1, PublishStores
  <2>4. \A c \in copies' : c \in copies \/ Earned(c)'
    BY <1>c, <2>2, <2>3 DEF Earned
  <2>5. HistoryGrows
    BY <1>c, <2>2 DEF HistoryGrows
  <2>6. QED
    BY <1>t, <2>2, <2>3, <2>4, <2>5, ProvenanceKept DEF Provenance
<1>2. ASSUME NEW p \in Proc, Receive(p) PROVE Provenance'
  <2>1. PICK B \in SUBSET Visible(p[2]) : batch' = [batch EXCEPT ![p] = B]
    BY <1>2 DEF Receive
  <2>2. pc' = [pc EXCEPT ![p] = "handle"] /\ UNCHANGED <<copies, dlq, cur, route, history>>
    BY <1>2 DEF Receive
  <2>3. \A q \in Proc : /\ batch'[q] = IF q = p THEN B ELSE batch[q]
                        /\ pc'[q] = IF q = p THEN "handle" ELSE pc[q]
    BY <1>t, <2>1, <2>2 DEF TypeOK
  <2>4. HistoryGrows
    BY <1>c, <2>2 DEF HistoryGrows, history
  <2>5. B \subseteq copies
    BY DEF Visible
  <2>6. QED
    BY <1>t, <2>2, <2>3, <2>4, <2>5, ProvenanceKept DEF Provenance, history
<1>3. ASSUME NEW p \in Proc, Handle(p) PROVE Provenance'
  <2>1. PICK c \in batch[p] : \E o \in Answers(p, c.msg) : HandleAs(p, c, o)
    BY <1>3 DEF Handle
  <2>2. PICK o \in Answers(p, c.msg) : HandleAs(p, c, o)
    BY <2>1
  <2> DEFINE r == SqsDecideRoute(o, c.rc, MaxRetries)
  <2>3. c \in Copy /\ c.msg \in Msg /\ Earned(c)
    BY <1>c DEF Provenance
  <2>4. o \in Outcome
    BY <2>3, SqsAssumption DEF Answers, Outcome
  <2>5. NoteOutcome(c.msg, o) /\ UNCHANGED <<copies, hidden, dlq, submitted>>
    BY <2>2 DEF HandleAs, queues
  <2>6. HistoryGrows /\ done' \subseteq submitted'
    BY <1>c, <1>t, <2>3, <2>5 DEF NoteOutcome, HistoryGrows, Provenance, Earned, TypeOK
  <2>7. CASE Finish(p, c)
    BY <1>t, <2>5, <2>6, <2>7, FinishLoops, ProvenanceKept
  <2>8. CASE ~Finish(p, c)
    <3>1. /\ r # "Drop"
          /\ pc' = [pc EXCEPT ![p] = IF r = "Commit" THEN "delete" ELSE "publish"]
          /\ cur' = [cur EXCEPT ![p] = c.id]
          /\ route' = [route EXCEPT ![p] = r]
          /\ batch' = batch
      BY <2>2, <2>8 DEF HandleAs
    <3>2. r \in Route /\ (r = "DLQ" => Justified(c.msg)') /\ (r = "Retry" => fails'[c.msg] >= 1)
      <4>1. r \in Route
        BY DEF SqsDecideRoute, Route
      <4>2. QED
        BY <1>t, <2>3, <2>4, <2>5, <4>1, DecisionEarned
    <3> HIDE DEF r
    <3>3. \A q \in Proc : q # p => pc'[q] = pc[q] /\ cur'[q] = cur[q] /\ route'[q] = route[q]
      BY <1>t, <3>1 DEF TypeOK
    <3>4. /\ cur'[p] = c.id /\ route'[p] = r
          /\ pc'[p] = IF r = "Commit" THEN "delete" ELSE "publish"
      BY <1>t, <3>1 DEF TypeOK
    <3>5. pc'[p] = "publish" => RouteEarned(p)'
      BY <3>1, <3>2, <3>4 DEF RouteEarned, Route, Provenance, BatchIdsUnique
    <3>6. QED
      BY <1>t, <2>5, <2>6, <3>1, <3>3, <3>5, ProvenanceKept
  <2>9. QED
    BY <2>7, <2>8
<1>4. ASSUME NEW p \in Proc, NEW c \in batch[p], c.id = cur[p], pc[p] = "publish",
             \/ PublishOk(RepublishHeaders(c, route[p]), DestQueue(route[p]))
             \/ PublishError(p[1], RepublishHeaders(c, route[p]), DestQueue(route[p])),
             history' = history,
             \A q \in Proc : batch'[q] \subseteq batch[q],
             \A q \in Proc : pc'[q] = "publish" =>
               pc[q] = "publish" /\ cur'[q] = cur[q] /\ route'[q] = route[q]
      PROVE  Provenance'
  <2> DEFINE h == RepublishHeaders(c, route[p])
  <2>1. c \in Copy /\ c.msg \in Msg /\ Earned(c)
    BY <1>c DEF Provenance
  <2>2. IF route[p] = "DLQ" THEN Justified(c.msg) ELSE fails[c.msg] >= 1
    BY <1>4 DEF Provenance, RouteEarned
  <2>3. h \in Headers /\ h.msg = c.msg
    BY <2>1, HeadersType
  <2>4. route[p] # "DLQ" => h.rc = 1
    BY DEF RepublishHeaders, IncRetryCount, SanitizeForRepublish
  <2> HIDE DEF h
  <2>5. /\ \A d \in copies' : \/ d \in copies
                              \/ DestQueue(route[p]) # "dlq" /\ d.msg = h.msg /\ d.rc = h.rc
        /\ \A m \in dlq' : m \in dlq \/ (DestQueue(route[p]) = "dlq" /\ m = h.msg)
    BY <1>d, <1>t, <1>4, <2>3, PublishStores DEF h
  <2>6. DestQueue(route[p]) = "dlq" <=> route[p] = "DLQ"
    BY DEF DestQueue
  <2>7. UNCHANGED <<submitted, done, refused, fails>>
    BY <1>4 DEF history
  <2>8. HistoryGrows
    BY <1>c, <2>7 DEF HistoryGrows
  <2>9. \A d \in copies' : d \in copies \/ Earned(d)'
    BY <2>1, <2>2, <2>3, <2>4, <2>5, <2>6, <2>7 DEF Earned
  <2>10. \A m \in dlq' : m \in dlq \/ (m \in submitted' /\ Justified(m)')
    BY <2>1, <2>2, <2>3, <2>5, <2>6, <2>7 DEF Earned, Justified
  <2>11. QED
    BY <1>t, <1>4, <2>7, <2>8, <2>9, <2>10, ProvenanceKept DEF Provenance
<1>5. ASSUME NEW p \in Proc, RepublishOk(p) PROVE Provenance'
  <2>1. PICK c \in batch[p] :
          c.id = cur[p] /\ PublishOk(RepublishHeaders(c, route[p]), DestQueue(route[p]))
    BY <1>5 DEF RepublishOk
  <2>2. /\ pc[p] = "publish" /\ pc' = [pc EXCEPT ![p] = "delete"]
        /\ UNCHANGED <<batch, cur, route, history>>
    BY <1>5 DEF RepublishOk
  <2>3. \A q \in Proc : pc'[q] = IF q = p THEN "delete" ELSE pc[q]
    BY <1>t, <2>2 DEF TypeOK
  <2>4. QED
    BY <1>4, <2>1, <2>2, <2>3
<1>6. ASSUME NEW p \in Proc, RepublishFails(p) PROVE Provenance'
  <2>1. PICK c \in batch[p] :
          /\ c.id = cur[p]
          /\ PublishError(p[1], RepublishHeaders(c, route[p]), DestQueue(route[p]))
          /\ LeaveForRedrive(p, c) \/ UNCHANGED <<pc, batch, cur, route>>
    BY <1>6 DEF RepublishFails
  <2>2. pc[p] = "publish" /\ history' = history
    BY <1>6 DEF RepublishFails
  <2>3. CASE LeaveForRedrive(p, c)
    BY <1>4, <1>t, <2>1, <2>2, <2>3, FinishLoops DEF LeaveForRedrive
  <2>4. CASE UNCHANGED <<pc, batch, cur, route>>
    BY <1>4, <2>1, <2>2, <2>4
  <2>5. QED
    BY <2>1, <2>3, <2>4
<1>7. ASSUME NEW p \in Proc, ForwardOk(p) \/ ForwardFails(p) PROVE Provenance'
  <2>1. PICK c \in batch[p] :
          /\ \/ PublishOk(ForwardHeaders(c), ForwardQueue(p[2]))
             \/ PublishError(p[1], ForwardHeaders(c), ForwardQueue(p[2]))
          /\ \/ LeaveForRedrive(p, c)
             \/ /\ cur' = [cur EXCEPT ![p] = c.id]
                /\ pc' = [pc EXCEPT ![p] = "delete"]
                /\ UNCHANGED <<batch, route>>
    BY <1>7 DEF ForwardOk, ForwardFails
  <2>2. UNCHANGED <<submitted, done, refused, fails>>
    BY <1>7 DEF ForwardOk, ForwardFails
  <2>3. c \in Copy /\ Earned(c)
    BY <1>c DEF Provenance
  <2>4. /\ ForwardHeaders(c) \in Headers /\ ForwardHeaders(c).msg = c.msg
        /\ ForwardHeaders(c).rc = c.rc /\ ForwardQueue(p[2]) # "dlq"
    BY <2>3, HeadersType DEF ForwardHeaders, ForwardQueue
  <2>5. /\ \A d \in copies' : d \in copies \/ (d.msg = c.msg /\ d.rc = c.rc)
        /\ \A m \in dlq' : m \in dlq
    BY <1>d, <1>t, <2>1, <2>4, PublishStores
  <2>6. /\ \A q \in Proc : batch'[q] \subseteq batch[q]
        /\ \A q \in Proc : pc'[q] = "publish" =>
             pc[q] = "publish" /\ cur'[q] = cur[q] /\ route'[q] = route[q]
    <3>1. CASE LeaveForRedrive(p, c)
      BY <1>t, <3>1, FinishLoops DEF LeaveForRedrive
    <3>2. CASE ~LeaveForRedrive(p, c)
      BY <1>t, <2>1, <3>2 DEF TypeOK
    <3>3. QED
      BY <3>1, <3>2
  <2>7. HistoryGrows
    BY <1>c, <2>2 DEF HistoryGrows
  <2>8. \A d \in copies' : d \in copies \/ Earned(d)'
    BY <2>2, <2>3, <2>5 DEF Earned
  <2>9. QED
    BY <1>t, <2>2, <2>5, <2>6, <2>7, <2>8, ProvenanceKept DEF Provenance
<1>8. ASSUME NEW p \in Proc, Delete(p) PROVE Provenance'
  <2>1. PICK c \in batch[p] : /\ \/ Remove(c) /\ UNCHANGED faults
                                 \/ DeleteIgnored(p, c)
                              /\ Finish(p, c)
    BY <1>8 DEF Delete
  <2>2. UNCHANGED <<dlq, submitted, done, refused, fails>>
    BY <1>8 DEF Delete, history
  <2>3. copies' \subseteq copies
    BY <2>1 DEF Remove, DeleteIgnored
  <2>4. HistoryGrows
    BY <1>c, <2>2 DEF HistoryGrows
  <2>5. QED
    BY <1>t, <2>1, <2>2, <2>3, <2>4, FinishLoops, ProvenanceKept DEF Provenance
<1>9. ASSUME UNCHANGED <<copies, dlq, submitted, done, refused, fails>>,
             \A q \in Proc : batch'[q] \subseteq batch[q],
             \A q \in Proc : pc'[q] = "publish" =>
               pc[q] = "publish" /\ cur'[q] = cur[q] /\ route'[q] = route[q]
      PROVE  Provenance'
  <2>1. HistoryGrows
    BY <1>c, <1>9 DEF HistoryGrows
  <2>2. QED
    BY <1>t, <1>9, <2>1, ProvenanceKept DEF Provenance
<1>10. ASSUME NEW p \in Proc, NextMessage(p) \/ StopLoop(p) PROVE Provenance'
  <2>1. /\ \E x \in {"poll", "handle", "stopped"} : pc' = [pc EXCEPT ![p] = x]
        /\ batch' = batch \/ batch' = [batch EXCEPT ![p] = {}]
        /\ UNCHANGED <<copies, dlq, cur, route, submitted, done, refused, fails>>
    BY <1>10 DEF NextMessage, StopLoop, queues, history
  <2>2. QED
    BY <1>9, <1>t, <2>1 DEF TypeOK
<1>11. ASSUME NEW w \in Worker, Crash(w) \/ Restart(w) PROVE Provenance'
  <2>1. UNCHANGED <<copies, dlq, submitted, done, refused, fails>>
    BY <1>11 DEF Crash, Restart, queues, history
  <2>2. \A q \in Proc : /\ batch'[q] \subseteq batch[q]
                        /\ pc'[q] = "publish" =>
                             pc[q] = "publish" /\ cur'[q] = cur[q] /\ route'[q] = route[q]
    BY <1>11 DEF Crash, Restart
  <2>3. QED
    BY <1>9, <2>1, <2>2
<1>12. ASSUME UNCHANGED <<copies, dlq, pc, batch, cur, route, submitted, done, refused, fails>>
       PROVE  Provenance'
  BY <1>9, <1>12
<1>13. QED
  BY <1>1, <1>2, <1>3, <1>5, <1>6, <1>7, <1>8, <1>10, <1>11, <1>12
     DEF Next, Step, PollNothing, Expire, Cancel, queues, loops, history, vars

\* Both inductive invariants hold initially.
LEMMA InvInit == Init => IInv /\ Provenance
<1>1. Init => TypeOK
  BY MaxRetriesNat, SqsAssumption DEF Init, TypeOK, PC, Route, Attempts, FailCap
<1>2. Init => IdsUnique /\ HeldMatches /\ DeletingHeld /\ NoMessageLost
  BY DEF Init, IdsUnique, HeldMatches, DeletingHeld, NoMessageLost
<1>3. Init => Provenance
  BY DEF Init, Provenance, BatchIdsUnique
<1>4. QED
  BY <1>1, <1>2, <1>3 DEF IInv

\* Nothing is dead-lettered before its handler has refused it or failed on it more often
\* than the budget allows, whatever duplicates, crashes and late timers add.
THEOREM DlqIsJustified == Spec => []DlqJustified
<1>1. Provenance => DlqJustified
  BY DEF Provenance, DlqJustified, Justified
<1>2. QED
  BY <1>1, InvInit, InvStep, ProvenanceStep, PTL DEF Spec

--------------------------------------------------------------------------------
(* Refinement.  A stored copy makes its message pending.  Storing one under  *)
(* a message that is not pending brings a settled message back, and deleting *)
(* the last one retires a settled message: both follow from NoMessageLost.   *)

Pending == {c.msg : c \in copies}

\* A step that only moves copies retires or brings back settled messages.
LEMMA QueueMove ==
  ASSUME IInv, IInv', Provenance, Provenance',
         UNCHANGED <<submitted, done, dlq>>,
         copies' \subseteq copies \/ copies \subseteq copies'
  PROVE  [Delivery!Next]_(Delivery!vars)
<1>s. settled' = settled
  BY DEF settled
<1>p. Pending \subseteq Msg /\ Pending' \subseteq Msg
  BY DEF Pending, IInv, TypeOK, Copy
<1>1. CASE copies' \subseteq copies
  <2>0. (Pending \ Pending') \in SUBSET Msg
    BY <1>p
  <2>1. PICK S \in SUBSET Msg : S = Pending \ Pending'
    BY <2>0
  <2>2. S \subseteq settled
    BY <1>s, <2>1 DEF Pending, IInv, NoMessageLost, Provenance, Earned
  <2>3. Pending' = Pending \ S /\ S \subseteq Pending
    BY <1>1, <2>1 DEF Pending
  <2>4. Delivery!Retire(S)
    BY <2>2, <2>3 DEF Delivery!Retire, Delivery!settled, settled, Pending
  <2>5. QED
    BY <2>4 DEF Delivery!Next
<1>2. CASE copies \subseteq copies'
  <2>0. (Pending' \ Pending) \in SUBSET Msg
    BY <1>p
  <2>1. PICK S \in SUBSET Msg : S = Pending' \ Pending
    BY <2>0
  <2>2. S \subseteq settled
    BY <2>1 DEF Pending, IInv, NoMessageLost, Provenance, Earned
  <2>3. Pending' = Pending \cup S
    BY <1>2, <2>1 DEF Pending
  <2>4. Delivery!Reappear(S)
    BY <2>2, <2>3 DEF Delivery!Reappear, Delivery!settled, settled, Pending
  <2>5. QED
    BY <2>4 DEF Delivery!Next
<1>3. QED
  BY <1>1, <1>2

\* Every step is a step of MessageDelivery or a stutter.
LEMMA DeliveryStep ==
  IInv /\ IInv' /\ Provenance /\ Provenance' /\ [Next]_vars => [Delivery!Next]_(Delivery!vars)
<1> SUFFICES ASSUME IInv, IInv', Provenance, Provenance', [Next]_vars
             PROVE  [Delivery!Next]_(Delivery!vars)
  OBVIOUS
<1>t. /\ TypeOK /\ \A p \in Proc : batch[p] \subseteq Copy
      /\ \A c \in Copy : c.msg \in Msg
  BY DEF IInv, TypeOK, Copy
<1>d. \A r, q : DestQueue(r) \in Loop \cup {"dlq"} /\ ForwardQueue(q) \in Loop \cup {"dlq"}
  BY DEF DestQueue, ForwardQueue, Loop
<1>1. ASSUME NEW m \in Msg, Submit(m) PROVE Delivery!Next
  <2> DEFINE f == [id |-> CHOOSE i \in FreeIds : TRUE, queue |-> "main", msg |-> m, rc |-> 0]
  <2>1. copies' = copies \cup {f} /\ dlq' = dlq
    BY <1>1 DEF Submit, PublishOk, Send
  <2>2. f.msg = m
    OBVIOUS
  <2> HIDE DEF f
  <2>3. m \notin submitted /\ submitted' = submitted \cup {m} /\ done' = done
    BY <1>1 DEF Submit
  <2>4. Pending' = Pending \cup {m}
    BY <2>1, <2>2 DEF Pending
  <2>5. Delivery!Submit(m)
    BY <2>1, <2>3, <2>4 DEF Delivery!Submit, Pending
  <2>6. QED
    BY <2>5 DEF Delivery!Next
<1>2. ASSUME NEW p \in Proc, Handle(p) PROVE [Delivery!Next]_(Delivery!vars)
  <2>1. PICK c \in batch[p] : \E o \in Answers(p, c.msg) : HandleAs(p, c, o)
    BY <1>2 DEF Handle
  <2>2. PICK o : HandleAs(p, c, o)
    BY <2>1
  <2>3. UNCHANGED <<copies, dlq, submitted>> /\ (done' = done \/ done' = done \cup {c.msg})
    BY <2>2 DEF HandleAs, NoteOutcome, queues
  <2>4. c.msg \in Msg /\ c.msg \in submitted
    BY <1>t DEF Provenance, Earned
  <2>5. CASE done' = done
    BY <2>3, <2>5 DEF Delivery!vars
  <2>6. CASE done' = done \cup {c.msg}
    <3>1. Delivery!Succeed(c.msg)
      BY <2>3, <2>4, <2>6 DEF Delivery!Succeed
    <3>2. QED
      BY <2>4, <3>1 DEF Delivery!Next
  <2>7. QED
    BY <2>3, <2>5, <2>6
<1>3. ASSUME NEW p \in Proc, NEW c \in batch[p], NEW h \in Headers, h.msg = c.msg,
             NEW q \in Loop \cup {"dlq"}, PublishOk(h, q) \/ PublishError(p[1], h, q),
             UNCHANGED <<submitted, done>>
      PROVE  [Delivery!Next]_(Delivery!vars)
  <2>1. c.msg \in Msg /\ c.msg \in submitted
    BY <1>t DEF Provenance, Earned
  <2>2. CASE Send(h, q) /\ q = "dlq"
    <3>1. Delivery!DeadLetter(c.msg)
      BY <1>3, <2>1, <2>2 DEF Send, Delivery!DeadLetter
    <3>2. QED
      BY <2>1, <3>1 DEF Delivery!Next
  <2>3. CASE Send(h, q) /\ q # "dlq"
    <3>1. copies \subseteq copies' /\ dlq' = dlq
      BY <2>3 DEF Send
    <3>2. QED
      BY <1>3, <3>1, QueueMove
  <2>4. CASE ~Send(h, q)
    BY <1>3, <2>4 DEF PublishOk, PublishError, queues, Delivery!vars
  <2>5. QED
    BY <2>2, <2>3, <2>4
<1>4. ASSUME NEW p \in Proc, RepublishOk(p) \/ RepublishFails(p)
      PROVE  [Delivery!Next]_(Delivery!vars)
  <2>1. PICK c \in batch[p] :
          \/ PublishOk(RepublishHeaders(c, route[p]), DestQueue(route[p]))
          \/ PublishError(p[1], RepublishHeaders(c, route[p]), DestQueue(route[p]))
    BY <1>4 DEF RepublishOk, RepublishFails
  <2>2. UNCHANGED <<submitted, done>>
    BY <1>4 DEF RepublishOk, RepublishFails, history
  <2>3. RepublishHeaders(c, route[p]) \in Headers /\ RepublishHeaders(c, route[p]).msg = c.msg
    BY <1>t, HeadersType
  <2>4. QED
    BY <1>3, <1>d, <2>1, <2>2, <2>3
<1>5. ASSUME NEW p \in Proc, ForwardOk(p) \/ ForwardFails(p)
      PROVE  [Delivery!Next]_(Delivery!vars)
  <2>1. PICK c \in batch[p] : \/ PublishOk(ForwardHeaders(c), ForwardQueue(p[2]))
                              \/ PublishError(p[1], ForwardHeaders(c), ForwardQueue(p[2]))
    BY <1>5 DEF ForwardOk, ForwardFails
  <2>2. UNCHANGED <<submitted, done>>
    BY <1>5 DEF ForwardOk, ForwardFails
  <2>3. ForwardHeaders(c) \in Headers /\ ForwardHeaders(c).msg = c.msg
    BY <1>t, HeadersType
  <2>4. QED
    BY <1>3, <1>d, <2>1, <2>2, <2>3
<1>6. ASSUME NEW p \in Proc, Delete(p) PROVE [Delivery!Next]_(Delivery!vars)
  <2>1. copies' \subseteq copies /\ UNCHANGED <<submitted, done, dlq>>
    BY <1>6 DEF Delete, Remove, DeleteIgnored, history
  <2>2. QED
    BY <2>1, QueueMove
<1>7. ASSUME UNCHANGED <<copies, submitted, done, dlq>>
      PROVE  UNCHANGED Delivery!vars
  BY <1>7 DEF Delivery!vars
<1>8. QED
  BY <1>1, <1>2, <1>4, <1>5, <1>6, <1>7
     DEF Next, Step, PollNothing, Receive, NextMessage, StopLoop, Expire, Cancel, Crash,
         Restart, queues, history, vars

\* The SQS loops implement at-least-once delivery with a dead-letter queue, for every
\* number of messages, workers and ids and whatever fails.
THEOREM SqsImplementsDelivery == Spec => ImplementsDelivery
<1>1. Init => Delivery!Init
  BY DEF Init, Delivery!Init
<1>2. QED
  BY <1>1, InvInit, InvStep, ProvenanceStep, DeliveryStep, PTL
     DEF Spec, ImplementsDelivery, Delivery!Spec

--------------------------------------------------------------------------------
(* Conservation.  Until the first failure no copy is processed twice: what a  *)
(* loop holds is stored, hidden, and held by no other loop, so a message has  *)
(* one place at a time.  DlqJustified and NoMessageLost hold with failures;   *)
(* this one is about what a failure-free run never does.                      *)

AllRun     == /\ \A w \in Worker : live[w]
              /\ \A p \in Proc : pc[p] # "stopped"
HeldStored == \A p \in Proc : batch[p] \subseteq copies /\ Held(p) \subseteq hidden
HeldOnce   == \A p, q \in Proc : p # q => Held(p) \cap Held(q) = {}

OnePlace ==
  /\ \A c, d \in copies : c.msg = d.msg /\ ~Doomed(c) /\ ~Doomed(d) => c = d
  /\ \A c \in copies : c.msg \in settled => Doomed(c)
  /\ done \cap dlq = {}

Orderly == AllRun /\ HeldStored /\ HeldOnce /\ OnePlace

\* The copy a loop works on and has not routed is nobody's to delete.
LEMMA WorkedOnKept ==
  ASSUME IInv, Orderly, NEW p \in Proc, pc[p] # "delete", NEW c \in batch[p]
  PROVE  c \in copies /\ ~Doomed(c) /\ c.msg \notin settled
<1>1. c \in copies /\ c.id \in Held(p)
  BY DEF Orderly, HeldStored, Held
<1>2. ~Doomed(c)
  BY <1>1 DEF Doomed, IInv, DeletingHeld, Orderly, HeldOnce
<1>3. QED
  BY <1>1, <1>2 DEF Orderly, OnePlace

\* A loop that has its copy's message settled, or stored again, and turns to deleting
\* the copy keeps the message in one place.
LEMMA PlaceMoves ==
  ASSUME IInv, Orderly, NEW p \in Proc, pc[p] # "delete", NEW c \in batch[p],
         pc' = [pc EXCEPT ![p] = "delete"], cur' = [cur EXCEPT ![p] = c.id],
         batch' = batch, live' = live, hidden \subseteq hidden',
         \/ /\ copies' = copies
            /\ \/ done' = done \cup {c.msg} /\ dlq' = dlq
               \/ dlq' = dlq \cup {c.msg} /\ done' = done
         \/ /\ done' = done /\ dlq' = dlq
            /\ \E f : f.id \in FreeIds /\ f.msg = c.msg /\ copies' = copies \cup {f}
  PROVE  Orderly'
<1>1. c \in copies /\ ~Doomed(c) /\ c.msg \notin settled
  BY WorkedOnKept
<1>2. \A q \in Proc : /\ pc'[q] = IF q = p THEN "delete" ELSE pc[q]
                      /\ cur'[q] = IF q = p THEN c.id ELSE cur[q]
  BY DEF IInv, TypeOK
<1>3. \A d : Doomed(d)' <=> Doomed(d) \/ d.id = c.id
  BY <1>2 DEF Doomed
<1>4. AllRun' /\ HeldStored' /\ HeldOnce'
  BY <1>2 DEF Orderly, AllRun, HeldStored, HeldOnce, Held
<1>5. CASE /\ copies' = copies
           /\ \/ done' = done \cup {c.msg} /\ dlq' = dlq
              \/ dlq' = dlq \cup {c.msg} /\ done' = done
  <2>1. settled' = settled \cup {c.msg} /\ done' \cap dlq' = {}
    BY <1>1, <1>5 DEF settled, Orderly, OnePlace
  <2>2. OnePlace'
    BY <1>1, <1>3, <1>5, <2>1 DEF Orderly, OnePlace
  <2>3. QED
    BY <1>4, <2>2 DEF Orderly
<1>6. CASE /\ done' = done /\ dlq' = dlq
           /\ \E f : f.id \in FreeIds /\ f.msg = c.msg /\ copies' = copies \cup {f}
  <2>1. PICK f : f.id \in FreeIds /\ f.msg = c.msg /\ copies' = copies \cup {f}
    BY <1>6
  <2>2. f.id # c.id /\ ~Doomed(f)
    BY <1>1, <2>1 DEF FreeIds, HeldIds, Doomed, IInv, DeletingHeld
  <2>3. ~Doomed(f)'
    BY <1>3, <2>2
  <2>4. \A d \in copies : d.msg = c.msg => Doomed(d)'
    BY <1>1, <1>3 DEF Orderly, OnePlace
  <2>5. settled' = settled
    BY <1>6 DEF settled
  <2>6. OnePlace'
    BY <1>1, <1>3, <1>6, <2>1, <2>3, <2>4, <2>5 DEF Orderly, OnePlace
  <2>7. QED
    BY <1>4, <2>6 DEF Orderly
<1>7. QED
  BY <1>5, <1>6

\* So does a loop that lets go of a copy it has not routed, or does nothing to it.
LEMMA PlaceStays ==
  ASSUME IInv, Orderly, UNCHANGED <<copies, hidden, done, dlq, live>>,
         \A q \in Proc : batch'[q] \subseteq batch[q] /\ pc'[q] # "stopped",
         \A q \in Proc : pc[q] = "delete" <=> pc'[q] = "delete",
         \A q \in Proc : pc[q] = "delete" => cur'[q] = cur[q]
  PROVE  Orderly'
<1>1. \A d : Doomed(d)' <=> Doomed(d)
  BY DEF Doomed
<1>2. AllRun' /\ HeldStored' /\ HeldOnce'
  BY DEF Orderly, AllRun, HeldStored, HeldOnce, Held
<1>3. OnePlace'
  BY <1>1 DEF Orderly, OnePlace, settled
<1>4. QED
  BY <1>2, <1>3 DEF Orderly

\* What is not counted as a fault has not failed.
LEMMA NoSpend ==
  ASSUME TypeOK, faults' = 0, NEW kind
  PROVE  ~Spend(kind)
  BY DEF Spend, TypeOK
\* Every step that is no failure keeps every message in one place.
LEMMA OrderlyStep ==
  IInv /\ Provenance /\ Orderly /\ faults' = 0 /\ [Next]_vars => Orderly'
<1> SUFFICES ASSUME IInv, Provenance, Orderly, faults' = 0, [Next]_vars PROVE Orderly'
  OBVIOUS
<1>t. /\ TypeOK /\ \A p \in Proc : batch[p] \subseteq Copy
      /\ \A c \in Copy : c.msg \in Msg /\ c.id \in Id
  BY DEF IInv, TypeOK, Copy
<1>p. \A p \in Proc : p[1] \in Worker /\ p[2] \in Loop /\ live[p[1]]
  BY DEF Proc, Orderly, AllRun
<1>d. \A r, q : DestQueue(r) \in Loop \cup {"dlq"} /\ ForwardQueue(q) \in Loop \cup {"dlq"}
  BY DEF DestQueue, ForwardQueue, Loop
<1>f. \A kind : ~Spend(kind)
  BY <1>t, NoSpend
<1>1. ASSUME NEW m \in Msg, Submit(m) PROVE Orderly'
  <2> DEFINE h == [msg |-> m, rc |-> 0, reason |-> FALSE]
  <2>1. h \in Headers /\ h.msg = m /\ "main" \in Loop \cup {"dlq"} /\ Send(h, "main")
    BY <1>1 DEF Headers, Loop, Submit, PublishOk
  <2> HIDE DEF h
  <2>2. PICK i \in FreeIds :
          copies' = copies \cup {[id |-> i, queue |-> "main", msg |-> h.msg, rc |-> h.rc]}
    BY <1>t, <2>1, SendEffect
  <2> DEFINE f == [id |-> i, queue |-> "main", msg |-> h.msg, rc |-> h.rc]
  <2>3. copies' = copies \cup {f} /\ f.msg = m
    BY <2>1, <2>2
  <2> HIDE DEF f
  <2>4. UNCHANGED <<hidden, dlq, live, pc, batch, cur, done>>
    BY <1>1 DEF Submit, PublishOk, Send, loops
  <2>5. m \notin submitted /\ m \notin settled /\ \A c \in copies : c.msg # m
    BY <1>1 DEF Submit, Provenance, Earned, settled
  <2>6. settled' = settled /\ \A d : Doomed(d)' <=> Doomed(d)
    BY <2>4 DEF settled, Doomed
  <2>7. OnePlace'
    BY <2>3, <2>4, <2>5, <2>6 DEF Orderly, OnePlace
  <2>8. AllRun' /\ HeldStored' /\ HeldOnce'
    BY <2>3, <2>4 DEF Orderly, AllRun, HeldStored, HeldOnce, Held
  <2>9. QED
    BY <2>7, <2>8 DEF Orderly
<1>2. ASSUME NEW i \in Id, Expire(i) PROVE Orderly'
  <2>1. i \notin HeldIds /\ hidden' = hidden \ {i}
    BY <1>2, <1>f DEF Expire
  <2>2. UNCHANGED <<copies, dlq, live, pc, batch, cur, done>>
    BY <1>2 DEF Expire, loops, history
  <2>3. AllRun' /\ HeldStored' /\ HeldOnce'
    <3>1. \A q \in Proc : Held(q)' = Held(q) /\ i \notin Held(q)
      BY <2>1, <2>2 DEF Held, HeldIds
    <3>2. QED
      BY <2>1, <2>2, <3>1 DEF Orderly, AllRun, HeldStored, HeldOnce
  <2>4. OnePlace'
    BY <2>2 DEF Orderly, OnePlace, Doomed, settled
  <2>5. QED
    BY <2>3, <2>4 DEF Orderly
<1>3. ASSUME NEW p \in Proc, Receive(p) PROVE Orderly'
  <2>1. PICK B \in SUBSET Visible(p[2]) : /\ batch' = [batch EXCEPT ![p] = B]
                                          /\ hidden' = hidden \cup {c.id : c \in B}
    BY <1>3 DEF Receive
  <2>2. /\ pc[p] = "poll" /\ pc' = [pc EXCEPT ![p] = "handle"]
        /\ UNCHANGED <<copies, dlq, live, cur, done>>
    BY <1>3 DEF Receive, history
  <2>3. \A q \in Proc : /\ batch'[q] = IF q = p THEN B ELSE batch[q]
                        /\ pc'[q] = IF q = p THEN "handle" ELSE pc[q]
    BY <1>t, <2>1, <2>2 DEF TypeOK
  <2>4. B \subseteq copies /\ \A c \in B : c.id \notin hidden
    BY DEF Visible
  <2>5. AllRun' /\ HeldStored'
    BY <2>1, <2>2, <2>3, <2>4 DEF Orderly, AllRun, HeldStored, Held
  <2>6. \A q \in Proc : Held(q) \subseteq hidden
    BY DEF Orderly, HeldStored
  <2>7. \A q \in Proc : Held(q)' = IF q = p THEN {c.id : c \in B} ELSE Held(q)
    BY <2>3 DEF Held
  <2>8. HeldOnce'
    BY <2>4, <2>6, <2>7 DEF Orderly, HeldOnce
  <2>9. \A d : Doomed(d)' <=> Doomed(d)
    BY <2>2, <2>3 DEF Doomed
  <2>10. OnePlace'
    BY <2>2, <2>9 DEF Orderly, OnePlace, settled
  <2>11. QED
    BY <2>5, <2>8, <2>10 DEF Orderly
<1>4. ASSUME NEW p \in Proc, NextMessage(p) PROVE Orderly'
  <2>1. /\ pc[p] = "check" /\ \E x \in {"poll", "handle"} : pc' = [pc EXCEPT ![p] = x]
        /\ UNCHANGED <<copies, hidden, done, dlq, live, batch, cur>>
    BY <1>4 DEF NextMessage, queues, history
  <2>2. QED
    BY <1>t, <2>1, PlaceStays DEF TypeOK, Orderly, AllRun
<1>5. ASSUME NEW p \in Proc, NEW c \in batch[p], Finish(p, c), pc[p] # "delete",
             UNCHANGED <<copies, hidden, done, dlq, live>>
      PROVE  Orderly'
  <2>1. \A q \in Proc : /\ pc'[q] = IF q = p THEN "check" ELSE pc[q]
                        /\ batch'[q] = IF q = p THEN batch[p] \ {c} ELSE batch[q]
                        /\ cur'[q] = IF q = p THEN NoId ELSE cur[q]
    BY <1>t, <1>5 DEF Finish, TypeOK
  <2>2. QED
    BY <1>5, <2>1, PlaceStays DEF Orderly, AllRun
<1>6. ASSUME NEW p \in Proc, Handle(p) PROVE Orderly'
  <2>1. PICK c \in batch[p] : \E o \in Answers(p, c.msg) : HandleAs(p, c, o)
    BY <1>6 DEF Handle
  <2>2. PICK o \in Answers(p, c.msg) : HandleAs(p, c, o)
    BY <2>1
  <2> DEFINE r == SqsDecideRoute(o, c.rc, MaxRetries)
  <2>3. c.msg \in Msg /\ o \in Outcome
    BY <1>t, SqsAssumption DEF Answers, Outcome
  <2>4. r = "Commit" <=> o = "ok"
    BY <2>3 DEF SqsDecideRoute, Outcome
  <2>5. /\ pc[p] = "handle" /\ UNCHANGED <<copies, hidden, dlq, live>>
        /\ done' = IF o = "ok" THEN done \cup {c.msg} ELSE done
    BY <2>2 DEF HandleAs, queues, NoteOutcome
  <2>6. CASE Finish(p, c) /\ r = "Drop"
    BY <1>5, <2>4, <2>5, <2>6
  <2>7. CASE /\ pc' = [pc EXCEPT ![p] = IF r = "Commit" THEN "delete" ELSE "publish"]
             /\ cur' = [cur EXCEPT ![p] = c.id]
             /\ batch' = batch
    <3> HIDE DEF r
    <3>1. CASE r = "Commit"
      BY <2>4, <2>5, <2>7, <3>1, PlaceMoves
    <3>2. CASE r # "Commit"
      <4>1. \A q \in Proc : /\ pc'[q] = IF q = p THEN "publish" ELSE pc[q]
                            /\ cur'[q] = IF q = p THEN c.id ELSE cur[q]
        BY <1>t, <2>7, <3>2 DEF TypeOK
      <4>2. QED
        BY <2>4, <2>5, <2>7, <3>2, <4>1, PlaceStays DEF Orderly, AllRun
    <3>3. QED
      BY <3>1, <3>2
  <2>8. QED
    BY <2>2, <2>6, <2>7 DEF HandleAs
<1>7. ASSUME NEW p \in Proc, NEW c \in batch[p], pc[p] # "delete",
             NEW h \in Headers, h.msg = c.msg, NEW q \in Loop \cup {"dlq"}, Send(h, q),
             pc' = [pc EXCEPT ![p] = "delete"], cur' = [cur EXCEPT ![p] = c.id],
             UNCHANGED <<batch, live, done>>
      PROVE  Orderly'
  <2>1. CASE q = "dlq"
    <3>1. copies' = copies /\ dlq' = dlq \cup {c.msg} /\ hidden' = hidden
      BY <1>7, <2>1 DEF Send
    <3>2. QED
      BY <1>7, <3>1, PlaceMoves
  <2>2. CASE q # "dlq"
    <3>1. dlq' = dlq /\ hidden \subseteq hidden'
      BY <1>7, <2>2 DEF Send
    <3>2. PICK i \in FreeIds :
            copies' = copies \cup {[id |-> i, queue |-> q, msg |-> h.msg, rc |-> h.rc]}
      BY <1>7, <1>t, <2>2, SendEffect
    <3>3. \E f : f.id \in FreeIds /\ f.msg = c.msg /\ copies' = copies \cup {f}
      <4> DEFINE f == [id |-> i, queue |-> q, msg |-> h.msg, rc |-> h.rc]
      <4>1. f.id \in FreeIds /\ f.msg = c.msg /\ copies' = copies \cup {f}
        BY <1>7, <3>2
      <4>2. QED
        BY <4>1
    <3>4. QED
      BY <1>7, <3>1, <3>3, PlaceMoves
  <2>3. QED
    BY <2>1, <2>2
<1>8. ASSUME NEW p \in Proc, RepublishOk(p) PROVE Orderly'
  <2>1. PICK c \in batch[p] : /\ c.id = cur[p]
                              /\ Send(RepublishHeaders(c, route[p]), DestQueue(route[p]))
    BY <1>8 DEF RepublishOk, PublishOk
  <2>2. /\ pc[p] = "publish" /\ pc' = [pc EXCEPT ![p] = "delete"]
        /\ UNCHANGED <<batch, cur, live, done>>
    BY <1>8 DEF RepublishOk, history
  <2>3. cur' = [cur EXCEPT ![p] = c.id]
    BY <1>t, <2>1, <2>2 DEF TypeOK
  <2>4. RepublishHeaders(c, route[p]) \in Headers /\ RepublishHeaders(c, route[p]).msg = c.msg
    BY <1>t, HeadersType
  <2>5. QED
    BY <1>7, <1>d, <2>1, <2>2, <2>3, <2>4
<1>9. ASSUME NEW p \in Proc, RepublishFails(p) PROVE Orderly'
  <2>1. PICK c \in batch[p] :
          /\ PublishError(p[1], RepublishHeaders(c, route[p]), DestQueue(route[p]))
          /\ LeaveForRedrive(p, c) \/ UNCHANGED <<pc, batch, cur, route>>
    BY <1>9 DEF RepublishFails
  <2>2. pc[p] = "publish" /\ UNCHANGED <<copies, hidden, dlq, live, done>>
    BY <1>9, <1>f, <2>1 DEF RepublishFails, PublishError, queues, history
  <2>3. CASE LeaveForRedrive(p, c)
    BY <1>5, <2>2, <2>3 DEF LeaveForRedrive
  <2>4. CASE UNCHANGED <<pc, batch, cur, route>>
    BY <2>2, <2>4, PlaceStays DEF Orderly, AllRun
  <2>5. QED
    BY <2>1, <2>3, <2>4
<1>10. ASSUME NEW p \in Proc, ForwardOk(p) PROVE Orderly'
  <2>1. PICK c \in batch[p] : /\ Send(ForwardHeaders(c), ForwardQueue(p[2]))
                              /\ cur' = [cur EXCEPT ![p] = c.id]
    BY <1>10 DEF ForwardOk, PublishOk
  <2>2. /\ pc[p] = "handle" /\ pc' = [pc EXCEPT ![p] = "delete"]
        /\ UNCHANGED <<batch, live, done>>
    BY <1>10 DEF ForwardOk
  <2>3. ForwardHeaders(c) \in Headers /\ ForwardHeaders(c).msg = c.msg
    BY <1>t, HeadersType
  <2>4. QED
    BY <1>7, <1>d, <2>1, <2>2, <2>3
<1>11. ASSUME NEW p \in Proc, ForwardFails(p) PROVE Orderly'
  <2>1. PICK c \in batch[p] : /\ PublishError(p[1], ForwardHeaders(c), ForwardQueue(p[2]))
                              /\ LeaveForRedrive(p, c)
    BY <1>11 DEF ForwardFails
  <2>2. pc[p] = "handle" /\ UNCHANGED <<copies, hidden, dlq, live, done>>
    BY <1>11, <1>f, <2>1 DEF ForwardFails, PublishError, queues
  <2>3. QED
    BY <1>5, <2>1, <2>2 DEF LeaveForRedrive
<1>12. ASSUME NEW p \in Proc, Delete(p) PROVE Orderly'
  <2>1. PICK c \in batch[p] : /\ c.id = cur[p]
                              /\ Remove(c) \/ DeleteIgnored(p, c)
                              /\ Finish(p, c)
    BY <1>12 DEF Delete
  <2>2. ~DeleteIgnored(p, c)
    BY <1>f, <1>p DEF DeleteIgnored, Held, Orderly, HeldOnce
  <2>3. copies' = {d \in copies : d.id # c.id} /\ hidden' = hidden \ {c.id}
    BY <2>1, <2>2 DEF Remove
  <2>4. pc[p] = "delete" /\ UNCHANGED <<dlq, live, done>>
    BY <1>12 DEF Delete, history
  <2>5. \A q \in Proc : /\ pc'[q] = IF q = p THEN "check" ELSE pc[q]
                        /\ batch'[q] = IF q = p THEN batch[p] \ {c} ELSE batch[q]
                        /\ cur'[q] = IF q = p THEN NoId ELSE cur[q]
    BY <1>t, <2>1 DEF Finish, TypeOK
  <2>6. \A q \in Proc : \A d \in batch'[q] : d \in batch[q] /\ d.id # c.id
    BY <2>5 DEF Provenance, BatchIdsUnique, Orderly, HeldOnce, Held
  <2>7. AllRun' /\ HeldStored' /\ HeldOnce'
    <3>1. AllRun'
      BY <2>4, <2>5 DEF Orderly, AllRun
    <3>2. HeldStored'
      BY <2>3, <2>6 DEF Orderly, HeldStored, Held
    <3>3. \A q \in Proc : Held(q)' \subseteq Held(q)
      BY <2>6 DEF Held
    <3>4. HeldOnce'
      BY <3>3 DEF Orderly, HeldOnce
    <3>5. QED
      BY <3>1, <3>2, <3>4
  <2>8. \A d \in copies' : d \in copies /\ (Doomed(d)' <=> Doomed(d))
    BY <2>1, <2>3, <2>4, <2>5 DEF Doomed
  <2>9. OnePlace'
    BY <2>4, <2>8 DEF Orderly, OnePlace, settled
  <2>10. QED
    BY <2>7, <2>9 DEF Orderly
<1>13. ASSUME NEW p \in Proc, StopLoop(p) PROVE FALSE
  BY <1>13, <1>p DEF StopLoop
<1>14. ASSUME NEW w \in Worker, Cancel(w) \/ Crash(w) PROVE FALSE
  BY <1>14, <1>f DEF Cancel, Crash
<1>15. ASSUME NEW w \in Worker, Restart(w) PROVE FALSE
  <2>1. <<w, "main">> \in ProcsOf(w) /\ <<w, "main">> \in Proc
    BY DEF ProcsOf, Proc, Loop
  <2>2. QED
    BY <1>15, <2>1 DEF Restart, Orderly, AllRun
<1>16. ASSUME UNCHANGED vars PROVE Orderly'
  BY <1>16 DEF vars, Orderly, AllRun, HeldStored, HeldOnce, Held, OnePlace, Doomed, settled
<1>17. QED
  BY <1>1, <1>2, <1>3, <1>4, <1>6, <1>8, <1>9, <1>10, <1>11, <1>12, <1>13, <1>14, <1>15,
     <1>16 DEF Next, Step, PollNothing

\* Faults are only ever counted up.
LEMMA FaultsCounted == TypeOK /\ [Next]_vars /\ faults' = 0 => faults = 0
<1> SUFFICES ASSUME TypeOK, [Next]_vars, faults' = 0 PROVE faults = 0
  OBVIOUS
<1>1. \A kind : ~Spend(kind)
  BY NoSpend
<1>2. QED
  BY <1>1, ZenonT(60)
  DEF Next, Step, Submit, PublishOk, Expire, Receive, PollNothing, NextMessage, StopLoop,
     Handle, HandleAs, RepublishOk, RepublishFails, PublishError, ForwardOk, ForwardFails,
     Delete, DeleteIgnored, Cancel, Crash, Restart, vars

\* A message with one place is counted once.
LEMMA CountedOnce == NoMessageLost /\ Orderly => MessageConserved
<1> SUFFICES ASSUME NoMessageLost, Orderly, NEW m \in submitted
             PROVE  LET kept == {c \in copies : c.msg = m /\ ~Doomed(c)}
                    IN  Cardinality(kept) + (IF m \in done THEN 1 ELSE 0)
                                          + (IF m \in dlq THEN 1 ELSE 0) = 1
  BY DEF MessageConserved
<1> DEFINE kept == {c \in copies : c.msg = m /\ ~Doomed(c)}
<1>1. CASE m \in settled
  <2>1. kept = {}
    BY <1>1 DEF Orderly, OnePlace
  <2>2. (m \in done /\ m \notin dlq) \/ (m \notin done /\ m \in dlq)
    BY <1>1 DEF settled, Orderly, OnePlace
  <2>3. Cardinality(kept) = 0
    BY <2>1, FS_EmptySet
  <2>4. QED
    BY <2>2, <2>3
<1>2. CASE m \notin settled
  <2>1. PICK c \in copies : c.msg = m /\ ~Doomed(c)
    BY <1>2 DEF NoMessageLost
  <2>2. kept = {c}
    BY <2>1 DEF Orderly, OnePlace
  <2>3. Cardinality(kept) = 1
    BY <2>2, FS_Singleton
  <2>4. QED
    BY <1>2, <2>3 DEF settled
<1>3. QED
  BY <1>1, <1>2

\* Until the first failure every message is in exactly one place, whatever the
\* interleaving of the loops: it is one copy out of reach of every deletion, or handled,
\* or dead-lettered, and never two of these.
THEOREM MessagesConserved == Spec => []MessageConserved
<1> DEFINE J == faults = 0 => Orderly
<1>1. Init => J
  BY DEF Init, Orderly, AllRun, HeldStored, HeldOnce, Held, OnePlace
<1>2. IInv /\ Provenance /\ J /\ [Next]_vars => J'
  BY OrderlyStep, FaultsCounted DEF IInv
<1>3. IInv /\ J => MessageConserved
  BY CountedOnce DEF IInv, MessageConserved
<1> HIDE DEF J
<1>4. QED
  BY <1>1, <1>2, <1>3, InvInit, InvStep, ProvenanceStep, PTL DEF Spec


--------------------------------------------------------------------------------
(* The budget.  The count a copy carries is the number of failures of its     *)
(* message, as long as every copy is republished: one behind only between a   *)
(* failure and the republish.  The count of a republished copy is always one, *)
(* so that this is true of a budget of one retry, and of no larger one (see   *)
(* the run SqsRetryBudget); and of attributes that leave room for the count.  *)

Affordable == /\ ConfiguredRetries = 1
              /\ "sendFails" \notin Faults
              /\ \A m \in Msg : Custom[m] < MaxCustomAttributes

Publishing(p, c) == pc[p] = "publish" /\ c \in batch[p] /\ c.id = cur[p]

Tally ==
  /\ \A m \in Msg : fails[m] <= 2 /\ (m \notin submitted => fails[m] = 0)
  /\ \A c \in copies : c.rc <= 1
  /\ \A c \in copies : Doomed(c) \/ fails[c.msg] <= c.rc \/ \E p \in Proc : Publishing(p, c)
  /\ \A p \in Proc : \A c \in batch[p] :
       Publishing(p, c) /\ route[p] # "DLQ" => fails[c.msg] <= 1

\* A loop that settles its copy's message, or stores it with a count that covers its failures,
\* and turns to deleting the copy.
LEMMA TallyMoves ==
  ASSUME IInv, Tally, NEW p \in Proc, pc[p] # "delete", NEW c \in batch[p],
         pc[p] = "publish" => cur[p] = c.id,
         pc' = [pc EXCEPT ![p] = "delete"], cur' = [cur EXCEPT ![p] = c.id],
         UNCHANGED <<batch, route, fails, submitted>>,
         \/ copies' = copies
         \/ \E f : f.msg = c.msg /\ f.rc <= 1 /\ fails[c.msg] <= f.rc /\ copies' = copies \cup {f}
  PROVE  Tally'
<1>1. \A q \in Proc : /\ pc'[q] = IF q = p THEN "delete" ELSE pc[q]
                      /\ cur'[q] = IF q = p THEN c.id ELSE cur[q]
  BY DEF IInv, TypeOK
<1>2. \A d : Doomed(d)' <=> Doomed(d) \/ d.id = c.id
  BY <1>1 DEF Doomed
<1>3. \A q \in Proc : \A d : Publishing(q, d) => Publishing(q, d)' \/ d.id = c.id
  BY <1>1 DEF Publishing
<1>4. \A q \in Proc : \A d : Publishing(q, d)' => Publishing(q, d)
  BY <1>1 DEF Publishing
<1>5. ASSUME NEW d \in copies PROVE (Doomed(d) \/ fails[d.msg] <= d.rc \/ \E q \in Proc : Publishing(q, d))'
  BY <1>2, <1>3 DEF Tally
<1>6. QED
  BY <1>4, <1>5 DEF Tally

\* A step that counts no failure, stores nothing and neither begins nor ends a republish.
LEMMA TallyStays ==
  ASSUME Tally, UNCHANGED <<fails, submitted>>, copies' \subseteq copies,
         \A d \in copies' : Doomed(d) => Doomed(d)',
         \A q \in Proc : \A d : Publishing(q, d)' <=> Publishing(q, d),
         \A q \in Proc : pc[q] = "publish" => route'[q] = route[q]
  PROVE  Tally'
<1>1. \A q \in Proc : \A d \in batch'[q] :
        Publishing(q, d)' => d \in batch[q] /\ route'[q] = route[q]
  BY DEF Publishing
<1>2. QED
  BY <1>1 DEF Tally

\* A publish is accepted and answered when nothing fails.
LEMMA Accepted ==
  ASSUME Affordable, TypeOK, faults' = 0, NEW w \in Worker, live[w], NEW h \in Headers,
         h.rc = 0 \/ h.reason = FALSE, NEW q
  PROVE  ~PublishError(w, h, q)
<1>1. Custom[h.msg] \in Nat /\ Custom[h.msg] < MaxCustomAttributes /\ h.rc \in Nat
  BY SqsAssumption DEF Affordable, Headers
<1>2. ExtraAttributes(h) <= Custom[h.msg] + 1
  BY <1>1 DEF ExtraAttributes
<1>3. ExtraAttributes(h) \in Nat
  BY <1>1 DEF ExtraAttributes
<1>4. PublishAccepts(h)
  BY <1>1, <1>2, <1>3 DEF PublishAccepts, MaxCustomAttributes, MaxAttributes, ReservedAttributes
<1>5. ~Spend("ackLost")
  BY NoSpend
<1>6. QED
  BY <1>4, <1>5 DEF PublishError, Affordable

\* What the handler's answer about a copy adds to the tally.
LEMMA TallyHandled ==
  ASSUME Affordable, IInv, Provenance, Orderly, Tally, NEW p \in Proc, pc[p] = "handle",
         NEW c \in batch[p], NEW o \in Outcome, HandleAs(p, c, o)
  PROVE  Tally'
<1> DEFINE r == SqsDecideRoute(o, c.rc, MaxRetries)
<1>t. TypeOK /\ batch[p] \subseteq Copy /\ c \in Copy /\ c.msg \in Msg /\ c.rc \in Nat
  BY DEF IInv, TypeOK, Copy
<1>m. MaxRetries = 1 /\ FailCap = 3
  BY DEF MaxRetries, EffectiveMaxRetries, Affordable, FailCap
<1>1. c \in copies /\ ~Doomed(c) /\ c.msg \notin settled
  BY WorkedOnKept
<1>2. \A q \in Proc : ~Publishing(q, c)
  BY DEF Publishing, Orderly, HeldOnce, Held
<1>3. fails[c.msg] <= c.rc /\ c.rc <= 1
  BY <1>1, <1>2 DEF Tally
<1>4. \A d \in copies : d.msg = c.msg /\ d # c => Doomed(d)
  BY <1>1 DEF Orderly, OnePlace
<1>5. c.msg \in submitted
  BY <1>1 DEF Provenance, Earned
<1>6. UNCHANGED <<copies, submitted>>
  BY DEF HandleAs, queues
<1>7. /\ \A m \in Msg : m # c.msg => fails'[m] = fails[m]
      /\ fails[c.msg] \in Nat /\ fails'[c.msg] \in Nat
      /\ fails'[c.msg] <= fails[c.msg] + 1
      /\ o # "transient" => fails'[c.msg] = fails[c.msg]
  <2>1. fails \in [Msg -> 0 .. 3]
    BY <1>t, <1>m DEF TypeOK
  <2>2. fails' = IF o = "transient" /\ fails[c.msg] < 3 THEN [fails EXCEPT ![c.msg] = @ + 1] ELSE fails
    BY <1>m DEF HandleAs, NoteOutcome
  <2>3. QED
    BY <1>t, <2>1, <2>2
<1>8. CASE Finish(p, c) /\ r = "Drop"
  <2>1. o # "transient"
    BY <1>8 DEF SqsDecideRoute
  <2>2. \A q \in Proc : /\ pc'[q] = IF q = p THEN "check" ELSE pc[q]
                        /\ batch'[q] = IF q = p THEN batch[p] \ {c} ELSE batch[q]
                        /\ cur'[q] = IF q = p THEN NoId ELSE cur[q]
                        /\ q # p => route'[q] = route[q]
    BY <1>t, <1>8 DEF Finish, TypeOK
  <2>3. \A d : Doomed(d) => Doomed(d)'
    BY <2>2 DEF Doomed
  <2>4. \A q \in Proc : \A d : Publishing(q, d)' <=> Publishing(q, d)
    BY <2>2 DEF Publishing
  <2>5. \A q \in Proc : \A d : Publishing(q, d)' => d \in batch[q] /\ q # p /\ d.msg \in Msg
    BY <1>t, <2>2 DEF Publishing, TypeOK, Copy
  <2>6. \A m \in Msg : fails'[m] = fails[m]
    BY <1>7, <2>1
  <2>7. \A d \in copies : d.msg \in Msg
    BY <1>t DEF TypeOK, Copy
  <2>8. QED
    BY <1>6, <2>2, <2>3, <2>4, <2>5, <2>6, <2>7 DEF Tally
<1>9. CASE /\ r # "Drop"
           /\ pc' = [pc EXCEPT ![p] = IF r = "Commit" THEN "delete" ELSE "publish"]
           /\ cur' = [cur EXCEPT ![p] = c.id]
           /\ route' = [route EXCEPT ![p] = r]
           /\ batch' = batch
  <2>1. \A q \in Proc : /\ pc'[q] = IF q = p THEN (IF r = "Commit" THEN "delete" ELSE "publish") ELSE pc[q]
                        /\ cur'[q] = IF q = p THEN c.id ELSE cur[q]
                        /\ route'[q] = IF q = p THEN r ELSE route[q]
    <3> HIDE DEF r
    <3> QED
      BY <1>t, <1>9 DEF TypeOK
  <2>2. \A d : Doomed(d) => Doomed(d)'
    BY <2>1 DEF Doomed
  <2>3. \A q \in Proc : \A d : Publishing(q, d) => Publishing(q, d)'
    BY <1>9, <2>1 DEF Publishing
  <2>4. Doomed(c)' \/ Publishing(p, c)'
    BY <1>9, <2>1 DEF Publishing, Doomed
  <2>5. ASSUME NEW d \in copies
        PROVE  (Doomed(d) \/ fails[d.msg] <= d.rc \/ \E q \in Proc : Publishing(q, d))'
    <3>1. CASE d.msg = c.msg
      BY <1>4, <2>2, <2>4, <3>1
    <3>2. CASE d.msg # c.msg
      <4>1. d.msg \in Msg /\ fails'[d.msg] = fails[d.msg]
        BY <1>t, <1>7, <3>2 DEF TypeOK, Copy
      <4>2. QED
        BY <2>2, <2>3, <4>1 DEF Tally
    <3>3. QED
      BY <3>1, <3>2
  <2>6. r # "DLQ" /\ r # "Commit" => c.rc = 0
    BY <1>m, <1>t, <1>9 DEF SqsDecideRoute
  <2>7. ASSUME NEW q \in Proc, NEW d \in batch'[q], Publishing(q, d)', route'[q] # "DLQ"
        PROVE  fails'[d.msg] <= 1
    <3>1. CASE q = p
      <4>1. d \in batch[p] /\ d.id = c.id
        BY <1>9, <2>1, <2>7, <3>1 DEF Publishing
      <4>2. d = c
        BY <4>1 DEF Provenance, BatchIdsUnique
      <4>3. r # "DLQ" /\ r # "Commit"
        <5> HIDE DEF r
        <5> QED
          BY <2>1, <2>7, <3>1 DEF Publishing
      <4>4. c.rc = 0
        BY <2>6, <4>3
      <4>5. QED
        BY <1>3, <1>7, <1>t, <4>2, <4>4
    <3>2. CASE q # p
      <4>1. Publishing(q, d) /\ route[q] # "DLQ" /\ d \in batch[q]
        BY <1>9, <2>1, <2>7, <3>2 DEF Publishing
      <4>2. fails[d.msg] <= 1
        BY <4>1 DEF Tally
      <4>3. d \in copies /\ ~Doomed(d) /\ d.id # c.id
        <5>1. pc[q] # "delete"
          BY <4>1 DEF Publishing
        <5>2. QED
          BY <3>2, <4>1, <5>1, WorkedOnKept DEF Orderly, HeldOnce, Held
      <4>4. d.msg # c.msg
        BY <1>4, <4>3
      <4>5. QED
        BY <1>t, <1>7, <4>2, <4>3, <4>4 DEF TypeOK, Copy
    <3>3. QED
      BY <3>1, <3>2
  <2>8. ASSUME NEW m \in Msg PROVE fails'[m] <= 2 /\ (m \notin submitted => fails'[m] = 0)
    <3>1. fails'[c.msg] <= 2
      BY <1>3, <1>7, <1>t
    <3>2. QED
      BY <1>5, <1>7, <3>1 DEF Tally
  <2>9. QED
    BY <1>6, <2>5, <2>7, <2>8 DEF Tally
<1>10. QED
  BY <1>8, <1>9 DEF HandleAs

\* Every step that is no failure keeps the tally.
LEMMA TallyStep ==
  ASSUME Affordable, IInv, Provenance, Orderly, Tally, faults' = 0, [Next]_vars
  PROVE  Tally'
<1>t. /\ TypeOK /\ \A p \in Proc : batch[p] \subseteq Copy
      /\ \A c \in Copy : c.msg \in Msg /\ c.rc \in Nat
  BY DEF IInv, TypeOK, Copy
<1>p. \A p \in Proc : p[1] \in Worker /\ p[2] \in Loop /\ live[p[1]]
  BY DEF Proc, Orderly, AllRun
<1>d. \A r, q : DestQueue(r) \in Loop \cup {"dlq"} /\ ForwardQueue(q) \in Loop \cup {"dlq"}
  BY DEF DestQueue, ForwardQueue, Loop
<1>f. \A kind : ~Spend(kind)
  BY <1>t, NoSpend
<1>1. ASSUME NEW m \in Msg, Submit(m) PROVE Tally'
  <2> DEFINE h == [msg |-> m, rc |-> 0, reason |-> FALSE]
  <2>1. /\ h \in Headers /\ h.msg = m /\ h.rc = 0
        /\ "main" \in Loop \cup {"dlq"} /\ Send(h, "main")
    BY <1>1 DEF Headers, Loop, Submit, PublishOk
  <2> HIDE DEF h
  <2>2. PICK i \in FreeIds :
          copies' = copies \cup {[id |-> i, queue |-> "main", msg |-> h.msg, rc |-> h.rc]}
    BY <1>t, <2>1, SendEffect
  <2> DEFINE f == [id |-> i, queue |-> "main", msg |-> h.msg, rc |-> h.rc]
  <2>3. copies' = copies \cup {f} /\ f.msg = m /\ f.rc = 0
    BY <2>1, <2>2
  <2> HIDE DEF f
  <2>4. /\ UNCHANGED <<pc, batch, cur, route, fails>>
        /\ m \notin submitted /\ submitted' = submitted \cup {m}
    BY <1>1 DEF Submit, loops
  <2>5. \A d : Doomed(d)' <=> Doomed(d)
    BY <2>4 DEF Doomed
  <2>6. \A q \in Proc : \A d : Publishing(q, d)' <=> Publishing(q, d)
    BY <2>4 DEF Publishing
  <2>7. fails[f.msg] <= f.rc /\ f.rc <= 1
    BY <2>3, <2>4 DEF Tally
  <2>8. QED
    BY <2>3, <2>4, <2>5, <2>6, <2>7 DEF Tally
<1>2. ASSUME NEW i \in Id, Expire(i) PROVE Tally'
  <2>1. UNCHANGED <<copies, pc, batch, cur, route, fails, submitted>>
    BY <1>2 DEF Expire, loops, history
  <2>2. QED
    BY <2>1, TallyStays DEF Doomed, Publishing
<1>3. ASSUME NEW p \in Proc, Receive(p) PROVE Tally'
  <2>1. PICK B : batch' = [batch EXCEPT ![p] = B]
    BY <1>3 DEF Receive
  <2>2. /\ pc[p] = "poll" /\ pc' = [pc EXCEPT ![p] = "handle"]
        /\ UNCHANGED <<copies, cur, route, fails, submitted>>
    BY <1>3 DEF Receive, history
  <2>3. \A q \in Proc : /\ q # p => batch'[q] = batch[q]
                        /\ pc'[q] = IF q = p THEN "handle" ELSE pc[q]
    BY <1>t, <2>1, <2>2 DEF TypeOK
  <2>4. \A d : Doomed(d)' <=> Doomed(d)
    BY <2>2, <2>3 DEF Doomed
  <2>5. \A q \in Proc : \A d : Publishing(q, d)' <=> Publishing(q, d)
    BY <2>2, <2>3 DEF Publishing
  <2>6. QED
    BY <2>2, <2>4, <2>5, TallyStays
<1>4. ASSUME NEW p \in Proc, NextMessage(p) PROVE Tally'
  <2>1. /\ pc[p] = "check" /\ \E x \in {"poll", "handle"} : pc' = [pc EXCEPT ![p] = x]
        /\ UNCHANGED <<copies, batch, cur, route, fails, submitted>>
    BY <1>4 DEF NextMessage, queues, history
  <2>2. \A q \in Proc : IF q = p THEN pc'[q] \in {"poll", "handle"} ELSE pc'[q] = pc[q]
    BY <1>t, <2>1 DEF TypeOK
  <2>3. \A d : Doomed(d)' <=> Doomed(d)
    BY <2>1, <2>2 DEF Doomed
  <2>4. \A q \in Proc : \A d : Publishing(q, d)' <=> Publishing(q, d)
    BY <2>1, <2>2 DEF Publishing
  <2>5. QED
    BY <2>1, <2>3, <2>4, TallyStays
<1>5. ASSUME NEW p \in Proc, Handle(p) PROVE Tally'
  <2>1. PICK c \in batch[p] : \E o \in Answers(p, c.msg) : HandleAs(p, c, o)
    BY <1>5 DEF Handle
  <2>2. PICK o \in Answers(p, c.msg) : HandleAs(p, c, o)
    BY <2>1
  <2>3. pc[p] = "handle" /\ o \in Outcome
    BY <1>t, <2>2, SqsAssumption DEF HandleAs, Answers, Outcome
  <2>4. QED
    BY <2>2, <2>3, TallyHandled
<1>6. ASSUME NEW p \in Proc, RepublishOk(p) PROVE Tally'
  <2>1. PICK c \in batch[p] : /\ c.id = cur[p]
                              /\ Send(RepublishHeaders(c, route[p]), DestQueue(route[p]))
    BY <1>6 DEF RepublishOk, PublishOk
  <2>2. /\ pc[p] = "publish" /\ pc' = [pc EXCEPT ![p] = "delete"]
        /\ UNCHANGED <<batch, cur, route, fails, submitted>>
    BY <1>6 DEF RepublishOk, history
  <2>3. cur' = [cur EXCEPT ![p] = c.id]
    BY <1>t, <2>1, <2>2 DEF TypeOK
  <2> DEFINE h == RepublishHeaders(c, route[p])
  <2>4. h \in Headers /\ h.msg = c.msg
    BY <1>t, HeadersType
  <2>5. CASE route[p] = "DLQ"
    <3>1. copies' = copies
      BY <2>1, <2>5 DEF Send, DestQueue
    <3>2. QED
      BY <2>1, <2>2, <2>3, <3>1, TallyMoves
  <2>6. CASE route[p] # "DLQ"
    <3>1. h.rc = 1 /\ DestQueue(route[p]) = "retry"
      BY <2>6 DEF RepublishHeaders, IncRetryCount, SanitizeForRepublish, DestQueue
    <3>2. "retry" \in Loop \cup {"dlq"} /\ Send(h, "retry")
      BY <2>1, <3>1 DEF Loop
    <3>3. fails[c.msg] <= 1
      BY <2>1, <2>2, <2>6 DEF Tally, Publishing
    <3> HIDE DEF h
    <3>4. PICK i \in FreeIds :
            copies' = copies \cup {[id |-> i, queue |-> "retry", msg |-> h.msg, rc |-> h.rc]}
      BY <1>t, <2>4, <3>2, SendEffect
    <3>5. \E f : f.msg = c.msg /\ f.rc <= 1 /\ fails[c.msg] <= f.rc /\ copies' = copies \cup {f}
      <4> DEFINE f == [id |-> i, queue |-> "retry", msg |-> h.msg, rc |-> h.rc]
      <4>1. f.msg = c.msg /\ f.rc = 1 /\ copies' = copies \cup {f}
        BY <2>4, <3>1, <3>4
      <4> HIDE DEF f
      <4>2. QED
        BY <3>3, <4>1
    <3>6. QED
      BY <2>1, <2>2, <2>3, <3>5, TallyMoves
  <2>7. QED
    BY <2>5, <2>6
<1>7. ASSUME NEW p \in Proc, RepublishFails(p) PROVE FALSE
  <2>1. PICK c \in batch[p] :
          PublishError(p[1], RepublishHeaders(c, route[p]), DestQueue(route[p]))
    BY <1>7 DEF RepublishFails
  <2> DEFINE h == RepublishHeaders(c, route[p])
  <2>2. h \in Headers /\ (h.rc = 0 \/ h.reason = FALSE)
    BY <1>t, HeadersType DEF RepublishHeaders, SetErrorReason, IncRetryCount, SanitizeForRepublish
  <2>3. QED
    BY <1>p, <1>t, <2>1, <2>2, Accepted
<1>8. ASSUME NEW p \in Proc, ForwardOk(p) PROVE Tally'
  <2>1. PICK c \in batch[p] : /\ Send(ForwardHeaders(c), ForwardQueue(p[2]))
                              /\ cur' = [cur EXCEPT ![p] = c.id]
    BY <1>8 DEF ForwardOk, PublishOk
  <2>2. /\ pc[p] = "handle" /\ pc' = [pc EXCEPT ![p] = "delete"]
        /\ UNCHANGED <<batch, route, fails, submitted>>
    BY <1>8 DEF ForwardOk
  <2> DEFINE h == ForwardHeaders(c)
  <2>3. /\ h \in Headers /\ h.msg = c.msg /\ h.rc = c.rc
        /\ "main" \in Loop \cup {"dlq"} /\ Send(h, "main")
    BY <1>t, <2>1, HeadersType DEF ForwardHeaders, ForwardQueue, Loop
  <2>4. c \in copies /\ ~Doomed(c)
    BY <2>2, WorkedOnKept
  <2>5. \A q \in Proc : ~Publishing(q, c)
    BY <2>2 DEF Publishing, Orderly, HeldOnce, Held
  <2>6. fails[c.msg] <= c.rc /\ c.rc <= 1
    BY <2>4, <2>5 DEF Tally
  <2> HIDE DEF h
  <2>7. PICK i \in FreeIds :
          copies' = copies \cup {[id |-> i, queue |-> "main", msg |-> h.msg, rc |-> h.rc]}
    BY <1>t, <2>3, SendEffect
  <2>8. \E f : f.msg = c.msg /\ f.rc <= 1 /\ fails[c.msg] <= f.rc /\ copies' = copies \cup {f}
    <3> DEFINE f == [id |-> i, queue |-> "main", msg |-> h.msg, rc |-> h.rc]
    <3>1. f.msg = c.msg /\ f.rc = c.rc /\ copies' = copies \cup {f}
      BY <2>3, <2>7
    <3> HIDE DEF f
    <3>2. QED
      BY <2>6, <3>1
  <2>9. QED
    BY <2>1, <2>2, <2>8, TallyMoves
<1>9. ASSUME NEW p \in Proc, ForwardFails(p) PROVE FALSE
  <2>1. PICK c \in batch[p] : PublishError(p[1], ForwardHeaders(c), ForwardQueue(p[2]))
    BY <1>9 DEF ForwardFails
  <2>2. ForwardHeaders(c) \in Headers /\ ForwardHeaders(c).reason = FALSE
    BY <1>t, HeadersType DEF ForwardHeaders
  <2>3. QED
    BY <1>p, <1>t, <2>1, <2>2, Accepted
<1>10. ASSUME NEW p \in Proc, Delete(p) PROVE Tally'
  <2>1. PICK c \in batch[p] : /\ c.id = cur[p]
                              /\ Remove(c) \/ DeleteIgnored(p, c)
                              /\ Finish(p, c)
    BY <1>10 DEF Delete
  <2>2. ~DeleteIgnored(p, c)
    BY <1>f, <1>p DEF DeleteIgnored, Held, Orderly, HeldOnce
  <2>3. copies' = {d \in copies : d.id # c.id}
    BY <2>1, <2>2 DEF Remove
  <2>4. pc[p] = "delete" /\ UNCHANGED <<fails, submitted>>
    BY <1>10 DEF Delete, history
  <2>5. \A q \in Proc : /\ pc'[q] = IF q = p THEN "check" ELSE pc[q]
                        /\ q # p => batch'[q] = batch[q] /\ route'[q] = route[q]
                        /\ cur'[q] = IF q = p THEN NoId ELSE cur[q]
    BY <1>t, <2>1 DEF Finish, TypeOK
  <2>6. \A d \in copies' : Doomed(d) => Doomed(d)'
    BY <2>1, <2>3, <2>5 DEF Doomed
  <2>7. \A q \in Proc : \A d : Publishing(q, d)' <=> Publishing(q, d)
    BY <2>4, <2>5 DEF Publishing
  <2>8. QED
    BY <2>3, <2>4, <2>5, <2>6, <2>7, TallyStays
<1>11. ASSUME NEW p \in Proc, StopLoop(p) PROVE FALSE
  BY <1>11, <1>p DEF StopLoop
<1>12. ASSUME NEW w \in Worker, Cancel(w) \/ Crash(w) PROVE FALSE
  BY <1>12, <1>f DEF Cancel, Crash
<1>13. ASSUME NEW w \in Worker, Restart(w) PROVE FALSE
  <2>1. <<w, "main">> \in ProcsOf(w) /\ <<w, "main">> \in Proc
    BY DEF ProcsOf, Proc, Loop
  <2>2. QED
    BY <1>13, <2>1 DEF Restart, Orderly, AllRun
<1>14. ASSUME UNCHANGED vars PROVE Tally'
  BY <1>14, TallyStays DEF vars, Doomed, Publishing
<1>15. QED
  BY <1>1, <1>2, <1>3, <1>4, <1>5, <1>6, <1>7, <1>8, <1>9, <1>10, <1>11, <1>12, <1>13, <1>14
     DEF Next, Step, PollNothing

\* With a budget of one retry and room for the count among the attributes, no handler fails
\* more than twice on a message before the first failure: republish strips the count and
\* increments what is left, so one retry is all it can tell apart (consumer.go, headers.go).
THEOREM BudgetIsRespected == ASSUME Affordable PROVE Spec => []BudgetRespected
<1> DEFINE J == faults = 0 => Orderly /\ Tally
<1>1. Init => J
  BY DEF Init, Orderly, AllRun, HeldStored, HeldOnce, Held, OnePlace, Tally
<1>2. IInv /\ Provenance /\ J /\ [Next]_vars => J'
  BY OrderlyStep, TallyStep, FaultsCounted DEF IInv
<1>3. J => BudgetRespected
  BY DEF BudgetRespected, Tally, MaxRetries, EffectiveMaxRetries, Affordable
<1> HIDE DEF J
<1>4. QED
  BY <1>1, <1>2, <1>3, InvInit, InvStep, ProvenanceStep, PTL DEF Spec

================================================================================
