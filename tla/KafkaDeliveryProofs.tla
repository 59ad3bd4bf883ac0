-------------------------- MODULE KafkaDeliveryProofs --------------------------
(***************************************************************************)
(* Further theorems about KafkaConsumer: what its two loops keep of every   *)
(* message as long as no worker abandons a batch while it runs.             *)
(*                                                                         *)
(* A loop that stops its batch (consumer.go, stopProcessing) leaves records *)
(* that its own polls will not return again: they come back only when the   *)
(* partition is assigned anew, which the end of the worker brings about.    *)
(* The run KafkaRepublishFailure shows what is lost when a worker stops a   *)
(* batch and keeps running; the theorems are about every other behaviour,   *)
(* under the hypothesis StopsOnlyToEnd.                                     *)
(***************************************************************************)
EXTENDS KafkaConsumerProofs, FiniteSetTheorems

\* A loop of a worker that was not told to stop finishes its record before it commits.
KeepsBatch ==
  \A p \in Proc : live[p[1]] /\ pc[p] \in {"handle", "publish"} /\ pc'[p] = "commit"
                    => next'[p] # next[p]

StopsOnlyToEnd == [][KeepsBatch]_vars

--------------------------------------------------------------------------------
(* No message is lost.  A record past the committed position is not enough:  *)
(* no loop may be about to commit past it, and the owner must come to it -   *)
(* it has not been fetched, or is in the batch the owner works on, or the    *)
(* owner is ending and the record will be fetched again.                    *)

Working(p) == pc[p] \in {"handle", "publish"}
Active(p)  == pc[p] \in {"handle", "publish", "commit"}

ComesTo(t, k) == \/ position[t] < k
                 \/ ~live[owner[t]]
                 \/ \E p \in Proc : p = <<owner[t], t>> /\ Working(p) /\ k <= last[p]

Kept(t, k) == /\ committed[t] < k
              /\ \A p \in Proc : p[2] = t /\ Active(p) => next[p] <= k
              /\ ComesTo(t, k)

AllKept == \A m \in submitted \ settled :
             \E t \in Loop : \E k \in 1 .. Len(log[t]) : log[t][k].msg = m /\ Kept(t, k)

\* A step loses no message when every record that is not kept any longer has had its
\* message settled or appended again.
LEMMA AllKeptStays ==
  ASSUME TypeOK, LogGrows, AllKept, submitted' = submitted, done \subseteq done', dlq \subseteq dlq',
         \A t \in Loop : \A k \in 1 .. Len(log[t]) :
           Kept(t, k) => \/ Kept(t, k)'
                         \/ log[t][k].msg \in settled'
                         \/ \E u \in Loop : \E l \in 1 .. Len(log'[u]) :
                              log'[u][l].msg = log[t][k].msg /\ Kept(u, l)'
  PROVE  AllKept'
<1> SUFFICES ASSUME NEW m \in submitted' \ settled'
             PROVE  \E u \in Loop : \E l \in 1 .. Len(log'[u]) : log'[u][l].msg = m /\ Kept(u, l)'
  BY DEF AllKept
<1>1. PICK t \in Loop : \E k \in 1 .. Len(log[t]) : log[t][k].msg = m /\ Kept(t, k)
  BY DEF AllKept, settled
<1>2. PICK k \in 1 .. Len(log[t]) : log[t][k].msg = m /\ Kept(t, k)
  BY <1>1
<1>3. CASE Kept(t, k)'
  <2>1. k \in 1 .. Len(log'[t]) /\ log'[t][k] = log[t][k]
    <3>1. Len(log[t]) \in Nat /\ Len(log'[t]) \in Nat /\ Len(log[t]) <= Len(log'[t])
      BY LenProperties DEF TypeOK, LogGrows
    <3>2. QED
      BY <3>1 DEF LogGrows
  <2>2. QED
    BY <1>2, <1>3, <2>1
<1>4. QED
  BY <1>2, <1>3

\* A record just appended is kept.
LEMMA AppendedKept ==
  ASSUME TypeOK, TypeOK', NEW h, NEW t \in Loop, Appended(h, t),
         UNCHANGED <<committed, position, last>>
  PROVE  \E u \in Loop : \E l \in 1 .. Len(log'[u]) : log'[u][l].msg = h.msg /\ Kept(u, l)'
<1>1. Len(log[t]) \in Nat
  BY LenProperties DEF TypeOK
<1>2. PICK k \in Nat : k = Len(log[t]) + 1
  BY <1>1
<1>3. k \in 1 .. Len(log'[t]) /\ log'[t][k].msg = h.msg
  BY <1>1, <1>2 DEF Appended
<1>4. committed'[t] < k /\ position'[t] < k
  BY <1>1, <1>2 DEF TypeOK
<1>5. \A p \in Proc : p[2] = t => next'[p] <= k
  <2>1. \A p \in Proc : /\ next'[p] <= last'[p] + 1 /\ next'[p] \in Nat
                        /\ last'[p] = last[p] /\ last[p] <= Len(log[p[2]]) /\ last[p] \in Nat
    BY DEF TypeOK
  <2>2. QED
    BY <1>1, <1>2, <2>1
<1>6. Kept(t, k)'
  BY <1>4, <1>5 DEF Kept, ComesTo
<1>7. QED
  BY <1>3, <1>6

\* A loop that advances keeps every record but the one it is done with.
LEMMA AdvanceKeeps ==
  ASSUME TypeOK, NEW p \in Proc, Working(p), Advance(p),
         UNCHANGED <<committed, position, owner, live>>,
         NEW t \in Loop, NEW k \in Nat, Kept(t, k), t # p[2] \/ k # next[p]
  PROVE  Kept(t, k)'
<1>1. \A q \in Proc :
        /\ next'[q] = IF q = p THEN next[p] + 1 ELSE next[q]
        /\ pc'[q] = IF q = p THEN IF next[p] = last[p] THEN "commit" ELSE "handle" ELSE pc[q]
        /\ last'[q] = last[q] /\ next[q] \in Nat /\ last[q] \in Nat
  BY DEF Advance, TypeOK
<1>2. ASSUME NEW q \in Proc, q[2] = t, Active(q)' PROVE next'[q] <= k
  BY <1>1, <1>2 DEF Active, Working, Kept
<1>3. ComesTo(t, k)'
  <2>1. ASSUME NEW q \in Proc, q = <<owner[t], t>>, Working(q), k <= last[q]
        PROVE  Working(q)' /\ k <= last'[q]
    <3>1. CASE q = p
      <4>1. next[p] <= k
        BY <2>1, <3>1 DEF Kept, Active, Working
      <4>2. next[p] # last[p]
        BY <1>1, <2>1, <3>1, <4>1
      <4>3. QED
        BY <1>1, <2>1, <3>1, <4>2 DEF Working
    <3>2. QED
      BY <1>1, <2>1, <3>1 DEF Working
  <2>2. QED
    BY <2>1 DEF Kept, ComesTo
<1>4. QED
  BY <1>2, <1>3 DEF Kept

\* A loop that stops its batch because its worker ends keeps every record.
LEMMA StopKeeps ==
  ASSUME TypeOK, NEW p \in Proc, Working(p), StopBatch(p), ~live[p[1]],
         UNCHANGED <<committed, position, owner, live>>,
         NEW t \in Loop, NEW k \in Nat, Kept(t, k)
  PROVE  Kept(t, k)'
<1>1. \A q \in Proc : /\ next'[q] = next[q] /\ last'[q] = last[q]
                      /\ pc'[q] = IF q = p THEN "commit" ELSE pc[q]
  BY DEF StopBatch, TypeOK
<1>2. \A q \in Proc : q[2] = t /\ Active(q)' => next'[q] <= k
  BY <1>1 DEF Active, Working, Kept
<1>3. ComesTo(t, k)'
  BY <1>1 DEF Kept, ComesTo, Working
<1>4. QED
  BY <1>2, <1>3 DEF Kept

\* A step that leaves the positions and every loop's place in its batch keeps every record.
LEMMA StayKeeps ==
  ASSUME UNCHANGED <<committed, position, owner, live, next, last>>,
         \A q \in Proc : (Active(q)' <=> Active(q)) /\ (Working(q)' <=> Working(q)),
         NEW t \in Loop, NEW k \in Nat, Kept(t, k)
  PROVE  Kept(t, k)'
  BY DEF Kept, ComesTo

\* A message that has been produced is dead-lettered or kept.
LEMMA ProducedKept ==
  ASSUME TypeOK, TypeOK', NEW h \in Headers, NEW t \in Loop \cup {"dlq"}, Produce(h, t),
         UNCHANGED <<committed, position, last>>
  PROVE  \/ h.msg \in settled'
         \/ \E u \in Loop : \E l \in 1 .. Len(log'[u]) : log'[u][l].msg = h.msg /\ Kept(u, l)'
<1>1. CASE t = "dlq" /\ log' = log /\ dlq' = dlq \cup {h.msg}
  BY <1>1 DEF settled
<1>2. CASE t \in Loop /\ Appended(h, t)
  BY <1>2, AppendedKept
<1>3. QED
  BY <1>1, <1>2, ProduceEffect

\* Whatever a loop does with its record, no message is lost, provided that it only
\* advances past a record whose message is settled or kept elsewhere.
LEMMA RoutedKeeps ==
  ASSUME TypeOK, LogGrows, AllKept, NEW p \in Proc, Working(p), KeepsBatch,
         UNCHANGED <<committed, position, owner, live, submitted>>,
         done \subseteq done', dlq \subseteq dlq',
         \/ /\ Advance(p)
            /\ \/ Current(p).msg \in settled'
               \/ \E u \in Loop : \E l \in 1 .. Len(log'[u]) :
                    log'[u][l].msg = Current(p).msg /\ Kept(u, l)'
         \/ StopBatch(p)
         \/ \E r \in Route : BeginRepublish(p, r)
         \/ UNCHANGED <<pc, next, last>>
  PROVE  AllKept'
<1> SUFFICES ASSUME NEW t \in Loop, NEW k \in 1 .. Len(log[t]), Kept(t, k)
             PROVE  \/ Kept(t, k)'
                    \/ log[t][k].msg \in settled'
                    \/ \E u \in Loop : \E l \in 1 .. Len(log'[u]) :
                         log'[u][l].msg = log[t][k].msg /\ Kept(u, l)'
  BY AllKeptStays
<1>k. k \in Nat
  BY LenProperties DEF TypeOK
<1>1. CASE Advance(p)
  <2>1. CASE t = p[2] /\ k = next[p]
    <3>1. log[t][k].msg = Current(p).msg
      BY <2>1 DEF Current
    <3>2. Current(p).msg \in settled' \/ \E u \in Loop : \E l \in 1 .. Len(log'[u]) :
                    log'[u][l].msg = Current(p).msg /\ Kept(u, l)'
      <4>1. next' = [next EXCEPT ![p] = next[p] + 1] /\ next[p] \in Nat
        BY <1>1 DEF Advance, TypeOK
      <4>2. next' # next
        BY <4>1 DEF TypeOK
      <4>3. QED
        BY <4>2 DEF StopBatch, BeginRepublish
    <3>3. QED
      BY <3>1, <3>2
  <2>2. CASE t # p[2] \/ k # next[p]
    BY <1>1, <1>k, <2>2, AdvanceKeeps
  <2>3. QED
    BY <2>1, <2>2
<1>2. CASE StopBatch(p)
  <2>1. next' = next /\ pc'[p] = "commit"
    BY <1>2 DEF StopBatch, TypeOK
  <2>2. ~live[p[1]]
    BY <2>1 DEF KeepsBatch, Working
  <2>3. QED
    BY <1>2, <1>k, <2>2, StopKeeps
<1>3. ASSUME NEW r \in Route, BeginRepublish(p, r) PROVE Kept(t, k)'
  <2>1. \A q \in Proc : pc'[q] = IF q = p THEN "publish" ELSE pc[q]
    BY <1>3 DEF BeginRepublish, TypeOK
  <2>2. UNCHANGED <<committed, position, owner, live, next, last>>
    BY <1>3 DEF BeginRepublish
  <2>3. \A q \in Proc : (Active(q)' <=> Active(q)) /\ (Working(q)' <=> Working(q))
    BY <2>1 DEF Active, Working
  <2>4. QED
    BY <1>k, <2>2, <2>3, StayKeeps
<1>4. CASE UNCHANGED <<pc, next, last>>
  BY <1>4, <1>k, StayKeeps DEF Active, Working
<1>5. QED
  BY <1>1, <1>2, <1>3, <1>4

\* Every step of a run whose workers stop their batches only to end keeps every message.
LEMMA KeptStep == TypeOK /\ AllKept /\ [Next]_vars /\ [KeepsBatch]_vars => AllKept'
<1> SUFFICES ASSUME TypeOK, AllKept, [Next]_vars, [KeepsBatch]_vars PROVE AllKept'
  OBVIOUS
<1>t. TypeOK'
  BY TypeStep
<1>p. \A p \in Proc : p[1] \in Worker /\ p[2] \in Loop /\ p = <<p[1], p[2]>>
  BY DEF Proc
<1>r. {"Retry", "DLQ"} \subseteq Route
  BY DEF Route
<1>k. \A t \in Loop : \A k \in 1 .. Len(log[t]) : k \in Nat
  BY LenProperties DEF TypeOK
<1>d. \A r : DestTopic(r) \in Loop \cup {"dlq"}
  BY DEF DestTopic, Loop
<1>s. UNCHANGED vars \/ KeepsBatch
  OBVIOUS
<1>1. ASSUME UNCHANGED <<log, dlq, done, submitted>>,
             \A t \in Loop, k \in Nat : Kept(t, k) => Kept(t, k)'
      PROVE  AllKept'
  BY <1>1, <1>k, NoGrowth, AllKeptStays
<1>0. CASE UNCHANGED vars
  <2>1. \A q \in Proc : (Active(q)' <=> Active(q)) /\ (Working(q)' <=> Working(q))
    BY <1>0 DEF vars, Active, Working
  <2>2. QED
    BY <1>0, <1>1, <2>1, StayKeeps DEF vars
<1>2. ASSUME NEW m \in Msg, Submit(m) PROVE AllKept'
  <2> DEFINE h == [msg |-> m, rc |-> 0, reason |-> FALSE]
  <2>1. h \in Headers /\ h.msg = m /\ "main" \in Loop /\ Produce(h, "main")
    BY <1>2 DEF Headers, Loop, Submit, ProduceOk
  <2> HIDE DEF h
  <2>2. UNCHANGED <<committed, position, owner, live, pc, next, last, done>>
    BY <1>2 DEF Submit, loops
  <2>3. LogGrows /\ dlq' = dlq /\ Appended(h, "main")
    BY <2>1, ProduceEffect DEF Appended, Loop
  <2>4. \E u \in Loop : \E l \in 1 .. Len(log'[u]) : log'[u][l].msg = m /\ Kept(u, l)'
    BY <1>t, <2>1, <2>2, <2>3, AppendedKept
  <2>5. ASSUME NEW n \in submitted \ settled
        PROVE  \E u \in Loop : \E l \in 1 .. Len(log'[u]) : log'[u][l].msg = n /\ Kept(u, l)'
    <3>1. PICK t \in Loop : \E k \in 1 .. Len(log[t]) : log[t][k].msg = n /\ Kept(t, k)
      BY DEF AllKept
    <3>2. PICK k \in 1 .. Len(log[t]) : log[t][k].msg = n /\ Kept(t, k)
      BY <3>1
    <3>3. Kept(t, k)'
      BY <1>k, <2>2, <3>2, StayKeeps DEF Active, Working
    <3>4. k \in 1 .. Len(log'[t]) /\ log'[t][k] = log[t][k]
      <4>1. Len(log[t]) \in Nat /\ Len(log'[t]) \in Nat /\ Len(log[t]) <= Len(log'[t])
        BY <2>3, LenProperties DEF TypeOK, LogGrows
      <4>2. QED
        BY <2>3, <4>1 DEF LogGrows
    <3>5. QED
      BY <3>2, <3>3, <3>4
  <2>6. submitted' = submitted \cup {m} /\ settled' = settled
    BY <1>2, <2>2, <2>3 DEF Submit, settled
  <2>7. QED
    BY <2>4, <2>5, <2>6 DEF AllKept
<1>3. ASSUME NEW t \in Loop, NEW w \in Worker, Rebalance(t, w) PROVE AllKept'
  <2>1. \A u \in Loop : IF u = t THEN position'[u] = committed[u]
                                 ELSE position'[u] = position[u] /\ owner'[u] = owner[u]
    BY <1>3 DEF Rebalance, TypeOK
  <2>2. UNCHANGED <<log, dlq, committed, live, pc, next, last, done, submitted>>
    BY <1>3 DEF Rebalance, loops, history
  <2>3. \A u \in Loop, k \in Nat : Kept(u, k) => Kept(u, k)'
    BY <2>1, <2>2 DEF Kept, ComesTo, Active, Working
  <2>4. QED
    BY <1>1, <2>2, <2>3
<1>4. ASSUME NEW p \in Proc, Poll(p) PROVE AllKept'
  <2>1. PICK n \in 1 .. FetchLimit :
          /\ position' = [position EXCEPT ![p[2]] = position[p[2]] + n]
          /\ next' = [next EXCEPT ![p] = position[p[2]] + 1]
          /\ last' = [last EXCEPT ![p] = position[p[2]] + n]
    BY <1>4 DEF Poll
  <2>2. /\ pc[p] = "poll" /\ live[p[1]] /\ owner[p[2]] = p[1]
        /\ pc' = [pc EXCEPT ![p] = "handle"]
        /\ UNCHANGED <<log, dlq, committed, owner, live, done, submitted>>
    BY <1>4 DEF Poll, history
  <2>3. \A q \in Proc : IF q = p THEN /\ next'[q] = position[p[2]] + 1
                                      /\ last'[q] = position[p[2]] + n
                                      /\ pc'[q] = "handle"
                                 ELSE next'[q] = next[q] /\ last'[q] = last[q] /\ pc'[q] = pc[q]
    BY <2>1, <2>2 DEF TypeOK
  <2>4. \A u \in Loop : position'[u] = IF u = p[2] THEN position[u] + n ELSE position[u]
    BY <1>p, <2>1 DEF TypeOK
  <2>5. ASSUME NEW u \in Loop, NEW k \in Nat, Kept(u, k) PROVE Kept(u, k)'
    <3>1. CASE u = p[2]
      <4>1. position[u] < k
        BY <1>p, <2>2, <2>5, <3>1 DEF Kept, ComesTo, Working
      <4>2. position[u] \in Nat /\ n \in Nat
        BY KafkaAssumption DEF TypeOK
      <4>3. \A q \in Proc : q[2] = u /\ Active(q)' => next'[q] <= k
        BY <2>3, <2>5, <3>1, <4>1, <4>2 DEF Kept, Active
      <4>4. p = <<owner[u], u>> /\ Working(p)'
        BY <1>p, <2>2, <2>3, <3>1 DEF Working
      <4>5. position'[u] < k \/ k <= last'[p]
        BY <2>3, <2>4, <3>1, <4>1, <4>2
      <4>6. QED
        BY <2>2, <2>5, <4>3, <4>4, <4>5 DEF Kept, ComesTo
    <3>2. CASE u # p[2]
      <4>1. \A q \in Proc : q[2] = u => q # p
        BY <3>2
      <4>2. QED
        BY <2>2, <2>3, <2>4, <2>5, <3>2, <4>1 DEF Kept, ComesTo, Active, Working
    <3>3. QED
      BY <3>1, <3>2
  <2>6. QED
    BY <1>1, <2>2, <2>5
<1>5. ASSUME NEW p \in Proc, NEW o \in Outcome, HandleAs(p, o), KeepsBatch PROVE AllKept'
  <2>1. /\ Working(p) /\ RouteRecord(p, o)
        /\ NoteOutcome(Current(p).msg, o) /\ UNCHANGED <<topics, live, submitted>>
    BY <1>5 DEF HandleAs, Working
  <2>2. LogGrows /\ done \subseteq done' /\ dlq' = dlq
    BY <2>1, NoGrowth DEF topics, NoteOutcome
  <2>3. Advance(p) => Current(p).msg \in settled'
    <3>1. ASSUME Advance(p) PROVE o = "ok"
      <4>1. next'[p] # next[p]
        BY <3>1 DEF Advance, TypeOK
      <4>2. ~StopBatch(p) /\ \A r : ~BeginRepublish(p, r)
        BY <4>1 DEF StopBatch, BeginRepublish
      <4>3. KafkaDecideRoute(o, Current(p).rc, Budget(p)) = "Commit"
        BY <2>1, <4>2 DEF RouteRecord
      <4>4. QED
        BY <4>3 DEF KafkaDecideRoute, Outcome
    <3>2. QED
      BY <2>1, <3>1 DEF NoteOutcome, settled
  <2>4. QED
    BY <1>5, <1>r, <2>1, <2>2, <2>3, RouteRecordCases, RoutedKeeps DEF topics
<1>6. ASSUME NEW p \in Proc, Working(p), KeepsBatch,
             NEW h \in Headers, h.msg = Current(p).msg, NEW t \in Loop \cup {"dlq"},
             ProduceOk(h, t) \/ ProduceError(p[1], h, t),
             \/ Advance(p) /\ ProduceOk(h, t)
             \/ StopBatch(p) \/ \E r \in Route : BeginRepublish(p, r)
             \/ UNCHANGED <<pc, next, last>>,
             UNCHANGED <<committed, position, owner, live, history>>
      PROVE  AllKept'
  <2>1. LogGrows /\ dlq \subseteq dlq'
    <3>1. CASE Produce(h, t)
      BY <3>1, ProduceEffect, NoGrowth DEF Appended
    <3>2. CASE ~Produce(h, t)
      BY <1>6, <3>2, NoGrowth DEF ProduceOk, ProduceError
    <3>3. QED
      BY <3>1, <3>2
  <2>2. Advance(p) /\ ProduceOk(h, t) =>
          \/ Current(p).msg \in settled'
          \/ \E u \in Loop : \E l \in 1 .. Len(log'[u]) :
               log'[u][l].msg = Current(p).msg /\ Kept(u, l)'
    BY <1>6, <1>t, ProducedKept DEF ProduceOk, Advance
  <2>3. submitted' = submitted /\ done' = done
    BY <1>6 DEF history
  <2>4. QED
    BY <1>6, <2>1, <2>2, <2>3, RoutedKeeps
<1>7. ASSUME NEW p \in Proc, ForwardOk(p) \/ ForwardFails(p), KeepsBatch PROVE AllKept'
  <2>1. Working(p) /\ UNCHANGED <<committed, position, owner, live, history>>
    BY <1>7 DEF ForwardOk, ForwardFails, Working
  <2>2. /\ ForwardHeaders(Current(p)) \in Headers /\ "main" \in Loop
        /\ ForwardHeaders(Current(p)).msg = Current(p).msg
    BY <2>1, CurrentType, HeadersType DEF Loop, Working
  <2>3. CASE ForwardOk(p)
    BY <1>6, <1>7, <1>r, <2>1, <2>2, <2>3, RouteRecordCases DEF ForwardOk
  <2>4. CASE ForwardFails(p)
    <3>1. StopBatch(p) \/ \E r \in Route : BeginRepublish(p, r)
      <4>1. KafkaDecideRoute("transient", Current(p).rc, Budget(p)) # "Commit"
        BY DEF KafkaDecideRoute
      <4>2. QED
        BY <1>r, <2>4, <4>1 DEF ForwardFails, RouteRecord
    <3>2. QED
      BY <1>6, <1>7, <2>1, <2>2, <2>4, <3>1 DEF ForwardFails
  <2>5. QED
    BY <1>7, <2>3, <2>4
<1>8. ASSUME NEW p \in Proc, ForwardCancelled(p) PROVE AllKept'
  <2>1. /\ Working(p) /\ ~live[p[1]] /\ StopBatch(p)
        /\ UNCHANGED <<topics, live, history>>
    BY <1>8 DEF ForwardCancelled, Working, RouteRecord, KafkaDecideRoute
  <2>2. QED
    BY <1>1, <2>1, StopKeeps DEF topics, history
<1>9. ASSUME NEW p \in Proc, RepublishOk(p) \/ RepublishFails(p), KeepsBatch PROVE AllKept'
  <2>1. Working(p) /\ UNCHANGED <<committed, position, owner, live, history>>
    BY <1>9 DEF RepublishOk, RepublishFails, Working
  <2>2. /\ RepublishHeaders(Current(p), route[p]) \in Headers
        /\ RepublishHeaders(Current(p), route[p]).msg = Current(p).msg
    BY <2>1, CurrentType, HeadersType DEF Working
  <2>3. QED
    BY <1>6, <1>9, <1>d, <2>1, <2>2 DEF RepublishOk, RepublishFails
<1>10. ASSUME NEW p \in Proc, Commit(p) PROVE AllKept'
  <2>1. /\ pc[p] = "commit" /\ pc' = [pc EXCEPT ![p] = "poll"]
        /\ committed' = committed \/ committed' = [committed EXCEPT ![p[2]] = next[p] - 1]
        /\ UNCHANGED <<log, dlq, position, owner, live, next, last, done, submitted>>
    BY <1>10 DEF Commit, history
  <2>2. \A q \in Proc : pc'[q] = IF q = p THEN "poll" ELSE pc[q]
    BY <2>1 DEF TypeOK
  <2>3. ASSUME NEW u \in Loop, NEW k \in Nat, Kept(u, k) PROVE Kept(u, k)'
    <3>1. committed'[u] < k
      <4>1. committed'[u] = committed[u] \/ (u = p[2] /\ committed'[u] = next[p] - 1)
        BY <2>1 DEF TypeOK
      <4>2. u = p[2] => next[p] <= k /\ next[p] \in Nat
        BY <2>1, <2>3 DEF Kept, Active, TypeOK
      <4>3. QED
        BY <2>3, <4>1, <4>2 DEF Kept
    <3>2. QED
      BY <2>1, <2>2, <2>3, <3>1 DEF Kept, ComesTo, Active, Working
  <2>4. QED
    BY <1>1, <2>1, <2>3
<1>11. ASSUME NEW p \in Proc, StopLoop(p) PROVE AllKept'
  <2>1. /\ pc[p] = "poll" /\ pc' = [pc EXCEPT ![p] = "stopped"]
        /\ UNCHANGED <<log, dlq, committed, position, owner, live, next, last, done, submitted>>
    BY <1>11 DEF StopLoop, topics, history
  <2>2. \A q \in Proc : (Active(q)' <=> Active(q)) /\ (Working(q)' <=> Working(q))
    BY <2>1 DEF Active, Working, TypeOK
  <2>3. QED
    BY <1>1, <2>1, <2>2, StayKeeps
<1>12. ASSUME NEW w \in Worker, Cancel(w) \/ Crash(w) PROVE AllKept'
  <2>1. /\ UNCHANGED <<log, dlq, committed, position, owner, next, last, done, submitted>>
        /\ live' = [live EXCEPT ![w] = FALSE]
    BY <1>12 DEF Cancel, Crash, topics, loops, history
  <2>2. \A q \in Proc : pc'[q] = pc[q] \/ (q[1] = w /\ pc'[q] = "stopped")
    BY <1>12 DEF Cancel, Crash, loops, ProcsOf, Proc
  <2>3. \A v \in Worker : live'[v] = IF v = w THEN FALSE ELSE live[v]
    BY <2>1 DEF TypeOK
  <2>4. ASSUME NEW u \in Loop, NEW k \in Nat, Kept(u, k) PROVE Kept(u, k)'
    <3>1. \A q \in Proc : q[2] = u /\ Active(q)' => next'[q] <= k
      BY <2>1, <2>2, <2>4 DEF Kept, Active
    <3>2. owner[u] \in Worker
      BY DEF TypeOK
    <3>3. ComesTo(u, k)'
      BY <1>p, <2>1, <2>2, <2>3, <2>4, <3>2 DEF Kept, ComesTo, Working
    <3>4. QED
      BY <2>1, <2>4, <3>1, <3>3 DEF Kept
  <2>5. QED
    BY <1>1, <2>1, <2>4
<1>13. ASSUME NEW w \in Worker, Restart(w) PROVE AllKept'
  <2>1. /\ UNCHANGED <<log, dlq, committed, owner, next, last, done, submitted>>
        /\ live' = [live EXCEPT ![w] = TRUE]
        /\ \A t \in Loop : position'[t] = IF owner[t] = w THEN committed[t] ELSE position[t]
    BY <1>13 DEF Restart, history
  <2>2. \A q \in Proc : IF q[1] = w THEN pc[q] = "stopped" /\ pc'[q] = "poll"
                                    ELSE pc'[q] = pc[q]
    BY <1>13 DEF Restart, ProcsOf, Proc
  <2>3. ASSUME NEW u \in Loop, NEW k \in Nat, Kept(u, k) PROVE Kept(u, k)'
    <3>1. \A q \in Proc : q[2] = u /\ Active(q)' => next'[q] <= k
      BY <2>1, <2>2, <2>3 DEF Kept, Active
    <3>2. ComesTo(u, k)'
      <4>1. CASE owner[u] = w
        BY <2>1, <2>3, <4>1 DEF Kept, ComesTo
      <4>2. CASE owner[u] # w
        BY <1>p, <2>1, <2>2, <2>3, <4>2 DEF Kept, ComesTo, Working, TypeOK
      <4>3. QED
        BY <4>1, <4>2
    <3>3. QED
      BY <2>1, <2>3, <3>1, <3>2 DEF Kept
  <2>4. QED
    BY <1>1, <2>1, <2>3
<1>14. QED
  BY <1>s, <1>0, <1>2, <1>3, <1>4, <1>5, <1>7, <1>8, <1>9, <1>10, <1>11, <1>12, <1>13
     DEF Next, Step, PollNothing, Handle

\* What the group has not committed, record by record.
LEMMA UncommittedRecords ==
  ASSUME TypeOK, NEW m
  PROVE  m \in Uncommitted <=> \E t \in Loop : \E k \in 1 .. Len(log[t]) :
                                 committed[t] < k /\ log[t][k].msg = m
<1>1. \A t \in Loop : Len(log[t]) \in Nat /\ committed[t] \in Nat
  BY LenProperties DEF TypeOK
<1>2. \A t \in Loop : \A k : k \in committed[t] + 1 .. Len(log[t])
                               <=> k \in 1 .. Len(log[t]) /\ committed[t] < k
  BY <1>1
<1>3. QED
  BY <1>2 DEF Uncommitted

\* What is kept is not lost.
LEMMA KeptNotLost == TypeOK /\ AllKept => NoMessageLost
  BY UncommittedRecords DEF AllKept, Kept, NoMessageLost

\* Nothing has been accepted initially.
LEMMA KeptInit == Init => AllKept
  BY DEF Init, AllKept

\* As long as workers stop their batches only to end, no accepted message is lost before
\* it is handled or dead-lettered, whatever rebalances, crashes and failed commits do.
THEOREM NothingLost == Spec /\ StopsOnlyToEnd => []NoMessageLost
  BY TypeInit, TypeStep, KeptInit, KeptStep, KeptNotLost, PTL DEF Spec, StopsOnlyToEnd

--------------------------------------------------------------------------------
(* The hypothesis is met when handlers of running workers never answer with  *)
(* a cancelled context and either no publish fails or fewer faults occur     *)
(* than republish makes attempts: each failed attempt of a running worker is *)
(* a fault.                                                                 *)

Undisturbed == /\ \A m \in Msg : "cancelled" \notin Outcomes[m]
               /\ MaxFaults < Attempts \/ Faults \cap {"sendFails", "ackLost"} = {}

AttemptsCounted == \A p \in Proc : pc[p] = "publish" => attempt[p] <= faults + 1

\* The failures are counted.
LEMMA FaultsCounted == TypeOK /\ [Next]_vars => faults <= faults'
<1> SUFFICES ASSUME TypeOK, [Next]_vars PROVE faults <= faults'
  OBVIOUS
<1>1. ASSUME faults' = faults \/ \E kind : Spend(kind) PROVE faults <= faults'
  <2>1. faults \in Nat
    BY KafkaAssumption DEF TypeOK
  <2>2. QED
    BY <1>1, <2>1 DEF Spend
<1>2. \A h, t, w : ProduceOk(h, t) \/ ProduceError(w, h, t)
                     => faults' = faults \/ \E kind : Spend(kind)
  BY DEF ProduceOk, ProduceError
<1>3. ASSUME NEW p \in Proc, ForwardOk(p) \/ ForwardFails(p) \/ RepublishOk(p) \/ RepublishFails(p)
      PROVE  faults <= faults'
  BY <1>1, <1>2, <1>3 DEF ForwardOk, ForwardFails, RepublishOk, RepublishFails
<1>4. ASSUME NEW m \in Msg, Submit(m) PROVE faults <= faults'
  BY <1>1, <1>2, <1>4 DEF Submit
<1>5. ASSUME NEW p \in Proc, Poll(p) \/ PollNothing(p) \/ Handle(p) \/ ForwardCancelled(p)
                             \/ Commit(p) \/ StopLoop(p)
      PROVE  faults <= faults'
  BY <1>1, <1>5 DEF Poll, PollNothing, Handle, HandleAs, ForwardCancelled, Commit, StopLoop, vars
<1>6. ASSUME NEW w \in Worker, Cancel(w) \/ Crash(w) \/ Restart(w) PROVE faults <= faults'
  BY <1>1, <1>6 DEF Cancel, Crash, Restart
<1>7. ASSUME NEW t \in Loop, NEW w \in Worker, Rebalance(t, w) PROVE faults <= faults'
  BY <1>1, <1>7 DEF Rebalance
<1>8. QED
  BY <1>1, <1>3, <1>4, <1>5, <1>6, <1>7 DEF Next, Step, vars

\* Every attempt to republish after the first follows a fault.
LEMMA AttemptsStep == TypeOK /\ AttemptsCounted /\ [Next]_vars => AttemptsCounted'
<1> SUFFICES ASSUME TypeOK, AttemptsCounted, [Next]_vars PROVE AttemptsCounted'
  OBVIOUS
<1>t. TypeOK'
  BY TypeStep
<1>n. /\ faults \in Nat /\ faults' \in Nat
      /\ \A p \in Proc : attempt[p] \in Nat /\ attempt'[p] \in Nat
  <2>1. faults \in 0 .. MaxFaults /\ faults' \in 0 .. MaxFaults /\ MaxFaults \in Nat
    BY <1>t, KafkaAssumption DEF TypeOK
  <2>2. attempt \in [Proc -> 0 .. Attempts] /\ attempt' \in [Proc -> 0 .. Attempts]
    BY <1>t DEF TypeOK
  <2>3. QED
    BY <2>1, <2>2 DEF Attempts
<1>g. faults <= faults'
  BY FaultsCounted
<1>1. ASSUME \A q \in Proc : pc'[q] = "publish" =>
               \/ pc[q] = "publish" /\ attempt'[q] = attempt[q]
               \/ attempt'[q] <= faults' + 1
      PROVE  AttemptsCounted'
  BY <1>1, <1>g, <1>n DEF AttemptsCounted
<1>2. ASSUME NEW p \in Proc,
             Advance(p) \/ StopBatch(p) \/ \E r \in Route : BeginRepublish(p, r)
      PROVE  AttemptsCounted'
  <2>1. \A q \in Proc : /\ q # p => pc'[q] = pc[q] /\ attempt'[q] = attempt[q]
                        /\ q = p => pc'[q] # "publish" \/ attempt'[q] = 1
    BY <1>2 DEF Advance, StopBatch, BeginRepublish, TypeOK
  <2>2. QED
    BY <1>1, <1>n, <2>1
<1>r. {"Retry", "DLQ"} \subseteq Route
  BY DEF Route
<1>3. ASSUME NEW p \in Proc, Handle(p) \/ ForwardOk(p) \/ ForwardFails(p) \/ ForwardCancelled(p)
                             \/ RepublishOk(p)
      PROVE  AttemptsCounted'
  BY <1>2, <1>3, <1>r, RouteRecordCases
     DEF Handle, HandleAs, ForwardOk, ForwardFails, ForwardCancelled, RepublishOk
<1>4. ASSUME NEW p \in Proc, RepublishFails(p) PROVE AttemptsCounted'
  <2>1. CASE StopBatch(p)
    BY <1>2, <2>1
  <2>2. CASE ~StopBatch(p)
    <3>1. /\ pc[p] = "publish" /\ live[p[1]] /\ pc' = pc
          /\ attempt' = [attempt EXCEPT ![p] = attempt[p] + 1]
          /\ ProduceError(p[1], RepublishHeaders(Current(p), route[p]), DestTopic(route[p]))
      BY <1>4, <2>2 DEF RepublishFails, GivesUp
    <3>2. faults' = faults + 1
      BY <3>1 DEF ProduceError, Spend
    <3>3. \A q \in Proc : attempt'[q] = IF q = p THEN attempt[p] + 1 ELSE attempt[q]
      BY <3>1 DEF TypeOK
    <3>4. attempt'[p] <= faults' + 1
      BY <1>n, <3>1, <3>2, <3>3 DEF AttemptsCounted
    <3>5. QED
      BY <1>1, <3>1, <3>3, <3>4
  <2>3. QED
    BY <2>1, <2>2
<1>5. ASSUME NEW p \in Proc, Poll(p) \/ Commit(p) \/ StopLoop(p) PROVE AttemptsCounted'
  <2>1. attempt' = attempt /\ \E x \in {"handle", "poll", "stopped"} : pc' = [pc EXCEPT ![p] = x]
    BY <1>5 DEF Poll, Commit, StopLoop
  <2>2. \A q \in Proc : pc'[q] = "publish" => pc[q] = "publish"
    BY <2>1 DEF TypeOK
  <2>3. QED
    BY <1>1, <2>1, <2>2
<1>6. ASSUME NEW w \in Worker, Crash(w) \/ Restart(w) PROVE AttemptsCounted'
  <2>1. \A q \in Proc : pc'[q] = "publish" => pc[q] = "publish" /\ attempt'[q] = attempt[q]
    BY <1>6 DEF Crash, Restart
  <2>2. QED
    BY <1>1, <2>1
<1>7. ASSUME pc' = pc, attempt' = attempt PROVE AttemptsCounted'
  BY <1>1, <1>7
<1>8. QED
  BY <1>3, <1>4, <1>5, <1>6, <1>7
     DEF Next, Step, PollNothing, Submit, Rebalance, Cancel, loops, vars

\* In an undisturbed run a running worker's loop never stops its batch.
LEMMA StopStep ==
  ASSUME Undisturbed, TypeOK, AttemptsCounted, Next
  PROVE  KeepsBatch
<1> SUFFICES ASSUME NEW q \in Proc, live[q[1]], Working(q), pc'[q] = "commit", next'[q] = next[q]
             PROVE  FALSE
  BY DEF KeepsBatch, Working
<1>o. \A p \in Proc : pc[p] = "handle" => Current(p).msg \in Msg
  BY CurrentType
<1>r. {"Retry", "DLQ"} \subseteq Route
  BY DEF Route
<1>1. ASSUME NEW p \in Proc,
             Advance(p) \/ StopBatch(p) \/ \E r \in Route : BeginRepublish(p, r)
      PROVE  p = q /\ StopBatch(p)
  <2>1. CASE Advance(p)
    <3>1. next[p] \in Nat /\ \A s \in Proc : /\ s # p => pc'[s] = pc[s]
                                             /\ s = p => next'[s] = next[p] + 1
      BY <2>1 DEF Advance, TypeOK
    <3>2. QED
      BY <3>1 DEF Working
  <2>2. ASSUME NEW r \in Route, BeginRepublish(p, r) PROVE FALSE
    <3>1. \A s \in Proc : pc'[s] = IF s = p THEN "publish" ELSE pc[s]
      BY <2>2 DEF BeginRepublish, TypeOK
    <3>2. QED
      BY <3>1 DEF Working
  <2>3. CASE StopBatch(p)
    BY <2>3 DEF StopBatch, TypeOK, Working
  <2>4. QED
    BY <1>1, <2>1, <2>2, <2>3
<1>2. ASSUME NEW p \in Proc, NEW o, RouteRecord(p, o), pc[p] = "handle",
             o # "cancelled"
      PROVE  FALSE
  <2>1. p = q /\ StopBatch(p)
    BY <1>1, <1>2, <1>r, RouteRecordCases
  <2>2. ~Advance(p) /\ \A r : ~BeginRepublish(p, r)
    BY <2>1, <1>2 DEF StopBatch, Advance, BeginRepublish, TypeOK
  <2>3. KafkaDecideRoute(o, Current(p).rc, Budget(p)) = "Drop"
    BY <1>2, <2>2 DEF RouteRecord
  <2>4. QED
    BY <1>2, <2>3 DEF KafkaDecideRoute
<1>3. ASSUME NEW p \in Proc, NEW o \in Outcome, HandleAs(p, o) PROVE FALSE
  <2>1. pc[p] = "handle" /\ RouteRecord(p, o) /\ o \in Answers(p, Current(p).msg)
    BY <1>3 DEF HandleAs
  <2>2. p = q
    BY <1>1, <1>r, <2>1, RouteRecordCases
  <2>3. o \in Outcomes[Current(p).msg]
    BY <2>1, <2>2 DEF Answers
  <2>4. QED
    BY <1>2, <1>o, <2>1, <2>3 DEF Undisturbed
<1>4. ASSUME NEW p \in Proc, ForwardOk(p) \/ ForwardFails(p) PROVE FALSE
  BY <1>2, <1>4 DEF ForwardOk, ForwardFails
<1>5. ASSUME NEW p \in Proc, ForwardCancelled(p) PROVE FALSE
  BY <1>1, <1>5, <1>r, RouteRecordCases DEF ForwardCancelled
<1>6. ASSUME NEW p \in Proc, RepublishOk(p) PROVE FALSE
  <2>1. Advance(p) /\ p = q
    BY <1>1, <1>6 DEF RepublishOk
  <2>2. next'[p] = next[p] + 1 /\ next[p] \in Nat
    BY <2>1 DEF Advance, TypeOK
  <2>3. QED
    BY <2>1, <2>2
<1>7. ASSUME NEW p \in Proc, RepublishFails(p) PROVE FALSE
  <2>1. pc[p] = "publish" /\ ((GivesUp(p) /\ StopBatch(p)) \/ pc' = pc)
    BY <1>7 DEF RepublishFails
  <2>2. p = q /\ GivesUp(p)
    BY <1>1, <2>1 DEF Working
  <2>3. attempt[p] = 3
    BY <2>2 DEF GivesUp, Attempts
  <2>4. faults \in Nat /\ faults >= 2
    BY <2>1, <2>3, KafkaAssumption DEF AttemptsCounted, TypeOK
  <2>5. Spend("sendFails") \/ Spend("ackLost")
    BY <1>7, <2>2 DEF RepublishFails, ProduceError
  <2>6. QED
    BY <2>4, <2>5, KafkaAssumption DEF Spend, Undisturbed, Attempts
<1>8. ASSUME NEW p \in Proc, Poll(p) \/ Commit(p) \/ StopLoop(p) PROVE FALSE
  <2>1. \E x \in {"handle", "poll", "stopped"} : pc' = [pc EXCEPT ![p] = x]
    BY <1>8 DEF Poll, Commit, StopLoop
  <2>2. QED
    BY <2>1 DEF Working, TypeOK
<1>9. ASSUME NEW w \in Worker, Crash(w) \/ Restart(w) PROVE FALSE
  BY <1>9 DEF Crash, Restart, Working
<1>10. ASSUME pc' = pc PROVE FALSE
  BY <1>10 DEF Working
<1>11. QED
  BY <1>3, <1>4, <1>5, <1>6, <1>7, <1>8, <1>9, <1>10
     DEF Next, Step, PollNothing, Handle, Submit, Rebalance, Cancel, loops, vars

\* Undisturbed runs meet the hypothesis of NothingLost.
THEOREM UndisturbedKeeps == ASSUME Undisturbed PROVE Spec => StopsOnlyToEnd
<1>1. Init => AttemptsCounted
  BY DEF Init, AttemptsCounted
<1>2. TypeOK /\ AttemptsCounted /\ [Next]_vars => [KeepsBatch]_vars
  BY StopStep
<1>3. QED
  BY <1>1, <1>2, TypeInit, TypeStep, AttemptsStep, PTL DEF Spec, StopsOnlyToEnd

\* So they lose no message.
THEOREM UndisturbedLosesNothing == ASSUME Undisturbed PROVE Spec => []NoMessageLost
  BY UndisturbedKeeps, NothingLost, PTL

--------------------------------------------------------------------------------
(* Refinement.  A record past the committed position makes its message       *)
(* pending.  A commit that passes the last one retires a settled message, a  *)
(* produced duplicate or a commit that moves back brings one back.           *)

\* A step after which more, or fewer, messages are uncommitted retires or brings back
\* settled messages.
LEMMA PendingMoves ==
  ASSUME TypeOK, TypeOK', NoMessageLost, NoMessageLost', Provenance, Provenance',
         UNCHANGED <<submitted, done, dlq>>,
         Uncommitted' \subseteq Uncommitted \/ Uncommitted \subseteq Uncommitted'
  PROVE  [Delivery!Next]_(Delivery!vars)
<1>s. settled' = settled
  BY DEF settled
<1>1. Uncommitted \subseteq submitted
  BY UncommittedRecords DEF Provenance, Earned
<1>2. Uncommitted' \subseteq submitted
  <2>1. \A t \in Loop : Len(log'[t]) \in Nat /\ committed'[t] \in Nat
    BY LenProperties DEF TypeOK
  <2>2. \A t \in Loop : \A k \in committed'[t] + 1 .. Len(log'[t]) : k \in 1 .. Len(log'[t])
    BY <2>1
  <2>3. QED
    BY <2>2 DEF Uncommitted, Provenance, Earned
<1>3. submitted \subseteq Msg
  BY DEF TypeOK
<1>4. CASE Uncommitted' \subseteq Uncommitted
  <2>0. (Uncommitted \ Uncommitted') \in SUBSET Msg
    BY <1>1, <1>3
  <2>1. PICK S \in SUBSET Msg : S = Uncommitted \ Uncommitted'
    BY <2>0
  <2>2. S \subseteq settled
    BY <1>1, <1>s, <2>1 DEF NoMessageLost
  <2>3. Uncommitted' = Uncommitted \ S /\ S \subseteq Uncommitted
    BY <1>4, <2>1
  <2>4. Delivery!Retire(S)
    BY <2>2, <2>3 DEF Delivery!Retire, Delivery!settled, settled
  <2>5. QED
    BY <2>4 DEF Delivery!Next
<1>5. CASE Uncommitted \subseteq Uncommitted'
  <2>0. (Uncommitted' \ Uncommitted) \in SUBSET Msg
    BY <1>2, <1>3
  <2>1. PICK S \in SUBSET Msg : S = Uncommitted' \ Uncommitted
    BY <2>0
  <2>2. S \subseteq settled
    BY <1>2, <2>1 DEF NoMessageLost
  <2>3. Uncommitted' = Uncommitted \cup S
    BY <1>5, <2>1
  <2>4. Delivery!Reappear(S)
    BY <2>2, <2>3 DEF Delivery!Reappear, Delivery!settled, settled
  <2>5. QED
    BY <2>4 DEF Delivery!Next
<1>6. QED
  BY <1>4, <1>5

\* An appended record makes its message pending, and no other.
LEMMA AppendedPending ==
  ASSUME TypeOK, TypeOK', NEW h, NEW t \in Loop, Appended(h, t), committed' = committed
  PROVE  Uncommitted' = Uncommitted \cup {h.msg}
<1>1. \A u \in Loop : Len(log[u]) \in Nat /\ committed[u] \in Nat /\ committed[u] <= Len(log[u])
  BY LenProperties DEF TypeOK
<1>2. \A u \in Loop : IF u = t THEN /\ Len(log'[u]) = Len(log[u]) + 1
                                    /\ log'[u][Len(log[u]) + 1].msg = h.msg
                                    /\ \A k \in 1 .. Len(log[u]) : log'[u][k] = log[u][k]
                               ELSE log'[u] = log[u]
  BY DEF Appended, LogGrows
<1>3. ASSUME NEW m PROVE m \in Uncommitted' <=> m \in Uncommitted \/ m = h.msg
  <2>1. m \in Uncommitted' <=> \E u \in Loop : \E k \in committed[u] + 1 .. Len(log'[u]) :
                                 log'[u][k].msg = m
    BY DEF Uncommitted
  <2>2. m \in Uncommitted <=> \E u \in Loop : \E k \in committed[u] + 1 .. Len(log[u]) :
                                log[u][k].msg = m
    BY DEF Uncommitted
  <2>3. ASSUME m \in Uncommitted' PROVE m \in Uncommitted \/ m = h.msg
    <3>1. PICK u \in Loop : \E k \in committed[u] + 1 .. Len(log'[u]) : log'[u][k].msg = m
      BY <2>1, <2>3
    <3>2. PICK k \in committed[u] + 1 .. Len(log'[u]) : log'[u][k].msg = m
      BY <3>1
    <3>3. CASE k <= Len(log[u])
      <4>1. k \in 1 .. Len(log[u]) /\ k \in committed[u] + 1 .. Len(log[u])
        BY <1>1, <3>3
      <4>2. log'[u][k] = log[u][k]
        BY <1>2, <4>1
      <4>3. QED
        BY <2>2, <3>2, <4>1, <4>2
    <3>4. CASE ~(k <= Len(log[u]))
      <4>1. u = t /\ k = Len(log[u]) + 1
        BY <1>1, <1>2, <3>4
      <4>2. QED
        BY <1>2, <3>2, <4>1
    <3>5. QED
      BY <3>3, <3>4
  <2>4. ASSUME m \in Uncommitted PROVE m \in Uncommitted'
    <3>1. PICK u \in Loop : \E k \in committed[u] + 1 .. Len(log[u]) : log[u][k].msg = m
      BY <2>2, <2>4
    <3>2. PICK k \in committed[u] + 1 .. Len(log[u]) : log[u][k].msg = m
      BY <3>1
    <3>3. k \in 1 .. Len(log[u])
      BY <1>1
    <3>4. k \in committed[u] + 1 .. Len(log'[u]) /\ log'[u][k] = log[u][k]
      BY <1>1, <1>2, <3>3
    <3>5. QED
      BY <2>1, <3>2, <3>4
  <2>5. ASSUME m = h.msg PROVE m \in Uncommitted'
    <3>1. Len(log[t]) + 1 \in committed[t] + 1 .. Len(log'[t]) /\ log'[t][Len(log[t]) + 1].msg = m
      BY <1>1, <1>2, <2>5
    <3>2. QED
      BY <2>1, <3>1
  <2>6. QED
    BY <2>3, <2>4, <2>5
<1>4. QED
  BY <1>3

\* Every step that loses nothing is a step of MessageDelivery or a stutter.
LEMMA DeliveryStep ==
  /\ TypeOK /\ TypeOK' /\ NoMessageLost /\ NoMessageLost' /\ Provenance /\ Provenance'
  /\ [Next]_vars
  => [Delivery!Next]_(Delivery!vars)
<1> SUFFICES ASSUME TypeOK, TypeOK', NoMessageLost, NoMessageLost', Provenance, Provenance',
                    [Next]_vars
             PROVE  [Delivery!Next]_(Delivery!vars)
  OBVIOUS
<1>c. ASSUME NEW p \in Proc, pc[p] \in {"handle", "publish"}
      PROVE  Current(p) \in Rec /\ Current(p).msg \in Msg /\ Current(p).msg \in submitted
  BY <1>c, CurrentType DEF Current, Provenance, Earned
<1>d. \A r : DestTopic(r) \in Loop \cup {"dlq"}
  BY DEF DestTopic, Loop
<1>1. ASSUME NEW m \in Msg, Submit(m) PROVE Delivery!Next
  <2> DEFINE h == [msg |-> m, rc |-> 0, reason |-> FALSE]
  <2>1. h \in Headers /\ h.msg = m /\ "main" \in Loop /\ Produce(h, "main")
    BY <1>1 DEF Headers, Loop, Submit, ProduceOk
  <2> HIDE DEF h
  <2>2. dlq' = dlq /\ Appended(h, "main")
    BY <2>1, ProduceEffect DEF Appended, Loop
  <2>3. m \notin submitted /\ submitted' = submitted \cup {m} /\ UNCHANGED <<committed, done>>
    BY <1>1 DEF Submit
  <2>4. Uncommitted' = Uncommitted \cup {m}
    BY <2>1, <2>2, <2>3, AppendedPending
  <2>5. Delivery!Submit(m)
    BY <2>2, <2>3, <2>4 DEF Delivery!Submit
  <2>6. QED
    BY <2>5 DEF Delivery!Next
<1>2. ASSUME NEW p \in Proc, NEW o \in Outcome, HandleAs(p, o)
      PROVE  [Delivery!Next]_(Delivery!vars)
  <2>1. /\ pc[p] = "handle" /\ UNCHANGED <<log, committed, dlq, submitted>>
        /\ done' = done \/ done' = done \cup {Current(p).msg}
    BY <1>2 DEF HandleAs, NoteOutcome, topics
  <2>2. Uncommitted' = Uncommitted
    BY <2>1 DEF Uncommitted
  <2>3. PICK m \in Msg : m = Current(p).msg /\ m \in submitted
    BY <1>c, <2>1
  <2>4. CASE done' = done
    BY <2>1, <2>2, <2>4 DEF Delivery!vars
  <2>5. CASE done' = done \cup {m}
    <3>1. Delivery!Succeed(m)
      BY <2>1, <2>2, <2>3, <2>5 DEF Delivery!Succeed
    <3>2. QED
      BY <3>1 DEF Delivery!Next
  <2>6. QED
    BY <2>1, <2>3, <2>4, <2>5
<1>3. ASSUME NEW m \in submitted, NEW h \in Headers, h.msg = m, NEW t \in Loop \cup {"dlq"},
             NEW w, ProduceOk(h, t) \/ ProduceError(w, h, t),
             UNCHANGED <<committed, submitted, done>>
      PROVE  [Delivery!Next]_(Delivery!vars)
  <2>1. m \in Msg
    BY DEF TypeOK
  <2>2. CASE t = "dlq" /\ log' = log /\ dlq' = dlq \cup {h.msg}
    <3>1. Uncommitted' = Uncommitted
      BY <1>3, <2>2 DEF Uncommitted
    <3>2. Delivery!DeadLetter(m)
      BY <1>3, <2>2, <3>1 DEF Delivery!DeadLetter
    <3>3. QED
      BY <2>1, <3>2 DEF Delivery!Next
  <2>3. CASE t \in Loop /\ Appended(h, t)
    <3>1. Uncommitted \subseteq Uncommitted' /\ dlq' = dlq
      BY <1>3, <2>3, AppendedPending DEF Appended
    <3>2. QED
      BY <1>3, <3>1, PendingMoves
  <2>4. CASE UNCHANGED <<log, dlq>>
    BY <1>3, <2>4 DEF Delivery!vars, Uncommitted
  <2>5. QED
    BY <1>3, <2>2, <2>3, <2>4, ProduceEffect DEF ProduceOk, ProduceError
<1>4. ASSUME NEW p \in Proc, ForwardOk(p) \/ ForwardFails(p)
      PROVE  [Delivery!Next]_(Delivery!vars)
  <2>1. /\ pc[p] = "handle" /\ UNCHANGED <<committed, submitted, done>>
        /\ \/ ProduceOk(ForwardHeaders(Current(p)), "main")
           \/ ProduceError(p[1], ForwardHeaders(Current(p)), "main")
    BY <1>4 DEF ForwardOk, ForwardFails, history
  <2>2. PICK m \in submitted : m = Current(p).msg
    BY <1>c, <2>1
  <2>3. ForwardHeaders(Current(p)) \in Headers /\ ForwardHeaders(Current(p)).msg = m
    BY <1>c, <2>1, <2>2, HeadersType
  <2>4. QED
    BY <1>3, <2>1, <2>3 DEF Loop
<1>5. ASSUME NEW p \in Proc, RepublishOk(p) \/ RepublishFails(p)
      PROVE  [Delivery!Next]_(Delivery!vars)
  <2>1. /\ pc[p] = "publish" /\ UNCHANGED <<committed, submitted, done>>
        /\ \/ ProduceOk(RepublishHeaders(Current(p), route[p]), DestTopic(route[p]))
           \/ ProduceError(p[1], RepublishHeaders(Current(p), route[p]), DestTopic(route[p]))
    BY <1>5 DEF RepublishOk, RepublishFails, history
  <2>2. PICK m \in submitted : m = Current(p).msg
    BY <1>c, <2>1
  <2>3. /\ RepublishHeaders(Current(p), route[p]) \in Headers
        /\ RepublishHeaders(Current(p), route[p]).msg = m
    BY <1>c, <2>1, <2>2, HeadersType
  <2>4. QED
    BY <1>3, <1>d, <2>1, <2>3
<1>6. ASSUME NEW p \in Proc, Commit(p) PROVE [Delivery!Next]_(Delivery!vars)
  <2>1. /\ UNCHANGED <<log, dlq, submitted, done>>
        /\ committed' = committed \/ committed' = [committed EXCEPT ![p[2]] = next[p] - 1]
    BY <1>6 DEF Commit, history
  <2>2. \A t \in Loop : /\ t # p[2] => committed'[t] = committed[t]
                        /\ committed'[t] \in Nat /\ committed[t] \in Nat /\ Len(log[t]) \in Nat
    BY <2>1, LenProperties DEF TypeOK
  <2>3. p[2] \in Loop
    BY DEF Proc
  <2>4. CASE committed'[p[2]] <= committed[p[2]]
    <3>1. \A t \in Loop : committed[t] + 1 .. Len(log[t]) \subseteq committed'[t] + 1 .. Len(log[t])
      BY <2>2, <2>4
    <3>2. Uncommitted \subseteq Uncommitted'
      BY <2>1, <3>1 DEF Uncommitted
    <3>3. QED
      BY <2>1, <3>2, PendingMoves
  <2>5. CASE committed[p[2]] <= committed'[p[2]]
    <3>1. \A t \in Loop : committed'[t] + 1 .. Len(log[t]) \subseteq committed[t] + 1 .. Len(log[t])
      BY <2>2, <2>5
    <3>2. Uncommitted' \subseteq Uncommitted
      BY <2>1, <3>1 DEF Uncommitted
    <3>3. QED
      BY <2>1, <3>2, PendingMoves
  <2>6. QED
    BY <2>2, <2>3, <2>4, <2>5
<1>7. ASSUME UNCHANGED <<log, committed, submitted, done, dlq>>
      PROVE  UNCHANGED Delivery!vars
  BY <1>7 DEF Delivery!vars, Uncommitted
<1>8. QED
  BY <1>1, <1>2, <1>4, <1>5, <1>6, <1>7
     DEF Next, Step, PollNothing, Handle, Rebalance, Poll, ForwardCancelled, StopLoop, Cancel,
         Crash, Restart, topics, history, vars

\* As long as workers stop their batches only to end, the Kafka loops implement
\* at-least-once delivery with a dead-letter queue.
THEOREM KafkaImplementsDelivery == Spec /\ StopsOnlyToEnd => ImplementsDelivery
<1>1. Init => Delivery!Init
  <2>1. Init => \A t \in Loop : Len(log[t]) = 0 /\ committed[t] = 0
    BY DEF Init
  <2>2. Init => Uncommitted = {}
    BY <2>1 DEF Uncommitted
  <2>3. QED
    BY <2>2 DEF Init, Delivery!Init
<1>2. Init => TypeOK /\ AllKept /\ Provenance
  BY TypeInit, KeptInit, ProvenanceInit
<1>3. QED
  BY <1>1, <1>2, TypeStep, ProvenanceStep, KeptStep, KeptNotLost, DeliveryStep, PTL
     DEF Spec, StopsOnlyToEnd, ImplementsDelivery, Delivery!Spec


\* So they implement at-least-once delivery with a dead-letter queue.
THEOREM UndisturbedImplements == ASSUME Undisturbed PROVE Spec => ImplementsDelivery
  BY UndisturbedKeeps, KafkaImplementsDelivery, PTL

--------------------------------------------------------------------------------
(* Conservation.  Before the first failure every loop runs, the one that     *)
(* works owns its partition and has fetched to the end of its batch, and a   *)
(* message has at most one record left to process, none once it is settled.  *)
(* That none is left of a message that is not settled takes StopsOnlyToEnd.   *)

Left(t, k) == k \in Processed(t) + 1 .. Len(log[t])

AllRun == \A p \in Proc : live[p[1]] /\ pc[p] # "stopped"

InTurn == \A p \in Proc : Active(p) => owner[p[2]] = p[1] /\ position[p[2]] = last[p]

LeftOnce == \A t, u \in Loop : \A k \in 1 .. Len(log[t]), l \in 1 .. Len(log[u]) :
              Left(t, k) /\ Left(u, l) /\ log[t][k].msg = log[u][l].msg => t = u /\ k = l

LeftUnsettled == \A t \in Loop : \A k \in 1 .. Len(log[t]) : Left(t, k) => log[t][k].msg \notin settled

Orderly == AllRun /\ InTurn /\ LeftOnce /\ LeftUnsettled /\ done \cap dlq = {}

\* Processed is a place in the log.
LEMMA ProcessedPlace ==
  ASSUME TypeOK, NEW t \in Loop
  PROVE  Processed(t) \in Nat /\ Processed(t) <= Len(log[t]) /\ Len(log[t]) \in Nat
<1>1. owner[t] \in Worker /\ Len(log[t]) \in Nat
  BY LenProperties DEF TypeOK
<1>2. PICK p \in Proc : p = <<owner[t], t>>
  BY <1>1 DEF Proc
<1>3. next[p] \in Nat /\ first[p] \in Nat /\ last[p] \in Nat /\ position[t] \in Nat
      /\ position[t] <= Len(log[t])
      /\ next[p] >= first[p] + 1 /\ last[p] <= Len(log[t])
      /\ (pc[p] \in {"handle", "publish"} => next[p] <= last[p])
  BY <1>2 DEF TypeOK
<1>4. Processed(t) = IF pc[p] \in {"handle", "publish"} THEN next[p] - 1 ELSE position[t]
  BY <1>2 DEF Processed
<1>5. QED
  BY <1>1, <1>3, <1>4

\* The loops stay in turn, and all of them run, until the first failure.
LEMMA InTurnStep ==
  TypeOK /\ AllRun /\ InTurn /\ [Next]_vars /\ faults = 0 /\ faults' = 0 => AllRun' /\ InTurn'
<1> SUFFICES ASSUME TypeOK, AllRun, InTurn, [Next]_vars, faults = 0, faults' = 0
             PROVE  AllRun' /\ InTurn'
  OBVIOUS
<1>p. \A p \in Proc : p[1] \in Worker /\ p[2] \in Loop /\ p = <<p[1], p[2]>>
  BY DEF Proc
<1>r. {"Retry", "DLQ"} \subseteq Route
  BY DEF Route
<1>s. \A kind : ~Spend(kind)
  BY DEF Spend
<1>1. ASSUME NEW p \in Proc, Working(p),
             \/ Advance(p) \/ StopBatch(p) \/ \E r \in Route : BeginRepublish(p, r)
             \/ UNCHANGED <<pc, next, last>>,
             UNCHANGED <<position, owner, live>>
      PROVE  AllRun' /\ InTurn'
  <2>1. CASE Advance(p)
    <3>1. \A q \in Proc : /\ last'[q] = last[q]
                          /\ next'[q] = IF q = p THEN next[p] + 1 ELSE next[q]
                          /\ pc'[q] = IF q = p THEN IF next[p] = last[p] THEN "commit" ELSE "handle"
                                               ELSE pc[q]
      BY <2>1 DEF Advance, TypeOK
    <3>2. QED
      BY <1>1, <3>1 DEF AllRun, InTurn, Active, Working
  <2>2. CASE StopBatch(p)
    <3>1. last' = last /\ \A q \in Proc : pc'[q] = IF q = p THEN "commit" ELSE pc[q]
      BY <2>2 DEF StopBatch, TypeOK
    <3>2. QED
      BY <1>1, <3>1 DEF AllRun, InTurn, Active, Working
  <2>3. ASSUME NEW r \in Route, BeginRepublish(p, r) PROVE AllRun' /\ InTurn'
    <3>1. UNCHANGED <<next, last>> /\ \A q \in Proc : pc'[q] = IF q = p THEN "publish" ELSE pc[q]
      BY <2>3 DEF BeginRepublish, TypeOK
    <3>2. QED
      BY <1>1, <3>1 DEF AllRun, InTurn, Active, Working
  <2>4. CASE UNCHANGED <<pc, next, last>>
    BY <1>1, <2>4 DEF AllRun, InTurn, Active
  <2>5. QED
    BY <1>1, <2>1, <2>2, <2>3, <2>4
<1>2. ASSUME UNCHANGED <<position, owner, live, pc, next, last>> PROVE AllRun' /\ InTurn'
  BY <1>2 DEF AllRun, InTurn, Active
<1>3. ASSUME NEW t \in Loop, NEW w \in Worker, Rebalance(t, w) PROVE FALSE
  <2>1. owner[t] \in Worker
    BY DEF TypeOK
  <2>2. QED
    BY <1>3, <1>s, <2>1 DEF Rebalance, AllRun, Proc
<1>4. ASSUME NEW p \in Proc, Poll(p) PROVE AllRun' /\ InTurn'
  <2>1. PICK n \in 1 .. FetchLimit :
          /\ position' = [position EXCEPT ![p[2]] = position[p[2]] + n]
          /\ next' = [next EXCEPT ![p] = position[p[2]] + 1]
          /\ last' = [last EXCEPT ![p] = position[p[2]] + n]
    BY <1>4 DEF Poll
  <2>2. /\ owner[p[2]] = p[1] /\ pc[p] = "poll"
        /\ pc' = [pc EXCEPT ![p] = "handle"] /\ UNCHANGED <<owner, live>>
    BY <1>4 DEF Poll
  <2>3. \A q \in Proc : /\ pc'[q] = IF q = p THEN "handle" ELSE pc[q]
                        /\ last'[q] = IF q = p THEN position[p[2]] + n ELSE last[q]
                        /\ q # p => next'[q] = next[q]
    BY <2>1, <2>2 DEF TypeOK
  <2>4. \A u \in Loop : position'[u] = IF u = p[2] THEN position[u] + n ELSE position[u]
    BY <2>1 DEF TypeOK
  <2>5. \A q \in Proc : q[2] = p[2] /\ Active(q) => q = p
    BY <1>p, <2>2 DEF InTurn
  <2>6. QED
    BY <1>p, <2>2, <2>3, <2>4, <2>5 DEF AllRun, InTurn, Active
<1>5. ASSUME NEW p \in Proc, Commit(p) PROVE AllRun' /\ InTurn'
  <2>1. /\ UNCHANGED <<position, owner, live, next, last>>
        /\ \A q \in Proc : pc'[q] = IF q = p THEN "poll" ELSE pc[q]
    BY <1>5 DEF Commit, TypeOK
  <2>2. QED
    BY <2>1 DEF AllRun, InTurn, Active
<1>6. ASSUME NEW p \in Proc, ForwardCancelled(p) \/ StopLoop(p) PROVE FALSE
  BY <1>6 DEF ForwardCancelled, StopLoop, AllRun
<1>7. ASSUME NEW w \in Worker, Cancel(w) \/ Crash(w) \/ Restart(w) PROVE FALSE
  <2>1. <<w, "main">> \in ProcsOf(w) /\ <<w, "main">> \in Proc
    BY DEF ProcsOf, Proc, Loop
  <2>2. QED
    BY <1>7, <1>s, <2>1 DEF Cancel, Crash, Restart, AllRun
<1>8. ASSUME NEW p \in Proc,
             Handle(p) \/ ForwardOk(p) \/ ForwardFails(p) \/ RepublishOk(p) \/ RepublishFails(p)
      PROVE  AllRun' /\ InTurn'
  <2>1. Working(p) /\ UNCHANGED <<position, owner, live>>
    BY <1>8 DEF Handle, HandleAs, ForwardOk, ForwardFails, RepublishOk, RepublishFails, Working, topics
  <2>2. \/ Advance(p) \/ StopBatch(p) \/ \E r \in Route : BeginRepublish(p, r)
        \/ UNCHANGED <<pc, next, last>>
    BY <1>8, <1>r, RouteRecordCases
       DEF Handle, HandleAs, ForwardOk, ForwardFails, RepublishOk, RepublishFails
  <2>3. QED
    BY <1>1, <1>8, <2>1, <2>2
<1>9. QED
  BY <1>2, <1>3, <1>4, <1>5, <1>6, <1>7, <1>8
     DEF Next, Step, PollNothing, Submit, loops, vars


\* No record is added and no loop moves: the same records are left.
LEMMA LeftSame ==
  ASSUME LeftOnce, LeftUnsettled, log' = log, settled' = settled,
         \A t \in Loop : Processed(t)' = Processed(t)
  PROVE  LeftOnce' /\ LeftUnsettled'
  BY DEF LeftOnce, LeftUnsettled, Left

\* A loop is done with its record, whose message is settled with it.
LEMMA LeftSettled ==
  ASSUME TypeOK, LeftOnce, LeftUnsettled, log' = log, NEW t \in Loop,
         NEW k \in 1 .. Len(log[t]), Processed(t) = k - 1, Processed(t)' = k,
         \A u \in Loop \ {t} : Processed(u)' = Processed(u),
         settled' = settled \cup {log[t][k].msg}
  PROVE  LeftOnce' /\ LeftUnsettled'
<1>1. \A u \in Loop : Processed(u) \in Nat /\ Len(log[u]) \in Nat
  BY ProcessedPlace
<1>2. Left(t, k)
  BY <1>1 DEF Left
<1>3. \A u \in Loop : \A l \in 1 .. Len(log[u]) : Left(u, l)' => Left(u, l) /\ (u # t \/ l # k)
  BY <1>1 DEF Left
<1>4. LeftOnce'
  BY <1>3 DEF LeftOnce
<1>5. LeftUnsettled'
  BY <1>2, <1>3 DEF LeftOnce, LeftUnsettled
<1>6. QED
  BY <1>4, <1>5

\* A record is appended whose message has no other left.
LEMMA LeftAppended ==
  ASSUME TypeOK, LeftOnce, LeftUnsettled, NEW h, NEW t \in Loop, Appended(h, t),
         settled' = settled, h.msg \notin settled,
         \A u \in Loop : Processed(u) <= Processed(u)',
         \A u \in Loop : Processed(u)' \in Nat,
         \A u \in Loop : \A l \in 1 .. Len(log[u]) : Left(u, l)' => log[u][l].msg # h.msg
  PROVE  LeftOnce' /\ LeftUnsettled'
<1>1. \A u \in Loop : Processed(u) \in Nat /\ Len(log[u]) \in Nat
  BY ProcessedPlace
<1>2. PICK n \in Nat : n = Len(log[t]) + 1
  BY <1>1
<1>3. /\ Len(log'[t]) = n /\ log'[t][n].msg = h.msg
      /\ \A u \in Loop \ {t} : log'[u] = log[u]
      /\ \A u \in Loop : \A l \in 1 .. Len(log[u]) : log'[u][l] = log[u][l]
  BY <1>1, <1>2 DEF Appended, LogGrows
<1>4. \A u \in Loop : \A l \in 1 .. Len(log'[u]) :
        (l \in 1 .. Len(log[u]) /\ log'[u][l] = log[u][l]) \/ (u = t /\ l = n)
  BY <1>1, <1>2, <1>3
<1>5. \A u \in Loop : \A l \in 1 .. Len(log[u]) : Left(u, l)' => Left(u, l)
  <2>1. ASSUME NEW u \in Loop, NEW l \in 1 .. Len(log[u]), Left(u, l)' PROVE Left(u, l)
    BY <1>1, <2>1 DEF Left
  <2>2. QED
    BY <2>1
<1>6. LeftUnsettled'
  BY <1>3, <1>4, <1>5 DEF LeftUnsettled
<1>7. ASSUME NEW u \in Loop, NEW v \in Loop, NEW k \in 1 .. Len(log'[u]), NEW l \in 1 .. Len(log'[v]),
             Left(u, k)', Left(v, l)', log'[u][k].msg = log'[v][l].msg
      PROVE  u = v /\ k = l
  <2>1. CASE (u = t /\ k = n) /\ (v = t /\ l = n)
    BY <2>1
  <2>2. CASE (u = t /\ k = n) /\ (l \in 1 .. Len(log[v]) /\ log'[v][l] = log[v][l])
    BY <1>3, <1>7, <2>2
  <2>3. CASE (k \in 1 .. Len(log[u]) /\ log'[u][k] = log[u][k]) /\ (v = t /\ l = n)
    BY <1>3, <1>7, <2>3
  <2>4. CASE /\ k \in 1 .. Len(log[u]) /\ log'[u][k] = log[u][k]
             /\ l \in 1 .. Len(log[v]) /\ log'[v][l] = log[v][l]
    BY <1>5, <1>7, <2>4 DEF LeftOnce
  <2>5. QED
    BY <1>4, <2>1, <2>2, <2>3, <2>4
<1>8. QED
  BY <1>6, <1>7 DEF LeftOnce

\* A loop in turn that advances has processed one record more, and no other loop has.
LEMMA AdvanceProcessed ==
  ASSUME TypeOK, TypeOK', AllRun, InTurn, NEW p \in Proc, Working(p), Advance(p),
         UNCHANGED <<position, owner>>
  PROVE  /\ Processed(p[2]) = next[p] - 1 /\ Processed(p[2])' = next[p]
         /\ \A u \in Loop \ {p[2]} : Processed(u)' = Processed(u)
<1>1. \A q \in Proc : /\ next'[q] = IF q = p THEN next[p] + 1 ELSE next[q]
                      /\ pc'[q] = IF q = p THEN IF next[p] = last[p] THEN "commit" ELSE "handle"
                                           ELSE pc[q]
                      /\ next[q] \in Nat
  BY DEF Advance, TypeOK
<1>2. p = <<owner[p[2]], p[2]>> /\ p[2] \in Loop /\ position[p[2]] = last[p]
  BY DEF InTurn, Active, Working, Proc
<1>3. Processed(p[2]) = next[p] - 1
  BY <1>2 DEF Processed, Working
<1>4. Processed(p[2])' = next[p]
  <2>1. Processed(p[2])' = IF pc'[p] \in {"handle", "publish"} THEN next'[p] - 1 ELSE position[p[2]]
    BY <1>2 DEF Processed
  <2>2. QED
    BY <1>1, <1>2, <2>1
<1>5. ASSUME NEW u \in Loop, u # p[2] PROVE Processed(u)' = Processed(u)
  <2>1. owner[u] \in Worker
    BY DEF TypeOK
  <2>2. PICK q \in Proc : q = <<owner[u], u>>
    BY <2>1 DEF Proc
  <2>3. q # p
    BY <1>5, <2>2
  <2>4. Processed(u) = IF pc[q] \in {"handle", "publish"} THEN next[q] - 1 ELSE position[u]
    BY <2>2 DEF Processed
  <2>5. Processed(u)' = IF pc'[q] \in {"handle", "publish"} THEN next'[q] - 1 ELSE position[u]
    BY <2>2 DEF Processed
  <2>6. QED
    BY <1>1, <2>3, <2>4, <2>5
<1>6. QED
  BY <1>3, <1>4, <1>5

\* A poll moves the fetch position, not the place where the loop stands.
LEMMA PollProcessed ==
  ASSUME TypeOK, NEW p \in Proc, Poll(p)
  PROVE  \A u \in Loop : Processed(u)' = Processed(u)
<1>1. PICK n \in 1 .. FetchLimit :
        /\ position' = [position EXCEPT ![p[2]] = position[p[2]] + n]
        /\ next' = [next EXCEPT ![p] = position[p[2]] + 1]
  BY DEF Poll
<1>2. /\ owner[p[2]] = p[1] /\ p = <<p[1], p[2]>> /\ pc[p] = "poll"
      /\ pc' = [pc EXCEPT ![p] = "handle"] /\ owner' = owner
  BY DEF Poll, Proc
<1>3. \A q \in Proc : /\ pc'[q] = IF q = p THEN "handle" ELSE pc[q]
                      /\ next'[q] = IF q = p THEN position[p[2]] + 1 ELSE next[q]
  BY <1>1, <1>2 DEF TypeOK
<1>4. \A u \in Loop : u # p[2] => position'[u] = position[u]
  BY <1>1 DEF TypeOK
<1>5. ASSUME NEW u \in Loop PROVE Processed(u)' = Processed(u)
  <2>1. PICK q \in Proc : q = <<owner[u], u>>
    BY DEF TypeOK, Proc
  <2>2. Processed(u) = IF pc[q] \in {"handle", "publish"} THEN next[q] - 1 ELSE position[u]
    BY <2>1 DEF Processed
  <2>3. Processed(u)' = IF pc'[q] \in {"handle", "publish"} THEN next'[q] - 1 ELSE position'[u]
    BY <1>2, <2>1 DEF Processed
  <2>4. CASE q = p
    <3>1. p[2] = u /\ position[u] \in Nat
      BY <2>1, <2>4 DEF TypeOK
    <3>2. Processed(u) = position[u] /\ Processed(u)' = position[u] + 1 - 1
      BY <1>2, <1>3, <2>2, <2>3, <2>4, <3>1
    <3>3. QED
      BY <3>1, <3>2
  <2>5. CASE q # p
    BY <1>2, <1>3, <1>4, <2>1, <2>2, <2>3, <2>5
  <2>6. QED
    BY <2>4, <2>5
<1>6. QED
  BY <1>5

\* A loop in turn that stops its batch leaves the rest of it behind.
LEMMA StopProcessed ==
  ASSUME TypeOK, AllRun, InTurn, NEW p \in Proc, Working(p), StopBatch(p),
         UNCHANGED <<position, owner>>
  PROVE  \A u \in Loop : Processed(u) <= Processed(u)' /\ Processed(u)' \in Nat
<1>1. next' = next /\ \A q \in Proc : pc'[q] = IF q = p THEN "commit" ELSE pc[q]
  BY DEF StopBatch, TypeOK
<1>2. ASSUME NEW u \in Loop PROVE Processed(u) <= Processed(u)' /\ Processed(u)' \in Nat
  <2>1. owner[u] \in Worker
    BY DEF TypeOK
  <2>2. PICK q \in Proc : q = <<owner[u], u>>
    BY <2>1 DEF Proc
  <2>3. Processed(u) = IF pc[q] \in {"handle", "publish"} THEN next[q] - 1 ELSE position[u]
    BY <2>2 DEF Processed
  <2>4. Processed(u)' = IF pc'[q] \in {"handle", "publish"} THEN next[q] - 1 ELSE position[u]
    BY <1>1, <2>2 DEF Processed
  <2>5. /\ position[u] \in Nat /\ first[q] \in Nat /\ next[q] \in Nat /\ first[q] + 1 <= next[q]
        /\ pc[q] \in {"handle", "publish"} => next[q] <= last[q] /\ position[u] = last[q]
    <3>1. q[2] = u
      BY <2>2
    <3>2. pc[q] \in {"handle", "publish"} => position[u] = last[q]
      BY <3>1 DEF InTurn, Active
    <3>3. QED
      BY <3>2 DEF TypeOK
  <2>6. last[q] \in Nat
    BY DEF TypeOK
  <2>7. CASE pc[q] \in {"handle", "publish"}
    BY <2>3, <2>4, <2>5, <2>6, <2>7
  <2>8. CASE pc[q] \notin {"handle", "publish"}
    <3>1. pc'[q] \notin {"handle", "publish"}
      BY <1>1, <2>8
    <3>2. QED
      BY <2>3, <2>4, <2>5, <2>8, <3>1
  <2>9. QED
    BY <2>7, <2>8
<1>3. QED
  BY <1>2

\* Then no record is left that was not left before.
LEMMA LeftFewer ==
  ASSUME TypeOK, LeftOnce, LeftUnsettled, log' = log, settled' = settled,
         \A t \in Loop : Processed(t) <= Processed(t)' /\ Processed(t)' \in Nat
  PROVE  LeftOnce' /\ LeftUnsettled'
<1>1. \A t \in Loop : Processed(t) \in Nat /\ Processed(t)' \in Nat /\ Len(log[t]) \in Nat
  BY ProcessedPlace
<1>2. \A t \in Loop : \A k \in 1 .. Len(log[t]) : Left(t, k)' => Left(t, k)
  BY <1>1 DEF Left
<1>3. QED
  BY <1>2 DEF LeftOnce, LeftUnsettled

\* The record a loop in turn works on is left.
LEMMA CurrentLeft ==
  ASSUME TypeOK, InTurn, NEW p \in Proc, Working(p)
  PROVE  /\ p[2] \in Loop /\ next[p] \in 1 .. Len(log[p[2]]) /\ Left(p[2], next[p])
         /\ Current(p) = log[p[2]][next[p]]
<1>1. p = <<owner[p[2]], p[2]>> /\ p[2] \in Loop
  BY DEF InTurn, Active, Working, Proc
<1>2. Processed(p[2]) = next[p] - 1
  BY <1>1 DEF Processed, Working
<1>3. next[p] \in 1 .. Len(log[p[2]]) /\ Len(log[p[2]]) \in Nat
  BY <1>1, CurrentType, LenProperties DEF Working, TypeOK
<1>4. QED
  BY <1>1, <1>2, <1>3 DEF Left, Current

\* A loop that publishes its record elsewhere and advances leaves one record in its place.
LEMMA LeftMoved ==
  ASSUME TypeOK, TypeOK', AllRun, InTurn, LeftOnce, LeftUnsettled, NEW p \in Proc, Working(p),
         Advance(p), UNCHANGED <<position, owner>>, settled' = settled,
         NEW h, NEW t \in Loop, Appended(h, t), h.msg = Current(p).msg
  PROVE  LeftOnce' /\ LeftUnsettled'
<1>1. /\ Processed(p[2]) = next[p] - 1 /\ Processed(p[2])' = next[p]
      /\ \A u \in Loop \ {p[2]} : Processed(u)' = Processed(u)
  BY AdvanceProcessed
<1>2. /\ p[2] \in Loop /\ next[p] \in 1 .. Len(log[p[2]]) /\ Left(p[2], next[p])
      /\ h.msg = log[p[2]][next[p]].msg
  BY CurrentLeft
<1>3. \A u \in Loop : Processed(u) \in Nat /\ Len(log[u]) \in Nat
  BY ProcessedPlace
<1>4. next[p] \in Nat
  BY DEF TypeOK
<1>5. \A u \in Loop : Processed(u) <= Processed(u)' /\ Processed(u)' \in Nat
  BY <1>1, <1>3, <1>4
<1>6. ASSUME NEW u \in Loop, NEW l \in 1 .. Len(log[u]), Left(u, l)' PROVE log[u][l].msg # h.msg
  <2>1. Processed(u)' < l
    BY <1>5, <1>6 DEF Left
  <2>2. Left(u, l)
    BY <1>3, <1>5, <2>1 DEF Left
  <2>3. u # p[2] \/ l # next[p]
    BY <1>1, <1>4, <2>1
  <2>4. QED
    BY <1>2, <2>2, <2>3 DEF LeftOnce
<1>7. h.msg \notin settled
  BY <1>2 DEF LeftUnsettled
<1>8. QED
  BY <1>5, <1>6, <1>7, LeftAppended

\* Until the first failure every step keeps every message in one place.
LEMMA OrderlyStep ==
  TypeOK /\ Provenance /\ Orderly /\ [Next]_vars /\ faults = 0 /\ faults' = 0 => Orderly'
<1> SUFFICES ASSUME TypeOK, Provenance, Orderly, [Next]_vars, faults = 0, faults' = 0
             PROVE  Orderly'
  OBVIOUS
<1>t. TypeOK'
  BY TypeStep
<1>o. AllRun /\ InTurn /\ LeftOnce /\ LeftUnsettled /\ done \cap dlq = {}
  BY DEF Orderly
<1>i. AllRun' /\ InTurn'
  BY <1>o, InTurnStep
<1>p. \A p \in Proc : p[1] \in Worker /\ p[2] \in Loop /\ p = <<p[1], p[2]>>
  BY DEF Proc
<1>w. \A u \in Loop : owner[u] \in Worker /\ <<owner[u], u>> \in Proc
  BY DEF TypeOK, Proc
<1>r. {"Retry", "DLQ"} \subseteq Route
  BY DEF Route
<1>s. \A kind : ~Spend(kind)
  BY DEF Spend
<1>1. ASSUME UNCHANGED <<log, dlq, done>>, \A u \in Loop : Processed(u)' = Processed(u)
      PROVE  Orderly'
  BY <1>1, <1>i, <1>o, LeftSame DEF Orderly, settled
<1>2. ASSUME UNCHANGED <<log, dlq, done, position, owner, next>>,
             \A q \in Proc : Working(q)' <=> Working(q)
      PROVE  Orderly'
  BY <1>1, <1>2, <1>w DEF Processed, Working
<1>3. ASSUME NEW p \in Proc, NEW r \in Route, BeginRepublish(p, r), Working(p),
             UNCHANGED <<log, dlq, done, position, owner>>
      PROVE  Orderly'
  <2>1. next' = next /\ \A q \in Proc : pc'[q] = IF q = p THEN "publish" ELSE pc[q]
    BY <1>3 DEF BeginRepublish, TypeOK
  <2>2. QED
    BY <1>2, <1>3, <2>1 DEF Working
<1>4. ASSUME NEW p \in Proc, Working(p), StopBatch(p), UNCHANGED <<log, dlq, done, position, owner>>
      PROVE  Orderly'
  <2>1. \A u \in Loop : Processed(u) <= Processed(u)' /\ Processed(u)' \in Nat
    BY <1>4, <1>o, StopProcessed
  <2>2. LeftOnce' /\ LeftUnsettled'
    BY <1>4, <1>o, <2>1, LeftFewer DEF settled
  <2>3. QED
    BY <1>4, <1>i, <1>o, <2>2 DEF Orderly
<1>5. ASSUME NEW p \in Proc, Working(p), Advance(p), UNCHANGED <<position, owner, log>>,
             settled' = settled \cup {Current(p).msg},
             \/ done' = done \cup {Current(p).msg} /\ dlq' = dlq
             \/ dlq' = dlq \cup {Current(p).msg} /\ done' = done
      PROVE  Orderly'
  <2>1. /\ Processed(p[2]) = next[p] - 1 /\ Processed(p[2])' = next[p]
        /\ \A u \in Loop \ {p[2]} : Processed(u)' = Processed(u)
    BY <1>5, <1>o, <1>t, AdvanceProcessed
  <2>2. /\ p[2] \in Loop /\ next[p] \in 1 .. Len(log[p[2]]) /\ Left(p[2], next[p])
        /\ Current(p) = log[p[2]][next[p]]
    BY <1>5, <1>o, CurrentLeft
  <2>3. LeftOnce' /\ LeftUnsettled'
    BY <1>5, <1>o, <2>1, <2>2, LeftSettled
  <2>4. Current(p).msg \notin settled
    BY <1>o, <2>2 DEF LeftUnsettled
  <2>5. QED
    BY <1>5, <1>i, <1>o, <2>3, <2>4 DEF Orderly, settled
<1>6. ASSUME NEW p \in Proc, Working(p), Advance(p), UNCHANGED <<position, owner, done>>,
             NEW h \in Headers, h.msg = Current(p).msg, NEW t \in Loop \cup {"dlq"}, Produce(h, t)
      PROVE  Orderly'
  <2>1. CASE t = "dlq" /\ log' = log /\ dlq' = dlq \cup {h.msg}
    BY <1>5, <1>6, <2>1 DEF settled
  <2>2. CASE t \in Loop /\ Appended(h, t)
    <3>1. dlq' = dlq /\ settled' = settled
      BY <1>6, <2>2 DEF Appended, settled
    <3>2. LeftOnce' /\ LeftUnsettled'
      BY <1>6, <1>o, <1>t, <2>2, <3>1, LeftMoved
    <3>3. QED
      BY <1>6, <1>i, <1>o, <3>1, <3>2 DEF Orderly
  <2>3. QED
    BY <1>6, <2>1, <2>2, ProduceEffect
<1>7. CASE UNCHANGED vars
  BY <1>2, <1>7 DEF vars, Working
<1>8. ASSUME NEW m \in Msg, Submit(m) PROVE Orderly'
  <2> DEFINE h == [msg |-> m, rc |-> 0, reason |-> FALSE]
  <2>1. h \in Headers /\ h.msg = m /\ "main" \in Loop /\ Produce(h, "main")
    BY <1>8 DEF Headers, Loop, Submit, ProduceOk
  <2> HIDE DEF h
  <2>2. dlq' = dlq /\ Appended(h, "main")
    BY <2>1, ProduceEffect DEF Appended, Loop
  <2>3. m \notin submitted /\ UNCHANGED <<position, owner, pc, next, done>>
    BY <1>8 DEF Submit, loops
  <2>4. settled' = settled /\ m \notin settled
    BY <2>2, <2>3 DEF settled, Provenance
  <2>5. \A u \in Loop : Processed(u)' = Processed(u)
    BY <2>3 DEF Processed
  <2>6. \A u \in Loop : Processed(u) \in Nat
    BY ProcessedPlace
  <2>7. \A u \in Loop : \A l \in 1 .. Len(log[u]) : log[u][l].msg # m
    BY <2>3 DEF Provenance, Earned
  <2>8. LeftOnce' /\ LeftUnsettled'
    BY <1>o, <2>1, <2>2, <2>4, <2>5, <2>6, <2>7, LeftAppended
  <2>9. QED
    BY <1>i, <1>o, <2>2, <2>3, <2>8 DEF Orderly
<1>9. ASSUME NEW t \in Loop, NEW w \in Worker, Rebalance(t, w) PROVE FALSE
  BY <1>9, <1>o, <1>s, <1>w DEF Rebalance, AllRun
<1>10. ASSUME NEW p \in Proc, Poll(p) PROVE Orderly'
  <2>1. UNCHANGED <<log, dlq, done>>
    BY <1>10 DEF Poll, history
  <2>2. QED
    BY <1>1, <1>10, <2>1, PollProcessed
<1>11. ASSUME NEW p \in Proc, NEW o \in Outcome, HandleAs(p, o) PROVE Orderly'
  <2>1. /\ Working(p) /\ RouteRecord(p, o) /\ NoteOutcome(Current(p).msg, o)
        /\ UNCHANGED <<log, dlq, position, owner, live>>
    BY <1>11 DEF HandleAs, Working, topics
  <2>2. CASE o = "ok"
    <3>1. Advance(p) /\ done' = done \cup {Current(p).msg}
      BY <2>1, <2>2 DEF RouteRecord, KafkaDecideRoute, NoteOutcome
    <3>2. QED
      BY <1>5, <2>1, <3>1 DEF settled
  <2>3. CASE o # "ok"
    <3>1. KafkaDecideRoute(o, Current(p).rc, Budget(p)) # "Commit"
      BY <2>3 DEF KafkaDecideRoute
    <3>2. StopBatch(p) \/ \E r \in Route : BeginRepublish(p, r)
      BY <1>r, <2>1, <3>1 DEF RouteRecord
    <3>3. done' = done
      BY <2>1, <2>3 DEF NoteOutcome
    <3>4. QED
      BY <1>3, <1>4, <2>1, <3>2, <3>3
  <2>4. QED
    BY <2>2, <2>3
<1>12. ASSUME NEW p \in Proc, ForwardOk(p) PROVE Orderly'
  <2>1. /\ Working(p) /\ Advance(p) /\ Produce(ForwardHeaders(Current(p)), "main")
        /\ UNCHANGED <<position, owner, done>>
    BY <1>12 DEF ForwardOk, Working, ProduceOk, history, RouteRecord, KafkaDecideRoute
  <2>2. /\ ForwardHeaders(Current(p)) \in Headers /\ "main" \in Loop
        /\ ForwardHeaders(Current(p)).msg = Current(p).msg
    BY <2>1, CurrentType, HeadersType DEF Loop, Working
  <2>3. QED
    BY <1>6, <2>1, <2>2
<1>13. ASSUME NEW p \in Proc, RepublishOk(p) PROVE Orderly'
  <2>1. /\ Working(p) /\ Advance(p) /\ UNCHANGED <<position, owner, done>>
        /\ Produce(RepublishHeaders(Current(p), route[p]), DestTopic(route[p]))
    BY <1>13 DEF RepublishOk, Working, ProduceOk, history
  <2>2. /\ RepublishHeaders(Current(p), route[p]) \in Headers
        /\ RepublishHeaders(Current(p), route[p]).msg = Current(p).msg
        /\ DestTopic(route[p]) \in Loop \cup {"dlq"}
    BY <2>1, CurrentType, HeadersType DEF Loop, Working, DestTopic
  <2>3. QED
    BY <1>6, <2>1, <2>2
<1>14. ASSUME NEW p \in Proc, ForwardFails(p) \/ RepublishFails(p) \/ ForwardCancelled(p) \/ StopLoop(p)
       PROVE  FALSE
  BY <1>14, <1>o, <1>p, <1>s DEF ForwardFails, RepublishFails, ProduceError, ForwardCancelled, StopLoop, AllRun
<1>15. ASSUME NEW p \in Proc, Commit(p) PROVE Orderly'
  <2>1. /\ UNCHANGED <<log, dlq, done, position, owner, next>> /\ pc[p] = "commit"
        /\ pc' = [pc EXCEPT ![p] = "poll"]
    BY <1>15 DEF Commit, history
  <2>2. \A q \in Proc : Working(q)' <=> Working(q)
    BY <2>1 DEF Working, TypeOK
  <2>3. QED
    BY <1>2, <2>1, <2>2
<1>16. ASSUME NEW w \in Worker, Cancel(w) \/ Crash(w) \/ Restart(w) PROVE FALSE
  <2>1. <<w, "main">> \in ProcsOf(w) /\ <<w, "main">> \in Proc
    BY DEF ProcsOf, Proc, Loop
  <2>2. QED
    BY <1>16, <1>o, <1>s, <2>1 DEF Cancel, Crash, Restart, AllRun
<1>17. QED
  BY <1>7, <1>8, <1>9, <1>10, <1>11, <1>12, <1>13, <1>14, <1>15, <1>16
     DEF Next, Step, PollNothing, Handle


LEMMA OrderlyInit == Init => Orderly
<1>1. Init => \A t \in Loop : Len(log[t]) = 0
  BY DEF Init
<1>2. Init => AllRun
  BY DEF Init, AllRun, Proc
<1>3. Init => InTurn
  BY DEF Init, InTurn, Active
<1>4. QED
  BY <1>1, <1>2, <1>3 DEF Init, Orderly, LeftOnce, LeftUnsettled

\* Orderly runs count every message once.
LEMMA CountedOnce == TypeOK /\ AllKept /\ Orderly => MessageConserved
<1> SUFFICES ASSUME TypeOK, AllKept, Orderly, NEW m \in submitted
             PROVE  LET kept == {tk \in Loop \X (1 .. Len(log["main"]) + Len(log["retry"])) :
                                   /\ tk[2] \in Processed(tk[1]) + 1 .. Len(log[tk[1]])
                                   /\ log[tk[1]][tk[2]].msg = m}
                    IN  Cardinality(kept) + (IF m \in done THEN 1 ELSE 0)
                                          + (IF m \in dlq THEN 1 ELSE 0) = 1
  BY DEF MessageConserved
<1> DEFINE kept == {tk \in Loop \X (1 .. Len(log["main"]) + Len(log["retry"])) :
                      /\ tk[2] \in Processed(tk[1]) + 1 .. Len(log[tk[1]])
                      /\ log[tk[1]][tk[2]].msg = m}
<1>n. \A t \in Loop : Processed(t) \in Nat /\ Processed(t) <= Len(log[t]) /\ Len(log[t]) \in Nat
  BY ProcessedPlace
<1>1. \A tk \in kept : /\ tk[1] \in Loop /\ tk[2] \in 1 .. Len(log[tk[1]]) /\ tk = <<tk[1], tk[2]>>
                       /\ Left(tk[1], tk[2]) /\ log[tk[1]][tk[2]].msg = m
  <2>1. ASSUME NEW tk \in kept
        PROVE  /\ tk[1] \in Loop /\ tk[2] \in 1 .. Len(log[tk[1]]) /\ tk = <<tk[1], tk[2]>>
               /\ Left(tk[1], tk[2]) /\ log[tk[1]][tk[2]].msg = m
    BY <1>n DEF Left
  <2>2. QED
    BY <2>1
<1>2. CASE m \in settled
  <2>1. kept = {}
    BY <1>1, <1>2, ZenonT(60) DEF Orderly, LeftUnsettled
  <2>2. (m \in done /\ m \notin dlq) \/ (m \notin done /\ m \in dlq)
    BY <1>2 DEF settled, Orderly
  <2>3. Cardinality(kept) = 0
    BY <2>1, FS_EmptySet
  <2>4. QED
    BY <2>2, <2>3
<1>3. CASE m \notin settled
  <2>1. PICK t \in Loop : \E k \in 1 .. Len(log[t]) : log[t][k].msg = m /\ Kept(t, k)
    BY <1>3 DEF AllKept
  <2>2. PICK k \in 1 .. Len(log[t]) : log[t][k].msg = m /\ Kept(t, k)
    BY <2>1
  <2>3. PICK p \in Proc : p = <<owner[t], t>>
    BY DEF TypeOK, Proc
  <2>4. Processed(t) = IF Working(p) THEN next[p] - 1 ELSE position[t]
    BY <2>3 DEF Processed, Working
  <2>5. position[t] \in Nat /\ next[p] \in Nat /\ last[p] \in Nat /\ k \in Nat
    BY <1>n DEF TypeOK
  <2>6. Processed(t) < k
    <3>1. CASE Working(p)
      BY <2>2, <2>3, <2>4, <2>5, <3>1 DEF Kept, Active, Working
    <3>2. CASE ~Working(p)
      <4>1. live[owner[t]]
        BY <2>3 DEF Orderly, AllRun
      <4>2. position[t] < k
        BY <2>2, <2>3, <3>2, <4>1 DEF Kept, ComesTo
      <4>3. QED
        BY <2>4, <3>2, <4>2
    <3>3. QED
      BY <3>1, <3>2
  <2>7. k \in Processed(t) + 1 .. Len(log[t])
    BY <1>n, <2>5, <2>6
  <2>8. k \in 1 .. Len(log["main"]) + Len(log["retry"])
    <3>1. /\ Len(log["main"]) \in Nat /\ Len(log["retry"]) \in Nat
          /\ t = "main" \/ t = "retry"
      BY <1>n DEF Loop
    <3>2. PICK a \in Nat, b \in Nat : a = Len(log["main"]) /\ b = Len(log["retry"])
      BY <3>1
    <3>3. Len(log[t]) = a \/ Len(log[t]) = b
      BY <3>1, <3>2
    <3>4. 1 <= k /\ (k <= a \/ k <= b)
      BY <3>3
    <3>5. k <= a + b
      BY <2>5, <3>4
    <3>6. k \in 1 .. a + b
      BY <2>5, <3>4, <3>5
    <3>7. QED
      BY <3>2, <3>6, Zenon
  <2>9. <<t, k>> \in kept
    BY <2>2, <2>7, <2>8
  <2>10. \A tk \in kept : tk = <<t, k>>
    <3>1. Left(t, k)
      BY <2>7 DEF Left
    <3>2. ASSUME NEW tk \in kept PROVE tk = <<t, k>>
      <4>1. /\ tk[1] \in Loop /\ tk[2] \in 1 .. Len(log[tk[1]]) /\ tk = <<tk[1], tk[2]>>
            /\ Left(tk[1], tk[2]) /\ log[tk[1]][tk[2]].msg = m
        BY <1>1
      <4>2. tk[1] = t /\ tk[2] = k
        BY <2>2, <3>1, <4>1 DEF Orderly, LeftOnce
      <4>3. QED
        BY <4>1, <4>2
    <3>3. QED
      BY <3>2
  <2>11. kept = {<<t, k>>}
    BY <2>9, <2>10
  <2>12. Cardinality(kept) = 1
    BY <2>11, FS_Singleton
  <2>13. QED
    BY <1>3, <2>12 DEF settled
<1>4. QED
  BY <1>2, <1>3

\* Until the first failure every message is in exactly one place, whatever the
\* interleaving of the loops: nothing is handled twice, dead-lettered after a success, or
\* left to be processed twice, as long as workers stop their batches only to end.
THEOREM MessagesConserved == Spec /\ StopsOnlyToEnd => []MessageConserved
<1> DEFINE J == faults = 0 => Orderly
<1>1. Init => J
  BY OrderlyInit
<1>2. TypeOK /\ TypeOK' /\ Provenance /\ J /\ [Next]_vars => J'
  <2>1. TypeOK /\ TypeOK' => faults \in Nat /\ faults' \in Nat
    BY KafkaAssumption DEF TypeOK
  <2>2. QED
    BY <2>1, OrderlyStep, FaultsCounted
<1>3. TypeOK /\ AllKept /\ J => MessageConserved
  BY CountedOnce DEF MessageConserved
<1> HIDE DEF J
<1>4. QED
  BY <1>1, <1>2, <1>3, TypeInit, TypeStep, ProvenanceInit, ProvenanceStep, KeptInit, KeptStep,
     PTL DEF Spec, StopsOnlyToEnd

\* So do undisturbed runs.
THEOREM UndisturbedConserve == ASSUME Undisturbed PROVE Spec => []MessageConserved
  BY UndisturbedKeeps, MessagesConserved, PTL

--------------------------------------------------------------------------------
(* The budget.  A record that is left carries the number of failures of its  *)
(* message, one less between a failure and the republish it leads to.  The   *)
(* count of a republished record is always one, so that this is true of a    *)
(* budget of one retry and of no larger one: see the run KafkaRetryBudget.    *)

OneRetry == ConfiguredRetries = 1

Publishing(t, k) == \E p \in Proc : p[2] = t /\ pc[p] = "publish" /\ next[p] = k

Tally ==
  /\ \A m \in Msg : fails[m] <= 2 /\ (m \notin submitted => fails[m] = 0)
  /\ \A t \in Loop : \A k \in 1 .. Len(log[t]) :
       Left(t, k) => fails[log[t][k].msg] <= log[t][k].rc \/ Publishing(t, k)
  /\ \A p \in Proc : pc[p] = "publish" /\ route[p] # "DLQ" => fails[Current(p).msg] <= 1

\* A step without a failure keeps the tally when what it appends covers the failures of its
\* message, a record whose republish ends is no longer left, and no republish begins.
LEMMA TallyMoves ==
  ASSUME TypeOK, LogGrows, Tally, fails' = fails, submitted \subseteq submitted',
         \A t \in Loop : \A k \in 1 .. Len(log'[t]) :
           k \in 1 .. Len(log[t]) \/ fails[log'[t][k].msg] <= log'[t][k].rc,
         \A t \in Loop : \A k \in 1 .. Len(log[t]) :
           Left(t, k)' => Left(t, k) /\ (Publishing(t, k) => Publishing(t, k)'),
         \A p \in Proc : pc'[p] = "publish" =>
                           pc[p] = "publish" /\ next'[p] = next[p] /\ route'[p] = route[p]
  PROVE  Tally'
<1>1. \A t \in Loop : \A k \in 1 .. Len(log[t]) : log'[t][k] = log[t][k]
  BY DEF LogGrows
<1>2. ASSUME NEW t \in Loop, NEW k \in 1 .. Len(log'[t]), Left(t, k)'
      PROVE  (fails[log[t][k].msg] <= log[t][k].rc \/ Publishing(t, k))'
  BY <1>1, <1>2 DEF Tally
<1>3. \A p \in Proc : pc'[p] = "publish" /\ route'[p] # "DLQ" => fails'[Current(p)'.msg] <= 1
  BY CurrentStays DEF Tally
<1>4. QED
  BY <1>2, <1>3 DEF Tally

\* A record in the partition of a loop that works is published by no other loop.
LEMMA OnlyItself ==
  ASSUME InTurn, NEW p \in Proc, Working(p), NEW q \in Proc, Working(q), p[2] = q[2]
  PROVE  p = q
  BY DEF InTurn, Active, Working, Proc

\* The record a loop hands to its handler carries the failures of its message.
LEMMA CurrentTally ==
  ASSUME TypeOK, Provenance, InTurn, Tally, NEW p \in Proc, pc[p] = "handle"
  PROVE  fails[Current(p).msg] <= Current(p).rc /\ Current(p).rc <= 1
<1>1. /\ p[2] \in Loop /\ next[p] \in 1 .. Len(log[p[2]]) /\ Left(p[2], next[p])
      /\ Current(p) = log[p[2]][next[p]]
  BY CurrentLeft DEF Working
<1>2. ~Publishing(p[2], next[p])
  BY OnlyItself DEF Publishing, Working
<1>3. QED
  BY <1>1, <1>2 DEF Tally, Provenance, Earned

\* No two loops work on records of one message.
LEMMA OneWorker ==
  ASSUME TypeOK, InTurn, LeftOnce, NEW p \in Proc, Working(p), NEW q \in Proc, Working(q),
         Current(p).msg = Current(q).msg
  PROVE  p = q
<1>1. /\ p[2] \in Loop /\ next[p] \in 1 .. Len(log[p[2]]) /\ Left(p[2], next[p])
      /\ Current(p) = log[p[2]][next[p]]
  BY CurrentLeft
<1>2. /\ q[2] \in Loop /\ next[q] \in 1 .. Len(log[q[2]]) /\ Left(q[2], next[q])
      /\ Current(q) = log[q[2]][next[q]]
  BY CurrentLeft
<1>3. p[2] = q[2]
  BY <1>1, <1>2 DEF LeftOnce
<1>4. QED
  BY <1>3, OnlyItself

\* A loop that advances leaves its record, and nothing else, behind.
LEMMA AdvanceLeaves ==
  ASSUME TypeOK, TypeOK', LogGrows, AllRun, InTurn, NEW p \in Proc, Working(p), Advance(p),
         UNCHANGED <<position, owner>>
  PROVE  /\ \A t \in Loop : \A k \in 1 .. Len(log[t]) :
              Left(t, k)' => Left(t, k) /\ (Publishing(t, k) => Publishing(t, k)')
         /\ \A q \in Proc : pc'[q] = "publish" =>
                              pc[q] = "publish" /\ next'[q] = next[q] /\ route'[q] = route[q]
<1>1. /\ Processed(p[2]) = next[p] - 1 /\ Processed(p[2])' = next[p]
      /\ \A u \in Loop \ {p[2]} : Processed(u)' = Processed(u)
  BY AdvanceProcessed
<1>2. \A u \in Loop : Processed(u) \in Nat /\ Len(log[u]) \in Nat
  BY ProcessedPlace
<1>3. next[p] \in Nat /\ p[2] \in Loop
  BY DEF TypeOK, Proc
<1>4. \A q \in Proc : q # p => pc'[q] = pc[q] /\ next'[q] = next[q] /\ route'[q] = route[q]
  BY DEF Advance, TypeOK
<1>5. pc'[p] # "publish"
  BY DEF Advance, TypeOK
<1>6. ASSUME NEW t \in Loop, NEW k \in 1 .. Len(log[t]), Left(t, k)'
      PROVE  Left(t, k) /\ (Publishing(t, k) => Publishing(t, k)')
  <2>1. Processed(t)' < k /\ (t = p[2] => Processed(t) < Processed(t)')
    BY <1>1, <1>2, <1>3, <1>6 DEF Left
  <2>2. Left(t, k)
    BY <1>1, <1>2, <1>3, <2>1 DEF Left
  <2>3. t # p[2] \/ k # next[p]
    BY <1>1, <1>3, <2>1
  <2>4. QED
    BY <1>4, <2>2, <2>3 DEF Publishing
<1>7. QED
  BY <1>4, <1>5, <1>6


\* An appended record that covers the failures of its message is the only new one.
LEMMA AppendedCovers ==
  ASSUME TypeOK, NEW h, NEW t \in Loop, Appended(h, t), fails[h.msg] <= h.rc
  PROVE  \A u \in Loop : \A k \in 1 .. Len(log'[u]) :
           k \in 1 .. Len(log[u]) \/ fails[log'[u][k].msg] <= log'[u][k].rc
<1>1. \A u \in Loop : Len(log[u]) \in Nat
  BY ProcessedPlace
<1>2. PICK n \in Nat : n = Len(log[t]) + 1
  BY <1>1
<1>3. /\ Len(log'[t]) = n /\ fails[log'[t][n].msg] <= log'[t][n].rc
      /\ \A u \in Loop \ {t} : log'[u] = log[u]
  BY <1>1, <1>2 DEF Appended
<1>4. \A u \in Loop : \A k \in 1 .. Len(log'[u]) : k \in 1 .. Len(log[u]) \/ (u = t /\ k = n)
  BY <1>1, <1>2, <1>3
<1>5. QED
  BY <1>3, <1>4

\* What the handler's answer about a record adds to the tally.
LEMMA TallyHandled ==
  ASSUME OneRetry, TypeOK, TypeOK', Provenance, Orderly, Tally,
         NEW p \in Proc, NEW o \in Outcome, HandleAs(p, o)
  PROVE  Tally'
<1>o. AllRun /\ InTurn /\ LeftOnce
  BY DEF Orderly
<1>m. MaxRetries = 1
  BY DEF MaxRetries, EffectiveMaxRetries, OneRetry
<1>1. /\ Working(p) /\ pc[p] = "handle" /\ p[2] = "main" /\ RouteRecord(p, o)
      /\ NoteOutcome(Current(p).msg, o)
      /\ UNCHANGED <<log, dlq, position, owner, live, submitted>>
  BY DEF HandleAs, Working, topics
<1>2. fails[Current(p).msg] <= Current(p).rc /\ Current(p).rc <= 1
  BY <1>1, <1>o, CurrentTally
<1>3. Current(p).msg \in Msg /\ Current(p).rc \in Nat /\ LogGrows
  BY <1>1, CurrentType, NoGrowth DEF Working
<1>4. /\ p[2] \in Loop /\ next[p] \in 1 .. Len(log[p[2]]) /\ Left(p[2], next[p])
      /\ Current(p) = log[p[2]][next[p]]
  BY <1>1, <1>o, CurrentLeft
<1>5. CASE o # "transient" /\ Advance(p)
  <2>1. fails' = fails
    BY <1>1, <1>5 DEF NoteOutcome
  <2>2. QED
    BY <1>1, <1>3, <1>5, <1>o, <2>1, AdvanceLeaves, TallyMoves
<1>6. CASE o # "transient" /\ StopBatch(p)
  <2>1. fails' = fails
    BY <1>1, <1>6 DEF NoteOutcome
  <2>2. /\ UNCHANGED <<next>> /\ \A q \in Proc : pc'[q] = IF q = p THEN "commit" ELSE pc[q]
        /\ \A q \in Proc : q # p => route'[q] = route[q]
    BY <1>6 DEF StopBatch, TypeOK
  <2>3. \A t, k : Publishing(t, k)' <=> Publishing(t, k)
    BY <1>1, <2>2 DEF Publishing
  <2>4. \A u \in Loop : Processed(u) <= Processed(u)' /\ Processed(u)' \in Nat
    BY <1>1, <1>6, <1>o, StopProcessed
  <2>5. \A u \in Loop : Processed(u) \in Nat /\ Len(log[u]) \in Nat
    BY ProcessedPlace
  <2>6. \A t \in Loop : \A k \in 1 .. Len(log[t]) : Left(t, k)' => Left(t, k)
    BY <1>1, <2>4, <2>5 DEF Left
  <2>7. QED
    BY <1>1, <1>3, <2>1, <2>2, <2>3, <2>6, TallyMoves
<1>7. ASSUME NEW r \in {"Retry", "DLQ"}, BeginRepublish(p, r),
             r # "DLQ" => o = "transient" /\ Current(p).rc = 0,
             o = "transient" \/ fails' = fails
      PROVE  Tally'
  <2>1. /\ UNCHANGED <<next>> /\ \A q \in Proc : /\ pc'[q] = IF q = p THEN "publish" ELSE pc[q]
                                                 /\ route'[q] = IF q = p THEN r ELSE route[q]
    BY <1>7 DEF BeginRepublish, TypeOK
  <2>2. /\ fails[Current(p).msg] \in Nat /\ fails'[Current(p).msg] \in Nat
        /\ fails'[Current(p).msg] <= fails[Current(p).msg] + 1
        /\ \A m \in Msg : m # Current(p).msg => fails'[m] = fails[m]
    <3>1. fails \in [Msg -> 0 .. FailCap] /\ FailCap \in Nat
      BY MaxRetriesNat DEF TypeOK
    <3>2. fails' = fails \/ fails' = [fails EXCEPT ![Current(p).msg] = @ + 1]
      BY <1>1, <1>7 DEF NoteOutcome
    <3>3. QED
      BY <1>3, <3>1, <3>2
  <2>3. \A q \in Proc : pc[q] \in {"handle", "publish"} => Current(q)' = Current(q)
    BY <1>3, <2>1, CurrentStays
  <2>4. \A u \in Loop : Processed(u)' = Processed(u)
    <3>1. \A u \in Loop : <<owner[u], u>> \in Proc
      BY DEF TypeOK, Proc
    <3>2. QED
      BY <1>1, <2>1, <3>1 DEF Processed, Working
  <2>5. \A t \in Loop : \A k \in 1 .. Len(log[t]) : Left(t, k)' <=> Left(t, k)
    BY <1>1, <2>4 DEF Left
  <2>6. \A t, k : Publishing(t, k) \/ (t = p[2] /\ k = next[p]) => Publishing(t, k)'
    BY <1>1, <2>1 DEF Publishing
  <2>7. ASSUME NEW t \in Loop, NEW k \in 1 .. Len(log[t]), Left(t, k)
        PROVE  (fails[log[t][k].msg] <= log[t][k].rc \/ Publishing(t, k))'
    <3>1. CASE log[t][k].msg = Current(p).msg
      <4>1. t = p[2] /\ k = next[p]
        BY <1>4, <1>o, <2>7, <3>1 DEF LeftOnce
      <4>2. QED
        BY <2>6, <4>1
    <3>2. CASE log[t][k].msg # Current(p).msg
      <4>1. log[t] \in Seq(Rec)
        BY DEF TypeOK
      <4>2. log[t][k] \in Rec
        BY <4>1, ElementOfSeq
      <4>3. log[t][k].msg \in Msg
        BY <4>2 DEF Rec
      <4>4. fails'[log[t][k].msg] = fails[log[t][k].msg]
        BY <2>2, <3>2, <4>3
      <4>5. QED
        BY <1>1, <2>6, <2>7, <4>4 DEF Tally
    <3>3. QED
      BY <3>1, <3>2
  <2>8. ASSUME NEW q \in Proc, pc'[q] = "publish", route'[q] # "DLQ"
        PROVE  fails'[Current(q)'.msg] <= 1
    <3>1. CASE q = p
      BY <1>1, <1>2, <1>3, <1>7, <2>1, <2>2, <2>3, <2>8, <3>1
    <3>2. CASE q # p
      <4>1. pc[q] = "publish" /\ route[q] # "DLQ" /\ Current(q)' = Current(q)
        BY <2>1, <2>3, <2>8, <3>2
      <4>2. Current(q).msg # Current(p).msg
        BY <1>1, <1>o, <3>2, <4>1, OneWorker DEF Working
      <4>3. Current(q).msg \in Msg
        BY <4>1, CurrentType
      <4>4. QED
        BY <2>2, <4>1, <4>2, <4>3 DEF Tally
    <3>3. QED
      BY <3>1, <3>2
  <2>9. ASSUME NEW m \in Msg PROVE fails'[m] <= 2 /\ (m \notin submitted => fails'[m] = 0)
    <3>1. fails'[Current(p).msg] <= 2 /\ Current(p).msg \in submitted
      BY <1>2, <1>3, <1>4, <2>2, SMTT(60) DEF Provenance, Earned
    <3>2. QED
      BY <2>2, <3>1 DEF Tally
  <2>10. QED
    BY <1>1, <2>5, <2>7, <2>8, <2>9 DEF Tally
<1>8. QED
  <2> DEFINE r == KafkaDecideRoute(o, Current(p).rc, Budget(p))
  <2>1. /\ r = "Commit" => o = "ok"
        /\ r = "Drop" => o = "cancelled"
        /\ r \in {"Retry", "DLQ"} => o \in {"permanent", "transient"}
        /\ r = "Retry" => o = "transient" /\ Current(p).rc = 0
    BY <1>1, <1>3, <1>m DEF KafkaDecideRoute, Budget, Outcome
  <2>2. o = "transient" \/ fails' = fails
    BY <1>1 DEF NoteOutcome
  <2>3. \/ r = "Commit" /\ Advance(p)
        \/ r = "Drop" /\ StopBatch(p)
        \/ r \in {"Retry", "DLQ"} /\ BeginRepublish(p, r)
    BY <1>1 DEF RouteRecord
  <2> HIDE DEF r
  <2>4. QED
    BY <1>5, <1>6, <1>7, <2>1, <2>2, <2>3

\* Until the first failure every step keeps the tally.
LEMMA TallyStep ==
  ASSUME OneRetry, TypeOK, TypeOK', Provenance, Orderly, Tally, faults = 0, faults' = 0, [Next]_vars
  PROVE  Tally'
<1>o. AllRun /\ InTurn /\ LeftOnce
  BY DEF Orderly
<1>p. \A p \in Proc : p[1] \in Worker /\ p[2] \in Loop /\ p = <<p[1], p[2]>>
  BY DEF Proc
<1>w. \A u \in Loop : owner[u] \in Worker /\ <<owner[u], u>> \in Proc
  BY DEF TypeOK, Proc
<1>s. \A kind : ~Spend(kind)
  BY DEF Spend
<1>1. ASSUME UNCHANGED <<log, fails, submitted>>, \A u \in Loop : Processed(u)' = Processed(u),
             \A q \in Proc : IF pc[q] = "publish"
                             THEN pc'[q] = pc[q] /\ next'[q] = next[q] /\ route'[q] = route[q]
                             ELSE pc'[q] # "publish"
      PROVE  Tally'
  <2>1. LogGrows
    BY <1>1, NoGrowth
  <2>2. \A t, k : Publishing(t, k) => Publishing(t, k)'
    BY <1>1 DEF Publishing
  <2>3. QED
    BY <1>1, <2>1, <2>2, TallyMoves DEF Left
<1>2. CASE UNCHANGED vars
  BY <1>1, <1>2 DEF vars, Processed
<1>3. ASSUME NEW m \in Msg, Submit(m) PROVE Tally'
  <2> DEFINE h == [msg |-> m, rc |-> 0, reason |-> FALSE]
  <2>1. h \in Headers /\ h.msg = m /\ h.rc = 0 /\ "main" \in Loop /\ Produce(h, "main")
    BY <1>3 DEF Headers, Loop, Submit, ProduceOk
  <2> HIDE DEF h
  <2>2. Appended(h, "main")
    BY <2>1, ProduceEffect DEF Appended, Loop
  <2>3. /\ m \notin submitted /\ submitted \subseteq submitted'
        /\ UNCHANGED <<position, owner, pc, next, route, fails>>
    BY <1>3 DEF Submit, loops
  <2>4. fails[h.msg] <= h.rc
    BY <2>1, <2>3 DEF Tally
  <2>5. \A u \in Loop : Processed(u)' = Processed(u) /\ Processed(u) \in Nat /\ Len(log[u]) \in Nat
    BY <2>3, ProcessedPlace DEF Processed
  <2>6. \A t \in Loop : \A k \in 1 .. Len(log[t]) : Left(t, k)' => Left(t, k)
    BY <2>5 DEF Left
  <2>7. QED
    BY <2>1, <2>2, <2>3, <2>4, <2>6, TallyMoves, AppendedCovers DEF Publishing, Appended
<1>4. ASSUME NEW t \in Loop, NEW w \in Worker, Rebalance(t, w) PROVE FALSE
  BY <1>4, <1>o, <1>s, <1>w DEF Rebalance, AllRun
<1>5. ASSUME NEW p \in Proc, Poll(p) PROVE Tally'
  <2>1. /\ owner[p[2]] = p[1] /\ pc[p] = "poll" /\ pc' = [pc EXCEPT ![p] = "handle"]
        /\ UNCHANGED <<log, owner, route, fails, submitted>>
    BY <1>5 DEF Poll, history
  <2>2. \A u \in Loop : Processed(u)' = Processed(u)
    BY <1>5, PollProcessed
  <2>3. \A q \in Proc : q # p => pc'[q] = pc[q] /\ next'[q] = next[q]
    BY <1>5 DEF Poll, TypeOK
  <2>4. pc'[p] = "handle"
    BY <2>1 DEF TypeOK
  <2>5. QED
    BY <1>1, <2>1, <2>2, <2>3, <2>4
<1>6. ASSUME NEW p \in Proc, Handle(p) PROVE Tally'
  BY <1>6, TallyHandled DEF Handle
<1>7. ASSUME NEW p \in Proc, Working(p), Advance(p),
             UNCHANGED <<position, owner, fails, submitted>>,
             NEW h \in Headers, h.rc <= 1, fails[h.msg] <= h.rc, NEW t \in Loop, Produce(h, t)
      PROVE  Tally'
  <2>1. Appended(h, t)
    BY <1>7, ProduceEffect DEF Appended, Loop
  <2>2. QED
    BY <1>7, <1>o, <2>1, AdvanceLeaves, TallyMoves, AppendedCovers DEF Appended
<1>8. ASSUME NEW p \in Proc, ForwardOk(p) PROVE Tally'
  <2> DEFINE h == ForwardHeaders(Current(p))
  <2>1. /\ Working(p) /\ pc[p] = "handle" /\ Advance(p) /\ Produce(h, "main")
        /\ UNCHANGED <<position, owner, fails, submitted>>
    BY <1>8 DEF ForwardOk, Working, ProduceOk, history, RouteRecord, KafkaDecideRoute
  <2>2. /\ h \in Headers /\ "main" \in Loop
        /\ h.msg = Current(p).msg /\ h.rc = Current(p).rc
    BY <2>1, CurrentType, HeadersType DEF Loop, Working, ForwardHeaders
  <2>3. fails[h.msg] <= h.rc /\ h.rc <= 1
    BY <1>o, <2>1, <2>2, CurrentTally
  <2> HIDE DEF h
  <2>4. QED
    BY <1>7, <2>1, <2>2, <2>3
<1>9. ASSUME NEW p \in Proc, RepublishOk(p) PROVE Tally'
  <2> DEFINE h == RepublishHeaders(Current(p), route[p])
  <2>1. /\ Working(p) /\ pc[p] = "publish" /\ Advance(p) /\ Produce(h, DestTopic(route[p]))
        /\ UNCHANGED <<position, owner, fails, submitted>>
    BY <1>9 DEF RepublishOk, Working, ProduceOk, history
  <2>2. h \in Headers /\ h.msg = Current(p).msg
    BY <2>1, CurrentType, HeadersType DEF Working
  <2>3. CASE route[p] = "DLQ"
    <3>1. log' = log
      BY <2>1, <2>3 DEF Produce, DestTopic
    <3>2. QED
      BY <1>o, <2>1, <3>1, NoGrowth, AdvanceLeaves, TallyMoves
  <2>4. CASE route[p] # "DLQ"
    <3>1. h.rc = 1 /\ DestTopic(route[p]) = "retry" /\ "retry" \in Loop
      BY <2>4 DEF RepublishHeaders, IncRetryCount, SanitizeForRepublish, DestTopic, Loop
    <3>2. fails[h.msg] <= 1
      BY <2>1, <2>2, <2>4 DEF Tally
    <3> HIDE DEF h
    <3>3. QED
      BY <1>7, <2>1, <2>2, <3>1, <3>2
  <2>5. QED
    BY <2>3, <2>4
<1>10. ASSUME NEW p \in Proc, ForwardFails(p) \/ RepublishFails(p) \/ ForwardCancelled(p) \/ StopLoop(p)
       PROVE  FALSE
  BY <1>10, <1>o, <1>p, <1>s DEF ForwardFails, RepublishFails, ProduceError, ForwardCancelled, StopLoop, AllRun
<1>11. ASSUME NEW p \in Proc, Commit(p) PROVE Tally'
  <2>1. /\ UNCHANGED <<log, position, owner, next, route, fails, submitted>> /\ pc[p] = "commit"
        /\ \A q \in Proc : pc'[q] = IF q = p THEN "poll" ELSE pc[q]
    BY <1>11 DEF Commit, history, TypeOK
  <2>2. \A u \in Loop : Processed(u)' = Processed(u)
    BY <1>w, <2>1 DEF Processed
  <2>3. QED
    BY <1>1, <2>1, <2>2
<1>12. ASSUME NEW w \in Worker, Cancel(w) \/ Crash(w) \/ Restart(w) PROVE FALSE
  <2>1. <<w, "main">> \in ProcsOf(w) /\ <<w, "main">> \in Proc
    BY DEF ProcsOf, Proc, Loop
  <2>2. QED
    BY <1>12, <1>o, <1>s, <2>1 DEF Cancel, Crash, Restart, AllRun
<1>13. QED
  BY <1>2, <1>3, <1>4, <1>5, <1>6, <1>8, <1>9, <1>10, <1>11, <1>12
     DEF Next, Step, PollNothing

\* With a budget of one retry no handler fails more than twice on a message before the first
\* failure, however the loops interleave and whether or not workers stop their batches
\* (consumer.go, headers.go).
THEOREM BudgetIsRespected == ASSUME OneRetry PROVE Spec => []BudgetRespected
<1> DEFINE J == faults = 0 => Orderly /\ Tally
<1>1. Init => J
  <2>1. Init => \A t \in Loop : Len(log[t]) = 0
    BY DEF Init
  <2>2. Init => \A p \in Proc : pc[p] = "poll"
    BY DEF Init
  <2>3. Init => Tally
    BY <2>1, <2>2 DEF Init, Tally
  <2>4. QED
    BY <2>3, OrderlyInit
<1>2. TypeOK /\ TypeOK' /\ Provenance /\ J /\ [Next]_vars => J'
  <2>1. TypeOK /\ TypeOK' => faults \in Nat /\ faults' \in Nat
    BY KafkaAssumption DEF TypeOK
  <2>2. QED
    BY <2>1, OrderlyStep, TallyStep, FaultsCounted
<1>3. J => BudgetRespected
  BY DEF BudgetRespected, Tally, MaxRetries, EffectiveMaxRetries, OneRetry
<1> HIDE DEF J
<1>4. QED
  BY <1>1, <1>2, <1>3, TypeInit, TypeStep, ProvenanceInit, ProvenanceStep, PTL DEF Spec

================================================================================
