-------------------------- MODULE KafkaConsumerProofs --------------------------
(***************************************************************************)
(* Theorems about KafkaConsumer, for every set of messages and workers,     *)
(* every retry budget and every combination of failures.                    *)
(***************************************************************************)
EXTENDS KafkaConsumer, SequenceTheorems, TLAPS

\* An effective retry budget is a natural number, whatever was configured.
LEMMA MaxRetriesNat == MaxRetries \in Nat \ {0} /\ FailCap \in Nat
  BY KafkaAssumption DEF MaxRetries, EffectiveMaxRetries, FailCap

Headers == [msg : Msg, rc : Nat, reason : BOOLEAN]

\* The headers republish and the forwarding handler publish are well typed.
LEMMA HeadersType ==
  ASSUME NEW r \in Rec, NEW rt
  PROVE  /\ RepublishHeaders(r, rt) \in Headers
         /\ RepublishHeaders(r, rt).msg = r.msg
         /\ rt # "DLQ" => RepublishHeaders(r, rt).rc = 1
         /\ ForwardHeaders(r) \in Headers
         /\ ForwardHeaders(r).msg = r.msg /\ ForwardHeaders(r).rc = r.rc
<1>1. r.msg \in Msg /\ r.rc \in Nat
  BY DEF Rec
<1>2. RepublishHeaders(r, rt) = IF rt = "DLQ" THEN [msg |-> r.msg, rc |-> 0, reason |-> TRUE]
                                              ELSE [msg |-> r.msg, rc |-> 0 + 1, reason |-> FALSE]
  BY DEF RepublishHeaders, SetErrorReason, IncRetryCount, SanitizeForRepublish
<1>3. QED
  BY <1>1, <1>2 DEF Headers, ForwardHeaders

\* The logs only grow: no record is changed or removed.
LogGrows == /\ log' \in [Loop -> Seq(Rec)]
            /\ \A t \in Loop : /\ Len(log[t]) <= Len(log'[t])
                               /\ \A k \in 1 .. Len(log[t]) : log'[t][k] = log[t][k]

\* Record h is appended to topic t, and nothing else happens to the topics.
Appended(h, t) ==
  /\ LogGrows
  /\ Len(log'[t]) = Len(log[t]) + 1
  /\ log'[t][Len(log[t]) + 1] = [msg |-> h.msg, rc |-> h.rc]
  /\ \A u \in Loop \ {t} : log'[u] = log[u]
  /\ dlq' = dlq

\* A produced record ends up at the end of its log or in the dead-letter topic.
LEMMA ProduceEffect ==
  ASSUME TypeOK, NEW h \in Headers, NEW t \in Loop \cup {"dlq"}, Produce(h, t)
  PROVE  \/ t = "dlq" /\ log' = log /\ dlq' = dlq \cup {h.msg}
         \/ t \in Loop /\ Appended(h, t)
<1>1. CASE t = "dlq"
  BY <1>1 DEF Produce
<1>2. CASE t # "dlq"
  <2> DEFINE r == [msg |-> h.msg, rc |-> h.rc]
  <2>1. r \in Rec
    BY DEF Headers, Rec
  <2>2. t \in Loop /\ log' = [log EXCEPT ![t] = Append(log[t], r)] /\ dlq' = dlq
    BY <1>2 DEF Produce
  <2>3. \A u \in Loop : log[u] \in Seq(Rec)
    BY DEF TypeOK
  <2> HIDE DEF r
  <2>4. /\ Append(log[t], r) \in Seq(Rec)
        /\ Len(Append(log[t], r)) = Len(log[t]) + 1
        /\ Append(log[t], r)[Len(log[t]) + 1] = r
        /\ \A k \in 1 .. Len(log[t]) : Append(log[t], r)[k] = log[t][k]
    BY <2>1, <2>2, <2>3, AppendProperties
  <2>5. \A u \in Loop : log'[u] = IF u = t THEN Append(log[t], r) ELSE log[u]
    BY <2>2 DEF TypeOK
  <2>6. log' \in [Loop -> Seq(Rec)]
    BY <2>2, <2>4 DEF TypeOK
  <2>7. \A u \in Loop : Len(log[u]) \in Nat
    BY <2>3, LenProperties
  <2>8. LogGrows
    BY <2>2, <2>4, <2>5, <2>6, <2>7 DEF LogGrows
  <2>9. QED
    BY <2>2, <2>4, <2>5, <2>8 DEF Appended, r
<1>3. QED
  BY <1>1, <1>2

\* The record a loop processes exists.
LEMMA CurrentType ==
  ASSUME TypeOK, NEW p \in Proc, pc[p] \in {"handle", "publish"}
  PROVE  /\ p[2] \in Loop /\ p[1] \in Worker
         /\ next[p] \in 1 .. Len(log[p[2]])
         /\ Current(p) \in Rec /\ Current(p).msg \in Msg /\ Current(p).rc \in Nat
<1>1. p[2] \in Loop /\ p[1] \in Worker
  BY DEF Proc
<1>2. log[p[2]] \in Seq(Rec)
  BY <1>1 DEF TypeOK
<1>3. next[p] \in 1 .. Len(log[p[2]])
  <2>1. Len(log[p[2]]) \in Nat
    BY <1>2, LenProperties
  <2>2. QED
    BY <2>1 DEF TypeOK
<1>4. Current(p) \in Rec
  BY <1>2, <1>3, ElementOfSeq DEF Current
<1>5. QED
  BY <1>1, <1>3, <1>4 DEF Rec

\* A fault is counted within its bound.
LEMMA SpendType == ASSUME TypeOK, NEW kind, Spend(kind)
                   PROVE  faults' \in 0 .. MaxFaults /\ faults' = faults + 1
  BY KafkaAssumption DEF Spend, TypeOK

\* Nothing is appended.
LEMMA NoGrowth == TypeOK /\ log' = log => LogGrows
<1>1. TypeOK => \A t \in Loop : Len(log[t]) \in Nat
  BY LenProperties DEF TypeOK
<1>2. QED
  BY <1>1 DEF TypeOK, LogGrows

\* A publish, whatever its outcome, keeps the topics typed.
LEMMA ProduceType ==
  ASSUME TypeOK, NEW h \in Headers, NEW t \in Loop \cup {"dlq"}, NEW w,
         ProduceOk(h, t) \/ ProduceError(w, h, t)
  PROVE  LogGrows /\ dlq' \subseteq Msg /\ faults' \in 0 .. MaxFaults
<1>1. CASE Produce(h, t)
  <2>1. LogGrows /\ dlq' \subseteq Msg
    BY <1>1, ProduceEffect, NoGrowth DEF Appended, TypeOK, Headers
  <2>2. QED
    BY <2>1, SpendType DEF ProduceOk, ProduceError, TypeOK
<1>2. CASE UNCHANGED <<log, dlq>>
  BY <1>2, NoGrowth, SpendType DEF ProduceOk, ProduceError, TypeOK
<1>3. QED
  BY <1>1, <1>2 DEF ProduceOk, ProduceError

TopicsType == /\ log \in [Loop -> Seq(Rec)]
              /\ committed \in [Loop -> Nat] /\ position \in [Loop -> Nat]
              /\ \A t \in Loop : committed[t] <= Len(log[t]) /\ position[t] <= Len(log[t])

LoopsType == /\ pc \in [Proc -> PC]
             /\ first \in [Proc -> Nat] /\ next \in [Proc -> Nat] /\ last \in [Proc -> Nat]
             /\ \A p \in Proc : /\ next[p] \in first[p] + 1 .. last[p] + 1
                                /\ last[p] \in first[p] .. Len(log[p[2]])
                                /\ pc[p] \in {"handle", "publish"} => next[p] <= last[p]
             /\ route \in [Proc -> Route]
             /\ attempt \in [Proc -> 0 .. Attempts]

RestType == /\ dlq \subseteq Msg
            /\ owner \in [Loop -> Worker]
            /\ live \in [Worker -> BOOLEAN]
            /\ submitted \subseteq Msg /\ done \subseteq Msg /\ refused \subseteq Msg
            /\ fails \in [Msg -> 0 .. FailCap]
            /\ faults \in 0 .. MaxFaults

\* The types of the topics, of the loops and of the rest are all there is to TypeOK.
LEMMA TypeAssembled == TopicsType' /\ LoopsType' /\ RestType' => TypeOK'
  BY DEF TypeOK, TopicsType, LoopsType, RestType

\* As the logs grow, everything that points into them stays in range.
LEMMA GrowthType ==
  ASSUME TypeOK, LogGrows
  PROVE  /\ committed' = committed /\ position' = position => TopicsType'
         /\ loops' = loops => LoopsType'
<1>1. \A t \in Loop : /\ Len(log[t]) \in Nat /\ Len(log'[t]) \in Nat
                      /\ Len(log[t]) <= Len(log'[t])
  BY LenProperties DEF TypeOK, LogGrows
<1>2. committed' = committed /\ position' = position => TopicsType'
  BY <1>1 DEF TypeOK, LogGrows, TopicsType
<1>3. \A p \in Proc : p[2] \in Loop
  BY DEF Proc
<1>4. loops' = loops => LoopsType'
  BY <1>1, <1>3 DEF TypeOK, LoopsType, loops
<1>5. QED
  BY <1>2, <1>4

\* The three ways a loop is done with a record keep the loops typed.
LEMMA RouteType ==
  ASSUME TypeOK, LogGrows, NEW p \in Proc, pc[p] \in {"handle", "publish"}, NEW r \in Route,
         Advance(p) \/ StopBatch(p) \/ BeginRepublish(p, r)
  PROVE  LoopsType'
<1>0. /\ "commit" \in PC /\ "handle" \in PC /\ "publish" \in PC /\ "Commit" \in Route
      /\ 0 \in 0 .. Attempts /\ 1 \in 0 .. Attempts
  BY DEF PC, Route, Attempts
<1>1. \A q \in Proc : /\ q[2] \in Loop /\ Len(log[q[2]]) \in Nat /\ Len(log'[q[2]]) \in Nat
                      /\ Len(log[q[2]]) <= Len(log'[q[2]])
  BY LenProperties DEF TypeOK, LogGrows, Proc
<1>2. /\ first' = first /\ last' = last
      /\ \A q \in Proc : first[q] \in Nat /\ next[q] \in Nat /\ last[q] \in Nat
  BY DEF Advance, StopBatch, BeginRepublish, TypeOK
<1>3. pc' \in [Proc -> PC] /\ route' \in [Proc -> Route] /\ attempt' \in [Proc -> 0 .. Attempts]
  <2>0. pc \in [Proc -> PC] /\ route \in [Proc -> Route] /\ attempt \in [Proc -> 0 .. Attempts]
    BY DEF TypeOK
  <2>1. CASE Advance(p)
    BY <1>0, <2>0, <2>1 DEF Advance
  <2>2. CASE StopBatch(p)
    BY <1>0, <2>0, <2>2 DEF StopBatch
  <2>3. CASE BeginRepublish(p, r)
    BY <1>0, <2>0, <2>3 DEF BeginRepublish
  <2>4. QED
    BY <2>1, <2>2, <2>3
<1>4. CASE Advance(p)
  <2>1. \A q \in Proc : /\ next'[q] = IF q = p THEN next[p] + 1 ELSE next[q]
                        /\ pc'[q] = IF q = p THEN IF next[p] = last[p] THEN "commit" ELSE "handle"
                                             ELSE pc[q]
    BY <1>4 DEF Advance, TypeOK
  <2>2. next' \in [Proc -> Nat]
    BY <1>2, <1>4 DEF Advance, TypeOK
  <2>3. \A q \in Proc : /\ next'[q] \in first[q] + 1 .. last[q] + 1
                        /\ last[q] \in first[q] .. Len(log'[q[2]])
                        /\ pc'[q] \in {"handle", "publish"} => next'[q] <= last[q]
    <3>1. \A q \in Proc : /\ next[q] \in first[q] + 1 .. last[q] + 1
                          /\ last[q] \in first[q] .. Len(log[q[2]])
                          /\ pc[q] \in {"handle", "publish"} => next[q] <= last[q]
      BY DEF TypeOK
    <3>2. next[p] <= last[p]
      BY <3>1
    <3>3. /\ first[p] \in Nat /\ last[p] \in Nat /\ next[p] \in first[p] + 1 .. last[p] + 1
          /\ next[p] \in Nat
      BY <1>2, <3>1
    <3>4. next[p] + 1 \in first[p] + 1 .. last[p] + 1 /\ (next[p] # last[p] => next[p] + 1 <= last[p])
      BY <3>2, <3>3
    <3>5. \A q \in Proc : last[q] \in first[q] .. Len(log'[q[2]])
      BY <1>1, <1>2, <3>1
    <3>6. QED
      BY <2>1, <3>1, <3>4, <3>5
  <2>4. QED
    BY <1>2, <1>3, <2>2, <2>3 DEF LoopsType, TypeOK
<1>5. CASE ~Advance(p)
  <2>1. next' = next /\ \A q \in Proc : q # p => pc'[q] = pc[q]
    BY <1>5 DEF StopBatch, BeginRepublish, TypeOK
  <2>2. \A q \in Proc : /\ next'[q] \in first[q] + 1 .. last[q] + 1
                        /\ last[q] \in first[q] .. Len(log'[q[2]])
                        /\ pc'[q] \in {"handle", "publish"} => next'[q] <= last[q]
    <3>1. pc'[p] \in {"handle", "publish"} => next[p] <= last[p]
      BY DEF TypeOK
    <3>2. \A q \in Proc : pc'[q] \in {"handle", "publish"} => next[q] <= last[q]
      BY <2>1, <3>1 DEF TypeOK
    <3>3. \A q \in Proc : /\ next[q] \in first[q] + 1 .. last[q] + 1
                          /\ last[q] \in first[q] .. Len(log[q[2]])
      BY DEF TypeOK
    <3>4. QED
      BY <1>1, <1>2, <2>1, <3>2, <3>3
  <2>3. QED
    BY <1>2, <1>3, <2>1, <2>2 DEF LoopsType, TypeOK
<1>6. QED
  BY <1>4, <1>5

\* So does routing a record, whatever its handler answered.
LEMMA RouteRecordCases ==
  ASSUME NEW p, NEW err, RouteRecord(p, err)
  PROVE  Advance(p) \/ StopBatch(p) \/ \E r \in {"Retry", "DLQ"} : BeginRepublish(p, r)
  BY DEF RouteRecord

\* Every step keeps every variable in its type.
LEMMA TypeStep == TypeOK /\ [Next]_vars => TypeOK'
<1> SUFFICES ASSUME TypeOK, [Next]_vars PROVE TypeOK'
  OBVIOUS
<1>p. \A p \in Proc : p[1] \in Worker /\ p[2] \in Loop
  BY DEF Proc
<1>r. {"Retry", "DLQ"} \subseteq Route
  BY DEF Route
<1>l. \A t \in Loop : Len(log[t]) \in Nat /\ committed[t] \in Nat /\ position[t] \in Nat
  BY LenProperties DEF TypeOK
<1>d. \A r : DestTopic(r) \in Loop \cup {"dlq"}
  BY DEF DestTopic, Loop
<1>2. ASSUME NEW m \in Msg, Submit(m) PROVE TypeOK'
  <2> DEFINE h == [msg |-> m, rc |-> 0, reason |-> FALSE]
  <2>1. h \in Headers /\ "main" \in Loop \cup {"dlq"} /\ ProduceOk(h, "main")
    BY <1>2 DEF Headers, Loop, Submit
  <2> HIDE DEF h
  <2>2. LogGrows /\ dlq' \subseteq Msg /\ faults' \in 0 .. MaxFaults
    BY <2>1, ProduceType
  <2>3. /\ submitted' \subseteq Msg
        /\ UNCHANGED <<committed, position, owner, live, loops, done, refused, fails>>
    BY <1>2 DEF Submit, TypeOK
  <2>4. TopicsType' /\ LoopsType'
    BY <2>2, <2>3, GrowthType
  <2>5. QED
    BY TypeAssembled, <2>2, <2>3, <2>4 DEF TypeOK, RestType
<1>3. ASSUME NEW t \in Loop, NEW w \in Worker, Rebalance(t, w) PROVE TypeOK'
  <2>1. faults' \in 0 .. MaxFaults
    BY <1>3, SpendType DEF Rebalance, TypeOK
  <2>2. owner' \in [Loop -> Worker] /\ position' \in [Loop -> Nat]
    BY <1>3 DEF Rebalance, TypeOK
  <2>3. TopicsType'
    BY <1>3, <2>2 DEF Rebalance, TypeOK, TopicsType
  <2>4. UNCHANGED <<log, dlq, live, loops, history>>
    BY <1>3 DEF Rebalance
  <2>5. LoopsType'
    BY <2>4, NoGrowth, GrowthType
  <2>6. QED
    BY TypeAssembled, <2>1, <2>2, <2>3, <2>4, <2>5 DEF TypeOK, RestType, history
<1>4. ASSUME NEW p \in Proc, Poll(p) PROVE TypeOK'
  <2>1. PICK n \in 1 .. FetchLimit :
          /\ position[p[2]] + n <= Len(log[p[2]])
          /\ position' = [position EXCEPT ![p[2]] = position[p[2]] + n]
          /\ first' = [first EXCEPT ![p] = position[p[2]]]
          /\ next' = [next EXCEPT ![p] = position[p[2]] + 1]
          /\ last' = [last EXCEPT ![p] = position[p[2]] + n]
    BY <1>4 DEF Poll
  <2>2. n \in Nat \ {0}
    BY KafkaAssumption
  <2>3. /\ pc' = [pc EXCEPT ![p] = "handle"] /\ "handle" \in PC
        /\ UNCHANGED <<log, dlq, committed, owner, live, route, attempt, history, faults>>
    BY <1>4 DEF Poll, PC
  <2>4. TopicsType'
    BY <1>p, <1>l, <2>1, <2>2, <2>3, SMTT(60) DEF TypeOK, TopicsType
  <2>5. first' \in [Proc -> Nat] /\ next' \in [Proc -> Nat] /\ last' \in [Proc -> Nat]
    BY <1>p, <1>l, <2>1, <2>2, SMTT(60) DEF TypeOK
  <2>6. \A q \in Proc : IF q = p THEN /\ first'[q] = position[p[2]]
                                      /\ next'[q] = position[p[2]] + 1
                                      /\ last'[q] = position[p[2]] + n
                                 ELSE /\ first'[q] = first[q] /\ next'[q] = next[q]
                                      /\ last'[q] = last[q] /\ pc'[q] = pc[q]
    BY <2>1, <2>3 DEF TypeOK
  <2>7. \A q \in Proc : /\ next'[q] \in first'[q] + 1 .. last'[q] + 1
                        /\ last'[q] \in first'[q] .. Len(log[q[2]])
                        /\ pc'[q] \in {"handle", "publish"} => next'[q] <= last'[q]
    <3>1. /\ position[p[2]] \in Nat /\ Len(log[p[2]]) \in Nat
          /\ position[p[2]] + n <= Len(log[p[2]])
      BY <1>p, <1>l, <2>1
    <3>2. ASSUME NEW q \in Proc, q # p
          PROVE  /\ next'[q] \in first'[q] + 1 .. last'[q] + 1
                 /\ last'[q] \in first'[q] .. Len(log[q[2]])
                 /\ pc'[q] \in {"handle", "publish"} => next'[q] <= last'[q]
      BY <2>6, <3>2 DEF TypeOK
    <3>3. QED
      BY <2>2, <2>6, <3>1, <3>2
  <2>8. LoopsType'
    BY <2>3, <2>5, <2>7 DEF TypeOK, LoopsType
  <2>9. QED
    BY TypeAssembled, <2>3, <2>4, <2>8 DEF TypeOK, RestType, history
<1>5. ASSUME NEW p \in Proc, NEW o \in Outcome, HandleAs(p, o) PROVE TypeOK'
  <2>1. /\ pc[p] = "handle" /\ NoteOutcome(Current(p).msg, o) /\ RouteRecord(p, o)
        /\ UNCHANGED <<topics, live, submitted, faults>>
    BY <1>5 DEF HandleAs
  <2>2. Current(p).msg \in Msg
    BY <2>1, CurrentType
  <2>3. LogGrows /\ TopicsType'
    BY <2>1, NoGrowth, GrowthType DEF topics
  <2>4. LoopsType'
    BY <1>r, <2>1, <2>3, RouteType, RouteRecordCases
  <2>5. done' \subseteq Msg /\ refused' \subseteq Msg
    BY <2>1, <2>2 DEF NoteOutcome, TypeOK
  <2>6. fails' \in [Msg -> 0 .. FailCap]
    <3>1. fails[Current(p).msg] < FailCap => fails[Current(p).msg] + 1 \in 0 .. FailCap
      BY <2>2, MaxRetriesNat DEF TypeOK
    <3>2. QED
      BY <2>1, <2>2, <3>1 DEF NoteOutcome, TypeOK
  <2>7. QED
    BY TypeAssembled, <2>1, <2>3, <2>4, <2>5, <2>6 DEF TypeOK, RestType, topics
<1>6. ASSUME NEW p \in Proc, pc[p] \in {"handle", "publish"},
             NEW h \in Headers, NEW t \in Loop \cup {"dlq"},
             ProduceOk(h, t) \/ ProduceError(p[1], h, t),
             \/ Advance(p) \/ StopBatch(p) \/ \E r \in Route : BeginRepublish(p, r)
             \/ /\ attempt' = [attempt EXCEPT ![p] = @ + 1] /\ attempt[p] # Attempts
                /\ UNCHANGED <<pc, first, next, last, route>>,
             UNCHANGED <<committed, position, owner, live, history>>
      PROVE  TypeOK'
  <2>1. LogGrows /\ dlq' \subseteq Msg /\ faults' \in 0 .. MaxFaults
    BY <1>6, ProduceType
  <2>2. TopicsType'
    BY <1>6, <2>1, GrowthType
  <2>3. LoopsType'
    <3>1. CASE Advance(p) \/ StopBatch(p) \/ \E r \in Route : BeginRepublish(p, r)
      <4>1. "Commit" \in Route
        BY DEF Route
      <4>2. QED
        BY <1>6, <2>1, <3>1, <4>1, RouteType
    <3>2. CASE /\ attempt' = [attempt EXCEPT ![p] = @ + 1] /\ attempt[p] # Attempts
               /\ UNCHANGED <<pc, first, next, last, route>>
      <4>0. attempt[p] \in 0 .. Attempts /\ attempt[p] # Attempts
        BY <3>2 DEF TypeOK
      <4>1. attempt[p] + 1 \in 0 .. Attempts
        BY <4>0 DEF Attempts
      <4>2. attempt' \in [Proc -> 0 .. Attempts]
        BY <3>2, <4>1 DEF TypeOK
      <4>3. \A q \in Proc : /\ q[2] \in Loop /\ Len(log'[q[2]]) \in Nat
                            /\ Len(log[q[2]]) <= Len(log'[q[2]])
        BY <1>p, <2>1, LenProperties DEF LogGrows
      <4>4. \A q \in Proc : /\ next[q] \in first[q] + 1 .. last[q] + 1
                            /\ last[q] \in first[q] .. Len(log[q[2]])
                            /\ pc[q] \in {"handle", "publish"} => next[q] <= last[q]
                            /\ first[q] \in Nat /\ last[q] \in Nat
        BY DEF TypeOK
      <4>5. \A q \in Proc : last[q] \in first[q] .. Len(log'[q[2]])
        BY <1>p, <1>l, <4>3, <4>4
      <4>6. QED
        BY <3>2, <4>2, <4>4, <4>5 DEF TypeOK, LoopsType
    <3>3. QED
      BY <1>6, <3>1, <3>2
  <2>4. QED
    BY TypeAssembled, <1>6, <2>1, <2>2, <2>3 DEF TypeOK, RestType, history
<1>7. ASSUME NEW p \in Proc, ForwardOk(p) \/ ForwardFails(p) PROVE TypeOK'
  <2>1. pc[p] = "handle"
    BY <1>7 DEF ForwardOk, ForwardFails
  <2>2. ForwardHeaders(Current(p)) \in Headers /\ "main" \in Loop
    BY <2>1, CurrentType, HeadersType DEF Loop
  <2>3. Advance(p) \/ StopBatch(p) \/ \E r \in Route : BeginRepublish(p, r)
    BY <1>7, <1>r, RouteRecordCases DEF ForwardOk, ForwardFails
  <2>4. QED
    BY <1>6, <1>7, <2>1, <2>2, <2>3 DEF ForwardOk, ForwardFails
<1>8. ASSUME NEW p \in Proc, ForwardCancelled(p) PROVE TypeOK'
  <2>1. /\ pc[p] = "handle" /\ RouteRecord(p, "cancelled")
        /\ UNCHANGED <<topics, live, history, faults>>
    BY <1>8 DEF ForwardCancelled
  <2>2. LogGrows /\ TopicsType'
    BY <2>1, NoGrowth, GrowthType DEF topics
  <2>3. LoopsType'
    BY <1>r, <2>1, <2>2, RouteType, RouteRecordCases
  <2>4. QED
    BY TypeAssembled, <2>1, <2>2, <2>3 DEF TypeOK, RestType, topics, history
<1>9. ASSUME NEW p \in Proc, RepublishOk(p) \/ RepublishFails(p) PROVE TypeOK'
  <2>1. pc[p] = "publish"
    BY <1>9 DEF RepublishOk, RepublishFails
  <2>2. RepublishHeaders(Current(p), route[p]) \in Headers
    BY <2>1, CurrentType, HeadersType
  <2>3. QED
    BY <1>6, <1>9, <1>d, <2>1, <2>2 DEF RepublishOk, RepublishFails, GivesUp
<1>10. ASSUME NEW p \in Proc, Commit(p) PROVE TypeOK'
  <2>1. next[p] - 1 \in Nat /\ next[p] - 1 <= Len(log[p[2]])
    BY <1>p, <1>l DEF TypeOK
  <2>2. /\ pc' = [pc EXCEPT ![p] = "poll"] /\ "poll" \in PC
        /\ UNCHANGED <<log, dlq, position, owner, live, first, next, last, route, attempt, history>>
    BY <1>10 DEF Commit, PC
  <2>3. committed' = committed \/ committed' = [committed EXCEPT ![p[2]] = next[p] - 1]
    BY <1>10 DEF Commit
  <2>4. TopicsType'
    BY <1>p, <2>1, <2>2, <2>3 DEF TypeOK, TopicsType
  <2>5. LoopsType'
    BY <2>2 DEF TypeOK, LoopsType
  <2>6. faults' \in 0 .. MaxFaults
    BY <1>10, SpendType DEF Commit, TypeOK
  <2>7. QED
    BY TypeAssembled, <2>2, <2>4, <2>5, <2>6 DEF TypeOK, RestType, history
<1>11. ASSUME NEW p \in Proc, StopLoop(p) PROVE TypeOK'
  BY <1>11 DEF StopLoop, TypeOK, PC, topics, history
<1>12. ASSUME NEW w \in Worker, Cancel(w) PROVE TypeOK'
  <2>1. faults' \in 0 .. MaxFaults
    BY <1>12, SpendType DEF Cancel
  <2>2. QED
    BY <1>12, <2>1 DEF Cancel, TypeOK, topics, loops, history
<1>13. ASSUME NEW w \in Worker, Crash(w) PROVE TypeOK'
  <2>1. faults' \in 0 .. MaxFaults
    BY <1>13, SpendType DEF Crash
  <2>2. "stopped" \in PC /\ "Commit" \in Route /\ 0 \in 0 .. Attempts
    BY DEF PC, Route, Attempts
  <2>3. LoopsType' /\ live' \in [Worker -> BOOLEAN] /\ UNCHANGED <<topics, history>>
    BY <1>13, <2>2 DEF Crash, TypeOK, LoopsType, topics
  <2>4. QED
    BY TypeAssembled, <2>1, <2>3 DEF TypeOK, RestType, TopicsType, topics, history
<1>14. ASSUME NEW w \in Worker, Restart(w) PROVE TypeOK'
  <2>1. "poll" \in PC
    BY DEF PC
  <2>2. pc' \in [Proc -> PC] /\ position' \in [Loop -> Nat] /\ live' \in [Worker -> BOOLEAN]
    BY <1>14, <2>1 DEF Restart, TypeOK
  <2>3. /\ UNCHANGED <<log, dlq, committed, owner, first, next, last, route, attempt, history,
                       faults>>
        /\ \A t \in Loop : position'[t] \in {committed[t], position[t]}
    BY <1>14 DEF Restart
  <2>4. TopicsType'
    BY <2>2, <2>3 DEF TypeOK, TopicsType
  <2>5. \A q \in Proc : pc'[q] = pc[q] \/ pc'[q] = "poll"
    BY <1>14 DEF Restart
  <2>6. LoopsType'
    BY <2>2, <2>3, <2>5 DEF TypeOK, LoopsType
  <2>7. QED
    BY TypeAssembled, <2>2, <2>3, <2>4, <2>6 DEF TypeOK, RestType, history
<1>15. CASE UNCHANGED vars
  BY <1>15 DEF TypeOK, vars
<1>16. QED
  BY <1>2, <1>3, <1>4, <1>5, <1>7, <1>8, <1>9, <1>10, <1>11, <1>12, <1>13, <1>14, <1>15
     DEF Next, Step, PollNothing, Handle

\* The initial state is well typed.
LEMMA TypeInit == Init => TypeOK
<1>1. /\ "poll" \in PC /\ "Commit" \in Route /\ 0 \in 0 .. Attempts /\ 0 \in 0 .. FailCap
      /\ 0 \in 0 .. MaxFaults
  BY MaxRetriesNat, KafkaAssumption DEF PC, Route, Attempts
<1>2. \A p \in Proc : p[2] \in Loop
  BY DEF Proc
<1>3. <<>> \in Seq(Rec) /\ Len(<<>>) = 0
  OBVIOUS
<1>4. QED
  BY <1>1, <1>2, <1>3 DEF Init, TypeOK

\* Every variable always has its type: in particular the committed and the fetch
\* position never pass the end of the log, and a loop never runs past its batch.
THEOREM TypeCorrect == Spec => []TypeOK
  BY TypeInit, TypeStep, PTL DEF Spec

--------------------------------------------------------------------------------
(* What is known of a message wherever it is.  A record's retry count never  *)
(* exceeds the transient errors its message has met, nor one (republish      *)
(* starts from zero each time), so the retry loop's own budget is never met   *)
(* and a decision for the dead-letter topic was earned when it was taken.    *)

Justified(m) == m \in refused \/ fails[m] > MaxRetries

\* Record r may stand in topic t.
Earned(t, r) == /\ r.msg \in submitted
                /\ r.rc <= 1 /\ r.rc <= fails[r.msg]
                /\ t = "retry" => fails[r.msg] >= 1

\* The decision loop p is about to publish for its current record.
RouteEarned(p) == IF route[p] = "DLQ" THEN Justified(Current(p).msg)
                                      ELSE fails[Current(p).msg] >= 1

Provenance ==
  /\ \A t \in Loop : \A k \in 1 .. Len(log[t]) : Earned(t, log[t][k])
  /\ \A p \in Proc : pc[p] = "publish" => RouteEarned(p)
  /\ done \subseteq submitted
  /\ \A m \in dlq : m \in submitted /\ Justified(m)

HistoryGrows == /\ submitted \subseteq submitted'
                /\ refused \subseteq refused'
                /\ \A m \in Msg : fails[m] <= fails'[m]

\* What was earned stays earned.
LEMMA EarnedStable ==
  ASSUME TypeOK, TypeOK', HistoryGrows
  PROVE  /\ \A t \in Loop, r \in Rec : Earned(t, r) => Earned(t, r)'
         /\ \A m \in Msg : Justified(m) => Justified(m)'
         /\ \A m \in Msg : fails[m] >= 1 => fails'[m] >= 1
<1>1. \A m \in Msg : fails[m] \in Nat /\ fails'[m] \in Nat
  BY MaxRetriesNat DEF TypeOK
<1>2. \A r \in Rec : r.msg \in Msg /\ r.rc \in Nat
  BY DEF Rec
<1>3. QED
  BY <1>1, <1>2, MaxRetriesNat DEF HistoryGrows, Earned, Justified

\* The record a loop has not finished with stays where it is.
LEMMA CurrentStays ==
  ASSUME TypeOK, LogGrows, NEW p \in Proc, pc[p] \in {"handle", "publish"}, next'[p] = next[p]
  PROVE  Current(p)' = Current(p)
  BY CurrentType DEF LogGrows, Current

\* A step preserves Provenance when what it appends, decides and dead-letters is earned.
LEMMA ProvenanceKept ==
  ASSUME TypeOK, TypeOK', Provenance, HistoryGrows, LogGrows,
         \A t \in Loop : \A k \in 1 .. Len(log'[t]) : k <= Len(log[t]) \/ Earned(t, log[t][k])',
         \A p \in Proc : pc'[p] = "publish" =>
           \/ pc[p] = "publish" /\ next'[p] = next[p] /\ route'[p] = route[p]
           \/ RouteEarned(p)',
         done' \subseteq submitted',
         \A m \in dlq' : m \in dlq \/ (m \in submitted' /\ Justified(m)')
  PROVE  Provenance'
<1>l. \A t \in Loop : /\ log[t] \in Seq(Rec) /\ Len(log[t]) \in Nat /\ Len(log'[t]) \in Nat
                      /\ \A k \in 1 .. Len(log[t]) : log[t][k] \in Rec
  <2>1. \A t \in Loop : log[t] \in Seq(Rec) /\ log'[t] \in Seq(Rec)
    BY DEF TypeOK
  <2>2. QED
    BY <2>1, LenProperties, ElementOfSeq
<1>1. ASSUME NEW t \in Loop, NEW k \in 1 .. Len(log'[t]) PROVE Earned(t, log[t][k])'
  <2>1. CASE k <= Len(log[t])
    <3>1. k \in 1 .. Len(log[t])
      BY <1>l, <2>1
    <3>2. log'[t][k] = log[t][k] /\ log[t][k] \in Rec /\ Earned(t, log[t][k])
      BY <1>l, <3>1 DEF LogGrows, Provenance
    <3>3. PICK r \in Rec : r = log[t][k]
      BY <3>2
    <3>4. Earned(t, r)'
      BY <3>2, <3>3, EarnedStable
    <3>5. QED
      BY <3>2, <3>3, <3>4 DEF Earned
  <2>2. QED
    BY <2>1
<1>2. ASSUME NEW p \in Proc, pc'[p] = "publish" PROVE RouteEarned(p)'
  <2>1. CASE pc[p] = "publish" /\ next'[p] = next[p] /\ route'[p] = route[p]
    <3>1. RouteEarned(p)
      BY <2>1 DEF Provenance
    <3>2. Current(p)' = Current(p) /\ Current(p).msg \in Msg
      BY <2>1, CurrentStays, CurrentType
    <3>3. PICK m \in Msg : m = Current(p).msg
      BY <3>2
    <3>4. (Justified(m) => Justified(m)') /\ (fails[m] >= 1 => fails'[m] >= 1)
      BY EarnedStable
    <3>5. QED
      BY <2>1, <3>1, <3>2, <3>3, <3>4 DEF RouteEarned, Justified
  <2>2. QED
    BY <1>2, <2>1
<1>3. \A m \in dlq' : m \in submitted' /\ Justified(m)'
  <2>1. dlq \subseteq Msg
    BY DEF TypeOK
  <2>2. QED
    BY <2>1, EarnedStable DEF Provenance, HistoryGrows
<1>4. QED
  BY <1>1, <1>2, <1>3 DEF Provenance

\* What a publish, whatever its outcome, can add to the topics.
LEMMA ProduceStores ==
  ASSUME TypeOK, NEW h \in Headers, NEW t \in Loop \cup {"dlq"}, NEW w,
         ProduceOk(h, t) \/ ProduceError(w, h, t)
  PROVE  /\ LogGrows
         /\ \A u \in Loop : \A k \in 1 .. Len(log'[u]) :
              \/ k <= Len(log[u])
              \/ u = t /\ log'[u][k].msg = h.msg /\ log'[u][k].rc = h.rc
         /\ \A m \in dlq' : m \in dlq \/ (t = "dlq" /\ m = h.msg)
<1>l. \A u \in Loop : Len(log[u]) \in Nat
  BY LenProperties DEF TypeOK
<1>1. CASE Produce(h, t)
  <2>1. CASE t = "dlq"
    <3>1. log' = log /\ dlq' = dlq \cup {h.msg}
      BY <1>1, <2>1, ProduceEffect DEF Loop
    <3>2. QED
      BY <1>l, <2>1, <3>1, NoGrowth
  <2>2. CASE t # "dlq"
    <3>1. t \in Loop /\ Appended(h, t)
      BY <1>1, <2>2, ProduceEffect
    <3>2. QED
      BY <1>l, <3>1 DEF Appended
  <2>3. QED
    BY <2>1, <2>2
<1>2. CASE UNCHANGED <<log, dlq>>
  BY <1>l, <1>2, NoGrowth
<1>3. QED
  BY <1>1, <1>2 DEF ProduceOk, ProduceError

\* Where the loops are once loop p's record has been routed or its republish has ended.
LEMMA RouteLoops ==
  ASSUME TypeOK, NEW p \in Proc,
         \/ Advance(p) \/ StopBatch(p)
         \/ \E r \in {"Retry", "DLQ"} : BeginRepublish(p, r)
  PROVE  \A q \in Proc : pc'[q] = "publish" =>
           \/ q # p /\ pc[q] = "publish" /\ next'[q] = next[q] /\ route'[q] = route[q]
           \/ /\ q = p /\ next'[p] = next[p]
              /\ \E r \in {"Retry", "DLQ"} : route'[p] = r /\ BeginRepublish(p, r)
<1>1. CASE Advance(p)
  <2>1. \A q \in Proc : /\ q # p => /\ pc'[q] = pc[q] /\ next'[q] = next[q]
                                    /\ route'[q] = route[q]
                        /\ q = p => pc'[q] # "publish"
    BY <1>1 DEF Advance, TypeOK
  <2>2. QED
    BY <2>1
<1>2. CASE StopBatch(p)
  <2>1. \A q \in Proc : /\ q # p => /\ pc'[q] = pc[q] /\ next'[q] = next[q]
                                    /\ route'[q] = route[q]
                        /\ q = p => pc'[q] # "publish"
    BY <1>2 DEF StopBatch, TypeOK
  <2>2. QED
    BY <2>1
<1>3. ASSUME NEW r \in {"Retry", "DLQ"}, BeginRepublish(p, r)
      PROVE  \A q \in Proc : /\ next'[q] = next[q]
                             /\ q # p => pc'[q] = pc[q] /\ route'[q] = route[q]
                             /\ q = p => route'[q] = r
  BY <1>3 DEF BeginRepublish, TypeOK
<1>4. QED
  BY <1>1, <1>2, <1>3

\* A decision is earned when it is taken: the routing of answer o for p's record.  The
\* retry loop's budget is out of a retry count's reach.
LEMMA DecisionEarned ==
  ASSUME TypeOK, NEW p \in Proc, pc[p] = "handle", Earned(p[2], Current(p)),
         NEW o \in Outcome, NEW m \in Msg, m = Current(p).msg,
         \/ p[2] = "main" /\ NoteOutcome(m, o)
         \/ p[2] = "retry" /\ o # "permanent" /\ UNCHANGED history,
         NEW r, r = KafkaDecideRoute(o, Current(p).rc, Budget(p))
  PROVE  /\ r = "DLQ" => Justified(m)'
         /\ r = "Retry" => fails'[m] >= 1
<1>1. /\ fails[m] \in Nat /\ Current(p).rc \in Nat
      /\ Current(p).rc <= 1 /\ Current(p).rc <= fails[m]
      /\ p[2] = "retry" => fails[m] >= 1
  <2>1. fails[m] \in Nat
    BY MaxRetriesNat DEF TypeOK
  <2>2. Current(p).rc \in Nat
    BY CurrentType
  <2>3. QED
    BY <2>1, <2>2 DEF Earned
<1>2. MaxRetries \in Nat
  BY MaxRetriesNat
<1>3. CASE o \in {"ok", "cancelled"}
  BY <1>3 DEF KafkaDecideRoute
<1>4. CASE o = "permanent"
  <2>1. m \in refused' /\ r = "DLQ"
    BY <1>4 DEF NoteOutcome, KafkaDecideRoute
  <2>2. QED
    BY <2>1 DEF Justified
<1>5. CASE o = "transient"
  <2>1. r = IF Current(p).rc >= Budget(p) THEN "DLQ" ELSE "Retry"
    <3>1. CASE Current(p).rc >= Budget(p)
      BY <1>5, <3>1 DEF KafkaDecideRoute
    <3>2. CASE ~(Current(p).rc >= Budget(p))
      BY <1>5, <3>2 DEF KafkaDecideRoute
    <3>3. QED
      BY <3>1, <3>2
  <2>2. CASE p[2] = "main"
    <3>1. fails'[m] = fails[m] + 1 /\ Budget(p) = MaxRetries
      BY <1>5, <2>2 DEF NoteOutcome, TypeOK, Budget
    <3>2. QED
      BY <1>1, <1>2, <2>1, <3>1 DEF Justified
  <2>3. CASE p[2] = "retry"
    <3>1. fails' = fails /\ Budget(p) = 2147483647
      BY <2>3 DEF Budget, MaxInt32, history
    <3>2. QED
      BY <1>1, <2>1, <2>3, <3>1
  <2>4. QED
    BY <2>2, <2>3
<1>6. QED
  BY <1>3, <1>4, <1>5 DEF Outcome

\* Every step preserves Provenance.
LEMMA ProvenanceStep == TypeOK /\ Provenance /\ [Next]_vars => Provenance'
<1> SUFFICES ASSUME TypeOK, Provenance, [Next]_vars PROVE Provenance'
  OBVIOUS
<1>t. TypeOK'
  BY TypeStep
<1>n. \A m \in Msg : fails[m] \in Nat
  BY MaxRetriesNat DEF TypeOK
<1>l. \A t \in Loop : Len(log[t]) \in Nat
  BY LenProperties DEF TypeOK
<1>d. \A r : DestTopic(r) \in Loop \cup {"dlq"}
  BY DEF DestTopic, Loop
<1>c. ASSUME NEW p \in Proc, pc[p] \in {"handle", "publish"}
      PROVE  Current(p) \in Rec /\ Current(p).msg \in Msg /\ Earned(p[2], Current(p))
  BY <1>c, CurrentType DEF Current, Provenance
<1>1. ASSUME NEW m \in Msg, Submit(m) PROVE Provenance'
  <2> DEFINE h == [msg |-> m, rc |-> 0, reason |-> FALSE]
  <2>1. h \in Headers /\ h.msg = m /\ h.rc = 0 /\ "main" \in Loop \cup {"dlq"} /\ ProduceOk(h, "main")
    BY <1>1 DEF Headers, Loop, Submit
  <2> HIDE DEF h
  <2>2. /\ submitted' = submitted \cup {m}
        /\ UNCHANGED <<pc, next, route, done, refused, fails>>
    BY <1>1 DEF Submit, loops
  <2>3. HistoryGrows
    BY <1>n, <2>2 DEF HistoryGrows
  <2>4. /\ LogGrows
        /\ \A u \in Loop : \A k \in 1 .. Len(log'[u]) :
             \/ k <= Len(log[u])
             \/ u = "main" /\ log'[u][k].msg = m /\ log'[u][k].rc = 0
        /\ \A n \in dlq' : n \in dlq
    BY <2>1, ProduceStores
  <2>5. \A u \in Loop : \A k \in 1 .. Len(log'[u]) : k <= Len(log[u]) \/ Earned(u, log[u][k])'
    BY <1>n, <2>2, <2>4 DEF Earned
  <2>6. QED
    BY <1>t, <2>2, <2>3, <2>4, <2>5, ProvenanceKept DEF Provenance
<1>2. ASSUME NEW p \in Proc, NEW o \in Outcome, HandleAs(p, o) PROVE Provenance'
  <2>1. /\ p[2] = "main" /\ pc[p] = "handle" /\ RouteRecord(p, o)
        /\ NoteOutcome(Current(p).msg, o) /\ UNCHANGED <<topics, submitted>>
    BY <1>2 DEF HandleAs
  <2>2. PICK m \in Msg : m = Current(p).msg
    BY <1>c, <2>1
  <2>3. HistoryGrows /\ done' \subseteq submitted'
    BY <1>n, <1>c, <2>1, <2>2 DEF NoteOutcome, HistoryGrows, Provenance, Earned, TypeOK
  <2>4. LogGrows /\ dlq' = dlq /\ log' = log
    BY <2>1, NoGrowth DEF topics
  <2>5. \A q \in Proc : pc'[q] = "publish" =>
          \/ pc[q] = "publish" /\ next'[q] = next[q] /\ route'[q] = route[q]
          \/ RouteEarned(q)'
    <3>1. ASSUME NEW r \in {"Retry", "DLQ"}, BeginRepublish(p, r), route'[p] = r,
                 next'[p] = next[p]
          PROVE  RouteEarned(p)'
      <4>1. r = KafkaDecideRoute(o, Current(p).rc, Budget(p))
        BY <2>1, <3>1 DEF RouteRecord, BeginRepublish, Advance, StopBatch, TypeOK
      <4>2. (r = "DLQ" => Justified(m)') /\ (r = "Retry" => fails'[m] >= 1)
        BY <1>c, <2>1, <2>2, <4>1, DecisionEarned
      <4>3. Current(p)' = Current(p)
        BY <2>1, <2>4, <3>1, CurrentStays
      <4>4. QED
        BY <2>2, <3>1, <4>2, <4>3 DEF RouteEarned, Justified
    <3>2. QED
      BY <2>1, <3>1, RouteLoops, RouteRecordCases
  <2>6. QED
    BY <1>t, <1>l, <2>3, <2>4, <2>5, ProvenanceKept
<1>3. ASSUME NEW p \in Proc, ForwardOk(p) \/ ForwardFails(p) PROVE Provenance'
  <2> DEFINE h == ForwardHeaders(Current(p))
  <2>1. /\ p[2] = "retry" /\ pc[p] = "handle" /\ UNCHANGED history
        /\ ProduceOk(h, "main") \/ ProduceError(p[1], h, "main")
        /\ \E o \in {"ok", "transient"} : RouteRecord(p, o)
    BY <1>3 DEF ForwardOk, ForwardFails
  <2>2. PICK o \in {"ok", "transient"} : RouteRecord(p, o)
    BY <2>1
  <2>3. PICK m \in Msg : m = Current(p).msg
    BY <1>c, <2>1
  <2>4. h \in Headers /\ h.msg = m /\ h.rc = Current(p).rc /\ "main" \in Loop
    BY <1>c, <2>1, <2>3, HeadersType DEF Loop
  <2> HIDE DEF h
  <2>5. PICK rc \in Nat : rc = Current(p).rc /\ m \in submitted /\ rc <= 1 /\ rc <= fails[m]
    BY <1>c, <2>1, <2>3 DEF Earned, Rec
  <2>6. /\ LogGrows
        /\ \A u \in Loop : \A k \in 1 .. Len(log'[u]) :
             \/ k <= Len(log[u])
             \/ u = "main" /\ log'[u][k].msg = m /\ log'[u][k].rc = rc
        /\ \A n \in dlq' : n \in dlq
    BY <2>1, <2>4, <2>5, ProduceStores
  <2>7. \A u \in Loop : \A k \in 1 .. Len(log'[u]) : k <= Len(log[u]) \/ Earned(u, log[u][k])'
    BY <2>1, <2>5, <2>6 DEF Earned, history
  <2>8. HistoryGrows /\ done' \subseteq submitted'
    BY <1>n, <2>1 DEF HistoryGrows, history, Provenance
  <2>9. \A q \in Proc : pc'[q] = "publish" =>
          \/ pc[q] = "publish" /\ next'[q] = next[q] /\ route'[q] = route[q]
          \/ RouteEarned(q)'
    <3>1. ASSUME NEW r \in {"Retry", "DLQ"}, BeginRepublish(p, r), route'[p] = r,
                 next'[p] = next[p]
          PROVE  RouteEarned(p)'
      <4>1. r = KafkaDecideRoute(o, Current(p).rc, Budget(p))
        BY <2>2, <3>1 DEF RouteRecord, BeginRepublish, Advance, StopBatch, TypeOK
      <4>2. o \in Outcome /\ o # "permanent"
        BY DEF Outcome
      <4>3. (r = "DLQ" => Justified(m)') /\ (r = "Retry" => fails'[m] >= 1)
        BY <1>c, <2>1, <2>3, <4>1, <4>2, DecisionEarned
      <4>4. Current(p)' = Current(p)
        BY <2>1, <2>6, <3>1, CurrentStays
      <4>5. QED
        BY <2>3, <3>1, <4>3, <4>4 DEF RouteEarned, Justified
    <3>2. QED
      BY <2>2, <3>1, RouteLoops, RouteRecordCases
  <2>10. QED
    BY <1>t, <2>6, <2>7, <2>8, <2>9, ProvenanceKept
<1>4. ASSUME NEW p \in Proc, RepublishOk(p) \/ RepublishFails(p) PROVE Provenance'
  <2> DEFINE h == RepublishHeaders(Current(p), route[p])
             t == DestTopic(route[p])
  <2>1. /\ pc[p] = "publish" /\ UNCHANGED history
        /\ ProduceOk(h, t) \/ ProduceError(p[1], h, t)
    BY <1>4 DEF RepublishOk, RepublishFails
  <2>2. PICK m \in Msg : m = Current(p).msg
    BY <1>c, <2>1
  <2>3. /\ h \in Headers /\ h.msg = m /\ t \in Loop \cup {"dlq"}
        /\ route[p] # "DLQ" => h.rc = 1
        /\ t = "dlq" <=> route[p] = "DLQ"
    BY <1>c, <1>d, <2>1, <2>2, HeadersType DEF DestTopic
  <2> HIDE DEF h, t
  <2>4. /\ LogGrows
        /\ \A u \in Loop : \A k \in 1 .. Len(log'[u]) :
             \/ k <= Len(log[u])
             \/ u = t /\ log'[u][k].msg = m /\ log'[u][k].rc = h.rc
        /\ \A n \in dlq' : n \in dlq \/ (t = "dlq" /\ n = m)
    BY <2>1, <2>3, ProduceStores
  <2>5. m \in submitted /\ IF route[p] = "DLQ" THEN Justified(m) ELSE fails[m] >= 1
    BY <1>c, <2>1, <2>2 DEF Earned, Provenance, RouteEarned
  <2>6. /\ submitted' = submitted /\ refused' = refused /\ fails' = fails /\ done' = done
        /\ HistoryGrows /\ done' \subseteq submitted'
    BY <1>n, <2>1 DEF HistoryGrows, history, Provenance
  <2>7. \A u \in Loop : \A k \in 1 .. Len(log'[u]) : k <= Len(log[u]) \/ Earned(u, log[u][k])'
    <3>1. ASSUME NEW u \in Loop, NEW k \in 1 .. Len(log'[u]), ~(k <= Len(log[u]))
          PROVE  Earned(u, log[u][k])'
      <4>1. u = t /\ log'[u][k].msg = m /\ log'[u][k].rc = h.rc /\ u # "dlq"
        BY <2>4, <3>1 DEF Loop
      <4>2. log'[u][k].rc = 1 /\ fails[m] >= 1
        BY <2>3, <2>5, <4>1
      <4>3. QED
        BY <1>n, <2>5, <2>6, <4>1, <4>2 DEF Earned
    <3>2. QED
      BY <3>1
  <2>8. \A n \in dlq' : n \in dlq \/ (n \in submitted' /\ Justified(n)')
    BY <2>3, <2>4, <2>5, <2>6 DEF Justified
  <2>9. \A q \in Proc : pc'[q] = "publish" =>
          pc[q] = "publish" /\ next'[q] = next[q] /\ route'[q] = route[q]
    <3>1. Advance(p) \/ StopBatch(p) \/ UNCHANGED <<pc, next, route>>
      BY <1>4 DEF RepublishOk, RepublishFails
    <3>2. (Advance(p) \/ StopBatch(p)) =>
            \A q \in Proc : /\ q # p => /\ pc'[q] = pc[q] /\ next'[q] = next[q]
                                        /\ route'[q] = route[q]
                            /\ q = p => pc'[q] # "publish"
      BY DEF Advance, StopBatch, TypeOK
    <3>3. QED
      BY <3>1, <3>2
  <2>10. QED
    BY <1>t, <2>4, <2>6, <2>7, <2>8, <2>9, ProvenanceKept
<1>5. ASSUME UNCHANGED <<log, dlq, history>>,
             \A q \in Proc : pc'[q] = "publish" =>
               pc[q] = "publish" /\ next'[q] = next[q] /\ route'[q] = route[q]
      PROVE  Provenance'
  <2>1. LogGrows /\ HistoryGrows
    BY <1>n, <1>5, NoGrowth DEF HistoryGrows, history
  <2>2. QED
    BY <1>t, <1>l, <1>5, <2>1, ProvenanceKept DEF Provenance, history
<1>6. ASSUME NEW p \in Proc, ForwardCancelled(p) PROVE Provenance'
  <2>1. UNCHANGED <<topics, history>> /\ RouteRecord(p, "cancelled")
    BY <1>6 DEF ForwardCancelled
  <2>2. StopBatch(p)
    BY <2>1 DEF RouteRecord, KafkaDecideRoute
  <2>3. \A q \in Proc : pc'[q] = "publish" =>
          pc[q] = "publish" /\ next'[q] = next[q] /\ route'[q] = route[q]
    BY <2>2 DEF StopBatch, TypeOK
  <2>4. QED
    BY <1>5, <2>1, <2>3 DEF topics
<1>7. ASSUME NEW p \in Proc, Poll(p) \/ Commit(p) \/ StopLoop(p) PROVE Provenance'
  <2>1. /\ UNCHANGED <<log, dlq, route, history>>
        /\ \E x \in {"handle", "poll", "stopped"} : pc' = [pc EXCEPT ![p] = x]
        /\ next' = next \/ (pc[p] = "poll" /\ \E k : next' = [next EXCEPT ![p] = k])
    BY <1>7 DEF Poll, Commit, StopLoop, topics
  <2>2. \A q \in Proc : pc'[q] = "publish" =>
          pc[q] = "publish" /\ next'[q] = next[q] /\ route'[q] = route[q]
    BY <2>1 DEF TypeOK
  <2>3. QED
    BY <1>5, <2>1, <2>2
<1>8. ASSUME NEW w \in Worker, Crash(w) \/ Restart(w) PROVE Provenance'
  <2>1. UNCHANGED <<log, dlq, history>>
    BY <1>8 DEF Crash, Restart, topics
  <2>2. \A q \in Proc : pc'[q] = "publish" =>
          pc[q] = "publish" /\ next'[q] = next[q] /\ route'[q] = route[q]
    BY <1>8 DEF Crash, Restart
  <2>3. QED
    BY <1>5, <2>1, <2>2
<1>9. ASSUME UNCHANGED <<log, dlq, history, pc, next, route>> PROVE Provenance'
  BY <1>5, <1>9
<1>10. QED
  BY <1>1, <1>2, <1>3, <1>4, <1>6, <1>7, <1>8, <1>9
     DEF Next, Step, PollNothing, Handle, Rebalance, Cancel, topics, loops, vars, history

\* Provenance holds initially.
LEMMA ProvenanceInit == Init => Provenance
<1>1. Init => \A t \in Loop : Len(log[t]) = 0
  BY DEF Init
<1>2. QED
  BY <1>1 DEF Init, Provenance

\* Nothing is dead-lettered before its handler has refused it or failed on it more often
\* than the budget allows, whatever duplicates, rebalances and crashes add.
THEOREM DlqIsJustified == Spec => []DlqJustified
<1>1. Provenance => DlqJustified
  BY DEF Provenance, DlqJustified, Justified
<1>2. QED
  BY <1>1, TypeInit, TypeStep, ProvenanceInit, ProvenanceStep, PTL DEF Spec

================================================================================
