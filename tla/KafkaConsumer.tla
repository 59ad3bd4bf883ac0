----------------------------- MODULE KafkaConsumer -----------------------------
(***************************************************************************)
(* The Kafka side of the worker: Consume on the main topic and ConsumeRetry *)
(* on the retry topic, run by every worker process (kafka/consumer.go,       *)
(* kafka/client.go, kafka/producer.go, kafka/headers.go).                    *)
(*                                                                         *)
(* Each topic has one partition, a log that only grows; record k of a log   *)
(* has offset k-1.  The consumer group keeps the committed position of each *)
(* topic; the member that owns the partition also has a fetch position in   *)
(* memory, which a poll advances and only a (re)assignment moves back to    *)
(* the committed one.  Nothing consumes the dead-letter topic: it is the    *)
(* set of messages it holds.                                                *)
(***************************************************************************)
EXTENDS Integers, Sequences, FiniteSets, Routing

CONSTANTS
  Msg,                \* application messages
  Worker,             \* worker processes, each running both loops
  ConfiguredRetries,  \* kafka.consumer.max_retries
  FetchLimit,         \* the most records one poll returns
  Outcomes,           \* [Msg -> SUBSET Outcome]: what the handler may answer
  Faults,             \* the kinds of failure that may happen
  MaxFaults           \* bounds the failures

FaultKind == {"sendFails", "ackLost", "commitFails", "rebalances", "stops"}
Loop      == {"main", "retry"}     \* a loop has the name of the topic it polls
Proc      == Worker \X Loop

ASSUME KafkaAssumption ==
  /\ ConfiguredRetries \in Int
  /\ FetchLimit \in Nat \ {0}
  /\ Outcomes \in [Msg -> SUBSET Outcome]
  /\ Faults \subseteq FaultKind
  /\ MaxFaults \in Nat

\* The retry budget once Consume has applied its defaults; ConsumeRetry passes
\* math.MaxInt32, which no retry count reaches.
MaxRetries == EffectiveMaxRetries(ConfiguredRetries)
MaxInt32   == 2147483647
Budget(p)  == IF p[2] = "main" THEN MaxRetries ELSE MaxInt32
Attempts   == 3

VARIABLES
  log,        \* log[t]: the records of topic t
  dlq,        \* messages in the dead-letter topic
  committed,  \* committed[t]: records of t the group has committed
  position,   \* position[t]: records of t its owner has fetched
  owner,      \* owner[t]: the worker t's partition is assigned to
  live,       \* live[w]: w runs and its errgroup context is not cancelled
  pc,         \* where each loop is
  first,      \* records fetched before the loop's batch
  next,       \* the record being processed
  last,       \* the last record of the batch
  route,      \* the routing decision for the record being processed
  attempt,    \* attempts made to publish it, this one included
  submitted, done, refused, fails, faults
              \* history: messages accepted; messages a handler succeeded on;
              \* messages a handler refused for good; transient handler errors
              \* per message; faults so far

topics  == <<log, dlq, committed, position, owner>>
loops   == <<pc, first, next, last, route, attempt>>
history == <<submitted, done, refused, fails>>
vars    == <<log, dlq, committed, position, owner, live, pc, first, next, last,
             route, attempt, submitted, done, refused, fails, faults>>

Rec     == [msg : Msg, rc : Nat]
FailCap == MaxRetries + 2   \* bounds the transient errors a message may meet

--------------------------------------------------------------------------------
(* Record headers: msg stands for key, value and custom headers, rc for     *)
(* x-retry-count (0 when absent), reason for x-error-reason.                *)

SanitizeForRepublish(r) == [msg |-> r.msg, rc |-> 0, reason |-> FALSE]
IncRetryCount(h)        == [msg |-> h.msg, rc |-> h.rc + 1, reason |-> h.reason]
SetErrorReason(h)       == [msg |-> h.msg, rc |-> h.rc, reason |-> TRUE]

\* republish: the count is incremented on the headers SanitizeForRepublish has
\* just stripped it from.
RepublishHeaders(r, rt) ==
  IF rt = "DLQ" THEN SetErrorReason(SanitizeForRepublish(r))
                ELSE IncRetryCount(SanitizeForRepublish(r))

\* The retry consumer's handler puts the stripped count back.
ForwardHeaders(r) == [msg |-> r.msg, rc |-> r.rc, reason |-> FALSE]

\* The retry suffix is stripped from the origin before the new one is added.
DestTopic(rt) == IF rt = "DLQ" THEN "dlq" ELSE "retry"

--------------------------------------------------------------------------------
(* The brokers and the client library, as the consumers use them.           *)

Produce(h, t) ==
  IF t = "dlq" THEN dlq' = dlq \cup {h.msg} /\ UNCHANGED log
               ELSE /\ log' = [log EXCEPT ![t] = Append(@, [msg |-> h.msg, rc |-> h.rc])]
                    /\ UNCHANGED dlq

Spend(kind) == /\ kind \in Faults
               /\ faults < MaxFaults
               /\ faults' = faults + 1

\* ProduceSync of worker w returns an error; the record may have been appended.
ProduceError(w, h, t) ==
  \/ /\ \/ ~live[w] /\ UNCHANGED faults
        \/ Spend("sendFails")
     /\ UNCHANGED <<log, dlq>>
  \/ /\ Spend("ackLost")
     /\ Produce(h, t)

ProduceOk(h, t) == Produce(h, t) /\ UNCHANGED faults

\* The application publishes m to the main topic.
Submit(m) ==
  /\ m \notin submitted
  /\ ProduceOk([msg |-> m, rc |-> 0, reason |-> FALSE], "main")
  /\ submitted' = submitted \cup {m}
  /\ UNCHANGED <<committed, position, owner, live, loops, done, refused, fails>>

\* The group gives t's partition to worker w, which resumes at the committed
\* position.  Free when the owner has stopped, otherwise a fault: the owner is
\* still processing what it has fetched.
Rebalance(t, w) ==
  /\ owner[t] # w
  /\ live[w]
  /\ owner' = [owner EXCEPT ![t] = w]
  /\ position' = [position EXCEPT ![t] = committed[t]]
  /\ IF pc[<<owner[t], t>>] = "stopped" THEN UNCHANGED faults ELSE Spend("rebalances")
  /\ UNCHANGED <<log, dlq, committed, live, loops, history>>

--------------------------------------------------------------------------------
(* Consume: the loop shared by both topics.                                 *)

Current(p) == log[p[2]][next[p]]

\* PollFetches hands out the next records of the partition and moves the fetch
\* position past them, whatever becomes of them.
Poll(p) ==
  /\ pc[p] = "poll"
  /\ live[p[1]]
  /\ owner[p[2]] = p[1]
  /\ \E n \in 1 .. FetchLimit :
       /\ position[p[2]] + n <= Len(log[p[2]])
       /\ position' = [position EXCEPT ![p[2]] = @ + n]
       /\ first' = [first EXCEPT ![p] = position[p[2]]]
       /\ next' = [next EXCEPT ![p] = position[p[2]] + 1]
       /\ last' = [last EXCEPT ![p] = position[p[2]] + n]
  /\ pc' = [pc EXCEPT ![p] = "handle"]
  /\ UNCHANGED <<log, dlq, committed, owner, live, route, attempt, history, faults>>

\* An empty poll, a fetch error, or no partition assigned.
PollNothing(p) == /\ pc[p] = "poll"
                  /\ live[p[1]]
                  /\ UNCHANGED vars

\* Seeded fault: the end of the batch is missed by one.
AdvancePastEnd(p) ==
  /\ next' = [next EXCEPT ![p] = @ + 1]
  /\ pc' = [pc EXCEPT ![p] = IF next[p] > last[p] THEN "commit" ELSE "handle"]
  /\ route' = [route EXCEPT ![p] = "Commit"]
  /\ attempt' = [attempt EXCEPT ![p] = 0]
  /\ UNCHANGED <<first, last>>

\* The record is committable: take the next one, or commit the batch.
Advance(p) ==
  /\ next' = [next EXCEPT ![p] = @ + 1]
  /\ pc' = [pc EXCEPT ![p] = IF next[p] = last[p] THEN "commit" ELSE "handle"]
  /\ route' = [route EXCEPT ![p] = "Commit"]
  /\ attempt' = [attempt EXCEPT ![p] = 0]
  /\ UNCHANGED <<first, last>>

\* Seeded fault: the record that stopped the batch is committable too.
StopBatchInclusive(p) ==
  /\ pc' = [pc EXCEPT ![p] = "commit"]
  /\ next' = [next EXCEPT ![p] = @ + 1]
  /\ route' = [route EXCEPT ![p] = "Commit"]
  /\ attempt' = [attempt EXCEPT ![p] = 0]
  /\ UNCHANGED <<first, last>>

\* stopProcessing: the rest of the batch is left, what precedes is committed.
StopBatch(p) ==
  /\ pc' = [pc EXCEPT ![p] = "commit"]
  /\ route' = [route EXCEPT ![p] = "Commit"]
  /\ attempt' = [attempt EXCEPT ![p] = 0]
  /\ UNCHANGED <<first, next, last>>

\* Seeded fault: a routed record is committable without having been published.
AdvanceUnpublished(p, r) == Advance(p)

\* The record goes to republish with decision r.
BeginRepublish(p, r) ==
  /\ pc' = [pc EXCEPT ![p] = "publish"]
  /\ route' = [route EXCEPT ![p] = r]
  /\ attempt' = [attempt EXCEPT ![p] = 1]
  /\ UNCHANGED <<first, next, last>>

RouteRecord(p, err) ==
  LET r == KafkaDecideRoute(err, Current(p).rc, Budget(p))
  IN  \/ r = "Commit" /\ Advance(p)
      \/ r = "Drop" /\ StopBatch(p)
      \/ r \in {"Retry", "DLQ"} /\ BeginRepublish(p, r)

NoteOutcome(m, o) ==
  /\ done' = IF o = "ok" THEN done \cup {m} ELSE done
  /\ refused' = IF o = "permanent" THEN refused \cup {m} ELSE refused
  /\ o = "transient" => fails[m] < FailCap
  /\ fails' = IF o = "transient" THEN [fails EXCEPT ![m] = @ + 1] ELSE fails

\* What the handler may answer about m: a cancelled context may always surface.
Answers(p, m) == Outcomes[m] \cup (IF live[p[1]] THEN {} ELSE {"cancelled"})

\* The main loop's handler answers o for the current record.
HandleAs(p, o) == /\ p[2] = "main"
                  /\ pc[p] = "handle"
                  /\ o \in Answers(p, Current(p).msg)
                  /\ NoteOutcome(Current(p).msg, o)
                  /\ RouteRecord(p, o)
                  /\ UNCHANGED <<topics, live, submitted, faults>>

Handle(p) == \E o \in Outcome : HandleAs(p, o)

\* ConsumeRetry's handler publishes the record back to the main topic.
ForwardOk(p) ==
  /\ p[2] = "retry"
  /\ pc[p] = "handle"
  /\ ProduceOk(ForwardHeaders(Current(p)), "main")
  /\ RouteRecord(p, "ok")
  /\ UNCHANGED <<committed, position, owner, live, history>>

\* The publish fails with a transient error, which the loop routes like any other.
ForwardFails(p) ==
  /\ p[2] = "retry"
  /\ pc[p] = "handle"
  /\ ProduceError(p[1], ForwardHeaders(Current(p)), "main")
  /\ RouteRecord(p, "transient")
  /\ UNCHANGED <<committed, position, owner, live, history>>

\* The context is cancelled during the backoff delay or the publish.
ForwardCancelled(p) ==
  /\ p[2] = "retry"
  /\ pc[p] = "handle"
  /\ ~live[p[1]]
  /\ RouteRecord(p, "cancelled")
  /\ UNCHANGED <<topics, live, history, faults>>

\* republish stops trying when the context is cancelled or after three attempts.
GivesUp(p) == ~live[p[1]] \/ attempt[p] = Attempts

\* One attempt of republish succeeds.
RepublishOk(p) ==
  /\ pc[p] = "publish"
  /\ ProduceOk(RepublishHeaders(Current(p), route[p]), DestTopic(route[p]))
  /\ Advance(p)
  /\ UNCHANGED <<committed, position, owner, live, history>>

\* One attempt of republish fails: pause and try again, or stop the batch.
RepublishFails(p) ==
  /\ pc[p] = "publish"
  /\ ProduceError(p[1], RepublishHeaders(Current(p), route[p]), DestTopic(route[p]))
  /\ \/ GivesUp(p) /\ StopBatch(p)
     \/ /\ ~GivesUp(p)
        /\ attempt' = [attempt EXCEPT ![p] = @ + 1]
        /\ UNCHANGED <<pc, first, next, last, route>>
  /\ UNCHANGED <<committed, position, owner, live, history>>

\* CommitRecords commits past the last committable record, if there is one.  Its
\* failure (a cancelled context, a member the group has evicted) is only logged.
Commit(p) ==
  /\ pc[p] = "commit"
  /\ \/ /\ next[p] - 1 > first[p]
        /\ committed' = [committed EXCEPT ![p[2]] = next[p] - 1]
        /\ UNCHANGED faults
     \/ /\ next[p] - 1 = first[p] \/ ~live[p[1]] \/ owner[p[2]] # p[1]
        /\ UNCHANGED <<committed, faults>>
     \/ /\ Spend("commitFails")
        /\ UNCHANGED committed
  /\ pc' = [pc EXCEPT ![p] = "poll"]
  /\ UNCHANGED <<log, dlq, position, owner, live, first, next, last, route, attempt, history>>

\* The context is cancelled: the loop returns.
StopLoop(p) == /\ pc[p] = "poll"
               /\ ~live[p[1]]
               /\ pc' = [pc EXCEPT ![p] = "stopped"]
               /\ UNCHANGED <<topics, live, first, next, last, route, attempt, history, faults>>

--------------------------------------------------------------------------------
(* The worker process: errgroup, signals, crashes, the orchestrator.        *)

\* SIGTERM: the context both loops share is cancelled.
Cancel(w) == /\ live[w]
             /\ Spend("stops")
             /\ live' = [live EXCEPT ![w] = FALSE]
             /\ UNCHANGED <<topics, loops, history>>

ProcsOf(w) == {w} \X Loop

\* The process dies: what its loops hold is forgotten.
Crash(w) ==
  /\ Spend("stops")
  /\ \E p \in ProcsOf(w) : pc[p] # "stopped"
  /\ live' = [live EXCEPT ![w] = FALSE]
  /\ pc' = [p \in Proc |-> IF p \in ProcsOf(w) THEN "stopped" ELSE pc[p]]
  /\ route' = [p \in Proc |-> IF p \in ProcsOf(w) THEN "Commit" ELSE route[p]]
  /\ attempt' = [p \in Proc |-> IF p \in ProcsOf(w) THEN 0 ELSE attempt[p]]
  /\ UNCHANGED <<topics, first, next, last, history>>

\* Both loops have returned, or the process died; it is started again and resumes
\* the partitions it still owns at their committed positions.
Restart(w) ==
  /\ \A p \in ProcsOf(w) : pc[p] = "stopped"
  /\ live' = [live EXCEPT ![w] = TRUE]
  /\ pc' = [p \in Proc |-> IF p \in ProcsOf(w) THEN "poll" ELSE pc[p]]
  /\ position' = [t \in Loop |-> IF owner[t] = w THEN committed[t] ELSE position[t]]
  /\ UNCHANGED <<log, dlq, committed, owner, first, next, last, route, attempt,
                 history, faults>>

Init == /\ log = [t \in Loop |-> <<>>]
        /\ dlq = {}
        /\ committed = [t \in Loop |-> 0]
        /\ position = [t \in Loop |-> 0]
        /\ owner \in [Loop -> Worker]
        /\ live = [w \in Worker |-> TRUE]
        /\ pc = [p \in Proc |-> "poll"]
        /\ first = [p \in Proc |-> 0]
        /\ next = [p \in Proc |-> 1]
        /\ last = [p \in Proc |-> 0]
        /\ route = [p \in Proc |-> "Commit"]
        /\ attempt = [p \in Proc |-> 0]
        /\ submitted = {}
        /\ done = {}
        /\ refused = {}
        /\ fails = [m \in Msg |-> 0]
        /\ faults = 0

Step(p) == \/ Poll(p) \/ PollNothing(p) \/ Handle(p)
           \/ ForwardOk(p) \/ ForwardFails(p) \/ ForwardCancelled(p)
           \/ RepublishOk(p) \/ RepublishFails(p) \/ Commit(p) \/ StopLoop(p)

Next == \/ \E m \in Msg : Submit(m)
        \/ \E t \in Loop, w \in Worker : Rebalance(t, w)
        \/ \E p \in Proc : Step(p)
        \/ \E w \in Worker : Cancel(w) \/ Crash(w) \/ Restart(w)

Spec == Init /\ [][Next]_vars

--------------------------------------------------------------------------------
(* Fairness.  Goroutines are scheduled, handlers and broker calls return,   *)
(* polls return what is there, the orchestrator restarts a worker and the   *)
(* group reassigns the partitions of a stopped one.                         *)

Conclude(p, m) == /\ pc[p] = "handle"
                  /\ Current(p).msg = m
                  /\ \E o \in Outcomes[m] \cap {"ok", "permanent"} : HandleAs(p, o)

Fairness ==
  /\ \A p \in Proc : /\ WF_vars(Poll(p)) /\ WF_vars(Handle(p)) /\ WF_vars(Commit(p))
                     /\ WF_vars(ForwardOk(p) \/ ForwardFails(p) \/ ForwardCancelled(p))
                     /\ WF_vars(RepublishOk(p) \/ RepublishFails(p))
                     /\ WF_vars(StopLoop(p))
  /\ \A p \in Proc, m \in Msg : SF_vars(Conclude(p, m))
  /\ \A w \in Worker : WF_vars(Restart(w))

FairSpec == Spec /\ Fairness

--------------------------------------------------------------------------------
(* Properties.                                                              *)

PC == {"poll", "handle", "publish", "commit", "stopped"}

TypeOK ==
  /\ log \in [Loop -> Seq(Rec)]
  /\ dlq \subseteq Msg
  /\ committed \in [Loop -> Nat] /\ position \in [Loop -> Nat]
  /\ \A t \in Loop : committed[t] <= Len(log[t]) /\ position[t] <= Len(log[t])
  /\ owner \in [Loop -> Worker]
  /\ live \in [Worker -> BOOLEAN]
  /\ pc \in [Proc -> PC]
  /\ first \in [Proc -> Nat] /\ next \in [Proc -> Nat] /\ last \in [Proc -> Nat]
  /\ \A p \in Proc :
       /\ next[p] \in first[p] + 1 .. last[p] + 1
       /\ last[p] \in first[p] .. Len(log[p[2]])
       /\ pc[p] \in {"handle", "publish"} => next[p] <= last[p]
  /\ route \in [Proc -> Route]
  /\ attempt \in [Proc -> 0 .. Attempts]
  /\ submitted \subseteq Msg /\ done \subseteq Msg /\ refused \subseteq Msg
  /\ fails \in [Msg -> 0 .. FailCap]
  /\ faults \in 0 .. MaxFaults

settled == done \cup dlq

\* The messages of the records the group has not committed.
Uncommitted == UNION {{log[t][k].msg : k \in committed[t] + 1 .. Len(log[t])} : t \in Loop}

\* No message is lost: until a handler has succeeded on it or it is dead-lettered,
\* a record of it lies past the group's committed position.  This is what manual
\* commits after routing, and stopping the batch at a failure, are for.
NoMessageLost == submitted \ settled \subseteq Uncommitted

\* A message is dead-lettered only after its handler refused it, or after more
\* transient failures than the retry budget allows.
DlqJustified == \A m \in dlq : m \in refused \/ fails[m] > MaxRetries

\* Routing with a budget never makes a handler fail more than MaxRetries + 1 times
\* on a message, as long as no failure duplicates messages.
BudgetRespected == faults = 0 => \A m \in Msg : fails[m] <= MaxRetries + 1

\* Where the owner of topic t stands: the records before this one are processed.
Processed(t) == LET p == <<owner[t], t>>
                IN  IF pc[p] \in {"handle", "publish"} THEN next[p] - 1 ELSE position[t]

\* Before the first failure a message is in exactly one place: one record still to be
\* processed, or handled, or in the dead-letter topic.
MessageConserved ==
  faults = 0 => \A m \in submitted :
    LET kept == {tk \in Loop \X (1 .. Len(log["main"]) + Len(log["retry"])) :
                   /\ tk[2] \in Processed(tk[1]) + 1 .. Len(log[tk[1]])
                   /\ log[tk[1]][tk[2]].msg = m}
    IN  Cardinality(kept) + (IF m \in done THEN 1 ELSE 0)
                          + (IF m \in dlq THEN 1 ELSE 0) = 1

Delivery == INSTANCE MessageDelivery WITH pending <- Uncommitted, dead <- dlq

\* As long as three attempts to republish never fail in a row, the two loops and
\* the topics implement at-least-once delivery with a dead-letter queue.
ImplementsDelivery == Delivery!Spec

\* Every accepted message is eventually handled or dead-lettered.
EventuallySettled == Delivery!EventuallySettled
================================================================================
