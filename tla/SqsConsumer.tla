------------------------------ MODULE SqsConsumer ------------------------------
(***************************************************************************)
(* The SQS side of the worker: Consume on the main queue and ConsumeRetry  *)
(* on the retry queue, run by every worker process (sqs/consumer.go,        *)
(* sqs/consumer_retry.go, sqs/producer.go, sqs/headers.go).                 *)
(*                                                                         *)
(* A stored message ("copy") has the MessageId of its queue entry, so the  *)
(* same application message may be stored several times.  A received copy  *)
(* is hidden until its visibility timeout (or its delivery delay) expires;  *)
(* the timers are nondeterministic.  Nothing consumes the dead-letter       *)
(* queue: it is the set of messages it holds.                               *)
(***************************************************************************)
EXTENDS Integers, FiniteSets, Routing

CONSTANTS
  Msg,                \* application messages
  Worker,             \* worker processes, each running both loops
  Id,                 \* SQS MessageIds; bounds the copies stored at one time
  NoId,               \* not a MessageId: the loop is processing no message
  ConfiguredRetries,  \* sqs.consumer.max_retries
  BatchLimit,         \* sqs.consumer.max_messages
  Custom,             \* [Msg -> Nat]: custom attributes given by the application
  Outcomes,           \* [Msg -> SUBSET Outcome]: what the handler may answer
  Faults,             \* the kinds of failure that may happen
  MaxFaults           \* bounds the failures that can duplicate a message

FaultKind == {"sendFails", "ackLost", "deleteFails", "expires", "stops"}
Loop      == {"main", "retry"}     \* a loop has the name of the queue it polls
Proc      == Worker \X Loop

ASSUME SqsAssumption ==
  /\ NoId \notin Id
  /\ ConfiguredRetries \in Int
  /\ BatchLimit \in Nat \ {0}
  /\ Custom \in [Msg -> Nat]
  /\ Outcomes \in [Msg -> SUBSET Outcome]
  /\ Faults \subseteq FaultKind
  /\ MaxFaults \in Nat

\* The retry budget once defaultsForConsumer has run.
MaxRetries == EffectiveMaxRetries(ConfiguredRetries)

MaxAttributes       == 10
ReservedAttributes  == 3
MaxCustomAttributes == MaxAttributes - ReservedAttributes
Attempts            == 3

VARIABLES
  copies,     \* the copies stored in the main and retry queues
  hidden,     \* ids of the stored copies that are not visible
  dlq,        \* messages in the dead-letter queue
  live,       \* live[w]: w runs and its errgroup context is not cancelled
  pc,         \* where each loop is
  batch,      \* received copies the loop has not finished with
  cur,        \* id of the copy being processed
  route,      \* the routing decision for it
  attempt,    \* attempts made to publish it, this one included
  submitted, done, refused, fails, late, faults
              \* history: messages accepted; messages a handler succeeded on;
              \* messages a handler refused for good; transient handler errors
              \* per message; handler calls begun after cancellation since the
              \* worker started; faults so far

queues  == <<copies, hidden, dlq>>
loops   == <<pc, batch, cur, route, attempt>>
history == <<submitted, done, refused, fails, late>>
vars    == <<copies, hidden, dlq, live, pc, batch, cur, route, attempt,
             submitted, done, refused, fails, late, faults>>

Copy    == [id : Id, queue : Loop, msg : Msg, rc : Nat]
Headers == [msg : Msg, rc : Nat, reason : BOOLEAN]
FailCap == MaxRetries + 2          \* the failure history saturates here

--------------------------------------------------------------------------------
(* Message attributes: msg stands for the body and the custom attributes,   *)
(* rc for x-retry-count (0 when absent), reason for x-error-reason.         *)

SanitizeForRepublish(c) == [msg |-> c.msg, rc |-> 0, reason |-> FALSE]
IncRetryCount(h)        == [msg |-> h.msg, rc |-> h.rc + 1, reason |-> h.reason]
SetErrorReason(h)       == [msg |-> h.msg, rc |-> h.rc, reason |-> TRUE]

\* republish: the count is incremented on the attributes SanitizeForRepublish
\* has just stripped it from.
RepublishHeaders(c, r) ==
  IF r = "DLQ" THEN SetErrorReason(SanitizeForRepublish(c))
               ELSE IncRetryCount(SanitizeForRepublish(c))

\* The retry consumer's handler puts the stripped count back.
ForwardHeaders(c) == [msg |-> c.msg, rc |-> c.rc, reason |-> FALSE]

ExtraAttributes(h) ==
  Custom[h.msg] + (IF h.rc > 0 THEN 1 ELSE 0) + (IF h.reason THEN 1 ELSE 0)

\* Publish returns ErrTooManyAttributes beyond the custom-attribute budget.
PublishAccepts(h) == ExtraAttributes(h) <= MaxCustomAttributes

DestQueue(r) == IF r = "DLQ" THEN "dlq" ELSE "retry"

--------------------------------------------------------------------------------
(* The queue service, as the consumers use it.                              *)

Held(p)   == {c.id : c \in batch[p]}
HeldIds   == UNION {Held(p) : p \in Proc}
FreeIds   == Id \ ({c.id : c \in copies} \cup HeldIds)
Visible(q) == {c \in copies : c.queue = q /\ c.id \notin hidden}

\* SendMessage.  A republish to the retry queue carries a delay; one that truncates
\* to zero seconds is the delay that expires at once.
Send(h, q) ==
  IF q = "dlq"
  THEN /\ dlq' = dlq \cup {h.msg}
       /\ UNCHANGED <<copies, hidden>>
  ELSE /\ FreeIds # {}
       /\ LET i == CHOOSE i \in FreeIds : TRUE
          IN  /\ copies' = copies \cup
                             {[id |-> i, queue |-> q, msg |-> h.msg, rc |-> h.rc]}
              /\ hidden' = IF q = "retry" THEN hidden \cup {i} ELSE hidden
       /\ UNCHANGED dlq

Spend(kind) == /\ kind \in Faults
               /\ faults < MaxFaults
               /\ faults' = faults + 1

\* The Publish call of worker w returns an error: the attribute budget, a failed
\* or cancelled call, or an answer lost after the message was stored.
PublishError(w, h, q) ==
  \/ /\ \/ ~PublishAccepts(h)
        \/ "sendFails" \in Faults
        \/ ~live[w]
     /\ UNCHANGED <<queues, faults>>
  \/ /\ PublishAccepts(h)
     /\ Spend("ackLost")
     /\ Send(h, q)

PublishOk(h, q) == /\ PublishAccepts(h)
                   /\ Send(h, q)
                   /\ UNCHANGED faults

\* The application publishes m to the main queue.
Submit(m) ==
  LET h == [msg |-> m, rc |-> 0, reason |-> FALSE]
  IN  /\ m \notin submitted
      /\ PublishOk(h, "main")
      /\ submitted' = submitted \cup {m}
      /\ UNCHANGED <<live, loops, done, refused, fails, late>>

\* A visibility timeout or a delivery delay runs out.  While a loop still holds
\* the copy this is a fault: the copy will be processed twice.
Expire(i) ==
  /\ i \in hidden
  /\ hidden' = hidden \ {i}
  /\ IF i \in HeldIds THEN Spend("expires") ELSE UNCHANGED faults
  /\ UNCHANGED <<copies, dlq, live, loops, history>>

--------------------------------------------------------------------------------
(* Consume: the loop shared by both queues.                                 *)

\* processMessage returns: the loop is done with copy c for now.
Finish(p, c) == /\ pc' = [pc EXCEPT ![p] = "check"]
                /\ batch' = [batch EXCEPT ![p] = @ \ {c}]
                /\ cur' = [cur EXCEPT ![p] = NoId]
                /\ route' = [route EXCEPT ![p] = "Commit"]
                /\ attempt' = [attempt EXCEPT ![p] = 0]

\* ReceiveMessage returns some visible copies, in an order of its own, which the
\* choice in Handle and Forward stands for.
Receive(p) ==
  /\ pc[p] = "poll"
  /\ live[p[1]]
  /\ \E B \in SUBSET Visible(p[2]) :
       /\ B # {}
       /\ Cardinality(B) <= BatchLimit
       /\ batch' = [batch EXCEPT ![p] = B]
       /\ hidden' = hidden \cup {c.id : c \in B}
  /\ pc' = [pc EXCEPT ![p] = "handle"]
  /\ UNCHANGED <<copies, dlq, live, cur, route, attempt, history, faults>>

\* An empty poll, or a receive error followed by the one-second pause.
PollNothing(p) == /\ pc[p] = "poll"
                  /\ live[p[1]]
                  /\ UNCHANGED vars

\* Seeded fault: the cancellation test after a message is forgotten.
NextMessageUnchecked(p) ==
  /\ pc[p] = "check"
  /\ pc' = [pc EXCEPT ![p] = IF batch[p] = {} THEN "poll" ELSE "handle"]
  /\ UNCHANGED <<queues, live, batch, cur, route, attempt, history, faults>>

\* The context is still live after a message: take the next one, or poll.
NextMessage(p) ==
  /\ pc[p] = "check"
  /\ live[p[1]]
  /\ pc' = [pc EXCEPT ![p] = IF batch[p] = {} THEN "poll" ELSE "handle"]
  /\ UNCHANGED <<queues, live, batch, cur, route, attempt, history, faults>>

\* Seeded fault: the cancellation test at the top of the loop is forgotten.
StopOnlyAfterMessage(p) ==
  /\ pc[p] = "check"
  /\ ~live[p[1]]
  /\ pc' = [pc EXCEPT ![p] = "stopped"]
  /\ batch' = [batch EXCEPT ![p] = {}]
  /\ UNCHANGED <<queues, live, cur, route, attempt, history, faults>>

\* The context is cancelled: the loop returns and forgets the rest of its batch.
StopLoop(p) ==
  /\ pc[p] \in {"poll", "check"}
  /\ ~live[p[1]]
  /\ pc' = [pc EXCEPT ![p] = "stopped"]
  /\ batch' = [batch EXCEPT ![p] = {}]
  /\ UNCHANGED <<queues, live, cur, route, attempt, history, faults>>

NoteLate(p) == late' = IF live[p[1]] \/ late[p] = 2
                       THEN late ELSE [late EXCEPT ![p] = @ + 1]

NoteOutcome(m, o) ==
  /\ done' = IF o = "ok" THEN done \cup {m} ELSE done
  /\ refused' = IF o = "permanent" THEN refused \cup {m} ELSE refused
  /\ fails' = IF o = "transient" /\ fails[m] < FailCap
              THEN [fails EXCEPT ![m] = @ + 1] ELSE fails

\* The main loop's handler answers o for copy c, and the answer is routed.
HandleAs(p, c, o) ==
  LET r == SqsDecideRoute(o, c.rc, MaxRetries)
  IN  /\ pc[p] = "handle"
      /\ NoteOutcome(c.msg, o)
      /\ NoteLate(p)
      /\ \/ /\ r = "Drop"
            /\ Finish(p, c)
         \/ /\ r # "Drop"
            /\ pc' = [pc EXCEPT ![p] = IF r = "Commit" THEN "delete" ELSE "publish"]
            /\ cur' = [cur EXCEPT ![p] = c.id]
            /\ route' = [route EXCEPT ![p] = r]
            /\ attempt' = [attempt EXCEPT ![p] = IF r = "Commit" THEN 0 ELSE 1]
            /\ UNCHANGED batch
      /\ UNCHANGED <<queues, live, submitted, faults>>

\* What the handler may answer about m: a cancelled context may always surface.
Answers(p, m) == Outcomes[m] \cup (IF live[p[1]] THEN {} ELSE {"cancelled"})

Handle(p) == /\ p[2] = "main"
             /\ \E c \in batch[p] : \E o \in Answers(p, c.msg) : HandleAs(p, c, o)

\* Seeded fault: one attempt too many.
GivesUpLate(p) == ~live[p[1]] \/ attempt[p] > Attempts

\* republish stops trying when the context is cancelled or after three attempts.
GivesUp(p) == ~live[p[1]] \/ attempt[p] = Attempts

\* One attempt of republish on copy c succeeds.
RepublishOk(p) ==
  /\ pc[p] = "publish"
  /\ \E c \in batch[p] : /\ c.id = cur[p]
                         /\ PublishOk(RepublishHeaders(c, route[p]), DestQueue(route[p]))
  /\ pc' = [pc EXCEPT ![p] = "delete"]
  /\ UNCHANGED <<live, batch, cur, route, attempt, history>>

\* Seeded fault: a message that could not be republished is deleted all the same.
DeleteAfterFailure(p, c) ==
  /\ pc' = [pc EXCEPT ![p] = "delete"]
  /\ UNCHANGED <<batch, cur, route, attempt>>

\* republish has failed: the message is left to its visibility timeout.
LeaveForRedrive(p, c) == Finish(p, c)

\* One attempt of republish fails: pause and try again, or give up.
RepublishFails(p) ==
  /\ pc[p] = "publish"
  /\ \E c \in batch[p] :
       /\ c.id = cur[p]
       /\ PublishError(p[1], RepublishHeaders(c, route[p]), DestQueue(route[p]))
       /\ \/ GivesUp(p) /\ LeaveForRedrive(p, c)
          \/ /\ ~GivesUp(p)
             /\ attempt' = [attempt EXCEPT ![p] = @ + 1]
             /\ UNCHANGED <<pc, batch, cur, route>>
  /\ UNCHANGED <<live, history>>

\* Seeded fault: the retry suffix is not stripped from the destination.
ForwardToRetry(q) == q

\* mainQueueURL: the retry queue's URL without the retry suffix.
ForwardQueue(q) == "main"

\* ConsumeRetry's handler publishes a retry copy back to the main queue.
ForwardOk(p) ==
  /\ p[2] = "retry"
  /\ pc[p] = "handle"
  /\ \E c \in batch[p] :
       /\ PublishOk(ForwardHeaders(c), ForwardQueue(p[2]))
       /\ cur' = [cur EXCEPT ![p] = c.id]
  /\ NoteLate(p)
  /\ pc' = [pc EXCEPT ![p] = "delete"]
  /\ UNCHANGED <<live, batch, route, attempt, submitted, done, refused, fails>>

\* The forward fails.  Whatever the route, nothing is republished (the retry loop
\* has no producer) and the copy stays in the retry queue.
ForwardFails(p) ==
  /\ p[2] = "retry"
  /\ pc[p] = "handle"
  /\ \E c \in batch[p] : /\ PublishError(p[1], ForwardHeaders(c), ForwardQueue(p[2]))
                         /\ LeaveForRedrive(p, c)
  /\ NoteLate(p)
  /\ UNCHANGED <<live, submitted, done, refused, fails>>

\* Seeded fault: a routed message is not deleted.
SkipDelete(c) == UNCHANGED <<copies, hidden>>

\* DeleteMessage takes effect, if the copy is still stored.
Remove(c) == /\ copies' = {d \in copies : d.id # c.id}
             /\ hidden' = hidden \ {c.id}

\* DeleteMessage fails (its error is only logged), or the receipt handle is stale
\* because another loop has received the copy since.
DeleteIgnored(p, c) ==
  /\ \/ /\ ~live[p[1]] \/ \E q \in Proc \ {p} : c.id \in Held(q)
        /\ UNCHANGED faults
     \/ Spend("deleteFails")
  /\ UNCHANGED <<copies, hidden>>

Delete(p) ==
  /\ pc[p] = "delete"
  /\ \E c \in batch[p] : /\ c.id = cur[p]
                         /\ \/ Remove(c) /\ UNCHANGED faults
                            \/ DeleteIgnored(p, c)
                         /\ Finish(p, c)
  /\ UNCHANGED <<dlq, live, history>>

--------------------------------------------------------------------------------
(* The worker process: errgroup, signals, crashes, the orchestrator.        *)

\* SIGTERM: the context both loops share is cancelled.
Cancel(w) == /\ live[w]
             /\ Spend("stops")
             /\ live' = [live EXCEPT ![w] = FALSE]
             /\ UNCHANGED <<queues, loops, history>>

ProcsOf(w) == {w} \X Loop

\* The process dies: what its loops hold is forgotten.
Crash(w) ==
  /\ Spend("stops")
  /\ \E p \in ProcsOf(w) : pc[p] # "stopped"
  /\ live' = [live EXCEPT ![w] = FALSE]
  /\ pc' = [p \in Proc |-> IF p \in ProcsOf(w) THEN "stopped" ELSE pc[p]]
  /\ batch' = [p \in Proc |-> IF p \in ProcsOf(w) THEN {} ELSE batch[p]]
  /\ cur' = [p \in Proc |-> IF p \in ProcsOf(w) THEN NoId ELSE cur[p]]
  /\ route' = [p \in Proc |-> IF p \in ProcsOf(w) THEN "Commit" ELSE route[p]]
  /\ attempt' = [p \in Proc |-> IF p \in ProcsOf(w) THEN 0 ELSE attempt[p]]
  /\ UNCHANGED <<queues, history>>

\* Both loops have returned (g.Wait), or the process died; it is started again.
Restart(w) ==
  /\ \A p \in ProcsOf(w) : pc[p] = "stopped"
  /\ live' = [live EXCEPT ![w] = TRUE]
  /\ pc' = [p \in Proc |-> IF p \in ProcsOf(w) THEN "poll" ELSE pc[p]]
  /\ late' = [p \in Proc |-> IF p \in ProcsOf(w) THEN 0 ELSE late[p]]
  /\ UNCHANGED <<queues, batch, cur, route, attempt, submitted, done, refused, fails, faults>>

Init == /\ copies = {}
        /\ hidden = {}
        /\ dlq = {}
        /\ live = [w \in Worker |-> TRUE]
        /\ pc = [p \in Proc |-> "poll"]
        /\ batch = [p \in Proc |-> {}]
        /\ cur = [p \in Proc |-> NoId]
        /\ route = [p \in Proc |-> "Commit"]
        /\ attempt = [p \in Proc |-> 0]
        /\ submitted = {}
        /\ done = {}
        /\ refused = {}
        /\ fails = [m \in Msg |-> 0]
        /\ late = [p \in Proc |-> 0]
        /\ faults = 0

Step(p) == \/ Receive(p) \/ PollNothing(p) \/ NextMessage(p) \/ StopLoop(p)
           \/ Handle(p) \/ RepublishOk(p) \/ RepublishFails(p)
           \/ ForwardOk(p) \/ ForwardFails(p) \/ Delete(p)

Next == \/ \E m \in Msg : Submit(m)
        \/ \E i \in Id : Expire(i)
        \/ \E p \in Proc : Step(p)
        \/ \E w \in Worker : Cancel(w) \/ Crash(w) \/ Restart(w)

Spec == Init /\ [][Next]_vars

--------------------------------------------------------------------------------
(* Fairness.  Goroutines are scheduled, handlers return, timers run out and *)
(* the orchestrator restarts a worker; SQS eventually hands out a copy that *)
(* stays visible; a call that is made again and again eventually succeeds;  *)
(* and a handler does not answer one message with transient errors forever. *)

ReceiveCopy(i) == \E p \in Proc : Receive(p) /\ i \in {c.id : c \in batch'[p]}
Conclude(p, m) == /\ p[2] = "main"
                  /\ \E c \in batch[p] : \E o \in Outcomes[m] \cap {"ok", "permanent"} :
                       c.msg = m /\ HandleAs(p, c, o)

Fairness ==
  /\ \A p \in Proc : /\ WF_vars(NextMessage(p)) /\ WF_vars(StopLoop(p))
                     /\ WF_vars(Handle(p)) /\ WF_vars(ForwardOk(p) \/ ForwardFails(p))
                     /\ WF_vars(RepublishOk(p) \/ RepublishFails(p))
                     /\ WF_vars(Delete(p))
                     /\ SF_vars(RepublishOk(p)) /\ SF_vars(ForwardOk(p))
  /\ \A p \in Proc, m \in Msg : SF_vars(Conclude(p, m))
  /\ \A i \in Id : WF_vars(i \notin HeldIds /\ Expire(i)) /\ SF_vars(ReceiveCopy(i))
  /\ \A w \in Worker : WF_vars(Restart(w))

FairSpec == Spec /\ Fairness

--------------------------------------------------------------------------------
(* Properties.                                                              *)

PC == {"poll", "handle", "publish", "delete", "check", "stopped"}

TypeOK ==
  /\ copies \subseteq Copy
  /\ hidden \subseteq Id
  /\ dlq \subseteq Msg
  /\ live \in [Worker -> BOOLEAN]
  /\ pc \in [Proc -> PC]
  /\ batch \in [Proc -> SUBSET Copy]
  /\ cur \in [Proc -> Id \cup {NoId}]
  /\ route \in [Proc -> Route]
  /\ attempt \in [Proc -> 0 .. Attempts]
  /\ submitted \subseteq Msg /\ done \subseteq Msg /\ refused \subseteq Msg
  /\ fails \in [Msg -> 0 .. FailCap]
  /\ late \in [Proc -> 0 .. 2]
  /\ faults \in 0 .. MaxFaults

settled == done \cup dlq

\* A loop that has copy c's fate decided is about to delete it.
Doomed(c) == \E p \in Proc : pc[p] = "delete" /\ cur[p] = c.id

\* No message is lost: until a handler has succeeded on it or it is dead-lettered,
\* some stored copy of it exists that no loop is about to delete.  This is what
\* publish-then-delete, redrive on failure and the untouched dropped message are for.
NoMessageLost ==
  \A m \in submitted \ settled : \E c \in copies : c.msg = m /\ ~Doomed(c)

\* A message is dead-lettered only after its handler refused it, or after more
\* transient failures than the retry budget allows: duplicates never spend it early.
DlqJustified == \A m \in dlq : m \in refused \/ fails[m] > MaxRetries

\* Routing with a budget never makes a handler fail more than MaxRetries + 1 times
\* on a message, as long as nothing fails (sends, which are not counted, included).
BudgetRespected == faults = 0 => \A m \in Msg : fails[m] <= MaxRetries + 1

\* Once its worker's context is cancelled, a loop begins at most one handler call.
ShutdownBounded == \A p \in Proc : late[p] <= 1

\* Before the first failure a message is in exactly one place: one copy that no loop
\* is about to delete, or handled, or in the dead-letter queue.
MessageConserved ==
  faults = 0 => \A m \in submitted :
    LET kept == {c \in copies : c.msg = m /\ ~Doomed(c)}
    IN  Cardinality(kept) + (IF m \in done THEN 1 ELSE 0)
                          + (IF m \in dlq THEN 1 ELSE 0) = 1

Delivery == INSTANCE MessageDelivery WITH pending <- {c.msg : c \in copies}, dead <- dlq

\* The two loops, the queues and their failures implement at-least-once delivery
\* with a dead-letter queue.
ImplementsDelivery == Delivery!Spec

\* Every accepted message is eventually handled or dead-lettered.
EventuallySettled == Delivery!EventuallySettled

\* A cancelled worker's loops return: neither a batch nor republish attempts keep them.
CancelledStops == \A p \in Proc : ~live[p[1]] ~> pc[p] = "stopped"
================================================================================
