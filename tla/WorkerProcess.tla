------------------------------ MODULE WorkerProcess ------------------------------
(***************************************************************************)
(* The message worker (cmd/worker/main.go, providers.go): its start, the     *)
(* errgroup of consumer loops and its shutdown, with the heartbeats of the   *)
(* brokers' loops (health/kafka_checker.go, sqs_checker.go) that the probe   *)
(* goroutine checks.  What a loop does with its messages is the subject of   *)
(* SqsConsumer and KafkaConsumer; here it polls, works and returns.          *)
(***************************************************************************)
EXTENDS Process, HealthRegistry

CONSTANTS
  StaleAfter,    \* ticks after which a heartbeat is stale
  Never          \* the age of a heartbeat that has not been seen

ASSUME WorkerAssumption == /\ StaleAfter \in Nat
                           /\ Never \notin Nat

VARIABLES
  sqs,           \* "off": no queue URL; "unhandled": no handler; "on"
  loop,          \* each consumer loop: "off", "polling", "pausing", "working", "returned"
  beat,          \* age of each broker's last heartbeat
  healthServer   \* the health listener: "off", "listening", "failed", "closed"

workerVars == <<sqs, loop, beat, healthServer>>

Broker   == {"kafka", "sqs"}
Loops(b) == {b} \X {"main", "retry"}
AllLoops == UNION {Loops(b) : b \in Broker}

\* A checker is registered for SQS as soon as there is a queue URL.
WorkerCheckers == IF sqs = "off" THEN <<"kafka">> ELSE <<"kafka", "sqs">>

\* The loops Run starts: SQS needs a handler as well.
Started == Loops("kafka") \cup (IF sqs = "on" THEN Loops("sqs") ELSE {})

WorkerTypeOK ==
  /\ sqs \in {"off", "unhandled", "on"}
  /\ loop \in [AllLoops -> {"off", "polling", "pausing", "working", "returned"}]
  /\ \A l \in AllLoops \ Started : loop[l] = "off"
  /\ beat \in [Broker -> {Never} \cup 0..(StaleAfter + 1)]
  /\ healthServer \in {"off", "listening", "failed", "closed"}

--------------------------------------------------------------------------------
WorkerInit == /\ sqs \in IF binary = "worker" THEN {"off", "unhandled", "on"} ELSE {"off"}
              /\ loop = [l \in AllLoops |-> "off"]
              /\ beat = [b \in Broker |-> Never]
              /\ healthServer = "off"

WorkerAcquire == (Acquire \/ AcquireFails) /\ UNCHANGED <<healthVars, workerVars>>

\* The signal handler is installed after the injector has run: before that a signal
\* ends the process, and afterwards it cancels the context.
WorkerSignal ==
  /\ Alive
  /\ ~signalled
  /\ Spend("signals")
  /\ IF proc \in {"booting", "failing"}
     THEN proc' = "exited" /\ exit' = "killed" /\ UNCHANGED signalled
     ELSE signalled' = TRUE /\ UNCHANGED <<proc, exit>>
  /\ UNCHANGED <<binary, held, cleanups, healthVars, workerVars>>

\* Run: Health.Start, the health listener, which may fail, and the consumer loops.
StartWorker ==
  /\ proc = "starting"
  /\ proc' = "running"
  /\ StartProbing(WorkerCheckers)
  /\ loop' = [l \in AllLoops |-> IF l \in Started THEN "polling" ELSE "off"]
  /\ \/ healthServer' = "listening" /\ UNCHANGED budget
     \/ healthServer' = "failed" /\ Spend("failures")
  /\ UNCHANGED <<binary, held, cleanups, signalled, exit, sqs, beat>>

\* Heartbeat of either checker: the time of the last poll.
Heartbeat(b) == beat' = [beat EXCEPT ![b] = 0]

\* A poll returns, with messages or without.
PollReturns(l) == /\ loop[l] = "polling"
                  /\ Heartbeat(l[1])
                  /\ loop' = [loop EXCEPT ![l] = "working"]

\* A poll fails.  The Kafka loop reports its heartbeat nevertheless and finds nothing
\* to work on; the SQS loop pauses for a second.
PollFails(l) == /\ loop[l] = "polling"
                /\ IF l[1] = "kafka"
                   THEN Heartbeat("kafka") /\ UNCHANGED loop
                   ELSE loop' = [loop EXCEPT ![l] = "pausing"] /\ UNCHANGED beat

\* The loop tests the context and polls again.
PollAgain(l) == /\ loop[l] \in {"working", "pausing"}
                /\ ~signalled
                /\ loop' = [loop EXCEPT ![l] = "polling"]
                /\ UNCHANGED beat

\* Seeded fault: a pause does not watch the context.
ReturnUnpaused(l) == /\ signalled
                     /\ loop[l] \in {"polling", "working"}
                     /\ loop' = [loop EXCEPT ![l] = "returned"]
                     /\ UNCHANGED beat

\* Cancellation ends a poll, a pause or, once its handler returns, the work of a loop.
LoopReturns(l) == /\ signalled
                  /\ loop[l] \in {"polling", "pausing", "working"}
                  /\ loop' = [loop EXCEPT ![l] = "returned"]
                  /\ UNCHANGED beat

RunLoop(l) == /\ Alive
              /\ PollReturns(l) \/ PollFails(l) \/ PollAgain(l)
              /\ UNCHANGED <<procVars, budget, healthVars, sqs, healthServer>>

StopLoop(l) == /\ Alive
               /\ LoopReturns(l)
               /\ UNCHANGED <<procVars, budget, healthVars, sqs, healthServer>>

\* The goroutine that waits for the cancellation closes the health listener.
StopHealthServer == /\ Alive
                    /\ signalled
                    /\ healthServer = "listening"
                    /\ healthServer' = "closed"
                    /\ UNCHANGED <<procVars, budget, healthVars, sqs, loop, beat>>

\* Seeded fault: Run waits for one of the loops only.
SomeReturned == \E l \in Started : loop[l] = "returned"

\* What g.Wait waits for.
AllReturned == \A l \in Started : loop[l] = "returned"

\* g.Wait returns the cancellation; Run shuts the health listener down and main ends.
EndRun == /\ proc = "running"
          /\ AllReturned
          /\ proc' = "cleanup"
          /\ cleanups' = Cleanups(held)
          /\ healthServer' = IF healthServer = "listening" THEN "closed" ELSE healthServer
          /\ UNCHANGED <<binary, held, signalled, exit, budget, healthVars, sqs, loop, beat>>

WorkerExit == (Release \/ Exit) /\ UNCHANGED <<healthVars, workerVars>>

--------------------------------------------------------------------------------
\* Seeded fault: the staleness of a heartbeat is forgotten.
EverBeat(c) == beat[c] = Never

\* Check of a broker: no heartbeat yet, or a stale one.
Stale(c) == beat[c] = Never \/ beat[c] > StaleAfter

WorkerProbe ==
  /\ Alive
  /\ \/ BeginRound(WorkerCheckers)
     \/ StopProbing(signalled)
     \/ remaining # <<>> /\ LET s == Stale(Head(remaining)) IN Check(s, s)
     \/ Record
  /\ UNCHANGED <<procVars, budget, workerVars>>

WorkerTick ==
  /\ Alive
  /\ beat' = [b \in Broker |->
               IF beat[b] \in 0..StaleAfter THEN beat[b] + 1 ELSE beat[b]]
  /\ beat' # beat
  /\ UNCHANGED <<procVars, budget, healthVars, sqs, loop, healthServer>>

WorkerMain == \/ WorkerAcquire
              \/ StartWorker
              \/ EndRun
              \/ WorkerExit

WorkerNext == \/ WorkerMain
              \/ WorkerSignal
              \/ StopHealthServer
              \/ \E l \in AllLoops : RunLoop(l) \/ StopLoop(l)
              \/ WorkerProbe
              \/ WorkerTick

\* main and the probe goroutine are scheduled, time passes, and a loop returns once it
\* is cancelled; nothing makes a poll or a handler return before that.
WorkerFairness ==
  LET v == <<procVars, budget, healthVars, workerVars>>
  IN  /\ WF_v(binary = "worker" /\ WorkerMain)
      /\ WF_v(binary = "worker" /\ WorkerProbe)
      /\ WF_v(binary = "worker" /\ WorkerTick)
      /\ \A l \in AllLoops : WF_v(binary = "worker" /\ StopLoop(l))
================================================================================
