-------------------------------- MODULE Binaries --------------------------------
(***************************************************************************)
(* The two long-running programs of the repository.  A behaviour is one     *)
(* process of either; they share the injector's discipline, the reaction to *)
(* a signal and the health registry, and what is promised of them.          *)
(***************************************************************************)
EXTENDS ServerProcess, WorkerProcess

vars == <<procVars, budget, healthVars, serverVars, workerVars>>

\* The checkers that the two processes register.
ASSUME CheckerAssumption == {"mongo", "kafka", "sqs"} \subseteq Checker

TypeOK == /\ binary \in {"server", "worker"}
          /\ ProcessTypeOK
          /\ HealthTypeOK
          /\ ServerTypeOK
          /\ WorkerTypeOK

Init == /\ binary \in {"server", "worker"}
        /\ ProcessInit
        /\ HealthInit
        /\ ServerInit
        /\ WorkerInit

Next == \/ binary = "server" /\ ServerNext /\ UNCHANGED workerVars
        \/ binary = "worker" /\ WorkerNext /\ UNCHANGED serverVars

Spec == Init /\ [][Next]_vars

FairSpec == Spec /\ ServerFairness /\ WorkerFairness

--------------------------------------------------------------------------------
\* A server or worker that still does its work says it is not ready only after a
\* critical dependency was at fault in FailureLimit checks in a row (health.go:
\* runAll resets the count, ready compares it); the comparison is made between checks.
NoFalseAlarm ==
  (proc \in {"running", "draining"} /\ ~signalled /\ found = "none" /\ ~Ready)
    => \E c \in Critical \cap DOMAIN bad : bad[c] >= FailureLimit

\* An outage of the database that lasts makes the server not ready, and it becomes
\* ready again when the database is back for long enough (health.go: Start, runAll).
Watching == binary = "server" /\ proc = "running" /\ ~signalled
OutageFollowed ==
  /\ (Watching /\ mongo = "down") ~> (~Ready \/ mongo = "up" \/ ~Watching)
  /\ (Watching /\ mongo = "up")   ~> (Ready \/ mongo = "down" \/ ~Watching)

\* A broker whose loops are all stuck in their handlers is reported, whatever the
\* other broker's loops do, and so is one that is configured and never polled
\* (kafka_checker.go, sqs_checker.go: Heartbeat and Check).
StallNoticed ==
  \A b \in Broker :
    <>[](proc = "running" /\ ~signalled
           /\ \A l \in Loops(b) \cap Started : loop[l] = "working")
      => <>[](b \in DOMAIN results => results[b].err)

\* Work in flight has its resources: the cleanup of a process begins after its
\* requests are answered, unless the drain deadline has passed, and after its
\* consumer loops have returned (server/main.go: Shutdown before the deferred
\* cleanup; providers.go: g.Wait).
DrainBeforeRelease ==
  /\ drain # "timedout" =>
       \A r \in InFlight : Holds("mongo") /\ Holds("otel")
  /\ \A l \in Started : loop[l] \in {"polling", "pausing", "working"} => held = Acquisitions

\* When the requests were drained in time, the span of every command they ran has
\* ended before the tracer shuts down (server/main.go: OTel is shut down after the
\* drain to flush its spans).
SpansFlushed ==
  (binary = "server" /\ drain = "complete" /\ ~Holds("otel"))
    => \A c \in Command : call[c] # "none" => c \in ended

\* A process that ends by itself, at once or after a failed start, has released all
\* it had acquired (wire_gen.go: the cleanup functions).
NothingLeaks == exit \in {"clean", "error"} => held = <<>>

\* A process told to stop ends, whatever it is doing (server/main.go, worker/main.go).
SignalStops == signalled ~> ~Alive
================================================================================
