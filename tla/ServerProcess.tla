------------------------------ MODULE ServerProcess ------------------------------
(***************************************************************************)
(* The HTTP server (cmd/server/main.go, providers.go, httpserver/server.go): *)
(* its start and graceful shutdown, with the requests in flight, which pass  *)
(* the rate limiter and run Mongo commands under the command monitor, and    *)
(* the probe goroutine pinging Mongo.                                        *)
(***************************************************************************)
EXTENDS Process, HealthRegistry, RateLimiter, CommandMonitor

VARIABLES
  listener,   \* ListenAndServe: "off", "opening", "listening", "failed", "closed"
  drain,      \* Shutdown: "none", then how it returned: "complete" or "timedout"
  mongo       \* the database: "up" or "down"

serverVars == <<listener, drain, mongo, stage, client, limiterVars, monitorVars>>

ServerTypeOK == /\ listener \in {"off", "opening", "listening", "failed", "closed"}
                /\ drain \in {"none", "complete", "timedout"}
                /\ mongo \in {"up", "down"}
                /\ LimiterTypeOK
                /\ MonitorTypeOK

InFlight == {r \in Request : stage[r] \notin {"none", "rejected", "answered"}}

ServerCheckers == <<"mongo">>

--------------------------------------------------------------------------------
ServerInit == /\ listener = "off"
              /\ drain = "none"
              /\ mongo = "up"
              /\ LimiterInit
              /\ MonitorInit

\* What a step of main leaves alone.
requestVars == <<stage, client, limiterVars>>

\* The injector; connecting to Mongo starts the janitor of its command monitor.
ServerAcquire ==
  /\ Acquire
  /\ IF proc = "booting" /\ held = <<>> THEN StartJanitor ELSE UNCHANGED monitorVars
  /\ UNCHANGED <<healthVars, listener, drain, mongo, requestVars>>

ServerAcquireFails == AcquireFails /\ UNCHANGED <<healthVars, serverVars>>

\* Health.Start, and the goroutine that listens.
StartServer == /\ proc = "starting"
               /\ proc' = "running"
               /\ StartProbing(ServerCheckers)
               /\ listener' = "opening"
               /\ UNCHANGED <<binary, held, cleanups, signalled, exit, budget>>
               /\ UNCHANGED <<drain, mongo, requestVars, monitorVars>>

\* The context exists before the injector runs, so a signal only cancels it.
ServerSignal == /\ Alive
                /\ ~signalled
                /\ Spend("signals")
                /\ signalled' = TRUE
                /\ UNCHANGED <<binary, proc, held, cleanups, exit, healthVars, serverVars>>

Listen == /\ listener = "opening"
          /\ Alive
          /\ \/ listener' = "listening" /\ UNCHANGED budget
             \/ listener' = "failed" /\ Spend("failures")
          /\ UNCHANGED <<procVars, healthVars, drain, mongo, requestVars, monitorVars>>

\* The select of main: the context is cancelled or the listener has failed.  Shutdown
\* closes a listener, and one that is not open yet will not open.
BeginDrain ==
  /\ proc = "running"
  /\ signalled \/ listener = "failed"
  /\ proc' = "draining"
  /\ listener' = IF listener = "failed" THEN "failed" ELSE "closed"
  /\ UNCHANGED <<binary, held, cleanups, signalled, exit, budget, healthVars>>
  /\ UNCHANGED <<drain, mongo, requestVars, monitorVars>>

\* Shutdown returns: no request is left, or its deadline has passed.
EndDrain == /\ proc = "draining"
            /\ drain' = IF InFlight = {} THEN "complete" ELSE "timedout"
            /\ proc' = "cleanup"
            /\ cleanups' = Cleanups(held)
            /\ UNCHANGED <<binary, held, signalled, exit, budget, healthVars>>
            /\ UNCHANGED <<listener, mongo, requestVars, monitorVars>>

\* Mongo's cleanup stops the janitor and disconnects.
ServerRelease ==
  /\ Release
  /\ IF Holds("mongo") /\ Head(cleanups) = "mongo" THEN StopJanitor ELSE UNCHANGED monitorVars
  /\ UNCHANGED <<healthVars, listener, drain, mongo, requestVars>>

ServerExit == Exit /\ UNCHANGED <<healthVars, serverVars>>

MongoFlips == /\ proc = "running"
              /\ Spend("flips")
              /\ mongo' = IF mongo = "up" THEN "down" ELSE "up"
              /\ UNCHANGED <<procVars, healthVars, listener, drain, requestVars, monitorVars>>

--------------------------------------------------------------------------------
(* The probe goroutine.  A ping fails when the database is down, and also when  *)
(* the context is cancelled or the client disconnected.                          *)

ServerProbe ==
  /\ Alive
  /\ \/ BeginRound(ServerCheckers)
     \/ StopProbing(signalled)
     \/ Check(mongo = "down" \/ signalled \/ ~Holds("mongo"), mongo = "down")
     \/ Record
  /\ UNCHANGED <<procVars, budget, serverVars>>

--------------------------------------------------------------------------------
(* Requests: rate limiter, then a handler that may run a Mongo command.         *)

ServerArrive(r) == /\ listener = "listening"
                   /\ Alive
                   /\ Cardinality(InFlight) < budget["atOnce"]
                   /\ Spend("requests")
                   /\ \E c \in Client : Arrive(r, c)
                   /\ UNCHANGED <<procVars, healthVars, listener, drain, mongo, monitorVars>>

Limit(r) == /\ Alive
            /\ \/ TakeGlobal(r)
               \/ GetBucket(r)
               \/ AllowClient(r)
            /\ UNCHANGED <<procVars, budget, healthVars, listener, drain, mongo, monitorVars>>

BeginCommand(r) == /\ Alive
                   /\ stage[r] = "admitted"
                   /\ r \in Command
                   /\ Holds("mongo")
                   /\ Spend("commands")
                   /\ Move(r, "busy")
                   /\ CommandStarted(r)
                   /\ UNCHANGED <<procVars, healthVars, listener, drain, mongo, client, limiterVars>>

\* The driver reports the command, succeeded or failed, before its call returns.
EndCommand(r) == /\ Alive
                 /\ r \in Command
                 /\ CommandReported(r) \/ FinishSpan(r)
                 /\ UNCHANGED <<procVars, budget, healthVars, listener, drain, mongo, requestVars>>

\* Seeded fault: a handler answers without waiting for its command.
RespondEarly(r) == /\ Alive
                   /\ stage[r] \in {"admitted", "busy"}
                   /\ Move(r, "answered")
                   /\ UNCHANGED <<procVars, budget, healthVars, listener, drain, mongo>>
                   /\ UNCHANGED <<client, limiterVars, monitorVars>>

Respond(r) == /\ Alive
              /\ \/ stage[r] = "admitted"
                 \/ stage[r] = "busy" /\ call[r] = "done"
              /\ Move(r, "answered")
              /\ UNCHANGED <<procVars, budget, healthVars, listener, drain, mongo>>
              /\ UNCHANGED <<client, limiterVars, monitorVars>>

Janitor == /\ Alive
           /\ \/ \E c \in Command : FindLeak(c)
              \/ PurgeLeak
           /\ UNCHANGED <<procVars, budget, healthVars, listener, drain, mongo, requestVars>>

Tick == /\ Alive
        /\ Spend("ticks")
        /\ Refill
        /\ AgeEntries
        /\ UNCHANGED <<procVars, healthVars, listener, drain, mongo>>

ServerMain == \/ ServerAcquire
              \/ ServerAcquireFails
              \/ StartServer
              \/ BeginDrain
              \/ EndDrain
              \/ ServerRelease
              \/ ServerExit

HandleRequest(r) == \/ ServerArrive(r)
                    \/ Limit(r)
                    \/ BeginCommand(r)
                    \/ EndCommand(r)
                    \/ Respond(r)

ServerNext == \/ ServerMain
              \/ ServerSignal
              \/ Listen
              \/ MongoFlips
              \/ ServerProbe
              \/ \E r \in Request : HandleRequest(r)
              \/ Janitor
              \/ Tick

\* main, the listening goroutine and the probe goroutine are scheduled; requests,
\* ticks, signals and failures need not happen.
ServerFairness == LET v == <<procVars, budget, healthVars, serverVars>>
                  IN  /\ WF_v(binary = "server" /\ ServerMain)
                      /\ WF_v(binary = "server" /\ ServerProbe)
================================================================================
