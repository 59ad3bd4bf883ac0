-------------------------------- MODULE Process --------------------------------
(***************************************************************************)
(* What both binaries share (cmd/server, cmd/worker): the injector acquires *)
(* the resources one by one and undoes what it has when one fails; main     *)
(* then runs until it is told to stop, and its deferred cleanup releases    *)
(* the resources in reverse order.                                          *)
(***************************************************************************)
EXTENDS Naturals, Sequences, SequencesExt

CONSTANT Budgets      \* of each binary: how much the environment may do in a behaviour

VARIABLES
  binary,     \* "server" or "worker"
  proc,       \* where main is
  held,       \* resources acquired and not released, in order
  cleanups,   \* cleanup functions still to run, in order
  signalled,  \* SIGINT or SIGTERM has cancelled the context
  exit,       \* how the process ended: "none", "clean", "error", "killed"
  budget      \* what the environment may still do

procVars == <<binary, proc, held, cleanups, signalled, exit>>

BudgetKind == {"requests", "atOnce", "commands", "ticks", "flips", "signals", "failures"}

ASSUME BudgetsAssumption == Budgets \in [{"server", "worker"} -> SUBSET [BudgetKind -> Nat]]

Spend(kind) == /\ budget[kind] > 0
               /\ budget' = [budget EXCEPT ![kind] = @ - 1]

\* The resources in the order of the generated injector.
Acquisitions ==
  IF binary = "server" THEN <<"mongo", "otel">>
  ELSE <<"kafkaMain", "kafkaRetry", "kafkaProducer", "sqs", "otel">>

Holds(res) == Contains(held, res)
Alive      == proc # "exited"

ProcessTypeOK ==
  /\ proc \in {"booting", "starting", "running", "draining", "failing", "cleanup", "exited"}
  /\ IsPrefix(held, Acquisitions)
  /\ IsSuffix(cleanups, Reverse(held))
  /\ signalled \in BOOLEAN
  /\ exit \in {"none", "clean", "error", "killed"}
  /\ (exit = "none") = Alive
  /\ budget \in [BudgetKind -> Nat]

ProcessInit == /\ proc = "booting"
               /\ held = <<>>
               /\ cleanups = <<>>
               /\ signalled = FALSE
               /\ exit = "none"
               /\ budget \in Budgets[binary]

--------------------------------------------------------------------------------
Acquire ==
  /\ proc = "booting"
  /\ IF held = Acquisitions
     THEN proc' = "starting" /\ UNCHANGED held
     ELSE held' = Append(held, Acquisitions[Len(held) + 1]) /\ UNCHANGED proc
  /\ UNCHANGED <<binary, cleanups, signalled, exit, budget>>

\* Seeded fault: the cleanup functions run in the order of acquisition.
CleanupsForward(acquired) == acquired

\* Seeded fault: the cleanup of the first resource is forgotten.
CleanupsButFirst(acquired) == IF acquired = <<>> THEN <<>> ELSE Reverse(Tail(acquired))

\* The cleanup functions for what has been acquired, in the order they run.
Cleanups(acquired) == Reverse(acquired)

\* A constructor returns an error.
AcquireFails == /\ proc = "booting"
                /\ held # Acquisitions
                /\ Spend("failures")
                /\ proc' = "failing"
                /\ cleanups' = Cleanups(held)
                /\ UNCHANGED <<binary, held, signalled, exit>>

\* One cleanup function returns.
Release ==
  /\ proc \in {"failing", "cleanup"}
  /\ cleanups # <<>>
  /\ \E i \in DOMAIN held : held[i] = Head(cleanups) /\ held' = RemoveAt(held, i)
  /\ cleanups' = Tail(cleanups)
  /\ UNCHANGED <<binary, proc, signalled, exit, budget>>

\* log.Fatalf after a failed initialisation, or the end of main.
Exit == /\ proc \in {"failing", "cleanup"}
        /\ cleanups = <<>>
        /\ proc' = "exited"
        /\ exit' = IF proc = "failing" THEN "error" ELSE "clean"
        /\ UNCHANGED <<binary, held, cleanups, signalled, budget>>
================================================================================
