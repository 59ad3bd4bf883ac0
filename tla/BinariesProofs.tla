---------------------------- MODULE BinariesProofs ----------------------------
(***************************************************************************)
(* Theorems about Binaries: what the server and the worker promise about    *)
(* their resources, their requests, their spans and their readiness, for    *)
(* every number of requests, commands and checkers and every environment.   *)
(***************************************************************************)
EXTENDS Binaries, SequenceTheorems, TLAPS

--------------------------------------------------------------------------------
(* The command monitor.  An entry leaves the map for good only when the       *)
(* command reports, or when the janitor has ended its span.                   *)

MonitorStep == \/ StartJanitor \/ StopJanitor
               \/ \E c \in Command : \/ CommandStarted(c) \/ CommandReported(c)
                                     \/ FinishSpan(c) \/ FindLeak(c)
               \/ PurgeLeak \/ AgeEntries
               \/ UNCHANGED monitorVars

CallState == {"none", "running", "finishing", "done"}

EntriesKept ==
  /\ call \in [Command -> CallState]
  /\ purging \in Command \cup {0}
  /\ \A c \in Command :
       /\ call[c] = "running" => c \in entries \/ c \in ended
       /\ call[c] = "done" => c \in ended
       /\ c \in entries => call[c] = "running"

\* No step of the monitor loses a span that has not ended.
LEMMA MonitorKeeps == EntriesKept /\ MonitorStep => EntriesKept'
<1> SUFFICES ASSUME EntriesKept, MonitorStep PROVE EntriesKept'
  OBVIOUS
<1>1. CASE UNCHANGED <<entries, call, ended, purging>>
  BY <1>1 DEF EntriesKept
<1>2. ASSUME NEW c \in Command, CommandStarted(c) PROVE EntriesKept'
  <2>1. call' = [call EXCEPT ![c] = "running"] /\ entries' = entries \cup {c}
        /\ UNCHANGED <<ended, purging>>
    BY <1>2 DEF CommandStarted
  <2>2. QED
    BY <2>1 DEF EntriesKept, CallState
<1>3. ASSUME NEW c \in Command, CommandReported(c) PROVE EntriesKept'
  <2>1. /\ call[c] = "running" /\ entries' = entries \ {c} /\ UNCHANGED <<ended, purging>>
        /\ call' = [call EXCEPT ![c] = IF c \in entries THEN "finishing" ELSE "done"]
    BY <1>3 DEF CommandReported
  <2>2. QED
    BY <2>1 DEF EntriesKept, CallState
<1>4. ASSUME NEW c \in Command, FinishSpan(c) PROVE EntriesKept'
  <2>1. /\ call[c] = "finishing" /\ call' = [call EXCEPT ![c] = "done"]
        /\ ended' = ended \cup {c} /\ UNCHANGED <<entries, purging>>
    BY <1>4 DEF FinishSpan
  <2>2. QED
    BY <2>1 DEF EntriesKept, CallState
<1>5. ASSUME NEW c \in Command, FindLeak(c) PROVE EntriesKept'
  BY <1>5 DEF FindLeak, EntriesKept
<1>6. CASE PurgeLeak
  <2>1. purging # 0 /\ UNCHANGED call
    BY <1>6 DEF PurgeLeak
  <2>2. CASE purging \in ended
    BY <1>6, <2>1, <2>2 DEF PurgeLeak, EntriesKept
  <2>3. CASE purging \notin ended
    BY <1>6, <2>1, <2>3 DEF PurgeLeak, EntriesKept
  <2>4. QED
    BY <2>2, <2>3
<1>7. QED
  BY <1>1, <1>2, <1>3, <1>4, <1>5, <1>6
     DEF MonitorStep, StartJanitor, StopJanitor, AgeEntries, monitorVars

\* Every step of either process is one of the monitor or leaves it alone.
LEMMA MonitorSteps == [Next]_vars => MonitorStep
<1> SUFFICES ASSUME [Next]_vars PROVE MonitorStep
  OBVIOUS
<1>1. CASE UNCHANGED vars \/ UNCHANGED serverVars
  BY <1>1 DEF vars, serverVars, MonitorStep
<1>2. CASE ServerMain
  BY <1>2 DEF ServerMain, ServerAcquire, ServerAcquireFails, StartServer, BeginDrain, EndDrain,
              ServerRelease, ServerExit, MonitorStep, serverVars
<1>3. CASE ServerSignal \/ Listen \/ MongoFlips \/ ServerProbe
  BY <1>3 DEF ServerSignal, Listen, MongoFlips, ServerProbe, MonitorStep, serverVars
<1>4. ASSUME NEW r \in Request, HandleRequest(r) PROVE MonitorStep
  BY <1>4 DEF HandleRequest, ServerArrive, Limit, BeginCommand, EndCommand, Respond, MonitorStep
<1>5. CASE Janitor \/ Tick
  BY <1>5 DEF Janitor, Tick, MonitorStep
<1>6. QED
  BY <1>1, <1>2, <1>3, <1>4, <1>5 DEF Next, ServerNext

\* The monitor starts empty.
LEMMA MonitorStarts == Init => EntriesKept
  BY DEF Init, ServerInit, MonitorInit, EntriesKept, CallState

\* Whatever the janitor does in between, a command that has reported leaves no entry
\* behind and its span has ended (mongo_otel.go: finish and the janitor's sweep).
THEOREM SpansAreSettled == Spec => []SpansSettled
<1>1. EntriesKept => SpansSettled
  BY DEF EntriesKept, SpansSettled
<1>2. QED
  BY <1>1, MonitorStarts, MonitorKeeps, MonitorSteps, PTL DEF Spec


--------------------------------------------------------------------------------
(* The resources.  What is held is a prefix of what the injector acquires,    *)
(* all of it while main runs, and the cleanups still to run are exactly what  *)
(* is held, last first.                                                       *)

Resource  == {"mongo", "otel", "kafkaMain", "kafkaRetry", "kafkaProducer", "sqs"}
ProcState == {"booting", "starting", "running", "draining", "failing", "cleanup", "exited"}

Resources ==
  /\ binary \in {"server", "worker"}
  /\ proc \in ProcState
  /\ held \in Seq(Resource) /\ cleanups \in Seq(Resource)
  /\ Len(held) <= Len(Acquisitions)
  /\ \A i \in 1 .. Len(held) : held[i] = Acquisitions[i]
  /\ proc \in {"starting", "running", "draining"} => held = Acquisitions
  /\ proc \in {"failing", "cleanup"} => cleanups = Reverse(held)
  /\ cleanups = <<>> \/ cleanups = Reverse(held)
  /\ proc \in {"booting", "starting", "running", "draining"} => cleanups = <<>>
  /\ exit \in {"none", "clean", "error", "killed"}
  /\ exit = "none" <=> Alive
  /\ exit \in {"clean", "error"} => held = <<>>

\* What a step of either process does to its resources.
ProcStep ==
  \/ UNCHANGED <<binary, proc, held, cleanups, exit>>
  \/ Acquire \/ AcquireFails \/ Release \/ Exit
  \/ /\ proc \in {"starting", "running"} /\ proc' \in {"running", "draining"}
     /\ UNCHANGED <<binary, held, cleanups, exit>>
  \/ /\ proc \in {"running", "draining"} /\ proc' = "cleanup" /\ cleanups' = Cleanups(held)
     /\ UNCHANGED <<binary, held, exit>>
  \/ /\ proc \in {"booting", "failing"} /\ proc' = "exited" /\ exit' = "killed"
     /\ UNCHANGED <<binary, held, cleanups>>

\* The injector acquires distinct resources.
LEMMA AcquisitionsDistinct ==
  /\ Acquisitions \in Seq(Resource) /\ Len(Acquisitions) \in Nat \ {0}
  /\ \A i, j \in 1 .. Len(Acquisitions) : Acquisitions[i] = Acquisitions[j] => i = j
<1>1. CASE binary = "server"
  <2>1. Acquisitions = <<"mongo", "otel">>
    BY <1>1 DEF Acquisitions
  <2>2. Acquisitions \in Seq(Resource) /\ Len(Acquisitions) = 2
    BY <2>1 DEF Resource
  <2>3. Acquisitions[1] = "mongo" /\ Acquisitions[2] = "otel"
    BY <2>1
  <2>4. ASSUME NEW i \in 1 .. 2, NEW j \in 1 .. 2, Acquisitions[i] = Acquisitions[j] PROVE i = j
    BY <2>3, <2>4
  <2>5. QED
    BY <2>2, <2>4
<1>2. CASE binary # "server"
  <2>1. Acquisitions = <<"kafkaMain", "kafkaRetry", "kafkaProducer", "sqs", "otel">>
    BY <1>2 DEF Acquisitions
  <2>2. Acquisitions \in Seq(Resource) /\ Len(Acquisitions) = 5
    BY <2>1 DEF Resource
  <2>3. /\ Acquisitions[1] = "kafkaMain" /\ Acquisitions[2] = "kafkaRetry"
        /\ Acquisitions[3] = "kafkaProducer" /\ Acquisitions[4] = "sqs" /\ Acquisitions[5] = "otel"
    BY <2>1
  <2>4. ASSUME NEW i \in 1 .. 5, NEW j \in 1 .. 5, Acquisitions[i] = Acquisitions[j] PROVE i = j
    BY <2>3, <2>4
  <2>5. QED
    BY <2>2, <2>4
<1>3. QED
  BY <1>1, <1>2

\* Reversing a sequence.
LEMMA ReverseType ==
  ASSUME NEW s \in Seq(Resource)
  PROVE  /\ Reverse(s) \in Seq(Resource) /\ Len(Reverse(s)) = Len(s)
         /\ \A i \in 1 .. Len(s) : Reverse(s)[i] = s[Len(s) - i + 1]
<1>1. Len(s) \in Nat /\ \A i \in 1 .. Len(s) : s[i] \in Resource
  BY LenProperties, ElementOfSeq
<1>2. \A i \in 1 .. Len(s) : Len(s) - i + 1 \in 1 .. Len(s)
  BY <1>1
<1>3. PICK n \in Nat : n = Len(s)
  BY <1>1
<1>4. Reverse(s) = [i \in 1 .. n |-> s[(n - i) + 1]]
  BY <1>3 DEF Reverse
<1>5. \A i \in 1 .. n : s[(n - i) + 1] \in Resource
  BY <1>1, <1>2, <1>3
<1>6. Reverse(s) \in Seq(Resource)
  BY <1>4, <1>5
<1>7. Len(Reverse(s)) = n
  BY <1>4
<1>8. QED
  BY <1>3, <1>4, <1>6, <1>7

\* One cleanup releases the resource acquired last among those held.
LEMMA ReleaseLast ==
  ASSUME Resources, Release
  PROVE  /\ held # <<>> /\ held' \in Seq(Resource) /\ Len(held') = Len(held) - 1
         /\ \A i \in 1 .. Len(held') : held'[i] = held[i]
         /\ cleanups' = Reverse(held')
<1>1. /\ cleanups = Reverse(held) /\ cleanups # <<>> /\ cleanups' = Tail(cleanups)
  BY DEF Release, Resources
<1>2. PICK n \in Nat : n = Len(held)
  BY LenProperties DEF Resources
<1>3. /\ held \in Seq(Resource) /\ cleanups \in Seq(Resource) /\ Len(cleanups) = n
      /\ \A i \in 1 .. n : cleanups[i] = held[n - i + 1]
  BY <1>1, <1>2, ReverseType DEF Resources
<1>4. n > 0 /\ Head(cleanups) = held[n]
  BY <1>1, <1>2, <1>3, EmptySeq
<1>5. PICK i \in DOMAIN held : held[i] = Head(cleanups) /\ held' = RemoveAt(held, i)
  BY DEF Release
<1>6. i = n
  <2>1. i \in 1 .. n /\ n \in 1 .. n
    BY <1>2, <1>3, <1>4, LenProperties
  <2>2. Acquisitions[i] = Acquisitions[n] /\ n <= Len(Acquisitions) /\ Len(Acquisitions) \in Nat
    BY <1>2, <1>4, <1>5, <2>1, AcquisitionsDistinct DEF Resources
  <2>3. QED
    BY <2>1, <2>2, AcquisitionsDistinct
<1>7. held' = SubSeq(held, 1, n - 1)
  <2>1. held' = SubSeq(held, 1, n - 1) \o SubSeq(held, n + 1, n)
    BY <1>2, <1>5, <1>6 DEF RemoveAt
  <2>2. SubSeq(held, n + 1, n) = <<>>
    BY <1>2, SubSeqEmpty
  <2>3. SubSeq(held, 1, n - 1) \in Seq(Resource)
    BY <1>2, <1>3, <1>4
  <2>4. QED
    BY <2>1, <2>2, <2>3, ConcatEmptySeq
<1>8. /\ held' \in Seq(Resource) /\ Len(held') = n - 1
      /\ \A j \in 1 .. n - 1 : held'[j] = held[j]
  BY <1>2, <1>3, <1>4, <1>7
<1>9. /\ cleanups' \in Seq(Resource) /\ Len(cleanups') = n - 1
      /\ \A j \in 1 .. n - 1 : cleanups'[j] = cleanups[j + 1]
  BY <1>1, <1>3, <1>4, HeadTailProperties
<1>10. cleanups' = Reverse(held')
  <2>1. PICK h \in Seq(Resource) : h = held'
    BY <1>8
  <2>2. /\ Reverse(h) \in Seq(Resource) /\ Len(Reverse(h)) = n - 1
        /\ \A j \in 1 .. n - 1 : Reverse(h)[j] = h[(n - 1) - j + 1]
    <3>1. Len(h) = n - 1
      BY <1>8, <2>1
    <3>2. /\ Reverse(h) \in Seq(Resource) /\ Len(Reverse(h)) = Len(h)
          /\ \A j \in 1 .. Len(h) : Reverse(h)[j] = h[Len(h) - j + 1]
      BY <2>1, ReverseType
    <3>3. QED
      BY <3>1, <3>2
  <2>3. ASSUME NEW j \in 1 .. n - 1 PROVE cleanups'[j] = Reverse(h)[j]
    <3>1. j + 1 \in 1 .. n /\ n - (j + 1) + 1 = (n - 1) - j + 1 /\ (n - 1) - j + 1 \in 1 .. n - 1
      BY <1>2
    <3>2. cleanups'[j] = held[(n - 1) - j + 1]
      BY <1>3, <1>9, <3>1
    <3>3. QED
      BY <1>8, <2>1, <2>2, <3>1, <3>2
  <2>4. cleanups' = Reverse(h)
    BY <1>9, <2>2, <2>3, SeqEqual
  <2>5. QED
    BY <2>1, <2>4
<1>11. QED
  BY <1>2, <1>4, <1>8, <1>10, EmptySeq

\* Every step keeps the books of the resources.
LEMMA ResourcesKept == Resources /\ ProcStep => Resources'
<1> SUFFICES ASSUME Resources, ProcStep PROVE Resources'
  OBVIOUS
<1>a. Acquisitions \in Seq(Resource) /\ Len(Acquisitions) \in Nat
  BY AcquisitionsDistinct
<1>h. held \in Seq(Resource) /\ Len(held) \in Nat
  BY LenProperties DEF Resources
<1>r. Reverse(held) \in Seq(Resource)
  BY <1>h, ReverseType
<1>b. binary' = binary => Acquisitions' = Acquisitions
  BY DEF Acquisitions
<1>1. CASE UNCHANGED <<binary, proc, held, cleanups, exit>>
  BY <1>1, <1>b DEF Resources, Alive
<1>2. CASE Acquire
  <2>1. /\ proc = "booting" /\ exit = "none" /\ UNCHANGED <<binary, cleanups, exit>>
        /\ Acquisitions' = Acquisitions
    BY <1>2, <1>b DEF Acquire, Resources, Alive
  <2>c. cleanups = <<>>
    BY <2>1 DEF Resources
  <2>2. CASE held = Acquisitions /\ proc' = "starting" /\ held' = held
    BY <1>a, <2>1, <2>2 DEF Resources, Alive, ProcState
  <2>3. CASE held # Acquisitions /\ held' = Append(held, Acquisitions[Len(held) + 1]) /\ proc' = proc
    <3>1. Len(held) < Len(Acquisitions)
      BY <1>a, <1>h, <2>3, SeqEqual DEF Resources
    <3>2. Acquisitions[Len(held) + 1] \in Resource
      BY <1>a, <1>h, <3>1, ElementOfSeq
    <3>3. /\ held' \in Seq(Resource) /\ Len(held') = Len(held) + 1
          /\ \A i \in 1 .. Len(held) : held'[i] = held[i]
          /\ held'[Len(held) + 1] = Acquisitions[Len(held) + 1]
      BY <1>h, <2>3, <3>2, AppendProperties
    <3>4. \A i \in 1 .. Len(held') : held'[i] = Acquisitions[i]
      BY <1>h, <3>3 DEF Resources
    <3>5. QED
      BY <1>a, <1>h, <2>1, <2>c, <2>3, <3>1, <3>3, <3>4 DEF Resources, Alive
  <2>4. QED
    BY <1>2, <2>2, <2>3 DEF Acquire
<1>3. CASE AcquireFails
  <2>1. /\ proc = "booting" /\ proc' = "failing" /\ cleanups' = Reverse(held)
        /\ UNCHANGED <<binary, held, exit>> /\ Acquisitions' = Acquisitions
    BY <1>3, <1>b DEF AcquireFails, Cleanups
  <2>2. QED
    BY <1>r, <2>1 DEF Resources, Alive, ProcState
<1>4. CASE Release
  <2>1. /\ proc \in {"failing", "cleanup"} /\ UNCHANGED <<binary, proc, exit>>
        /\ Acquisitions' = Acquisitions
    BY <1>4, <1>b DEF Release
  <2>2. /\ held # <<>> /\ held' \in Seq(Resource) /\ Len(held') = Len(held) - 1
        /\ \A i \in 1 .. Len(held') : held'[i] = held[i]
        /\ cleanups' = Reverse(held')
    BY <1>4, ReleaseLast
  <2>3. cleanups' \in Seq(Resource)
    BY <2>2, ReverseType
  <2>4. Len(held') <= Len(Acquisitions) /\ \A i \in 1 .. Len(held') : held'[i] = Acquisitions[i]
    BY <1>a, <1>h, <2>2 DEF Resources
  <2>5. exit = "none"
    BY <2>1 DEF Resources, Alive
  <2>6. QED
    BY <2>1, <2>2, <2>3, <2>4, <2>5 DEF Resources, Alive
<1>5. CASE Exit
  <2>1. /\ proc \in {"failing", "cleanup"} /\ cleanups = <<>> /\ proc' = "exited"
        /\ exit' \in {"error", "clean"} /\ UNCHANGED <<binary, held, cleanups>>
        /\ Acquisitions' = Acquisitions
    BY <1>5, <1>b DEF Exit
  <2>2. held = <<>>
    <3>1. Reverse(held) = <<>> /\ Len(Reverse(held)) = Len(held)
      BY <1>h, <2>1, ReverseType DEF Resources
    <3>2. QED
      BY <1>h, <3>1, EmptySeq
  <2>3. QED
    BY <2>1, <2>2 DEF Resources, Alive, ProcState
<1>6. CASE /\ proc \in {"starting", "running"} /\ proc' \in {"running", "draining"}
           /\ UNCHANGED <<binary, held, cleanups, exit>>
  BY <1>6, <1>b DEF Resources, Alive, ProcState
<1>7. CASE /\ proc \in {"running", "draining"} /\ proc' = "cleanup" /\ cleanups' = Cleanups(held)
           /\ UNCHANGED <<binary, held, exit>>
  BY <1>7, <1>b, <1>r DEF Resources, Alive, ProcState, Cleanups
<1>8. CASE /\ proc \in {"booting", "failing"} /\ proc' = "exited" /\ exit' = "killed"
           /\ UNCHANGED <<binary, held, cleanups>>
  BY <1>8, <1>b DEF Resources, Alive, ProcState
<1>9. QED
  BY <1>1, <1>2, <1>3, <1>4, <1>5, <1>6, <1>7, <1>8 DEF ProcStep


\* Every step of either process is one of those.
LEMMA ProcSteps == [Next]_vars => ProcStep
<1> SUFFICES ASSUME [Next]_vars PROVE ProcStep
  OBVIOUS
<1>1. CASE UNCHANGED vars
  BY <1>1 DEF vars, procVars, ProcStep
<1>2. CASE ServerMain
  BY <1>2 DEF ServerMain, ServerAcquire, ServerAcquireFails, StartServer, BeginDrain, EndDrain,
              ServerRelease, ServerExit, ProcStep
<1>3. CASE ServerSignal \/ Listen \/ MongoFlips \/ ServerProbe \/ Janitor \/ Tick
  BY <1>3 DEF ServerSignal, Listen, MongoFlips, ServerProbe, Janitor, Tick, ProcStep, procVars
<1>4. ASSUME NEW r \in Request, HandleRequest(r) PROVE ProcStep
  BY <1>4 DEF HandleRequest, ServerArrive, Limit, BeginCommand, EndCommand, Respond, ProcStep, procVars
<1>5. CASE WorkerMain
  BY <1>5 DEF WorkerMain, WorkerAcquire, StartWorker, EndRun, WorkerExit, ProcStep
<1>6. CASE WorkerSignal
  BY <1>6 DEF WorkerSignal, ProcStep
<1>7. CASE StopHealthServer \/ WorkerProbe \/ WorkerTick
  BY <1>7 DEF StopHealthServer, WorkerProbe, WorkerTick, ProcStep, procVars
<1>8. ASSUME NEW l \in AllLoops, RunLoop(l) \/ StopLoop(l) PROVE ProcStep
  BY <1>8 DEF RunLoop, StopLoop, ProcStep, procVars
<1>9. QED
  BY <1>1, <1>2, <1>3, <1>4, <1>5, <1>6, <1>7, <1>8 DEF Next, ServerNext, WorkerNext

\* Nothing is held initially.
LEMMA ResourcesStart == Init => Resources
<1>1. <<>> \in Seq(Resource) /\ Len(<<>>) = 0
  BY EmptySeq
<1>2. Len(Acquisitions) \in Nat
  BY AcquisitionsDistinct
<1>3. QED
  BY <1>1, <1>2 DEF Init, ProcessInit, Resources, Alive, ProcState

\* A process that ends by itself, at once or after a failed start, has released all it had
\* acquired, in whatever state the failure or the signal met it (wire_gen.go).
THEOREM ReleasesAll == Spec => []NothingLeaks
<1>1. Resources => NothingLeaks
  BY DEF Resources, NothingLeaks
<1>2. QED
  BY <1>1, ResourcesStart, ResourcesKept, ProcSteps, PTL DEF Spec

--------------------------------------------------------------------------------
(* Requests.  The listener is open only while main runs, so that requests are *)
(* in flight only then and during the drain, unless the drain timed out.      *)

\* A command runs while its request waits for it, and has been reported when the request
\* is answered.
CommandsAwaited ==
  \A c \in Command : call[c] # "none" =>
    /\ c \in Request
    /\ stage[c] = "busy" \/ (stage[c] = "answered" /\ call[c] = "done")

Draining ==
  /\ stage \in [Request -> Stage]
  /\ listener \in {"opening", "listening"} => proc = "running"
  /\ drain \in {"none", "complete", "timedout"}
  /\ drain # "none" => proc \in {"cleanup", "exited"}
  /\ binary = "worker" => listener = "off" /\ drain = "none"
  /\ InFlight # {} => /\ binary = "server"
                      /\ proc \in {"running", "draining"} \/ drain = "timedout"

\* Moving a request from one stage to another.
LEMMA MoveEffect ==
  ASSUME stage \in [Request -> Stage], NEW r \in Request, NEW s \in Stage, Move(r, s)
  PROVE  /\ stage' \in [Request -> Stage]
         /\ \A q \in Request : stage'[q] = IF q = r THEN s ELSE stage[q]
  BY DEF Move

\* What a step does to the requests: the stage of one in flight changes, or one arrives.
RequestStep ==
  \/ UNCHANGED stage
  \/ \E r \in Request, s \in Stage :
       /\ Move(r, s)
       /\ r \in InFlight \/ (stage[r] = "none" /\ listener = "listening")


\* A request moves only in flight, or arrives at the open listener.
LEMMA RequestSteps ==
  ASSUME stage \in [Request -> Stage], NEW r \in Request, HandleRequest(r)
  PROVE  /\ UNCHANGED <<binary, proc, listener, drain>>
         /\ RequestStep
<1>s. {"counted", "rejected", "holding", "admitted", "busy", "answered", "arrived"} \subseteq Stage
  BY DEF Stage
<1>f. stage[r] \notin {"none", "rejected", "answered"} => r \in InFlight
  BY DEF InFlight
<1>1. UNCHANGED <<binary, proc, listener, drain>>
  BY DEF HandleRequest, ServerArrive, Limit, BeginCommand, EndCommand, Respond, procVars
<1>m. ASSUME NEW s \in Stage, Move(r, s),
             r \in InFlight \/ (stage[r] = "none" /\ listener = "listening")
      PROVE  RequestStep
  BY <1>m DEF RequestStep
<1>2. CASE ServerArrive(r)
  <2>1. stage[r] = "none" /\ Move(r, "arrived") /\ listener = "listening"
    BY <1>2 DEF ServerArrive, Arrive
  <2>2. QED
    BY <1>1, <1>s, <1>m, <2>1
<1>3. CASE Limit(r)
  <2>1. CASE TakeGlobal(r)
    <3>1. stage[r] = "arrived" /\ (Move(r, "counted") \/ Move(r, "rejected"))
      BY <2>1 DEF TakeGlobal
    <3>2. QED
      BY <1>1, <1>s, <1>f, <1>m, <3>1
  <2>2. CASE GetBucket(r)
    <3>1. stage[r] = "counted" /\ Move(r, "holding")
      BY <2>2 DEF GetBucket
    <3>2. QED
      BY <1>1, <1>s, <1>f, <1>m, <3>1
  <2>3. CASE AllowClient(r)
    <3>1. stage[r] = "holding" /\ (Move(r, "admitted") \/ Move(r, "rejected"))
      BY <2>3 DEF AllowClient
    <3>2. QED
      BY <1>1, <1>s, <1>f, <1>m, <3>1
  <2>4. QED
    BY <1>3, <2>1, <2>2, <2>3 DEF Limit
<1>4. CASE BeginCommand(r)
  <2>1. stage[r] = "admitted" /\ Move(r, "busy")
    BY <1>4 DEF BeginCommand
  <2>2. QED
    BY <1>1, <1>s, <1>f, <1>m, <2>1
<1>5. CASE EndCommand(r)
  BY <1>1, <1>5 DEF EndCommand, requestVars, RequestStep
<1>6. CASE Respond(r)
  <2>1. stage[r] \in {"admitted", "busy"} /\ Move(r, "answered")
    BY <1>6 DEF Respond
  <2>2. QED
    BY <1>1, <1>s, <1>f, <1>m, <2>1
<1>7. QED
  BY <1>1, <1>2, <1>3, <1>4, <1>5, <1>6 DEF HandleRequest

\* The drain keeps its promise.
LEMMA DrainingKept == Resources /\ Draining /\ [Next]_vars => Draining'
<1> SUFFICES ASSUME Resources, Draining, [Next]_vars PROVE Draining'
  OBVIOUS
<1>s. stage \in [Request -> Stage] /\ (UNCHANGED stage => UNCHANGED InFlight)
  BY DEF Draining, InFlight
<1>1. ASSUME UNCHANGED <<stage, binary, proc, listener, drain>> PROVE Draining'
  BY <1>1, <1>s DEF Draining
<1>2. ASSUME UNCHANGED <<stage, binary, listener, drain>>,
             proc \in {"booting", "failing"} \/ (proc = "cleanup" /\ proc' = "exited")
      PROVE  Draining'
  <2>1. proc' # proc /\ proc # "cleanup" => proc # "running" /\ proc # "draining"
    BY <1>2
  <2>2. QED
    BY <1>2, <1>s, <2>1 DEF Draining
<1>3. ASSUME UNCHANGED <<stage, binary, listener, drain>>, binary = "worker" PROVE Draining'
  BY <1>3, <1>s DEF Draining
<1>4. ASSUME StartServer, binary = "server" PROVE Draining'
  <2>1. /\ proc = "starting" /\ proc' = "running" /\ listener' = "opening"
        /\ UNCHANGED <<stage, binary, drain>>
    BY <1>4 DEF StartServer, requestVars
  <2>2. QED
    BY <1>4, <1>s, <2>1 DEF Draining
<1>5. ASSUME BeginDrain, binary = "server" PROVE Draining'
  <2>1. /\ proc = "running" /\ proc' = "draining" /\ listener' \in {"failed", "closed"}
        /\ UNCHANGED <<stage, binary, drain>>
    BY <1>5 DEF BeginDrain, requestVars
  <2>2. QED
    BY <1>5, <1>s, <2>1 DEF Draining
<1>6. ASSUME EndDrain, binary = "server" PROVE Draining'
  <2>1. /\ proc = "draining" /\ proc' = "cleanup" /\ UNCHANGED <<stage, binary, listener>>
        /\ drain' = IF InFlight = {} THEN "complete" ELSE "timedout"
    BY <1>6 DEF EndDrain, requestVars
  <2>2. QED
    BY <1>6, <1>s, <2>1 DEF Draining
<1>7. ASSUME Listen, binary = "server" PROVE Draining'
  <2>1. /\ listener = "opening" /\ listener' \in {"listening", "failed"}
        /\ UNCHANGED <<stage, binary, proc, drain>>
    BY <1>7 DEF Listen, requestVars, procVars
  <2>2. QED
    BY <1>7, <1>s, <2>1 DEF Draining
<1>8. ASSUME NEW r \in Request, HandleRequest(r), binary = "server" PROVE Draining'
  <2>1. UNCHANGED <<binary, proc, listener, drain>> /\ RequestStep
    BY <1>8, <1>s, RequestSteps
  <2>2. CASE UNCHANGED stage
    BY <1>1, <2>1, <2>2
  <2>3. ASSUME NEW q \in Request, NEW s \in Stage, Move(q, s),
               q \in InFlight \/ (stage[q] = "none" /\ listener = "listening")
        PROVE  Draining'
    <3>1. /\ stage' \in [Request -> Stage]
          /\ \A p \in Request : stage'[p] = IF p = q THEN s ELSE stage[p]
      BY <1>s, <2>3, MoveEffect
    <3>2. InFlight' \subseteq InFlight \cup {q}
      BY <3>1 DEF InFlight
    <3>3. InFlight' # {} => InFlight # {} \/ proc = "running"
      BY <2>3, <3>2 DEF Draining
    <3>4. QED
      BY <1>8, <2>1, <3>1, <3>3 DEF Draining
  <2>4. QED
    BY <2>1, <2>2, <2>3 DEF RequestStep
<1>9. CASE ServerMain /\ binary = "server"
  BY <1>1, <1>2, <1>4, <1>5, <1>6, <1>9
     DEF ServerMain, ServerAcquire, ServerAcquireFails, ServerRelease, ServerExit, Acquire,
         AcquireFails, Release, Exit, requestVars, serverVars
<1>10. CASE ServerSignal \/ MongoFlips \/ ServerProbe \/ Janitor \/ Tick
  BY <1>1, <1>10 DEF ServerSignal, MongoFlips, ServerProbe, Janitor, Tick, Refill, serverVars,
                     requestVars, procVars
<1>11. CASE UNCHANGED vars
  BY <1>1, <1>11 DEF vars, procVars, serverVars
<1>12. CASE binary = "worker" /\ WorkerNext /\ UNCHANGED serverVars
  <2>1. UNCHANGED <<stage, listener, drain>>
    BY <1>12 DEF serverVars
  <2>2. UNCHANGED binary
    BY <1>12 DEF WorkerNext, WorkerMain, WorkerAcquire, StartWorker, EndRun, WorkerExit, WorkerSignal,
                 StopHealthServer, RunLoop, StopLoop, WorkerProbe, WorkerTick, procVars,
                 Acquire, AcquireFails, Release, Exit
  <2>3. QED
    BY <1>3, <1>12, <2>1, <2>2
<1>13. QED
  BY <1>7, <1>8, <1>9, <1>10, <1>11, <1>12 DEF Next, ServerNext

\* No request is in flight and nothing is drained initially.
LEMMA DrainingStarts == Init => Draining
  BY DEF Init, ServerInit, WorkerInit, LimiterInit, Draining, InFlight, Stage


\* No request is answered before its command has been reported.
LEMMA AwaitedKept == EntriesKept /\ Draining /\ CommandsAwaited /\ [Next]_vars => CommandsAwaited'
<1> SUFFICES ASSUME EntriesKept, Draining, CommandsAwaited, [Next]_vars PROVE CommandsAwaited'
  OBVIOUS
<1>s. stage \in [Request -> Stage] /\ call \in [Command -> CallState]
  BY DEF Draining, EntriesKept
<1>m. {"counted", "rejected", "holding", "admitted", "busy", "answered", "arrived"} \subseteq Stage
  BY DEF Stage
<1>1. ASSUME UNCHANGED <<stage, call>> PROVE CommandsAwaited'
  BY <1>1 DEF CommandsAwaited
<1>2. ASSUME NEW r \in Request, NEW s \in Stage, Move(r, s), UNCHANGED call,
             stage[r] \notin {"busy", "answered"}
      PROVE  CommandsAwaited'
  <2>1. \A q \in Request : stage'[q] = IF q = r THEN s ELSE stage[q]
    BY <1>2, <1>s, MoveEffect
  <2>2. QED
    BY <1>2, <2>1 DEF CommandsAwaited
<1>3. ASSUME NEW r \in Request, ServerArrive(r) \/ Limit(r) PROVE CommandsAwaited'
  <2>1. UNCHANGED call
    BY <1>3 DEF ServerArrive, Limit, monitorVars
  <2>2. CASE ServerArrive(r)
    <3>1. stage[r] = "none" /\ Move(r, "arrived")
      BY <2>2 DEF ServerArrive, Arrive
    <3>2. QED
      BY <1>2, <1>m, <2>1, <3>1
  <2>3. CASE TakeGlobal(r)
    <3>1. stage[r] = "arrived" /\ (Move(r, "counted") \/ Move(r, "rejected"))
      BY <2>3 DEF TakeGlobal
    <3>2. QED
      BY <1>2, <1>m, <2>1, <3>1
  <2>4. CASE GetBucket(r)
    <3>1. stage[r] = "counted" /\ Move(r, "holding")
      BY <2>4 DEF GetBucket
    <3>2. QED
      BY <1>2, <1>m, <2>1, <3>1
  <2>5. CASE AllowClient(r)
    <3>1. stage[r] = "holding" /\ (Move(r, "admitted") \/ Move(r, "rejected"))
      BY <2>5 DEF AllowClient
    <3>2. QED
      BY <1>2, <1>m, <2>1, <3>1
  <2>6. QED
    BY <1>3, <2>2, <2>3, <2>4, <2>5 DEF Limit
<1>4. ASSUME NEW r \in Request, BeginCommand(r) PROVE CommandsAwaited'
  <2>1. /\ r \in Command /\ Move(r, "busy") /\ call' = [call EXCEPT ![r] = "running"]
    BY <1>4 DEF BeginCommand, CommandStarted
  <2>2. \A q \in Request : stage'[q] = IF q = r THEN "busy" ELSE stage[q]
    BY <1>m, <1>s, <2>1, MoveEffect
  <2>3. \A c \in Command : call'[c] = IF c = r THEN "running" ELSE call[c]
    BY <1>s, <2>1
  <2>4. QED
    BY <2>2, <2>3 DEF CommandsAwaited
<1>5. ASSUME NEW r \in Request, EndCommand(r) PROVE CommandsAwaited'
  <2>1. /\ UNCHANGED stage /\ call[r] \in {"running", "finishing"} /\ r \in Command
        /\ \A c \in Command : c # r => call'[c] = call[c]
    BY <1>5, <1>s DEF EndCommand, CommandReported, FinishSpan, requestVars
  <2>2. stage[r] = "busy"
    BY <2>1 DEF CommandsAwaited
  <2>3. QED
    BY <1>5, <2>1, <2>2 DEF CommandsAwaited
<1>6. ASSUME NEW r \in Request, Respond(r) PROVE CommandsAwaited'
  <2>1. /\ Move(r, "answered") /\ UNCHANGED call
        /\ stage[r] = "admitted" \/ (stage[r] = "busy" /\ call[r] = "done")
    BY <1>6 DEF Respond, monitorVars
  <2>2. \A q \in Request : stage'[q] = IF q = r THEN "answered" ELSE stage[q]
    BY <1>m, <1>s, <2>1, MoveEffect
  <2>3. QED
    BY <2>1, <2>2 DEF CommandsAwaited
<1>7. CASE ServerMain
  <2>1. UNCHANGED stage
    BY <1>7 DEF ServerMain, ServerAcquire, ServerAcquireFails, StartServer, BeginDrain, EndDrain,
                ServerRelease, ServerExit, requestVars, serverVars
  <2>2. UNCHANGED call
    BY <1>7 DEF ServerMain, ServerAcquire, ServerAcquireFails, StartServer, BeginDrain, EndDrain,
                ServerRelease, ServerExit, monitorVars, serverVars, StartJanitor, StopJanitor
  <2>3. QED
    BY <1>1, <2>1, <2>2
<1>8. CASE ServerSignal \/ Listen \/ MongoFlips \/ ServerProbe \/ Janitor \/ Tick
  <2>1. UNCHANGED stage
    BY <1>8 DEF ServerSignal, Listen, MongoFlips, ServerProbe, Janitor, Tick, Refill, requestVars,
                serverVars
  <2>2. UNCHANGED call
    BY <1>8 DEF ServerSignal, Listen, MongoFlips, ServerProbe, Janitor, Tick, FindLeak, PurgeLeak,
                AgeEntries, monitorVars, serverVars
  <2>3. QED
    BY <1>1, <2>1, <2>2
<1>9. CASE UNCHANGED vars \/ UNCHANGED serverVars
  BY <1>1, <1>9 DEF vars, serverVars, monitorVars
<1>10. QED
  BY <1>3, <1>4, <1>5, <1>6, <1>7, <1>8, <1>9 DEF Next, ServerNext, HandleRequest

\* When the requests were drained in time, every command they ran has been reported and
\* its span has ended, before the tracer shuts down (server/main.go).
THEOREM SpansAreFlushed == Spec => []SpansFlushed
<1>1. EntriesKept /\ Draining /\ CommandsAwaited => SpansFlushed
  <2> SUFFICES ASSUME EntriesKept, Draining, CommandsAwaited, drain = "complete",
                      NEW c \in Command, call[c] # "none"
               PROVE  c \in ended
    BY DEF SpansFlushed
  <2>1. InFlight = {}
    BY DEF Draining
  <2>2. stage[c] = "answered" /\ call[c] = "done"
    BY <2>1 DEF CommandsAwaited, InFlight
  <2>3. QED
    BY <2>2 DEF EntriesKept
<1>2. Init => CommandsAwaited
  BY DEF Init, ServerInit, MonitorInit, CommandsAwaited
<1>3. QED
  BY <1>1, <1>2, MonitorStarts, MonitorKeeps, MonitorSteps, ResourcesStart, ResourcesKept, ProcSteps,
     DrainingStarts, DrainingKept, AwaitedKept, PTL DEF Spec

--------------------------------------------------------------------------------
(* The worker's loops run only while main waits for them.                     *)

LoopState == {"off", "polling", "pausing", "working", "returned"}
Busy(l)   == loop[l] \in {"polling", "pausing", "working"}

LoopsAwaited ==
  /\ loop \in [AllLoops -> LoopState]
  /\ \A l \in AllLoops : Busy(l) => binary = "worker" /\ proc = "running" /\ l \in Started

\* Main does not go on while a loop runs.
LEMMA LoopsKept == Resources /\ LoopsAwaited /\ [Next]_vars => LoopsAwaited'
<1> SUFFICES ASSUME Resources, LoopsAwaited, [Next]_vars PROVE LoopsAwaited'
  OBVIOUS
<1>l. loop \in [AllLoops -> LoopState]
  BY DEF LoopsAwaited
<1>a. UNCHANGED sqs => UNCHANGED Started
  BY DEF Started
<1>1. ASSUME UNCHANGED <<binary, proc, sqs, loop>> PROVE LoopsAwaited'
  BY <1>1, <1>a DEF LoopsAwaited, Busy
<1>2. ASSUME UNCHANGED <<sqs, loop>>, binary = "server" \/ proc # "running" PROVE LoopsAwaited'
  BY <1>2, <1>a DEF LoopsAwaited, Busy
<1>3. CASE StartWorker /\ binary = "worker"
  <2>1. /\ proc' = "running" /\ UNCHANGED <<binary, sqs>>
        /\ loop' = [l \in AllLoops |-> IF l \in Started THEN "polling" ELSE "off"]
    BY <1>3 DEF StartWorker
  <2>2. QED
    BY <1>3, <1>a, <2>1 DEF LoopsAwaited, Busy, LoopState
<1>4. ASSUME NEW l \in AllLoops, RunLoop(l) \/ StopLoop(l), binary = "worker" PROVE LoopsAwaited'
  <2>1. /\ UNCHANGED <<binary, proc, sqs>> /\ Busy(l)
        /\ UNCHANGED loop \/ \E x \in LoopState : loop' = [loop EXCEPT ![l] = x]
    BY <1>4 DEF RunLoop, StopLoop, PollReturns, PollFails, PollAgain, LoopReturns, procVars, Busy,
                LoopState
  <2>2. /\ loop' \in [AllLoops -> LoopState]
        /\ \A k \in AllLoops : k # l => loop'[k] = loop[k]
    BY <1>l, <2>1
  <2>3. QED
    BY <1>a, <2>1, <2>2 DEF LoopsAwaited, Busy
<1>5. CASE EndRun
  <2>1. AllReturned /\ UNCHANGED <<sqs, loop>>
    BY <1>5 DEF EndRun
  <2>2. \A l \in AllLoops : ~Busy(l)
    BY <2>1 DEF AllReturned, LoopsAwaited, Busy
  <2>3. QED
    BY <1>a, <2>1, <2>2 DEF LoopsAwaited, Busy
<1>6. CASE WorkerAcquire \/ WorkerExit \/ WorkerSignal
  <2>1. UNCHANGED <<sqs, loop>>
    BY <1>6 DEF WorkerAcquire, WorkerExit, WorkerSignal, workerVars
  <2>2. UNCHANGED <<binary, proc>> \/ proc # "running"
    BY <1>6 DEF WorkerAcquire, WorkerExit, WorkerSignal, Acquire, AcquireFails, Release, Exit
  <2>3. QED
    BY <1>1, <1>2, <2>1, <2>2
<1>7. CASE StopHealthServer \/ WorkerProbe \/ WorkerTick
  BY <1>1, <1>7 DEF StopHealthServer, WorkerProbe, WorkerTick, workerVars, procVars
<1>8. CASE UNCHANGED vars
  BY <1>1, <1>8 DEF vars, workerVars, procVars
<1>9. CASE binary = "server" /\ UNCHANGED workerVars
  BY <1>2, <1>9 DEF workerVars
<1>10. QED
  BY <1>3, <1>4, <1>5, <1>6, <1>7, <1>8, <1>9 DEF Next, WorkerNext, WorkerMain

\* Work in flight has its resources: nothing is released under a request, unless the
\* drain deadline has passed, nor under a consumer loop (server/main.go: Shutdown before
\* the deferred cleanup; providers.go: g.Wait).
THEOREM DrainsBeforeRelease == Spec => []DrainBeforeRelease
<1>1. Resources /\ Draining /\ LoopsAwaited => DrainBeforeRelease
  <2> SUFFICES ASSUME Resources, Draining, LoopsAwaited PROVE DrainBeforeRelease
    OBVIOUS
  <2>1. ASSUME drain # "timedout", NEW r \in InFlight PROVE Holds("mongo") /\ Holds("otel")
    <3>1. binary = "server" /\ held = Acquisitions
      BY <2>1 DEF Draining, Resources
    <3>2. held = <<"mongo", "otel">>
      BY <3>1 DEF Acquisitions
    <3>3. Len(held) = 2 /\ held[1] = "mongo" /\ held[2] = "otel"
      BY <3>2
    <3>4. QED
      BY <3>3 DEF Holds, Contains
  <2>2. Started \subseteq AllLoops
    BY DEF Started, AllLoops, Broker
  <2>3. \A l \in Started : Busy(l) => held = Acquisitions
    BY <2>2 DEF LoopsAwaited, Resources
  <2>4. QED
    BY <2>1, <2>3 DEF DrainBeforeRelease, Busy
<1>2. Init => LoopsAwaited
  BY DEF Init, WorkerInit, LoopsAwaited, LoopState, Busy
<1>3. QED
  BY <1>1, <1>2, ResourcesStart, ResourcesKept, ProcSteps, DrainingStarts, DrainingKept, LoopsKept,
     PTL DEF Spec


--------------------------------------------------------------------------------
(* Readiness.  While main runs and is not told to stop, the count the         *)
(* registry keeps of a checker is the number of checks in a row that found    *)
(* the dependency itself at fault, one step behind between a check and the    *)
(* recording of its result.                                                   *)

Registered == IF binary = "server" THEN ServerCheckers ELSE WorkerCheckers
Observing  == proc \in {"running", "draining"} /\ ~signalled

Names == {"mongo", "kafka", "sqs"}

Probing ==
  /\ remaining \in Seq(Names)
  /\ prober \in {"off", "waiting", "probing", "exited"}
  /\ prober = "probing" <=> remaining # <<>>
  /\ found # "none" => prober = "probing"
  /\ DOMAIN bad = DOMAIN results
  /\ \A i \in 1 .. Len(remaining) : remaining[i] \in DOMAIN results
  /\ prober # "off" => DOMAIN results = {Registered[i] : i \in DOMAIN Registered}

\* What the registry has counted for checker c, or will have once it records what it found.
Counted(c) == IF found # "none" /\ c = Head(remaining)
              THEN Updated(results[c], found = "failing").fails
              ELSE results[c].fails

Agreeing == Observing => \A c \in DOMAIN results : bad[c] = Counted(c)

\* What the registered checkers are called.
LEMMA RegisteredType ==
  /\ Registered \in Seq(Names) /\ Registered # <<>>
  /\ DOMAIN Registered = 1 .. Len(Registered)
<1>1. CASE binary = "server"
  BY <1>1 DEF Registered, ServerCheckers, Names
<1>2. CASE binary # "server" /\ sqs = "off"
  BY <1>2 DEF Registered, WorkerCheckers, Names
<1>3. CASE binary # "server" /\ sqs # "off"
  BY <1>3 DEF Registered, WorkerCheckers, Names
<1>4. QED
  BY <1>1, <1>2, <1>3

\* What a step does to the registry.  A check that main can still act on errs exactly when
\* its dependency is at fault.
ProbeStep ==
  \/ StartProbing(Registered)
  \/ /\ Observing' => Observing
     /\ \/ UNCHANGED healthVars
        \/ BeginRound(Registered)
        \/ \E cancelled \in BOOLEAN : StopProbing(cancelled)
        \/ \E err, atFault \in BOOLEAN : Check(err, atFault) /\ (Observing => err = atFault)
        \/ Record

\* Every step of either process is one of those.
LEMMA ProbeSteps == Resources /\ [Next]_vars => ProbeStep /\ UNCHANGED Registered
<1> SUFFICES ASSUME Resources, [Next]_vars PROVE ProbeStep /\ UNCHANGED Registered
  OBVIOUS
<1>b. UNCHANGED <<binary, sqs>> => UNCHANGED Registered
  BY DEF Registered, ServerCheckers, WorkerCheckers
<1>s. binary = "server" /\ UNCHANGED binary => UNCHANGED Registered
  BY DEF Registered, ServerCheckers
<1>1. CASE UNCHANGED vars
  BY <1>1, <1>b DEF vars, procVars, workerVars, ProbeStep, Observing
<1>2. CASE binary = "server" /\ ServerMain
  <2>1. CASE StartServer
    BY <1>2, <1>s, <2>1 DEF StartServer, ProbeStep, Registered
  <2>2. CASE ~StartServer
    <3>1. UNCHANGED healthVars /\ UNCHANGED binary
      BY <1>2, <2>2 DEF ServerMain, ServerAcquire, ServerAcquireFails, BeginDrain, EndDrain,
                        ServerRelease, ServerExit, Acquire, AcquireFails, Release, Exit
    <3>2. Observing' => Observing
      BY <1>2, <2>2 DEF ServerMain, ServerAcquire, ServerAcquireFails, BeginDrain, EndDrain,
                        ServerRelease, ServerExit, Acquire, AcquireFails, Release, Exit, Observing
    <3>3. QED
      BY <1>2, <1>s, <3>1, <3>2 DEF ProbeStep
  <2>3. QED
    BY <2>1, <2>2
<1>3. CASE binary = "server" /\ (ServerSignal \/ Listen \/ MongoFlips \/ Janitor \/ Tick)
  BY <1>3, <1>s DEF ServerSignal, Listen, MongoFlips, Janitor, Tick, ProbeStep, Observing, procVars
<1>4. ASSUME NEW r \in Request, HandleRequest(r), binary = "server"
      PROVE  ProbeStep /\ UNCHANGED Registered
  BY <1>4, <1>s DEF HandleRequest, ServerArrive, Limit, BeginCommand, EndCommand, Respond, ProbeStep,
                    Observing, procVars
<1>5. CASE binary = "server" /\ ServerProbe
  <2>1. UNCHANGED procVars
    BY <1>5 DEF ServerProbe
  <2>2. UNCHANGED Registered /\ (Observing' => Observing)
    BY <1>5, <1>s, <2>1 DEF procVars, Observing
  <2>4. Observing => Holds("mongo")
    <3>1. Observing => held = <<"mongo", "otel">>
      BY <1>5 DEF Observing, Resources, Acquisitions
    <3>2. held = <<"mongo", "otel">> => Len(held) = 2 /\ held[1] = "mongo"
      OBVIOUS
    <3>3. QED
      BY <3>1, <3>2 DEF Holds, Contains
  <2>5. CASE Check(mongo = "down" \/ signalled \/ ~Holds("mongo"), mongo = "down")
    <3>1. Observing => (mongo = "down" \/ signalled \/ ~Holds("mongo")) = (mongo = "down")
      BY <2>4 DEF Observing
    <3>2. (mongo = "down" \/ signalled \/ ~Holds("mongo")) \in BOOLEAN /\ (mongo = "down") \in BOOLEAN
      OBVIOUS
    <3>3. QED
      BY <2>2, <2>5, <3>1, <3>2 DEF ProbeStep
  <2>6. CASE BeginRound(ServerCheckers)
    BY <1>5, <2>2, <2>6 DEF ProbeStep, Registered
  <2>7. CASE StopProbing(signalled)
    <3>1. StopProbing(TRUE)
      BY <2>7 DEF StopProbing
    <3>2. QED
      BY <2>2, <3>1 DEF ProbeStep
  <2>8. CASE Record
    BY <2>2, <2>8 DEF ProbeStep
  <2>9. QED
    BY <1>5, <2>5, <2>6, <2>7, <2>8 DEF ServerProbe
<1>6. CASE binary = "worker" /\ WorkerMain
  <2>1. CASE StartWorker
    BY <1>6, <1>b, <2>1 DEF StartWorker, ProbeStep, Registered
  <2>2. CASE ~StartWorker
    <3>1. UNCHANGED <<healthVars, binary, sqs>>
      BY <1>6, <2>2 DEF WorkerMain, WorkerAcquire, EndRun, WorkerExit, Acquire, AcquireFails, Release,
                        Exit, workerVars
    <3>2. Observing' => Observing
      BY <1>6, <2>2 DEF WorkerMain, WorkerAcquire, EndRun, WorkerExit, Acquire, AcquireFails, Release,
                        Exit, Observing
    <3>3. QED
      BY <1>b, <3>1, <3>2 DEF ProbeStep
  <2>3. QED
    BY <2>1, <2>2
<1>7. CASE binary = "worker" /\ (WorkerSignal \/ StopHealthServer \/ WorkerTick)
  BY <1>7, <1>b DEF WorkerSignal, StopHealthServer, WorkerTick, ProbeStep, Observing, procVars,
                    workerVars
<1>8. ASSUME NEW l \in AllLoops, RunLoop(l) \/ StopLoop(l), binary = "worker"
      PROVE  ProbeStep /\ UNCHANGED Registered
  BY <1>8, <1>b DEF RunLoop, StopLoop, ProbeStep, Observing, procVars
<1>9. CASE binary = "worker" /\ WorkerProbe
  <2>1. UNCHANGED <<procVars, workerVars>>
    BY <1>9 DEF WorkerProbe
  <2>2. UNCHANGED Registered /\ (Observing' => Observing)
    BY <1>9, <1>b, <2>1 DEF procVars, workerVars, Observing
  <2>3. CASE remaining # <<>> /\ LET s == Stale(Head(remaining)) IN Check(s, s)
    <3>1. Stale(Head(remaining)) \in BOOLEAN
      BY DEF Stale
    <3>2. QED
      BY <2>2, <2>3, <3>1 DEF ProbeStep
  <2>4. CASE BeginRound(WorkerCheckers)
    BY <1>9, <2>2, <2>4 DEF ProbeStep, Registered
  <2>5. CASE StopProbing(signalled)
    <3>1. StopProbing(TRUE)
      BY <2>5 DEF StopProbing
    <3>2. QED
      BY <2>2, <3>1 DEF ProbeStep
  <2>6. CASE Record
    BY <2>2, <2>6 DEF ProbeStep
  <2>7. QED
    BY <1>9, <2>3, <2>4, <2>5, <2>6 DEF WorkerProbe
<1>10. QED
  BY <1>1, <1>2, <1>3, <1>4, <1>5, <1>6, <1>7, <1>8, <1>9 DEF Next, ServerNext, WorkerNext

\* The round goes through checkers that are registered.
LEMMA ProbingKept ==
  ASSUME Probing, ProbeStep, UNCHANGED Registered
  PROVE  Probing'
<1>r. /\ Registered \in Seq(Names) /\ Registered # <<>>
      /\ DOMAIN Registered = 1 .. Len(Registered) /\ Registered' = Registered
  BY RegisteredType
<1>1. CASE UNCHANGED healthVars
  BY <1>r, <1>1 DEF Probing, healthVars
<1>2. CASE StartProbing(Registered)
  <2>1. /\ remaining' = Registered /\ prober' = "probing" /\ found' = "none"
        /\ DOMAIN results' = {Registered[i] : i \in DOMAIN Registered} /\ DOMAIN bad' = DOMAIN results'
    BY <1>2 DEF StartProbing, Probing
  <2>2. QED
    BY <1>r, <2>1 DEF Probing
<1>3. CASE BeginRound(Registered)
  <2>1. /\ remaining' = Registered /\ prober = "waiting" /\ prober' = "probing"
        /\ UNCHANGED <<results, found, bad>>
    BY <1>3 DEF BeginRound
  <2>2. DOMAIN results = {Registered[i] : i \in DOMAIN Registered}
    BY <2>1 DEF Probing
  <2>3. QED
    BY <1>r, <2>1, <2>2 DEF Probing
<1>4. ASSUME NEW cancelled \in BOOLEAN, StopProbing(cancelled) PROVE Probing'
  BY <1>r, <1>4 DEF StopProbing, Probing
<1>5. ASSUME NEW err \in BOOLEAN, NEW atFault \in BOOLEAN, Check(err, atFault) PROVE Probing'
  <2>1. /\ prober = "probing" /\ UNCHANGED <<results, prober, remaining>> /\ DOMAIN bad' = DOMAIN bad
    BY <1>5 DEF Check
  <2>2. QED
    BY <1>r, <2>1 DEF Probing
<1>6. CASE Record
  <2>1. /\ prober = "probing" /\ remaining # <<>> /\ remaining' = Tail(remaining) /\ found' = "none"
        /\ bad' = bad /\ DOMAIN results' = DOMAIN results
        /\ prober' = IF Tail(remaining) = <<>> THEN "waiting" ELSE "probing"
    BY <1>6 DEF Record, Probing
  <2>2. /\ Tail(remaining) \in Seq(Names) /\ Len(Tail(remaining)) = Len(remaining) - 1
        /\ \A i \in 1 .. Len(Tail(remaining)) : Tail(remaining)[i] = remaining[i + 1]
        /\ Len(remaining) \in Nat
    BY <2>1, HeadTailProperties, LenProperties DEF Probing
  <2>3. \A i \in 1 .. Len(Tail(remaining)) : Tail(remaining)[i] \in DOMAIN results
    BY <2>2 DEF Probing
  <2>4. PICK t \in Seq(Names) : t = Tail(remaining)
    BY <2>2
  <2>5. QED
    BY <1>r, <2>1, <2>3, <2>4 DEF Probing
<1>7. QED
  BY <1>1, <1>2, <1>3, <1>4, <1>5, <1>6 DEF ProbeStep

\* The registry counts what the checks find.
LEMMA AgreeingKept ==
  ASSUME Probing, Agreeing, ProbeStep
  PROVE  Agreeing'
<1>1. CASE StartProbing(Registered)
  <2>1. /\ prober = "off" /\ found' = found
        /\ results' = [c \in {Registered[i] : i \in DOMAIN Registered} |-> [err |-> FALSE, fails |-> 0]]
        /\ bad' = [c \in {Registered[i] : i \in DOMAIN Registered} |-> 0]
    BY <1>1 DEF StartProbing
  <2>2. found' = "none"
    BY <2>1 DEF Probing
  <2>3. \A c \in DOMAIN results' : bad'[c] = 0 /\ results'[c].fails = 0
    BY <2>1
  <2>4. QED
    BY <2>2, <2>3 DEF Agreeing, Counted
<1> SUFFICES ASSUME ~StartProbing(Registered), Observing' PROVE \A c \in DOMAIN results' : bad'[c] = Counted(c)'
  BY <1>1 DEF Agreeing
<1>o. Observing /\ \A c \in DOMAIN results : bad[c] = Counted(c)
  BY DEF ProbeStep, Agreeing
<1>2. CASE UNCHANGED healthVars
  BY <1>o, <1>2 DEF healthVars, Counted
<1>3. CASE BeginRound(Registered)
  <2>1. UNCHANGED <<results, found, bad>> /\ found = "none"
    BY <1>3 DEF BeginRound, Probing
  <2>2. QED
    BY <1>o, <2>1 DEF Counted
<1>4. ASSUME NEW cancelled \in BOOLEAN, StopProbing(cancelled)
      PROVE  \A c \in DOMAIN results' : bad'[c] = Counted(c)'
  BY <1>o, <1>4 DEF StopProbing, Counted
<1>5. ASSUME NEW err \in BOOLEAN, Check(err, err)
      PROVE  \A c \in DOMAIN results' : bad'[c] = Counted(c)'
  <2>1. /\ found = "none" /\ found' = (IF err THEN "failing" ELSE "ok") /\ UNCHANGED <<results, remaining>>
        /\ bad' = [bad EXCEPT ![Head(remaining)] = IF err THEN AtMost(@ + 1, FailCap) ELSE 0]
    BY <1>5 DEF Check
  <2>2. \A c \in DOMAIN results : bad[c] = results[c].fails
    BY <1>o, <2>1 DEF Counted
  <2>3. ASSUME NEW c \in DOMAIN results, c # Head(remaining) PROVE bad'[c] = Counted(c)'
    BY <2>1, <2>2, <2>3 DEF Counted, Probing
  <2>4. ASSUME NEW c \in DOMAIN results, c = Head(remaining) PROVE bad'[c] = Counted(c)'
    <3>1. bad'[c] = IF err THEN AtMost(results[c].fails + 1, FailCap) ELSE 0
      BY <2>1, <2>2, <2>4 DEF Probing
    <3>2. Counted(c)' = Updated(results[c], err).fails
      BY <2>1, <2>4 DEF Counted
    <3>3. QED
      BY <3>1, <3>2 DEF Updated
  <2>5. QED
    BY <2>1, <2>3, <2>4
<1>6. CASE Record
  <2>1. /\ found # "none" /\ found' = "none" /\ bad' = bad
        /\ results' = [results EXCEPT ![Head(remaining)] = Updated(@, found = "failing")]
    BY <1>6 DEF Record
  <2>2. ASSUME NEW c \in DOMAIN results PROVE bad'[c] = Counted(c)'
    <3>1. Counted(c)' = results'[c].fails
      BY <2>1 DEF Counted
    <3>2. CASE c = Head(remaining)
      BY <1>o, <2>1, <3>1, <3>2 DEF Counted
    <3>3. CASE c # Head(remaining)
      BY <1>o, <2>1, <3>1, <3>3 DEF Counted
    <3>4. QED
      BY <3>2, <3>3
  <2>3. QED
    BY <2>1, <2>2
<1>7. QED
  BY <1>o, <1>2, <1>3, <1>4, <1>5, <1>6 DEF ProbeStep

\* A server or worker that still does its work says it is not ready only after a critical
\* dependency was at fault in FailureLimit checks in a row (health.go: runAll and ready).
THEOREM AlarmsAreTrue == Spec => []NoFalseAlarm
<1>1. Init => Probing /\ Agreeing
  <2>1. <<>> \in Seq(Names) /\ Len(<<>>) = 0
    BY EmptySeq
  <2>2. QED
    BY <2>1 DEF Init, HealthInit, ProcessInit, Probing, Agreeing, Observing
<1>2. Probing /\ Agreeing => NoFalseAlarm
  <2> SUFFICES ASSUME Probing, Agreeing, Observing, found = "none", ~Ready
               PROVE  \E c \in Critical \cap DOMAIN bad : bad[c] >= FailureLimit
    BY DEF NoFalseAlarm, Observing
  <2>1. PICK c \in DOMAIN results \cap Critical : results[c].fails >= FailureLimit
    BY DEF Ready
  <2>2. bad[c] = results[c].fails /\ c \in DOMAIN bad
    BY DEF Agreeing, Counted, Probing
  <2>3. QED
    BY <2>1, <2>2
<1>3. Resources /\ Probing /\ Agreeing /\ [Next]_vars => (Probing /\ Agreeing)'
  BY ProbeSteps, ProbingKept, AgreeingKept
<1>4. QED
  BY <1>1, <1>2, <1>3, ResourcesStart, ResourcesKept, ProcSteps, PTL DEF Spec

================================================================================
