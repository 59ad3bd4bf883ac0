----------------------------- MODULE CommandMonitor -----------------------------
(***************************************************************************)
(* The Mongo command monitor (internal/platform/database/mongo_otel.go): a  *)
(* span per command, kept in a concurrent map under the command's request   *)
(* id until Succeeded or Failed, or the janitor, takes it.  Each operation  *)
(* on the map is atomic; what is done with the span before or after is not. *)
(* Request ids are not reused (the driver counts them).                     *)
(***************************************************************************)
EXTENDS Naturals

CONSTANTS
  Command,   \* request ids of commands; 0 is not one
  SpanTTL    \* ticks after which the janitor takes an entry for leaked

ASSUME MonitorAssumption == /\ 0 \notin Command
                            /\ SpanTTL \in Nat

VARIABLES
  entries,   \* commands that have an entry in the map
  age,       \* ticks since a command's span was stored
  call,      \* a command: "none", "running", "finishing" (its entry is taken), "done"
  ended,     \* commands whose span has ended
  leaked,    \* commands whose span has the status "leak"
  purging,   \* the command whose entry the janitor holds, or 0
  janitor    \* the janitor: "off", "sweeping", "stopped"

monitorVars == <<entries, age, call, ended, leaked, purging, janitor>>

MonitorTypeOK ==
  /\ entries \subseteq Command
  /\ age \in [Command -> 0..(SpanTTL + 1)]
  /\ call \in [Command -> {"none", "running", "finishing", "done"}]
  /\ ended \subseteq {c \in Command : call[c] # "none"}
  /\ leaked \subseteq {c \in Command : age[c] > SpanTTL}
  /\ purging \in Command \cup {0}
  /\ janitor \in {"off", "sweeping", "stopped"}

--------------------------------------------------------------------------------
MonitorInit == /\ entries = {}
               /\ age = [c \in Command |-> 0]
               /\ call = [c \in Command |-> "none"]
               /\ ended = {}
               /\ leaked = {}
               /\ purging = 0
               /\ janitor = "off"

\* NewCommandMonitor starts the janitor goroutine.
StartJanitor == /\ janitor' = "sweeping"
                /\ UNCHANGED <<entries, age, call, ended, leaked, purging>>

\* close(stop); a sweep that has begun goes on.
StopJanitor == /\ janitor' = "stopped"
               /\ UNCHANGED <<entries, age, call, ended, leaked, purging>>

CommandStarted(c) ==
  /\ call[c] = "none"
  /\ call' = [call EXCEPT ![c] = "running"]
  /\ entries' = entries \cup {c}
  /\ UNCHANGED <<age, ended, leaked, purging, janitor>>

\* Succeeded or Failed: LoadAndDelete.  Without an entry there is nothing to do.
CommandReported(c) ==
  /\ call[c] = "running"
  /\ call' = [call EXCEPT ![c] = IF c \in entries THEN "finishing" ELSE "done"]
  /\ entries' = entries \ {c}
  /\ UNCHANGED <<age, ended, leaked, purging, janitor>>

FinishSpan(c) ==
  /\ call[c] = "finishing"
  /\ call' = [call EXCEPT ![c] = "done"]
  /\ ended' = ended \cup {c}
  /\ UNCHANGED <<entries, age, leaked, purging, janitor>>

\* The sweep meets an expired entry.
FindLeak(c) ==
  /\ janitor = "sweeping"
  /\ purging = 0
  /\ c \in entries
  /\ age[c] > SpanTTL
  /\ purging' = c
  /\ UNCHANGED <<entries, age, call, ended, leaked, janitor>>

\* Seeded fault: the entry is deleted before its span is ended.
DeleteThenEnd ==
  /\ purging # 0
  /\ IF purging \in entries
     THEN entries' = entries \ {purging} /\ UNCHANGED <<ended, purging>>
     ELSE ended' = ended \cup {purging} /\ purging' = 0 /\ UNCHANGED entries
  /\ UNCHANGED <<age, call, leaked, janitor>>

\* SetStatus and End, which have no effect on a span that has ended, then Delete.
PurgeLeak ==
  /\ purging # 0
  /\ IF purging \in ended
     THEN entries' = entries \ {purging} /\ purging' = 0 /\ UNCHANGED <<ended, leaked>>
     ELSE /\ ended' = ended \cup {purging}
          /\ leaked' = leaked \cup {purging}
          /\ UNCHANGED <<entries, purging>>
  /\ UNCHANGED <<age, call, janitor>>

AgeEntries ==
  /\ age' = [c \in Command |->
              IF call[c] = "running" /\ age[c] <= SpanTTL THEN age[c] + 1 ELSE age[c]]
  /\ UNCHANGED <<entries, call, ended, leaked, purging, janitor>>

--------------------------------------------------------------------------------
\* Whatever the janitor does in between, a command that has reported leaves no entry
\* behind and its span has ended (finish and the janitor's sweep).
SpansSettled ==
  \A c \in Command : call[c] = "done" => c \in ended /\ c \notin entries
================================================================================
