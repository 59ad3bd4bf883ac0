------------------------------ MODULE InitPipeline ------------------------------
(***************************************************************************)
(* The template initialiser (cmd/init): it renames the module, deletes the  *)
(* features that are not wanted, regenerates what is generated, builds, and *)
(* removes itself.  Every step works on the tree in place and any of them   *)
(* may fail or be interrupted, before it or half-way; the user then repeats  *)
(* the command with --force, or restores the tree with git.                 *)
(*                                                                         *)
(* Two of the marked files stand for all: one of the server, and one under  *)
(* cmd/worker, which goes with that directory.                              *)
(***************************************************************************)
EXTENDS Naturals, Sequences, FiniteSets, Stripper

CONSTANTS
  FeatureOrder,   \* the features of the manifest, in order
  Trees,          \* possible trees: [lines: those of each marked file, failures: how
                  \* many steps may fail or be interrupted on the way]
  Selections      \* sets of features a user may remove

Feature == {FeatureOrder[i] : i \in DOMAIN FeatureOrder}
Brokers == {"kafka", "sqs"}
File    == {"server", "worker"}     \* cmd/server/..., cmd/worker/...
Module  == {"template", "new"}
Marked  == Feature \cup {"worker"}    \* names of markers

ASSUME InitAssumption ==
  /\ FeatureOrder \in Seq(Feature)
  /\ Brokers \subseteq Feature
  /\ "worker" \notin Feature /\ "init" \notin Feature
  /\ Selections \subseteq SUBSET Feature
  /\ \A t \in Trees :
       /\ t.failures \in Nat
       /\ t.lines \in [File -> Seq([kind : {"text", "blank", "start", "end"},
                                   name : Marked \cup {"none"}])]

VARIABLES
  template,   \* the lines of the marked files as committed
  files,      \* those that are left, for each file that exists
  imports,    \* the module path that each of these files names
  goMod,      \* the module path in go.mod
  dirs,       \* directories and files of features that exist; "worker", "init"
  partial,    \* those of which a part is deleted already
  wireGen,    \* the generated injectors: "committed", "absent", "fresh"
  command,    \* what the user asks for: features to remove, module
  todo,       \* steps still to run, in order
  status,     \* "idle", "running", "failed"; "nothing", "partly", "complete"
  failures    \* steps that may still fail or be interrupted

tree == <<files, imports, goMod, dirs, partial, wireGen>>
vars == <<template, tree, command, todo, status, failures>>

\* What can still be used.
Whole == dirs \ partial

Command == [remove : Selections, module : Module]

--------------------------------------------------------------------------------
(* The program as the steps it will run: <<name>>, or <<name, argument, file>>. *)

Step(name)         == <<name, "none", "none">>
StepOn(name, x, f) == <<name, x, f>>

FileOrder == <<"server", "worker">>

\* The worker goes when both brokers do.
Cascades(remove) == Brokers \subseteq remove

\* One feature, or the cascade, which deletes cmd/worker.
RemoveSteps(f) ==
  <<StepOn("delete", f, "none")>> \o [i \in DOMAIN FileOrder |-> StepOn("strip", f, FileOrder[i])]

RenameSteps(c) ==
  IF c.module = "template" THEN <<>>
  ELSE <<Step("edit go.mod")>> \o [i \in DOMAIN FileOrder |-> StepOn("rename", "none", FileOrder[i])]

SelectedSteps(c) ==
  LET steps[i \in 0..Len(FeatureOrder)] ==
        IF i = 0 THEN <<>>
        ELSE steps[i - 1] \o (IF FeatureOrder[i] \in c.remove
                              THEN RemoveSteps(FeatureOrder[i]) ELSE <<>>)
  IN  steps[Len(FeatureOrder)]

CascadeSteps(c) == IF Cascades(c.remove) THEN RemoveSteps("worker") ELSE <<>>

\* runPostActions
PostActions ==
  <<Step("prereqs"), Step("remove wire_gen"), Step("gofmt"), Step("wire"), Step("tidy"),
    Step("mockery"), Step("build")>>

\* selfDestruct
SelfDestruct == <<Step("remove init"), Step("residual"), Step("gofmt"), Step("tidy")>>

Nothing(c) == c.remove = {} /\ c.module = "template"

\* Seeded fault: the initialiser removes itself before the generated code is built.
DestructFirst(c) ==
  RenameSteps(c) \o SelectedSteps(c) \o CascadeSteps(c) \o SelfDestruct \o PostActions

\* main: nothing more is done when there is nothing to remove or rename.
Plan(c) ==
  IF Nothing(c) THEN <<>>
  ELSE RenameSteps(c) \o SelectedSteps(c) \o CascadeSteps(c) \o PostActions \o SelfDestruct

\* What is still to do is the end of the plan.
Remainder(n) == SubSeq(Plan(command), Len(Plan(command)) - n + 1, Len(Plan(command)))

TypeOK ==
  /\ DOMAIN files \subseteq File
  /\ \A f \in DOMAIN files : files[f] \subseteq DOMAIN template[f]
  /\ DOMAIN imports = DOMAIN files
  /\ \A f \in DOMAIN files : imports[f] \in Module
  /\ goMod \in Module
  /\ dirs \subseteq Marked \cup {"init"}
  /\ partial \subseteq dirs
  /\ wireGen \in {"committed", "absent", "fresh"}
  /\ command \in Command
  /\ Len(todo) \in 0..Len(Plan(command)) /\ todo = Remainder(Len(todo))
  /\ status \in {"idle", "running", "failed", "nothing", "partly", "complete"}
  /\ (status = "running") = (todo # <<>>)
  /\ failures \in Nat
  /\ "worker" \in Whole => "worker" \in DOMAIN files
  /\ "worker" \in DOMAIN files => "worker" \in dirs

--------------------------------------------------------------------------------
Committed(t) == /\ files' = [f \in File |-> DOMAIN t[f]]
                /\ imports' = [f \in File |-> "template"]
                /\ goMod' = "template"
                /\ dirs' = Marked \cup {"init"}
                /\ partial' = {}
                /\ wireGen' = "committed"

Init == /\ \E t \in Trees : template = t.lines /\ failures = t.failures
        /\ files = [f \in File |-> DOMAIN template[f]]
        /\ imports = [f \in File |-> "template"]
        /\ goMod = "template"
        /\ dirs = Marked \cup {"init"}
        /\ partial = {}
        /\ wireGen = "committed"
        /\ command \in Command
        /\ todo = <<>>
        /\ status = "idle"

\* A first run, on a clean tree.
Begin == /\ status = "idle"
         /\ todo' = Plan(command)
         /\ status' = IF Plan(command) = <<>> THEN "nothing" ELSE "running"
         /\ UNCHANGED <<template, tree, command, failures>>

\* The same command again, with --force since the tree is no longer clean.
Retry == /\ status = "failed"
         /\ "init" \in Whole
         /\ todo' = Plan(command)
         /\ status' = "running"
         /\ UNCHANGED <<template, tree, command, failures>>

\* git restore .
Restore == /\ status = "failed"
           /\ Committed(template)
           /\ status' = "idle"
           /\ UNCHANGED <<template, command, todo, failures>>

--------------------------------------------------------------------------------
(* The steps.                                                                 *)

At(name)   == status = "running" /\ Head(todo)[1] = name
StepArg    == Head(todo)[2]
StepFile   == Head(todo)[3]

Advance == /\ todo' = Tail(todo)
           /\ status' = IF Tail(todo) = <<>> THEN "complete" ELSE "running"
           /\ UNCHANGED <<template, command, failures>>

\* Seeded fault: a step that fails does not end the run.
AbortStepOnly == /\ status' = "failed"
                 /\ UNCHANGED <<template, tree, command, todo, failures>>

\* log.Fatalf
Abort == /\ todo' = <<>>
         /\ status' = "failed"
         /\ UNCHANGED <<template, tree, command, failures>>

\* renameModule: go mod edit, then the walk over the files.
EditGoMod == /\ At("edit go.mod")
             /\ goMod' = command.module
             /\ Advance
             /\ UNCHANGED <<files, imports, dirs, partial, wireGen>>

RenameFile ==
  /\ At("rename")
  /\ imports' = [f \in DOMAIN imports |->
                  IF f = StepFile /\ imports[f] = "template" THEN command.module ELSE imports[f]]
  /\ Advance
  /\ UNCHANGED <<files, goMod, dirs, partial, wireGen>>

KeepFiles(left) == /\ files' = [f \in left |-> files[f]]
                   /\ imports' = [f \in left |-> imports[f]]

FilesUnder(x) == IF x = "worker" THEN {"worker"} ELSE {}

\* os.RemoveAll of all the paths of x.
RemovePaths(x) == /\ dirs' = dirs \ {x}
                  /\ partial' = partial \ {x}
                  /\ KeepFiles(DOMAIN files \ FilesUnder(x))
                  /\ UNCHANGED <<goMod, wireGen>>

\* Seeded fault: a path that is missing is an error.
DeleteExisting == /\ At("delete")
                  /\ IF StepArg \in dirs THEN RemovePaths(StepArg) /\ Advance ELSE Abort

\* deletePaths: what is missing is skipped.
DeletePaths == /\ At("delete")
               /\ RemovePaths(StepArg)
               /\ Advance

\* Seeded fault: a file that does not exist is an error.
StrippableExisting(f, x) == f \in DOMAIN files /\ ~Unclosed(template[f], files[f], x)

\* stripFeatureFromFile does nothing to a missing file and refuses an unclosed block.
Strippable(f, x) == f \in DOMAIN files => ~Unclosed(template[f], files[f], x)

Strip == /\ At("strip")
         /\ IF Strippable(StepFile, StepArg)
            THEN /\ files' = [f \in DOMAIN files |->
                               IF f = StepFile THEN StripFeature(template[f], files[f], StepArg)
                               ELSE files[f]]
                 /\ Advance
                 /\ UNCHANGED <<imports, goMod, dirs, partial, wireGen>>
            ELSE Abort

RemoveWireGen == /\ At("remove wire_gen")
                 /\ wireGen' = "absent"
                 /\ Advance
                 /\ UNCHANGED <<files, imports, goMod, dirs, partial>>

\* Formatting, module requirements, mocks: no effect on the part of the tree modelled.
RunTool == /\ \E tool \in {"prereqs", "gofmt", "tidy", "mockery"} : At(tool)
           /\ Advance
           /\ UNCHANGED tree

\* No file names another module, or uses a feature that has been deleted: its text
\* inside the feature's block in the template does.
Compiles ==
  \A f \in DOMAIN files :
    /\ imports[f] = goMod
    /\ \A i \in Texts(template[f], files[f]), x \in Marked :
         Inside(template[f], i, x) => x \in Whole

Wire == /\ At("wire")
        /\ IF Compiles
           THEN /\ wireGen' = "fresh"
                /\ Advance
                /\ UNCHANGED <<files, imports, goMod, dirs, partial>>
           ELSE Abort

Build == /\ At("build")
         /\ IF Compiles /\ wireGen = "fresh" THEN Advance /\ UNCHANGED tree ELSE Abort

RemoveInit == /\ At("remove init")
              /\ dirs' = dirs \ {"init"}
              /\ partial' = partial \ {"init"}
              /\ Advance
              /\ UNCHANGED <<files, imports, goMod, wireGen>>

StripResidual == /\ At("residual")
                 /\ files' = [f \in DOMAIN files |-> StripMarkers(template[f], files[f])]
                 /\ Advance
                 /\ UNCHANGED <<imports, goMod, dirs, partial, wireGen>>

\* What a deletion has done when it stops half-way.
DeletePartly ==
  \E x \in dirs :
    /\ \/ At("delete") /\ x = StepArg
       \/ At("remove init") /\ x = "init"
    /\ partial' = partial \cup {x}
    /\ \E gone \in SUBSET FilesUnder(x) : KeepFiles(DOMAIN files \ gone)
    /\ UNCHANGED <<goMod, dirs, wireGen>>

\* The residual markers are gone from some of the files.
StripPartly ==
  /\ At("residual")
  /\ \E done \in SUBSET DOMAIN files :
       files' = [f \in DOMAIN files |->
                  IF f \in done THEN StripMarkers(template[f], files[f]) ELSE files[f]]
  /\ UNCHANGED <<imports, goMod, dirs, partial, wireGen>>

\* A step fails or is interrupted, before it or half-way.  A failure of the last steps,
\* selfDestruct, is only a warning: the summary is printed.
Fail ==
  /\ status = "running"
  /\ failures > 0
  /\ failures' = failures - 1
  /\ todo' = <<>>
  /\ \/ status' = "failed"
     \/ Len(todo) <= Len(SelfDestruct) /\ status' = "partly"
  /\ UNCHANGED tree \/ DeletePartly \/ StripPartly
  /\ UNCHANGED <<template, command>>

DoStep == \/ EditGoMod
          \/ RenameFile
          \/ DeletePaths
          \/ Strip
          \/ RemoveWireGen
          \/ RunTool
          \/ Wire
          \/ Build
          \/ RemoveInit
          \/ StripResidual

Next == Begin \/ Retry \/ Restore \/ DoStep \/ Fail

Spec == Init /\ [][Next]_vars

\* The program runs its steps, and a user whose run has failed tries again.
FairSpec == Spec /\ WF_vars(DoStep) /\ WF_vars(Retry)

--------------------------------------------------------------------------------
Removed(c) == c.remove \cup (IF Cascades(c.remove) THEN {"worker"} ELSE {})

\* When the summary is printed, after however many failed attempts, the tree is the
\* template less exactly what was removed: no text of a feature that is kept is lost
\* and none of a removed one is left, the worker goes with both brokers, and every
\* file and go.mod name the chosen module; no marker is left when the initialiser has
\* removed itself completely (main.go, stripper.go).
ResultExact ==
  status \in {"partly", "complete"} =>
    /\ dirs \cap Marked = Marked \ Removed(command) /\ partial \cap Marked = {}
    /\ \A f \in DOMAIN files :
         /\ Texts(template[f], files[f]) = Remaining(template[f], Removed(command))
         /\ imports[f] = command.module
         /\ status = "complete" => \A i \in files[f] : ~IsMarker(template[f][i])
    /\ goMod = command.module

\* The initialiser removes itself only from a tree that builds; until then it is there
\* to be run again (destruct.go: after rename, strip and post-actions have succeeded).
ToolSurvives == "init" \notin Whole => Compiles /\ wireGen = "fresh"

\* The blocks of what is to be removed are closed and nested, as all in the repository are.
Nested == \A f \in File : WellNested(template[f], Removed(command))

\* On such a tree no step ever fails, on whatever earlier attempts have left of it: only
\* a fault from outside ends a run early (stripper.go, deleter.go, actions.go).
StepsSucceed == [][DoStep /\ status' = "failed" => ~Nested]_vars

\* On such a tree a failed run is mended by repeating the command: every step may be run
\* again, on what earlier attempts have left (deleter.go, stripper.go: what is missing is
\* skipped).
RetriesMend ==
  (status = "failed" /\ "init" \in Whole /\ Nested)
    ~> (status \in {"partly", "complete", "idle"} \/ "init" \notin Whole)
================================================================================
