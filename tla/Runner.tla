------------------------------- MODULE Runner -------------------------------
(***************************************************************************)
(* The driver of the compiler: main() and CLI::run on the main thread, the *)
(* Runner and the worker threads of its pool.                              *)
(*                                                                         *)
(* The main thread checks the command line, builds the Runner (which       *)
(* spawns the workers), writes the remaining program options, reads the    *)
(* input file and pushes one task for it.  That task runs the frontend on  *)
(* a worker and, instead of waiting for the rest, pushes a second task     *)
(* (code generation, or a constant result) and returns that task's future. *)
(* The main thread therefore waits twice: for the outer future, whose      *)
(* value is the inner one, and for the inner one.  An exception on a       *)
(* worker travels in the future and is rethrown on the main thread.        *)
(***************************************************************************)
EXTENDS Integers, Sequences, FiniteSets

CONSTANTS
  Worker,      \* the threads a pool can own
  JobCounts    \* the values of the option -j

ASSUME WorkerAssumption == IsFiniteSet(Worker)

(* A pool of j threads needs j of them; any int may be typed after -j=.    *)
ASSUME JobsAssumption ==
  /\ JobCounts \subseteq Int
  /\ \A j \in JobCounts : j <= Cardinality(Worker)

VARIABLES
  cmd,       \* the command line: what main() was given
  pc,        \* the main thread's control point
  exitCode,  \* what main() returns; "none" until that is known
  optsSet,   \* has every program option been written?
  queue,     \* the pool's FIFO queue of tasks
  done,      \* the pool's isDone flag
  thread,    \* what each worker is doing
  outer,     \* the future returned by Runner::runFile
  inner,     \* the future it holds
  phase      \* history: the last stage of the request that was completed

vars == <<cmd, pc, exitCode, optsSet, queue, done, thread, outer, inner, phase>>

mainVars == <<pc, exitCode, optsSet>>
poolVars == <<queue, done, thread>>
results  == <<outer, inner, phase>>

-----------------------------------------------------------------------------
(* Values of the variables.                                                *)

CommandLine ==
  [license : BOOLEAN, input : BOOLEAN, jobs : JobCounts, emit : {"ast", "code"}]

MainPoint ==
  {"boot", "check", "spawn", "options", "addFile", "push", "waitOuter",
   "waitInner", "stop", "join", "return", "exited"}

ExitCode == {"none", "ok", "failed", "abnormal"}  \* unknown, 0, 1, -1

(* "file" runs the frontend; the other three are the tasks whose future is *)
(* the inner one.                                                          *)
InnerTask == {"codegen", "success", "failure"}
Task == {"file"} \cup InnerTask

FileStage  == {"lex", "parse", "dispatch", "reject", "returnFuture"}
InnerStage == {"generate", "write", "succeed", "fail"}
ThreadState == {"absent", "waiting", "exited"} \cup FileStage \cup InnerStage

FirstStage(t) ==
  CASE t = "file"    -> "lex"
    [] t = "codegen" -> "generate"
    [] t = "success" -> "succeed"
    [] t = "failure" -> "fail"

Phase == {"none", "licensed", "lexed", "parsed", "generated", "emitted"}

Live(w) == thread[w] \notin {"absent", "exited"}
Busy(w) == thread[w] \in FileStage \cup InnerStage

-----------------------------------------------------------------------------
(* The main thread.                                                        *)

Goto(p) == pc' = p

(* Mutant: the arguments the wrong way round.                              *)
LeaveSwapped(p, code) == Goto(code) /\ exitCode' = p

(* Leave CLI::run with a code: the Runner, if it was built, is destroyed   *)
(* first, whether the scope is left by return or by an exception.          *)
Leave(p, code) == Goto(p) /\ exitCode' = code

Init ==
  /\ cmd \in CommandLine
  /\ pc = "boot"
  /\ exitCode = "none"
  /\ optsSet = FALSE
  /\ queue = <<>>
  /\ done = FALSE
  /\ thread = [w \in Worker |-> "absent"]
  /\ outer = "none"
  /\ inner = "none"
  /\ phase = "none"

(* atexit and initLogger; either may fail, which main() turns into -1.     *)
Boot ==
  /\ pc = "boot"
  /\ \/ Goto("check") /\ UNCHANGED exitCode
     \/ Leave("return", "abnormal")
  /\ UNCHANGED <<cmd, optsSet, poolVars, results>>

(* The command line is refused or answered before there is a Runner.       *)
CheckCommandLine ==
  /\ pc = "check"
  /\ \/ cmd.license /\ Leave("return", "ok") /\ phase' = "licensed"
     \/ /\ ~cmd.license
        /\ ~cmd.input \/ cmd.jobs < 0
        /\ Leave("return", "abnormal")
        /\ UNCHANGED phase
     \/ /\ ~cmd.license /\ cmd.input /\ cmd.jobs >= 0
        /\ Goto("spawn")
        /\ UNCHANGED <<exitCode, phase>>
  /\ UNCHANGED <<cmd, optsSet, poolVars, outer, inner>>

(* Mutant: nobody writes the options.                                      *)
SpawnPoolOnly ==
  /\ pc = "spawn"
  /\ \E S \in SUBSET Worker :
       /\ Cardinality(S) = cmd.jobs
       /\ thread' = [w \in Worker |-> IF w \in S THEN "waiting" ELSE "absent"]
  /\ Goto("addFile")
  /\ UNCHANGED <<cmd, exitCode, optsSet, queue, done, results>>

(* Runner::Runner: the pool starts its threads at once.                    *)
SpawnPool ==
  /\ pc = "spawn"
  /\ \E S \in SUBSET Worker :
       /\ Cardinality(S) = cmd.jobs
       /\ thread' = [w \in Worker |-> IF w \in S THEN "waiting" ELSE "absent"]
  /\ Goto("options")
  /\ UNCHANGED <<cmd, exitCode, optsSet, queue, done, results>>

(* The rest of the program options is only written now.                    *)
WriteOptions ==
  /\ pc = "options"
  /\ optsSet' = TRUE
  /\ Goto("addFile")
  /\ UNCHANGED <<cmd, exitCode, poolVars, results>>

AddFile ==
  /\ pc = "addFile"
  /\ \/ Goto("push") /\ UNCHANGED exitCode
     \/ Leave("stop", "failed")
  /\ UNCHANGED <<cmd, optsSet, poolVars, results>>

RunFile ==
  /\ pc = "push"
  /\ queue' = Append(queue, "file")
  /\ outer' = "pending"
  /\ Goto("waitOuter")
  /\ UNCHANGED <<cmd, exitCode, optsSet, done, thread, inner, phase>>

GetOuter ==
  /\ pc = "waitOuter"
  /\ \/ outer = "ready" /\ Goto("waitInner") /\ UNCHANGED exitCode
     \/ outer = "exception" /\ Leave("stop", "abnormal")
  /\ UNCHANGED <<cmd, optsSet, poolVars, results>>

(* Mutant: only exceptions are looked at.                                  *)
GetInnerBlindly ==
  /\ pc = "waitInner"
  /\ \/ inner \in {"true", "false"} /\ Leave("stop", "ok")
     \/ inner = "exception" /\ Leave("stop", "abnormal")
  /\ UNCHANGED <<cmd, optsSet, poolVars, results>>

GetInner ==
  /\ pc = "waitInner"
  /\ \/ inner = "true"      /\ Leave("stop", "ok")
     \/ inner = "false"     /\ Leave("stop", "failed")
     \/ inner = "exception" /\ Leave("stop", "abnormal")
  /\ UNCHANGED <<cmd, optsSet, poolVars, results>>

(* The pool's destructor: tell the workers, then join every one of them.   *)
StopPool ==
  /\ pc = "stop"
  /\ done' = TRUE
  /\ Goto("join")
  /\ UNCHANGED <<cmd, exitCode, optsSet, queue, thread, results>>

(* Mutant: the workers are detached.                                       *)
DetachPool ==
  /\ pc = "join"
  /\ Goto("return")
  /\ UNCHANGED <<cmd, exitCode, optsSet, poolVars, results>>

JoinPool ==
  /\ pc = "join"
  /\ \A w \in Worker : ~Live(w)
  /\ Goto("return")
  /\ UNCHANGED <<cmd, exitCode, optsSet, poolVars, results>>

(* main() returns; the atexit handler drops the loggers.                   *)
Exit ==
  /\ pc = "return"
  /\ Goto("exited")
  /\ UNCHANGED <<cmd, exitCode, optsSet, poolVars, results>>

Main ==
  \/ Boot \/ CheckCommandLine \/ SpawnPool \/ WriteOptions \/ AddFile
  \/ RunFile \/ GetOuter \/ GetInner \/ StopPool \/ JoinPool \/ Exit

-----------------------------------------------------------------------------
(* The workers.                                                            *)

Become(w, s) == thread' = [thread EXCEPT ![w] = s]

TakeTask(w) ==
  /\ thread[w] = "waiting"
  /\ queue # <<>>
  /\ queue' = Tail(queue)
  /\ Become(w, FirstStage(Head(queue)))
  /\ UNCHANGED <<cmd, mainVars, done, results>>

(* A worker that finds the queue empty after stop() ends.                  *)
EndThread(w) ==
  /\ thread[w] = "waiting"
  /\ queue = <<>>
  /\ done
  /\ Become(w, "exited")
  /\ UNCHANGED <<cmd, mainVars, queue, done, results>>

(* Frontend::runLexer.                                                     *)
Lex(w) ==
  /\ thread[w] = "lex"
  /\ \/ Become(w, "parse") /\ phase' = "lexed" /\ UNCHANGED outer
     \/ Become(w, "reject") /\ UNCHANGED <<phase, outer>>
     \/ Become(w, "waiting") /\ outer' = "exception" /\ UNCHANGED phase
  /\ UNCHANGED <<cmd, mainVars, queue, done, inner>>

(* Frontend::runParser, with the AST's parent links and its debug dump.    *)
Parse(w) ==
  /\ thread[w] = "parse"
  /\ \/ Become(w, "dispatch") /\ phase' = "parsed" /\ UNCHANGED outer
     \/ Become(w, "reject") /\ UNCHANGED <<phase, outer>>
     \/ Become(w, "waiting") /\ outer' = "exception" /\ UNCHANGED phase
  /\ UNCHANGED <<cmd, mainVars, queue, done, inner>>

(* Mutant: the task goes on with the AST after it handed it over.          *)
PushAndStay(w, t) ==
  /\ queue' = Append(queue, t)
  /\ inner' = "pending"
  /\ UNCHANGED thread

PushInner(w, t) ==
  /\ queue' = Append(queue, t)
  /\ inner' = "pending"
  /\ Become(w, "returnFuture")

(* With an AST: print it (-emit=ast), or hand it to a code generation task *)
Dispatch(w) ==
  /\ thread[w] = "dispatch"
  /\ \/ /\ cmd.emit = "ast"
        /\ PushInner(w, "success")
        /\ phase' = "emitted"
        /\ UNCHANGED outer
     \/ /\ cmd.emit = "ast"
        /\ Become(w, "waiting")
        /\ outer' = "exception"
        /\ UNCHANGED <<queue, inner, phase>>
     \/ /\ cmd.emit = "code"
        /\ PushInner(w, "codegen")
        /\ UNCHANGED <<phase, outer>>
  /\ UNCHANGED <<cmd, mainVars, done>>

(* Without one: the inner task only returns false.                         *)
Reject(w) ==
  /\ thread[w] = "reject"
  /\ PushInner(w, "failure")
  /\ UNCHANGED <<cmd, mainVars, done, outer, phase>>

(* Mutant: the file task waits for the task it pushed.                     *)
ReturnResult(w) ==
  /\ thread[w] = "returnFuture"
  /\ \/ /\ inner # "pending"
        /\ outer' = "ready"
        /\ Become(w, "waiting")
     \/ inner = "pending" /\ UNCHANGED <<outer, thread>>
  /\ UNCHANGED <<cmd, mainVars, queue, done, inner, phase>>

(* The file task ends: its future holds the inner future.                  *)
ReturnFuture(w) ==
  /\ thread[w] = "returnFuture"
  /\ outer' = "ready"
  /\ Become(w, "waiting")
  /\ UNCHANGED <<cmd, mainVars, queue, done, inner, phase>>

FinishInner(w, r) == inner' = r /\ Become(w, "waiting")

(* Mutant: the result of Generator::run is not looked at.                  *)
GenerateBlindly(w) ==
  /\ thread[w] = "generate"
  /\ \/ Become(w, "write") /\ phase' = "generated" /\ UNCHANGED inner
     \/ Become(w, "write") /\ UNCHANGED <<phase, inner>>
     \/ FinishInner(w, "exception") /\ UNCHANGED phase
  /\ UNCHANGED <<cmd, mainVars, queue, done, outer>>

(* Construction and run of the Generator.                                  *)
Generate(w) ==
  /\ thread[w] = "generate"
  /\ \/ Become(w, "write") /\ phase' = "generated" /\ UNCHANGED inner
     \/ FinishInner(w, "false") /\ UNCHANGED phase
     \/ FinishInner(w, "exception") /\ UNCHANGED phase
  /\ UNCHANGED <<cmd, mainVars, queue, done, outer>>

(* Codegen::write reports failure only by throwing.                        *)
Write(w) ==
  /\ thread[w] = "write"
  /\ \/ FinishInner(w, "true") /\ phase' = "emitted"
     \/ FinishInner(w, "exception") /\ UNCHANGED phase
  /\ UNCHANGED <<cmd, mainVars, queue, done, outer>>

ConstantTask(w) ==
  /\ \/ thread[w] = "succeed" /\ FinishInner(w, "true")
     \/ thread[w] = "fail" /\ FinishInner(w, "false")
  /\ UNCHANGED <<cmd, mainVars, queue, done, outer, phase>>

WorkerStep(w) ==
  \/ TakeTask(w) \/ EndThread(w) \/ Lex(w) \/ Parse(w) \/ Dispatch(w)
  \/ Reject(w) \/ ReturnFuture(w) \/ Generate(w) \/ Write(w) \/ ConstantTask(w)

Exited == pc = "exited" /\ UNCHANGED vars

Next == Main \/ (\E w \in Worker : WorkerStep(w)) \/ Exited

(* The operating system runs every thread that can run.                    *)
Fairness == WF_vars(Main) /\ \A w \in Worker : WF_vars(WorkerStep(w))

Spec == Init /\ [][Next]_vars
FairSpec == Spec /\ Fairness

-----------------------------------------------------------------------------
(* Properties.                                                             *)

(* Every variable holds a value of its kind.                               *)
TypeOK ==
  /\ cmd \in CommandLine
  /\ pc \in MainPoint
  /\ exitCode \in ExitCode
  /\ optsSet \in BOOLEAN
  /\ queue \in Seq(Task)
  /\ done \in BOOLEAN
  /\ thread \in [Worker -> ThreadState]
  /\ outer \in {"none", "pending", "ready", "exception"}
  /\ inner \in {"none", "pending", "true", "false", "exception"}
  /\ phase \in Phase

Served == phase = IF cmd.license THEN "licensed" ELSE "emitted"

(* The exit status tells the truth (CLI::run, main): once main() has a     *)
(* code, the code is 0 exactly when the licence was printed or the file    *)
(* went through every stage, whichever thread found out otherwise and      *)
(* whether it said so by a value or by an exception.                       *)
ExitCodeSound == exitCode # "none" => (exitCode = "ok" <=> Served)

(* No worker runs a task before every program option is written: tasks     *)
(* read ProgramOptions::view() without a lock (Runner::runFile,            *)
(* Codegen::write).                                                        *)
OptionsSettled == \A w \in Worker : Busy(w) => optsSet

(* The AST, the LLVM context and the static locals of the code generator   *)
(* are unsynchronised: of all workers at most one is in a stage that       *)
(* touches them, although the file task is still ending on one thread      *)
(* when its successor starts on another.                                   *)
AstStage == {"lex", "parse", "dispatch", "generate", "write"}
OneAstOwner ==
  \A v, w \in Worker :
    thread[v] \in AstStage /\ thread[w] \in AstStage => v = w

(* When main() returns and the loggers are dropped, no worker is left that *)
(* could log, no task is left unrun and no future is left unresolved.      *)
CleanShutdown ==
  pc \in {"return", "exited"} =>
    /\ \A w \in Worker : ~Live(w)
    /\ queue = <<>>
    /\ outer # "pending" /\ inner # "pending"

(* With at least one worker thread, every invocation ends: the task that   *)
(* pushes a task never waits for it, so one thread is enough.              *)
Termination == <>(pc = "exited")

-----------------------------------------------------------------------------
(* The driver implements Compilation.                                      *)

C == INSTANCE Compilation WITH
       request  <- IF cmd.license THEN "license" ELSE cmd.emit,
       progress <- phase,
       status   <- IF pc = "exited" THEN exitCode ELSE "running"

(* Every step of the driver completes a stage of the compilation, ends the *)
(* invocation with a truthful status, or is invisible from outside.        *)
ImplementsCompilation == C!Spec
=============================================================================
