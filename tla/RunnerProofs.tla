---------------------------- MODULE RunnerProofs ----------------------------
(***************************************************************************)
(* Proofs about the driver, for any number of worker threads and any       *)
(* values of -j.                                                           *)
(*                                                                         *)
(* Each safety property follows from one inductive invariant, IInv: where  *)
(* the request is (in the queue, on one worker, or decided) is tied to the *)
(* two futures, to the stage that was completed and to the main thread's   *)
(* control point.                                                          *)
(***************************************************************************)
EXTENDS Runner, TLAPS

(* The queue never holds two tasks: the second is pushed by the first.     *)
QueueInv == queue = <<>> \/ \E t \in Task : queue = <<t>>

(* The main thread.                                                        *)
MainInv ==
  /\ exitCode = "none" <=> pc \notin {"stop", "join", "return", "exited"}
  /\ pc \in {"boot", "check", "spawn"} => \A w \in Worker : thread[w] = "absent"
  /\ pc \in {"return", "exited"} => \A w \in Worker : ~Live(w)
  /\ cmd.license => pc \in {"boot", "check", "return", "exited"}
  /\ pc \in {"boot", "check", "spawn", "options", "addFile", "push"} =>
       outer = "none" /\ phase = "none"
  /\ pc = "waitInner" => outer = "ready"
  /\ outer = "pending" => pc = "waitOuter"
  /\ inner = "pending" => pc \in {"waitOuter", "waitInner"}

(* The task whose future is the outer one.                                 *)
FileInv ==
  /\ outer # "pending" =>
       queue # <<"file">> /\ \A w \in Worker : thread[w] \notin FileStage
  /\ outer \in {"none", "exception"} => inner = "none"
  /\ outer = "ready" => inner # "none"
  /\ queue = <<"file">> =>
       /\ inner = "none" /\ phase = "none"
       /\ \A w \in Worker : thread[w] \notin FileStage
  /\ \A w \in Worker :
       /\ thread[w] \in FileStage \ {"returnFuture"} => inner = "none"
       /\ thread[w] = "lex" => phase = "none"
       /\ thread[w] = "parse" => phase = "lexed"
       /\ thread[w] = "dispatch" => phase = "parsed"
       /\ thread[w] = "reject" => phase \in {"none", "lexed"}
       /\ thread[w] = "returnFuture" => inner # "none"
  /\ \A v, w \in Worker :
       thread[v] \in FileStage /\ thread[w] \in FileStage => v = w

(* The task whose future is the inner one.                                 *)
Before(t) ==
  /\ t = "codegen" => phase = "parsed" /\ cmd.emit = "code"
  /\ t = "success" => phase = "emitted"
  /\ t = "failure" => phase \in {"none", "lexed"}

InnerInv ==
  /\ inner # "pending" => \A w \in Worker : thread[w] \notin InnerStage
  /\ \A t \in InnerTask : queue = <<t>> =>
       /\ inner = "pending"
       /\ Before(t)
       /\ \A w \in Worker : thread[w] \notin InnerStage
  /\ \A w \in Worker :
       /\ thread[w] = "generate" => phase = "parsed" /\ cmd.emit = "code"
       /\ thread[w] = "write" => phase = "generated" /\ cmd.emit = "code"
       /\ thread[w] = "succeed" => phase = "emitted"
       /\ thread[w] = "fail" => phase \in {"none", "lexed"}
  /\ \A v, w \in Worker :
       thread[v] \in InnerStage /\ thread[w] \in InnerStage => v = w

(* What the results say about the last stage completed.                    *)
ResultInv ==
  /\ inner = "true" => phase = "emitted"
  /\ inner \in {"false", "exception"} => phase # "emitted"
  /\ outer = "exception" => phase # "emitted"
  /\ outer = "none" => phase \in {"none", "licensed"}
  /\ phase = "licensed" <=> cmd.license /\ exitCode = "ok"

OptionsInv ==
  /\ pc \in {"addFile", "push", "waitOuter", "waitInner"} => optsSet
  /\ queue # <<>> => optsSet
  /\ OptionsSettled

IInv ==
  /\ TypeOK /\ QueueInv /\ MainInv /\ FileInv /\ InnerInv /\ ResultInv
  /\ OptionsInv /\ ExitCodeSound

-----------------------------------------------------------------------------
(* A queue of one task, and what a worker does with it.                    *)
LEMMA OneTask ==
  ASSUME NEW t \in Task
  PROVE  /\ Append(<<>>, t) = <<t>>
         /\ Head(<<t>>) = t
         /\ Tail(<<t>>) = <<>>
         /\ <<t>> # <<>>
         /\ <<t>> \in Seq(Task)
         /\ \A u \in Task : <<t>> = <<u>> <=> t = u
BY DEF Task, InnerTask

LEMMA InitInductive == Init => IInv
<1> SUFFICES ASSUME Init PROVE IInv
  OBVIOUS
<1> USE DEF Init
<1>1. TypeOK
  <2>1. thread \in [Worker -> ThreadState]
    BY DEF ThreadState
  <2>2. queue \in Seq(Task)
    OBVIOUS
  <2> QED
    BY <2>1, <2>2 DEF TypeOK, MainPoint, ExitCode, Phase
<1>2. QueueInv /\ OptionsInv /\ ExitCodeSound
  BY DEF QueueInv, OptionsInv, OptionsSettled, Busy, FileStage, InnerStage,
         ExitCodeSound
<1>3. MainInv
  BY DEF MainInv, Live
<1>4. FileInv
  BY DEF FileInv, FileStage
<1>5. InnerInv
  BY DEF InnerInv, InnerStage
<1>6. ResultInv
  BY DEF ResultInv
<1> QED
  BY <1>1, <1>2, <1>3, <1>4, <1>5, <1>6 DEF IInv

LEMMA MainInductive ==
  ASSUME IInv, Main
  PROVE  IInv'
<1> USE DEF IInv, TypeOK, QueueInv, MainInv, FileInv, InnerInv, ResultInv,
       OptionsInv, OptionsSettled, ExitCodeSound, Served, MainPoint, ExitCode,
       Task, InnerTask, ThreadState, FileStage, InnerStage, Phase, Live, Busy,
       Before, Goto, Leave, poolVars, results, mainVars
<1>1. CASE Boot BY <1>1 DEF Boot
<1>2. CASE CheckCommandLine BY <1>2 DEF CheckCommandLine
<1>3. CASE SpawnPool
  <2>1. PICK S \in SUBSET Worker :
          thread' = [w \in Worker |-> IF w \in S THEN "waiting" ELSE "absent"]
    BY <1>3 DEF SpawnPool
  <2>2. \A w \in Worker : thread'[w] \in {"waiting", "absent"}
    BY <2>1
  <2>3. thread' \in [Worker -> ThreadState]
    BY <2>1
  <2>4. /\ pc = "spawn" /\ pc' = "options"
        /\ UNCHANGED <<cmd, exitCode, optsSet, queue, done, outer, inner, phase>>
    BY <1>3 DEF SpawnPool
  <2> HIDE DEF Goto, Leave
  <2> QED BY <2>2, <2>3, <2>4
<1>4. CASE WriteOptions BY <1>4 DEF WriteOptions
<1>5. CASE AddFile BY <1>5 DEF AddFile
<1>6. CASE RunFile
  <2>1. queue = <<>>
    BY <1>6 DEF RunFile
  <2>2. queue' = <<"file">>
    BY <1>6, <2>1, OneTask DEF RunFile
  <2>3. /\ pc = "push" /\ pc' = "waitOuter" /\ outer' = "pending"
        /\ UNCHANGED <<cmd, exitCode, optsSet, done, thread, inner, phase>>
    BY <1>6 DEF RunFile
  <2>4. \A w \in Worker : thread[w] \notin FileStage \cup InnerStage
    BY <2>3
  <2>5. TypeOK' /\ QueueInv' /\ MainInv' /\ OptionsInv' /\ ExitCodeSound'
    BY <2>2, <2>3, <2>4, OneTask
  <2>6. FileInv' /\ InnerInv' /\ ResultInv'
    BY <2>2, <2>3, <2>4, OneTask
  <2> QED BY <2>5, <2>6
<1>7. CASE GetOuter BY <1>7 DEF GetOuter
<1>8. CASE GetInner BY <1>8 DEF GetInner
<1>9. CASE StopPool BY <1>9 DEF StopPool
<1>10. CASE JoinPool BY <1>10 DEF JoinPool
<1>11. CASE Exit BY <1>11 DEF Exit
<1> QED BY <1>1, <1>2, <1>3, <1>4, <1>5, <1>6, <1>7, <1>8, <1>9, <1>10, <1>11 DEF Main

LEMMA Stages ==
  /\ FirstStage("file") = "lex"
  /\ FirstStage("codegen") = "generate"
  /\ FirstStage("success") = "succeed"
  /\ FirstStage("failure") = "fail"
BY Zenon DEF FirstStage

(* While the file task can still push, it is the only task there is.       *)
LEMMA NothingElseRuns ==
  ASSUME IInv, NEW w \in Worker, thread[w] \in {"dispatch", "reject"}
  PROVE  /\ queue = <<>> /\ inner = "none"
         /\ \A v \in Worker : thread[v] \notin InnerStage
<1>1. inner = "none" /\ queue # <<"file">>
  BY DEF IInv, FileInv, FileStage
<1> QED
  BY <1>1 DEF IInv, InnerInv, QueueInv, Task

LEMMA WorkerInductive ==
  ASSUME IInv, NEW w \in Worker, WorkerStep(w)
  PROVE  IInv'
<1> USE DEF IInv, TypeOK, QueueInv, MainInv, FileInv, InnerInv, ResultInv,
       OptionsInv, OptionsSettled, ExitCodeSound, Served, MainPoint, ExitCode,
       Task, InnerTask, ThreadState, FileStage, InnerStage, Phase, Live, Busy,
       Before, poolVars, results, mainVars, Become, PushInner, FinishInner
<1>1. CASE TakeTask(w)
  BY <1>1, OneTask, Stages DEF TakeTask
<1>2. CASE EndThread(w)
  BY <1>2 DEF EndThread
<1>3. CASE Lex(w)
  BY <1>3 DEF Lex
<1>4. CASE Parse(w)
  BY <1>4 DEF Parse
<1>5. CASE Dispatch(w)
  <2>1. /\ queue = <<>> /\ inner = "none"
        /\ \A v \in Worker : thread[v] \notin InnerStage
    BY <1>5, NothingElseRuns DEF Dispatch
  <2>2. CASE PushInner(w, "success")
    <3>1. queue' = <<"success">>
      BY <2>1, <2>2, OneTask
    <3> QED BY <1>5, <2>1, <2>2, <3>1, OneTask DEF Dispatch
  <2>3. CASE PushInner(w, "codegen")
    <3>1. queue' = <<"codegen">>
      BY <2>1, <2>3, OneTask
    <3> QED BY <1>5, <2>1, <2>3, <3>1, OneTask DEF Dispatch
  <2>4. CASE Become(w, "waiting") /\ outer' = "exception" /\ UNCHANGED <<queue, inner, phase>>
    BY <1>5, <2>4 DEF Dispatch
  <2> QED
    BY <1>5, <2>2, <2>3, <2>4 DEF Dispatch
<1>6. CASE Reject(w)
  <2>1. /\ queue = <<>> /\ inner = "none"
        /\ \A v \in Worker : thread[v] \notin InnerStage
    BY <1>6, NothingElseRuns DEF Reject
  <2>2. queue' = <<"failure">>
    BY <1>6, <2>1, OneTask DEF Reject
  <2> QED
    BY <1>6, <2>1, <2>2, OneTask DEF Reject
<1>7. CASE ReturnFuture(w)
  BY <1>7 DEF ReturnFuture
<1>8. CASE Generate(w)
  BY <1>8 DEF Generate
<1>9. CASE Write(w)
  BY <1>9 DEF Write
<1>10. CASE ConstantTask(w)
  BY <1>10 DEF ConstantTask
<1> QED
  BY <1>1, <1>2, <1>3, <1>4, <1>5, <1>6, <1>7, <1>8, <1>9, <1>10 DEF WorkerStep

LEMMA Inductive == IInv /\ [Next]_vars => IInv'
<1>1. ASSUME IInv, UNCHANGED vars
      PROVE  IInv'
  BY <1>1 DEF IInv, TypeOK, QueueInv, MainInv, FileInv, InnerInv, ResultInv,
       OptionsInv, OptionsSettled, ExitCodeSound, Served, Live, Busy, Before, vars
<1> QED
  BY <1>1, MainInductive, WorkerInductive DEF Next, Exited

THEOREM Invariance == Spec => []IInv
BY InitInductive, Inductive, PTL DEF Spec

-----------------------------------------------------------------------------
(* Every variable keeps a value of its kind.                               *)
THEOREM TypeCorrect == Spec => []TypeOK
<1>1. IInv => TypeOK
  BY DEF IInv
<1> QED
  BY <1>1, Invariance, PTL

(* The exit status main() returns is 0 exactly when the request was served *)
(* (CLI::run, main), however many threads share the work.                  *)
THEOREM ExitCodeIsSound == Spec => []ExitCodeSound
<1>1. IInv => ExitCodeSound
  BY DEF IInv
<1> QED
  BY <1>1, Invariance, PTL

(* No task runs before the program options are written, although the       *)
(* threads start before they are (CLI::run).                               *)
THEOREM OptionsAreSettled == Spec => []OptionsSettled
<1>1. IInv => OptionsSettled
  BY DEF IInv, OptionsInv
<1> QED
  BY <1>1, Invariance, PTL

(* Two workers are never in stages that touch the AST or the statics of    *)
(* the code generator (Runner::runFile, Dispatcher).                       *)
THEOREM AstHasOneOwner == Spec => []OneAstOwner
<1>1. IInv => OneAstOwner
  BY DEF IInv, FileInv, InnerInv, OneAstOwner, AstStage, FileStage, InnerStage
<1> QED
  BY <1>1, Invariance, PTL

(* When main() returns there is no thread, no task and no unresolved       *)
(* future left (Runner's destructor, CLI::run).                            *)
THEOREM ShutdownIsClean == Spec => []CleanShutdown
<1>1. IInv => CleanShutdown
  <2> SUFFICES ASSUME IInv, pc \in {"return", "exited"}
               PROVE  /\ \A w \in Worker : ~Live(w)
                      /\ queue = <<>> /\ outer # "pending" /\ inner # "pending"
    BY DEF CleanShutdown
  <2>1. /\ \A w \in Worker : ~Live(w)
        /\ outer # "pending" /\ inner # "pending"
    BY DEF IInv, MainInv
  <2>2. queue = <<>>
    BY <2>1 DEF IInv, QueueInv, FileInv, InnerInv, Task
  <2> QED
    BY <2>1, <2>2
<1> QED
  BY <1>1, Invariance, PTL

-----------------------------------------------------------------------------
(* The driver implements Compilation.                                      *)

LEMMA Stepping ==
  /\ C!Follows("license") = {<<"none", "licensed">>}
  /\ C!Follows("ast") = {<<"none", "lexed">>, <<"lexed", "parsed">>,
                         <<"parsed", "emitted">>}
  /\ C!Follows("code") = {<<"none", "lexed">>, <<"lexed", "parsed">>,
                          <<"parsed", "generated">>, <<"generated", "emitted">>}
BY Zenon DEF C!Follows

LEMMA InitImplements == Init => C!Init
BY DEF Init, C!Init, C!Request, CommandLine

(* A step that completes a stage does the next stage of its request, while *)
(* the invocation still runs.                                              *)
LEMMA StageImplements ==
  ASSUME IInv, phase' # phase,
         CheckCommandLine \/ \E w \in Worker : WorkerStep(w)
  PROVE  C!Advance
<1> USE DEF C!Advance, IInv, TypeOK, CommandLine, MainInv, FileInv, InnerInv,
            FileStage, InnerStage, poolVars, results, mainVars, Goto, Leave
<1>1. CASE CheckCommandLine
  BY <1>1, Stepping DEF CheckCommandLine
<1>2. CASE \E w \in Worker : WorkerStep(w)
  <2>1. PICK w \in Worker : WorkerStep(w)
    BY <1>2
  <2>2. CASE Lex(w)
    BY <2>2, Stepping DEF Lex
  <2>3. CASE Parse(w)
    BY <2>3, Stepping DEF Parse
  <2>4. CASE Dispatch(w)
    BY <2>4, Stepping DEF Dispatch, PushInner
  <2>5. CASE Generate(w)
    BY <2>5, Stepping DEF Generate
  <2>6. CASE Write(w)
    BY <2>6, Stepping DEF Write
  <2> QED
    BY <2>1, <2>2, <2>3, <2>4, <2>5, <2>6
       DEF WorkerStep, TakeTask, EndThread, Reject, ReturnFuture, ConstantTask
<1> QED
  BY <1>1, <1>2

LEMMA StepImplements == IInv /\ [Next]_vars => [C!Next]_(C!vars)
<1> SUFFICES ASSUME IInv, [Next]_vars PROVE C!Next \/ UNCHANGED C!vars
  OBVIOUS
<1> USE DEF C!Next, C!vars
<1>1. CASE Exit
  BY <1>1 DEF Exit, C!End, C!Served, IInv, TypeOK, ExitCode, MainInv, Goto,
     ExitCodeSound, Served, CommandLine, poolVars, results
<1>2. CASE CheckCommandLine \/ \E w \in Worker : WorkerStep(w)
  <2>1. CASE CheckCommandLine
    BY <2>1, StageImplements DEF CheckCommandLine, Goto, Leave
  <2>2. CASE \E w \in Worker : WorkerStep(w)
    <3>1. PICK w \in Worker : WorkerStep(w)
      BY <2>2
    <3>2. UNCHANGED <<cmd, pc, exitCode>>
      BY <3>1 DEF WorkerStep, TakeTask, EndThread, Lex, Parse, Dispatch, Reject,
         ReturnFuture, Generate, Write, ConstantTask, mainVars
    <3> QED
      BY <2>2, <3>2, StageImplements
  <2> QED
    BY <1>2, <2>1, <2>2
<1>3. CASE \/ Boot \/ SpawnPool \/ WriteOptions \/ AddFile \/ RunFile
           \/ GetOuter \/ GetInner \/ StopPool \/ JoinPool
  BY <1>3 DEF Boot, SpawnPool, WriteOptions, AddFile, RunFile, GetOuter,
     GetInner, StopPool, JoinPool, Goto, Leave, poolVars, results
<1>4. CASE UNCHANGED vars
  BY <1>4 DEF vars
<1> QED
  BY <1>1, <1>2, <1>3, <1>4 DEF Next, Main, Exited

(* Whatever the threads do, an invocation goes through the stages of its   *)
(* request in order and ends with a truthful status.                       *)
THEOREM DriverImplementsCompilation == Spec => ImplementsCompilation
BY InitImplements, StepImplements, Invariance, PTL
   DEF Spec, ImplementsCompilation, C!Spec
=============================================================================
